---------------------------- MODULE MCOpenCodePort ----------------------------
(***************************************************************************)
(* Model-checking instance of OpenCodePort.                                *)
(***************************************************************************)
EXTENDS OpenCodePort
==============================================================================
