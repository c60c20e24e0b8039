---------------------------- MODULE MCDreamPrepass ----------------------------
(***************************************************************************)
(* Model-checking instance of DreamPrepass: two or three types and names,  *)
(* two or three bodies, of which one may have a private span, every store   *)
(* of up to three files.                                                   *)
(***************************************************************************)
EXTENDS DreamPrepass

CONSTANTS private, public, secret

TwoTypes == 1 .. 2
ThreeTypes == 1 .. 3
ThreeNames == 1 .. 3
TwoNames == 1 .. 2

\* Redacting the span of one body makes another one of it.
OneSpan == [b \in Bodies |-> IF b = private THEN public ELSE b]
NoSpan  == [b \in Bodies |-> b]
==============================================================================
