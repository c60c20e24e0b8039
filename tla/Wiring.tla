------------------------------- MODULE Wiring -------------------------------
(***************************************************************************)
(* Installing an adapter into a host's config file                         *)
(* (packages/memflywheel/src/adapter.ts): plan, apply, verify and doctor   *)
(* each read the file from disk and judge the wiring marker in it for      *)
(* themselves.                                                             *)
(*                                                                         *)
(* A config file is absent, a "directory", "unreadable", "invalid" (no     *)
(* JSON object), or an "object" with a marker and other keys; a blank file *)
(* is an object without keys.  A marker is none, malformed, or a record as  *)
(* buildWiringMarker makes it.                                             *)
(***************************************************************************)
EXTENDS Integers, Sequences

CONSTANTS
  WiringVersion,  \* WIRING_VERSION
  Lifecycle       \* the bindings of each adapter: a sequence of event and hook

ASSUME WiringAssumption ==
  /\ WiringVersion \in Int
  /\ \A a \in DOMAIN Lifecycle : Lifecycle[a] \in Seq(STRING)

Absent    == [kind |-> "absent"]
NoMarker  == [shape |-> "none"]
Malformed == [shape |-> "malformed"]
Object(marker, others) == [kind |-> "object", marker |-> marker, others |-> others]

\* buildWiringMarker.
Desired(a) == [version |-> WiringVersion, adapter |-> a, bindings |-> Lifecycle[a]]

\* readHostConfig throws.
Corrupt(file) == file.kind \in {"directory", "unreadable", "invalid"}

\* readWiringMarker: what is not shaped like a marker is none.
Existing(file) == IF file.marker = Malformed THEN NoMarker ELSE file.marker

\* Fault: the order and number of the bindings are not compared.
VersionsEqual(m, a) ==
  m # NoMarker /\ m.version = WiringVersion /\ m.adapter = a

\* markersEqual(existing, desired).
MarkersEqual(m, a) ==
  /\ m # NoMarker
  /\ m.version = WiringVersion /\ m.adapter = a
  /\ Len(m.bindings) = Len(Lifecycle[a])
  /\ \A i \in DOMAIN Lifecycle[a] : m.bindings[i] = Lifecycle[a][i]

\* planInstall: the step of the plan; "noop" is a satisfied plan.
Plan(file, a) ==
  IF file = Absent THEN "create-config"
  ELSE IF Corrupt(file) THEN "update-wiring"
  ELSE IF MarkersEqual(Existing(file), a) THEN "noop"
  ELSE IF Existing(file) = NoMarker THEN "add-wiring" ELSE "update-wiring"

\* Fault: the config is written as it was planned, with the marker as its only key.
ApplyOverwrites(file, a) ==
  IF Plan(file, a) = "noop" \/ file.kind = "directory" THEN file
  ELSE Object(Desired(a), {})

\* applyInstall.  A file that cannot be read counts as corrupt and is replaced; a
\* directory in its place makes the rename fail, and the call throws.
Apply(file, a) ==
  IF Plan(file, a) = "noop" \/ file.kind = "directory" THEN file
  ELSE Object(Desired(a), IF file.kind = "object" THEN file.others ELSE {})

\* verifyInstall: the problems it reports.
Verify(file, a) ==
  IF Corrupt(file) THEN {"corrupt"}
  ELSE IF file = Absent THEN {"no config"}
  ELSE LET m == Existing(file)
       IN  IF m = NoMarker THEN {"no marker"}
           ELSE {p \in {"adapter", "version", "bindings"} :
                   CASE p = "adapter"  -> m.adapter # a
                     [] p = "version"  -> m.version # WiringVersion
                     [] p = "bindings" -> ~MarkersEqual(m, a)}

\* doctorInstall.
Doctor(file, a) ==
  IF Corrupt(file) THEN "corrupt-config"
  ELSE IF file = Absent \/ Existing(file) = NoMarker THEN "not-installed"
  ELSE IF MarkersEqual(Existing(file), a) THEN "ok" ELSE "stale-wiring"

\* adapter.ts:347: an install merges the marker into the config and keeps all other
\* keys; whatever the file held before, afterwards the plan is satisfied, the file
\* verifies and the doctor is content, and a second install changes nothing.  The
\* three judges agree on any file.
InstallConverges(file, a) ==
  LET after == Apply(file, a)
  IN  /\ file.kind # "directory" =>
           /\ Verify(after, a) = {} /\ after.marker = Desired(a)
           /\ Apply(after, a) = after
      /\ file.kind = "object" => after.others = file.others
      /\ \A f \in {file, after} :
           /\ Plan(f, a) = "noop" <=> Verify(f, a) = {}
           /\ Doctor(f, a) = "ok" <=> Verify(f, a) = {}
           /\ Doctor(f, a) = "not-installed" <=> Plan(f, a) \in {"create-config", "add-wiring"}
==============================================================================
