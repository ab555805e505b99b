---------------------------- MODULE BlockDevice ----------------------------
(***************************************************************************)
(* What a block device promises its caller: the disk is a function from     *)
(* sector numbers to sectors, fixed by a table once the device is           *)
(* installed, and a read of any run of sectors is answered in one step      *)
(* with exactly that part of the disk.                                      *)
(***************************************************************************)
EXTENDS Integers, Sequences

CONSTANT Sector(_, _)   \* Sector(table, lba): the sector at lba

VARIABLES
  table,    \* what the contents of the disk depend on
  state,    \* "setup", then "idle" or "busy"; "dead" if setting up failed
  request,  \* the read being, or last, answered
  reply     \* its answer; empty while the read is being answered

vars == <<table, state, request, reply>>

Init ==
  /\ state = "setup"
  /\ request = [lba |-> 0, count |-> 0]
  /\ reply = <<>>

Configure ==
  /\ state = "setup" /\ state' \in {"setup", "dead"}
  /\ UNCHANGED <<request, reply>>

Install ==
  /\ state = "setup" /\ state' = "idle"
  /\ UNCHANGED <<table, request, reply>>

Ask ==
  /\ state = "idle" /\ state' = "busy"
  /\ reply' = <<>>
  /\ UNCHANGED table

Answer ==
  /\ state = "busy" /\ state' = "idle"
  /\ reply' = [k \in 1 .. request.count |-> Sector(table, request.lba + k - 1)]
  /\ UNCHANGED <<table, request>>

Next == Configure \/ Install \/ Ask \/ Answer

Spec == Init /\ [][Next]_vars
============================================================================
