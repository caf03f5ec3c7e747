---------------------------- MODULE ChronicleLog ----------------------------
(***************************************************************************)
(* What the Chronicle promises its callers: one sequence of events that    *)
(* only ever grows at its end, by one event at a time, and a receipt only  *)
(* for an event that is in it.  Recovery is not visible here: accepting    *)
(* the tail of an interrupted transaction is a late commit of its event.   *)
(***************************************************************************)
EXTENDS Naturals, Sequences

CONSTANT Event

VARIABLES
  log,       \* the committed events
  returned   \* events whose receipt was returned

Init == log = <<>> /\ returned = {}

Commit(e) ==
  /\ e.seq = Len(log) + 1
  /\ e.prev = IF log = <<>> THEN 0 ELSE log[Len(log)].id
  /\ log' = Append(log, e)
  /\ UNCHANGED returned

Return(e) ==
  /\ e.seq <= Len(log)
  /\ log[e.seq] = e
  /\ returned' = returned \cup {e}
  /\ UNCHANGED log

Next == \E e \in Event : Commit(e) \/ Return(e)

Spec == Init /\ [][Next]_<<log, returned>>
=============================================================================
