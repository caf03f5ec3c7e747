------------------------------- MODULE Fencing -------------------------------
(***************************************************************************)
(* What the execution plane promises about authority: generations are      *)
(* issued one at a time and the fence floor never falls; a generation is   *)
(* offered one Lease while it is the newest and the floor has not passed   *)
(* it; only the holder, the newest generation with the Lease it was        *)
(* granted, has its Result accepted, and at most once.  A Lease that is    *)
(* withdrawn acts no more.                                                 *)
(*                                                                         *)
(* One thing it does not promise: a Lease whose generation stopped working *)
(* for the Job before the Lease was withdrawn is active for ever.  It may  *)
(* be heard of and extended, even when the floor has passed it, but only   *)
(* until a later generation is offered a Lease.                            *)
(***************************************************************************)
EXTENDS Naturals

VARIABLES issued,    \* the newest fencing generation
          floor,     \* every generation below it is fenced off
          offered,   \* the generations that were ever offered a Lease
          leased,    \* those whose Lease is active
          late,      \* those of them whose Lease has run out of time
          heard,     \* those that a heartbeat was accepted from
          holder,    \* the generation that works for the Job, 0 for none
          accepted   \* the generations whose Result was accepted

fvars == <<issued, floor, offered, leased, late, heard, holder, accepted>>

FInit ==
  /\ issued = 0 /\ floor = 0 /\ holder = 0
  /\ offered = {} /\ leased = {} /\ late = {} /\ heard = {} /\ accepted = {}

Issue ==
  /\ holder = 0
  /\ issued' = issued + 1
  /\ floor' = issued + 1
  /\ UNCHANGED <<offered, leased, late, heard, holder, accepted>>

Offer ==
  /\ floor = issued /\ issued # 0 /\ issued \notin offered
  /\ offered' = offered \cup {issued}
  /\ UNCHANGED <<issued, floor, leased, late, heard, holder, accepted>>

Grant ==
  /\ holder = 0 /\ floor = issued /\ issued \in offered \ leased
  /\ holder' = issued
  /\ leased' = leased \cup {issued}
  /\ UNCHANGED <<issued, floor, offered, late, heard, accepted>>

(* Authority, granted or only offered, is withdrawn by raising the floor.  *)
Withdraw ==
  /\ floor = issued /\ issued \in offered
  /\ floor' = issued + 1
  /\ holder' = 0
  /\ leased' = leased \ {issued}
  /\ late' = late \ {issued}
  /\ UNCHANGED <<issued, offered, heard, accepted>>

(* The holder's work has ended; its Lease stays as it is.                  *)
Abandon ==
  /\ holder # 0
  /\ holder' = 0
  /\ UNCHANGED <<issued, floor, offered, leased, late, heard, accepted>>

Expire(g) ==
  /\ g \in leased \ late
  /\ late' = late \cup {g}
  /\ UNCHANGED <<issued, floor, offered, leased, heard, holder, accepted>>

Extend(g) ==
  /\ g \in late /\ offered = {g}
  /\ late' = late \ {g}
  /\ UNCHANGED <<issued, floor, offered, leased, heard, holder, accepted>>

Hear(g) ==
  /\ g \in leased \ heard /\ offered = {g}
  /\ heard' = heard \cup {g}
  /\ UNCHANGED <<issued, floor, offered, leased, late, holder, accepted>>

Accept ==
  /\ holder = issued /\ floor = issued
  /\ holder \notin accepted
  /\ accepted' = accepted \cup {holder}
  /\ UNCHANGED <<issued, floor, offered, leased, late, heard, holder>>

FNext ==
  \/ Issue \/ Offer \/ Grant \/ Withdraw \/ Abandon \/ Accept
  \/ \E g \in offered : Expire(g) \/ Extend(g) \/ Hear(g)

FSpec == FInit /\ [][FNext]_fvars
=============================================================================
