------------------------ MODULE ExecutionPlaneProofs ------------------------
(***************************************************************************)
(* What ExecutionPlane keeps for any number of Workers, Sessions, Leases   *)
(* and retries.                                                            *)
(*                                                                         *)
(* The argument: the Attempts are numbered by their generations, and only  *)
(* the last one can be current; it has at most one Lease, and the fence    *)
(* floor stands at its generation until that Lease ends.  What each step   *)
(* does to the current Attempt is stated once (Onward), and what holds of  *)
(* one Attempt whatever the rest of the State (Sound) follows it.  A       *)
(* Session's slots are counted by the one Lease a step changes; the ledger *)
(* needs no count of the Attempts, for all but the current one are settled.*)
(***************************************************************************)
EXTENDS ExecutionPlane, FiniteSetTheorems, TLAPS

Ended == {"STOPPING", "CLEANING"} \cup AttemptTerminal

Attempt ==
  [state : {"CREATED", "PREFLIGHTING", "READY", "LEASED", "STARTING", "RUNNING", "DRAINING"}
             \cup Ended,
   generation : Nat, authorization : {"NONE", "PENDING", "BOUND"},
   lease : Lease \cup {"NONE"}, fenced : BOOLEAN,
   result : {"NONE", "ACCEPTED", "REJECTED"}, intake : {"NONE", "RECEIVED", "DISPOSED"},
   anchor : {"NOT_ESTABLISHED", "RESULT_ACCEPTED", "NO_RESULT"}, leaseEnd : Nat,
   stopped : BOOLEAN, source : {"NONE", "KEPT", "QUARANTINED"}, captured : BOOLEAN,
   settled : BOOLEAN, assurance : {"PENDING", "CLAIMED", "UNMET"}]

(* What holds of the n-th Attempt, whatever became of its Job and Lease.   *)
Sound(n, a) ==
  /\ a \in Attempt /\ a.generation = n
  /\ a.stopped => a.state \in Ended
  /\ a.intake # "DISPOSED" => a.result = "NONE"
  /\ a.anchor # "NOT_ESTABLISHED" =>
       a.result # "REJECTED" /\ a.state \in {"DRAINING"} \cup Ended
  /\ a.captured \/ a.state = "CLEANING" => a.source # "NONE"
  /\ a.source = "KEPT" => n \notin input.quarantined
  /\ a.state \in AttemptTerminal => a.captured
  /\ a.settled => a.state \in AttemptTerminal
  /\ a.assurance # "PENDING" => a.settled

(* What no step on an Attempt may do.                                      *)
Onward(a, b) ==
  a.stopped => /\ b.stopped /\ b.state \in Ended
               /\ b.result = a.result /\ b.anchor = a.anchor

(* A step turns the n-th Attempt into b; some fields only certain events   *)
(* change.                                                                 *)
Changes(n, b) ==
  /\ attempts' = [attempts EXCEPT ![n] = b]
  /\ Sound(n, b) /\ Onward(attempts[n], b)
  /\ (\E l \in Lease, s \in Session : LeaseOffered(l, s)) \/ b.lease = attempts[n].lease
  /\ JobBudgetSettled \/ b.settled = attempts[n].settled
  /\ AttemptAssuranceEvaluated \/ b.assurance = attempts[n].assurance
  /\ ResultAccepted \/ (b.result = "ACCEPTED" <=> attempts[n].result = "ACCEPTED")

(* The Attempts are numbered by their generations.                         *)
AttemptsSound ==
  /\ attempts \in Seq(Attempt)
  /\ \A n \in DOMAIN attempts : Sound(n, attempts[n])

Job ==
  [state : {"NONE", "SUBMITTED", "QUEUED", "ACTIVE", "STOPPING"} \cup JobTerminal,
   current : Nat, counter : Nat, floor : Nat, reserved : Nat, consumed : Nat,
   summaries : Seq(Nat), assurance : {"PENDING", "NOT_APPLICABLE", "CLAIMED", "UNMET"},
   stopped : BOOLEAN]

(* Only the last Attempt is current; every other one is summarised.        *)
JobSound ==
  /\ job \in Job
  /\ job.counter = Len(attempts) /\ Current \in {0, Len(attempts)}
  /\ attempts = << >> => job.floor = 0
  /\ job.floor \in {Len(attempts), Len(attempts) + 1}
  /\ job.state \in {"NONE", "SUBMITTED", "QUEUED"} => Current = 0
  /\ Len(job.summaries) = IF Current = 0 THEN Len(attempts) ELSE Len(attempts) - 1
  /\ \A i \in DOMAIN job.summaries : job.summaries[i] = i

(* The tables of Sessions and Leases.                                      *)
SessionRecord ==
  [state : {"NONE", "REGISTERED", "READY", "BUSY", "DRAINING", "OFFLINE", "QUARANTINED", "CLOSED"},
   worker : Worker \cup {"NONE"}, capacity : Nat, inUse : Nat, leases : SUBSET Lease]

LeaseRecord ==
  [state : {"NONE", "OFFERED", "ACTIVE"} \cup LeaseTerminal, attempt : Nat,
   session : Session \cup {"NONE"}, worker : Worker \cup {"NONE"}, generation : Nat,
   late : BOOLEAN, heard : BOOLEAN, tombstone : Nat]

Tables ==
  /\ sessions \in [Session -> SessionRecord] /\ leases \in [Lease -> LeaseRecord]
  /\ input \in Input

(* The steps that change nothing but the current Attempt.                  *)
Working ==
  \/ AuthorizationBound \/ PreflightStarted \/ PreflightPassed
  \/ AttemptStarting \/ AttemptRunning
  \/ ResultIngressReceived \/ ResultRejected
  \/ AttemptDraining \/ AttemptCleaning \/ CaptureAccounting

-----------------------------------------------------------------------------
(* Raising a flag of an Attempt keeps its type.                            *)
LEMMA FlagsTyped ==
  ASSUME NEW a \in Attempt
  PROVE  /\ Set(a, [captured |-> TRUE]) \in Attempt /\ Set(a, [captured |-> TRUE]).captured = TRUE
         /\ Set(a, [settled |-> TRUE]) \in Attempt /\ Set(a, [settled |-> TRUE]).settled = TRUE
         /\ Set(a, [state |-> "LEASED", fenced |-> TRUE]) \in Attempt
         /\ Set(a, [state |-> "STOPPING", stopped |-> TRUE]) \in Attempt
         /\ Set(a, [state |-> "STOPPING", stopped |-> TRUE]).stopped = TRUE
<1>1. \A v \in BOOLEAN : Set(a, [captured |-> v]) \in Attempt
  BY DEF Attempt, Set
<1>2. \A v \in BOOLEAN : Set(a, [settled |-> v]) \in Attempt
  BY DEF Attempt, Set
<1>3. \A v \in BOOLEAN : Set(a, [state |-> "LEASED", fenced |-> v]) \in Attempt
  BY DEF Attempt, Set
<1>4. \A v \in BOOLEAN : Set(a, [state |-> "STOPPING", stopped |-> v]) \in Attempt
  BY DEF Attempt, Set, Ended
<1>5. /\ Set(a, [captured |-> TRUE]).captured = TRUE
      /\ Set(a, [settled |-> TRUE]).settled = TRUE
      /\ Set(a, [state |-> "STOPPING", stopped |-> TRUE]).stopped = TRUE
  BY DEF Attempt, Set
<1>. QED
  BY <1>1, <1>2, <1>3, <1>4, <1>5

(* A working step takes a sound Attempt to a sound one.                    *)
LEMMA WorkChanges ==
  ASSUME Current # 0, Sound(Current, Att), Working
  PROVE  \E b : Changes(Current, b)
<1>. DEFINE Good(b) == /\ Sound(Current, b) /\ Onward(Att, b)
                       /\ b.lease = Att.lease /\ b.settled = Att.settled
                       /\ b.assurance = Att.assurance
                       /\ (b.result = "ACCEPTED" <=> Att.result = "ACCEPTED")
<1>0. \A c : UpdateAttempt(c) /\ Good(Set(Att, c)) => \E b : Changes(Current, b)
  BY DEF UpdateAttempt, Att, Changes
<1>1. CASE AuthorizationBound
  <2>1. Good(Set(Att, [authorization |-> "BOUND"]))
    BY <1>1 DEF AuthorizationBound, Sound, Onward, Attempt, Set, Ended, AttemptTerminal
  <2>. QED
    BY <1>0, <1>1, <2>1 DEF AuthorizationBound
<1>2. CASE PreflightStarted
  <2>1. Good(Set(Att, [state |-> "PREFLIGHTING"]))
    BY <1>2 DEF PreflightStarted, Sound, Onward, Attempt, Set, Ended, AttemptTerminal
  <2>. QED
    BY <1>0, <1>2, <2>1 DEF PreflightStarted
<1>3. CASE PreflightPassed
  <2>1. Good(Set(Att, [state |-> "READY"]))
    BY <1>3 DEF PreflightPassed, Sound, Onward, Attempt, Set, Ended, AttemptTerminal
  <2>. QED
    BY <1>0, <1>3, <2>1 DEF PreflightPassed
<1>4. CASE AttemptStarting
  <2>1. Good(Set(Att, [state |-> "STARTING"]))
    BY <1>4 DEF AttemptStarting, Sound, Onward, Attempt, Set, Ended, AttemptTerminal
  <2>. QED
    BY <1>0, <1>4, <2>1 DEF AttemptStarting
<1>5. CASE AttemptRunning
  <2>1. Good(Set(Att, [state |-> "RUNNING"]))
    BY <1>5 DEF AttemptRunning, Sound, Onward, Attempt, Set, Ended, AttemptTerminal
  <2>. QED
    BY <1>0, <1>5, <2>1 DEF AttemptRunning
<1>6. CASE ResultIngressReceived
  <2>1. Good(Set(Att, [intake |-> "RECEIVED"]))
    BY <1>6 DEF ResultIngressReceived, Sound, Onward, Attempt, Set, Ended, AttemptTerminal
  <2>. QED
    BY <1>0, <1>6, <2>1 DEF ResultIngressReceived
<1>7. CASE ResultRejected
  <2>1. Good(Set(Att, [intake |-> "DISPOSED", result |-> "REJECTED"]))
    BY <1>7 DEF ResultRejected, Sound, Onward, Attempt, Set, Ended, AttemptTerminal
  <2>. QED
    BY <1>0, <1>7, <2>1 DEF ResultRejected
<1>8. CASE CaptureAccounting
  <2>1. Good(Set(Att, [captured |-> TRUE]))
    <3>. DEFINE b == Set(Att, [captured |-> TRUE])
    <3>1. b \in Attempt /\ b.captured
      BY FlagsTyped DEF Sound
    <3>2. /\ b.state = Att.state /\ b.generation = Att.generation /\ b.authorization = Att.authorization
          /\ b.lease = Att.lease /\ b.fenced = Att.fenced /\ b.result = Att.result
          /\ b.intake = Att.intake /\ b.anchor = Att.anchor /\ b.leaseEnd = Att.leaseEnd
          /\ b.stopped = Att.stopped /\ b.source = Att.source /\ b.settled = Att.settled
          /\ b.assurance = Att.assurance
      BY DEF Sound, Attempt, Set
    <3>. HIDE DEF b
    <3>3. Att.state = "CLEANING"
      BY <1>8 DEF CaptureAccounting
    <3>4. Good(b)
      BY <3>1, <3>2, <3>3 DEF Sound, Onward
    <3>. QED
      BY <3>4 DEF b
  <2>. QED
    BY <1>0, <1>8, <2>1 DEF CaptureAccounting
<1>9. CASE AttemptDraining
  <2>. DEFINE anchor == CASE Att.result = "ACCEPTED" -> "RESULT_ACCEPTED"
                          [] Att.result = "NONE" -> "NO_RESULT"
                          [] Att.result = "REJECTED" -> "NOT_ESTABLISHED"
  <2>1. /\ anchor \in {"NOT_ESTABLISHED", "RESULT_ACCEPTED", "NO_RESULT"}
        /\ Att.result = "REJECTED" => anchor = "NOT_ESTABLISHED"
    BY DEF Sound, Attempt
  <2>. HIDE DEF anchor
  <2>2. Good(Set(Att, [state |-> "DRAINING", anchor |-> anchor]))
    BY <1>9, <2>1 DEF AttemptDraining, Sound, Onward, Attempt, Set, Ended, AttemptTerminal
  <2>. QED
    BY <1>0, <1>9, <2>2 DEF AttemptDraining, anchor
<1>10. CASE AttemptCleaning
  <2>. DEFINE source == IF Current \in input.quarantined THEN "QUARANTINED" ELSE "KEPT"
  <2>1. Good(Set(Att, [state |-> "CLEANING", source |-> source]))
    BY <1>10 DEF AttemptCleaning, Sound, Onward, Attempt, Set, Ended, AttemptTerminal
  <2>. QED
    BY <1>0, <1>10, <2>1 DEF AttemptCleaning
<1>. QED
  BY <1>1, <1>2, <1>3, <1>4, <1>5, <1>6, <1>7, <1>8, <1>9, <1>10 DEF Working

(* The four ends of a Lease, and the steps on a Lease.                     *)
Withdrawing(l) == LeaseReleased(l) \/ LeaseExpired(l) \/ LeaseRevoked(l) \/ LeaseFenced(l)

Leasing(l) == (\E s \in Session : LeaseOffered(l, s)) \/ LeaseClaimed(l) \/ Withdrawing(l)

(* So do a Result, an end, a settlement and an evaluation.                 *)
LEMMA SettlingChanges ==
  ASSUME Current # 0, Sound(Current, Att),
         ResultAccepted \/ AttemptTerminated \/ JobBudgetSettled \/ AttemptAssuranceEvaluated
  PROVE  \E b : Changes(Current, b)
<1>1. CASE ResultAccepted
  <2>. DEFINE b == Set(Att, [intake |-> "DISPOSED", result |-> "ACCEPTED"])
  <2>1. /\ Sound(Current, b) /\ Onward(Att, b) /\ b.lease = Att.lease
        /\ b.settled = Att.settled /\ b.assurance = Att.assurance
    BY <1>1 DEF ResultAccepted, Sound, Onward, Attempt, Set, Ended, AttemptTerminal
  <2>2. Changes(Current, b)
    BY <1>1, <2>1 DEF ResultAccepted, UpdateAttempt, Att, Changes
  <2>. QED
    BY <2>2
<1>2. CASE AttemptTerminated
  <2>1. PICK ending \in Ending : /\ ending = "SUCCEEDED" => Att.anchor # "NOT_ESTABLISHED"
                                 /\ UpdateAttempt([state |-> ending])
    BY <1>2 DEF AttemptTerminated
  <2>. DEFINE b == Set(Att, [state |-> ending])
  <2>2. ending \in AttemptTerminal
    BY EndingAssumption
  <2>3. /\ Sound(Current, b) /\ Onward(Att, b) /\ b.lease = Att.lease
        /\ b.settled = Att.settled /\ b.assurance = Att.assurance /\ b.result = Att.result
    BY <1>2, <2>2 DEF AttemptTerminated, Sound, Onward, Attempt, Set, Ended, AttemptTerminal
  <2>4. Changes(Current, b)
    BY <2>1, <2>3 DEF UpdateAttempt, Att, Changes
  <2>. QED
    BY <2>4
<1>3. CASE JobBudgetSettled
  <2>. DEFINE b == Set(Att, [settled |-> TRUE])
  <2>1. /\ Sound(Current, b) /\ Onward(Att, b) /\ b.lease = Att.lease
        /\ b.assurance = Att.assurance /\ b.result = Att.result
    <3>1. b \in Attempt /\ b.settled
      BY FlagsTyped DEF Sound
    <3>2. /\ b.state = Att.state /\ b.generation = Att.generation /\ b.authorization = Att.authorization
          /\ b.lease = Att.lease /\ b.fenced = Att.fenced /\ b.result = Att.result
          /\ b.intake = Att.intake /\ b.anchor = Att.anchor /\ b.leaseEnd = Att.leaseEnd
          /\ b.stopped = Att.stopped /\ b.source = Att.source /\ b.captured = Att.captured
          /\ b.assurance = Att.assurance
      BY DEF Sound, Attempt, Set
    <3>. HIDE DEF b
    <3>3. Att.state \in AttemptTerminal
      BY <1>3 DEF JobBudgetSettled, Settling
    <3>. QED
      BY <3>1, <3>2, <3>3 DEF Sound, Onward
  <2>2. Changes(Current, b)
    BY <1>3, <2>1 DEF JobBudgetSettled, UpdateAttempt, Att, Changes
  <2>. QED
    BY <2>2
<1>4. CASE AttemptAssuranceEvaluated
  <2>1. PICK evaluation \in {"CLAIMED", "UNMET"} : UpdateAttempt([assurance |-> evaluation])
    BY <1>4 DEF AttemptAssuranceEvaluated
  <2>. DEFINE b == Set(Att, [assurance |-> evaluation])
  <2>2. /\ Sound(Current, b) /\ Onward(Att, b) /\ b.lease = Att.lease
        /\ b.settled = Att.settled /\ b.result = Att.result
    <3>1. b \in Attempt /\ b.assurance # "PENDING"
      BY DEF Sound, Attempt, Set
    <3>2. /\ b.state = Att.state /\ b.generation = Att.generation /\ b.authorization = Att.authorization
          /\ b.lease = Att.lease /\ b.fenced = Att.fenced /\ b.result = Att.result
          /\ b.intake = Att.intake /\ b.anchor = Att.anchor /\ b.leaseEnd = Att.leaseEnd
          /\ b.stopped = Att.stopped /\ b.source = Att.source /\ b.captured = Att.captured
          /\ b.settled = Att.settled
      BY DEF Sound, Attempt, Set
    <3>. HIDE DEF b
    <3>3. Att.settled
      BY <1>4 DEF AttemptAssuranceEvaluated
    <3>. QED
      BY <3>1, <3>2, <3>3 DEF Sound, Onward
  <2>3. Changes(Current, b)
    BY <1>4, <2>1, <2>2 DEF UpdateAttempt, Att, Changes
  <2>. QED
    BY <2>3
<1>. QED
  BY <1>1, <1>2, <1>3, <1>4

(* What a Lease's events do to the current Attempt.                        *)
LEMMA LeasingChanges ==
  ASSUME NEW l \in Lease, Sound(Current, Att), Leasing(l)
  PROVE  Current # 0 /\ \E b : Changes(Current, b)
<1>1. CASE \E s \in Session : LeaseOffered(l, s)
  <2>. DEFINE b == Set(Att, [lease |-> l])
  <2>1. /\ Sound(Current, b) /\ Onward(Att, b)
        /\ b.settled = Att.settled /\ b.assurance = Att.assurance /\ b.result = Att.result
    BY <1>1 DEF LeaseOffered, Sound, Onward, Attempt, Set, Ended, AttemptTerminal
  <2>2. Changes(Current, b)
    BY <1>1, <2>1 DEF LeaseOffered, UpdateAttempt, Att, Changes
  <2>. QED
    BY <1>1, <2>2 DEF LeaseOffered
<1>2. CASE LeaseClaimed(l)
  <2>. DEFINE b == Set(Att, [state |-> "LEASED", fenced |-> TRUE])
  <2>1. /\ Current # 0 /\ Att.state = "READY"
        /\ UpdateAttempt([state |-> "LEASED", fenced |-> TRUE])
    BY <1>2 DEF LeaseClaimed
  <2>2. /\ Sound(Current, b) /\ Onward(Att, b) /\ b.lease = Att.lease
        /\ b.settled = Att.settled /\ b.assurance = Att.assurance /\ b.result = Att.result
    <3>1. b \in Attempt
      BY FlagsTyped DEF Sound
    <3>0. b.state = "LEASED"
      BY DEF Sound, Attempt, Set
    <3>2. /\ b.generation = Att.generation /\ b.authorization = Att.authorization
          /\ b.lease = Att.lease /\ b.result = Att.result /\ b.intake = Att.intake
          /\ b.anchor = Att.anchor /\ b.leaseEnd = Att.leaseEnd /\ b.stopped = Att.stopped
          /\ b.source = Att.source /\ b.captured = Att.captured /\ b.settled = Att.settled
          /\ b.assurance = Att.assurance
      BY DEF Sound, Attempt, Set
    <3>. HIDE DEF b
    <3>. QED
      BY <2>1, <3>0, <3>1, <3>2 DEF Sound, Onward, Ended, AttemptTerminal
  <2>3. Changes(Current, b)
    BY <2>1, <2>2 DEF UpdateAttempt, Att, Changes
  <2>. QED
    BY <2>1, <2>3
<1>3. ASSUME NEW ending, EndLease(l, ending)
      PROVE  Current # 0 /\ \E b : Changes(Current, b)
  <2>. DEFINE b == Set(Att, [leaseEnd |-> Att.generation + 1])
  <2>1. Current # 0 /\ UpdateAttempt([leaseEnd |-> Att.generation + 1])
    BY <1>3 DEF EndLease
  <2>2. /\ Sound(Current, b) /\ Onward(Att, b) /\ b.lease = Att.lease
        /\ b.settled = Att.settled /\ b.assurance = Att.assurance /\ b.result = Att.result
    BY DEF Sound, Onward, Attempt, Set, Ended, AttemptTerminal
  <2>3. Changes(Current, b)
    BY <2>1, <2>2 DEF UpdateAttempt, Att, Changes
  <2>. QED
    BY <2>1, <2>3
<1>. QED
  BY <1>1, <1>2, <1>3 DEF Leasing, Withdrawing, LeaseReleased, LeaseExpired, LeaseRevoked, LeaseFenced

(* A stop takes a sound Attempt that is not cleaned up or ended to another. *)
LEMMA StopSound ==
  ASSUME NEW n, NEW a, Sound(n, a), ~a.stopped, a.state \notin {"CLEANING"} \cup AttemptTerminal
  PROVE  LET b == Set(a, [state |-> "STOPPING", stopped |-> TRUE])
         IN  /\ Sound(n, b) /\ Onward(a, b) /\ b.lease = a.lease
             /\ b.settled = a.settled /\ b.assurance = a.assurance /\ b.result = a.result
<1>. DEFINE b == Set(a, [state |-> "STOPPING", stopped |-> TRUE])
<1>1. b \in Attempt /\ b.stopped
  BY FlagsTyped DEF Sound
<1>2. b.state = "STOPPING"
  BY DEF Sound, Attempt, Set
<1>3. /\ b.generation = a.generation /\ b.authorization = a.authorization
      /\ b.lease = a.lease /\ b.fenced = a.fenced /\ b.result = a.result
      /\ b.intake = a.intake /\ b.anchor = a.anchor /\ b.leaseEnd = a.leaseEnd
      /\ b.source = a.source /\ b.captured = a.captured /\ b.settled = a.settled
      /\ b.assurance = a.assurance
  BY DEF Sound, Attempt, Set
<1>. HIDE DEF b
<1>4. Sound(n, b) /\ Onward(a, b)
  BY <1>1, <1>2, <1>3 DEF Sound, Onward, Ended, AttemptTerminal
<1>. QED
  BY <1>3, <1>4 DEF b

(* What a stop does to an Attempt.                                         *)
LEMMA StopChanges ==
  ASSUME AttemptsSound, JobSound,
         StopAfterLeaseExpiry \/ (StopLatched /\ Current # 0)
  PROVE  \E n \in DOMAIN attempts : \E b : Changes(n, b)
<1>1. CASE StopLatched /\ Current # 0
  <2>1. /\ Current \in DOMAIN attempts /\ Sound(Current, Att)
    BY <1>1 DEF AttemptsSound, JobSound, Att
  <2>2. /\ ~Att.stopped /\ Att.state \notin {"CLEANING"} \cup AttemptTerminal
        /\ UpdateAttempt([state |-> "STOPPING", stopped |-> TRUE])
    BY <1>1 DEF StopLatched
  <2>3. Changes(Current, Set(Att, [state |-> "STOPPING", stopped |-> TRUE]))
    BY <2>1, <2>2, StopSound DEF Changes, UpdateAttempt, Att
  <2>. QED
    BY <2>1, <2>3
<1>2. CASE StopAfterLeaseExpiry
  <2>. DEFINE b == Set(attempts[1], [state |-> "STOPPING", stopped |-> TRUE])
  <2>1. /\ Len(attempts) = 1 /\ ~attempts[1].stopped /\ attempts' = <<b>>
        /\ attempts[1].state \in {"READY", "LEASED", "STARTING", "RUNNING", "DRAINING"}
    BY <1>2 DEF StopAfterLeaseExpiry
  <2>2. 1 \in DOMAIN attempts /\ Sound(1, attempts[1])
    BY <2>1 DEF AttemptsSound
  <2>3. /\ Sound(1, b) /\ Onward(attempts[1], b) /\ b.lease = attempts[1].lease
        /\ b.settled = attempts[1].settled /\ b.assurance = attempts[1].assurance
        /\ b.result = attempts[1].result
    BY <2>1, <2>2, StopSound DEF AttemptTerminal
  <2>. HIDE DEF b
  <2>4. attempts' = [attempts EXCEPT ![1] = b]
    BY <2>1 DEF AttemptsSound
  <2>. QED
    BY <2>2, <2>3, <2>4 DEF Changes
<1>. QED
  BY <1>1, <1>2

(* The Attempt that is allocated is sound.                                 *)
LEMMA NewSound ==
  ASSUME AttemptsSound, JobSound, JobAttemptAllocated
  PROVE  \E a : /\ attempts' = Append(attempts, a) /\ Sound(Len(attempts) + 1, a)
                /\ a.lease = "NONE" /\ ~a.settled /\ a.result = "NONE" /\ ~a.stopped
                /\ a.assurance = "PENDING"
<1>1. PICK authorization \in {"PENDING", "NONE"} :
        attempts' = Append(attempts, NewAttempt(Len(attempts) + 1, authorization))
  BY DEF JobAttemptAllocated, JobSound
<1>2. Sound(Len(attempts) + 1, NewAttempt(Len(attempts) + 1, authorization))
  BY DEF Sound, NewAttempt, Attempt, AttemptsSound, Ended, AttemptTerminal
<1>. QED
  BY <1>1, <1>2 DEF NewAttempt

-----------------------------------------------------------------------------
(* The steps, grouped by the tables they change.                           *)
Elsewhere ==
  \/ ClockUncertain \/ RecoveryStarted \/ PhaseAdvanced \/ ActionSetRebased
  \/ ClockRestored \/ RecoveryCompleted
  \/ \E w \in Worker : WorkerRegistered(w) \/ WorkerEnabled(w) \/ WorkerWithdrawn(w)
                         \/ WorkerRetired(w)
  \/ \E n \in DOMAIN logs, i \in input.streams : LogClosed(n, i) \/ LogTruncated(n, i)
  \/ \E i \in input.streams : LogChunkCommitted(i)
  \/ UNCHANGED vars

SessionStep ==
  \E s \in Session : \/ SessionReady(s) \/ SessionHeartbeat(s) \/ SessionLifecycle(s)
                     \/ \E w \in Worker : SessionRegistered(s, w)

JobStep ==
  JobSubmitted \/ JobQueued \/ JobAssuranceEvaluated \/ JobEnded \/ Requeued
    \/ (StopLatched /\ Current = 0)

StopStep == StopAfterLeaseExpiry \/ (StopLatched /\ Current # 0)
AttemptStep == Working \/ ResultAccepted \/ AttemptTerminated
SettlingStep == JobBudgetSettled \/ AttemptAssuranceEvaluated
LeasingStep == \E l \in Lease : Leasing(l)
TimingStep == \E l \in Lease : LeaseLate(l) \/ LeaseRenewed(l) \/ LeaseHeartbeat(l)

(* Every step is in one of the groups.                                     *)
LEMMA Steps ==
  ASSUME [Next]_vars
  PROVE  \/ Elsewhere \/ SessionStep \/ JobStep \/ StopStep \/ AttemptStep \/ SettlingStep
         \/ LeasingStep \/ TimingStep \/ JobAttemptAllocated
<1>1. CASE UNCHANGED vars
  BY <1>1 DEF Elsewhere
<1>2. CASE Step
  <2>1. ASSUME NEW l \in Lease, NEW s \in Session, LeaseOffered(l, s)
        PROVE  LeasingStep
    BY <2>1 DEF LeasingStep, Leasing
  <2>2. ASSUME NEW l \in Lease,
               \/ LeaseClaimed(l) \/ LeaseReleased(l) \/ LeaseExpired(l) \/ LeaseRevoked(l)
               \/ LeaseFenced(l)
        PROVE  LeasingStep
    BY <2>2 DEF LeasingStep, Leasing, Withdrawing
  <2>3. ASSUME NEW l \in Lease,
               LeaseHeartbeat(l) \/ LeaseRenewed(l) \/ LeaseMessageRejected(l)
                 \/ TombstoneRepublished(l) \/ LeaseLate(l)
        PROVE  TimingStep \/ Elsewhere
    BY <2>3 DEF TimingStep, Elsewhere, LeaseMessageRejected, TombstoneRepublished
  <2>4. ASSUME NEW s \in Session,
               SessionReady(s) \/ SessionHeartbeat(s) \/ SessionLifecycle(s)
                 \/ SessionMessageRejected(s)
        PROVE  SessionStep \/ Elsewhere
    BY <2>4 DEF SessionStep, Elsewhere, SessionMessageRejected
  <2>5. ASSUME NEW w \in Worker,
               \/ WorkerRegistered(w) \/ WorkerEnabled(w) \/ WorkerWithdrawn(w)
               \/ WorkerRetired(w) \/ \E s \in Session : SessionRegistered(s, w)
        PROVE  SessionStep \/ Elsewhere
    BY <2>5 DEF SessionStep, Elsewhere
  <2>6. ASSUME NEW i \in input.streams,
               \/ LogChunkCommitted(i)
               \/ \E n \in DOMAIN logs : LogClosed(n, i) \/ LogTruncated(n, i)
                    \/ LogChunkDuplicate(n, i) \/ LogChunkRejected(n, i)
        PROVE  Elsewhere
    BY <2>6 DEF Elsewhere, LogChunkDuplicate, LogChunkRejected
  <2>7. ASSUME \/ JobMessageRejected \/ PreflightProgressed \/ LateResultRejected
               \/ StopProgressed \/ CleanupProgressed
        PROVE  Elsewhere
    BY <2>7 DEF Elsewhere, JobMessageRejected, PreflightProgressed, LateResultRejected,
                StopProgressed, CleanupProgressed
  <2>. QED
    BY <1>2, <2>1, <2>2, <2>3, <2>4, <2>5, <2>6, <2>7
       DEF Step, Elsewhere, JobStep, StopStep, AttemptStep, SettlingStep, Working
<1>. QED
  BY <1>1, <1>2 DEF Next

(* What each group leaves alone.                                           *)
LEMMA Frames ==
  /\ Elsewhere => UNCHANGED <<input, sessions, job, attempts, leases, deadlines>>
  /\ SessionStep => UNCHANGED <<input, job, attempts, leases>>
  /\ JobStep => UNCHANGED <<input, sessions, attempts, leases>>
  /\ StopStep => UNCHANGED <<input, sessions, leases>>
  /\ AttemptStep => UNCHANGED <<input, sessions, job, leases>>
  /\ SettlingStep => UNCHANGED <<input, sessions, leases, deadlines>>
  /\ LeasingStep => UNCHANGED input
  /\ TimingStep => UNCHANGED <<input, sessions, job, attempts>>
  /\ JobAttemptAllocated => UNCHANGED <<input, sessions, leases>>
<1>1. Elsewhere => UNCHANGED <<input, sessions, job, attempts, leases, deadlines>>
  BY DEF Elsewhere, ClockUncertain, RecoveryStarted, PhaseAdvanced, ActionSetRebased,
         ClockRestored, RecoveryCompleted, OnlyExecutor, WorkerRegistered, WorkerEnabled,
         WorkerWithdrawn, WorkerRetired, OnlyWorkers, LogClosed, LogTruncated,
         LogChunkCommitted, UpdateLog, vars
<1>2. SessionStep => UNCHANGED <<input, job, attempts, leases>>
  BY DEF SessionStep, SessionReady, SessionHeartbeat, SessionLifecycle, SessionRegistered,
         OnlySessions
<1>3. JobStep => UNCHANGED <<input, sessions, attempts, leases>>
  BY DEF JobStep, JobSubmitted, JobQueued, JobAssuranceEvaluated, JobEnded, Requeued,
         StopLatched, OnlyJob
<1>4. StopStep => UNCHANGED <<input, sessions, leases>>
  BY DEF StopStep, StopLatched, StopAfterLeaseExpiry
<1>5. AttemptStep => UNCHANGED <<input, sessions, job, leases>>
  BY DEF AttemptStep, Working, AuthorizationBound, PreflightStarted, PreflightPassed,
         AttemptStarting, AttemptRunning, ResultIngressReceived, ResultRejected,
         AttemptDraining, AttemptCleaning, CaptureAccounting, ResultAccepted,
         AttemptTerminated, OnlyAttempt
<1>6. SettlingStep => UNCHANGED <<input, sessions, leases, deadlines>>
  BY DEF SettlingStep, JobBudgetSettled, AttemptAssuranceEvaluated, OnlyJobAndAttempt
<1>7. LeasingStep => UNCHANGED input
  BY DEF LeasingStep, Leasing, Withdrawing, LeaseOffered, LeaseClaimed, LeaseReleased,
         LeaseExpired, LeaseRevoked, LeaseFenced, EndLease
<1>8. TimingStep => UNCHANGED <<input, sessions, job, attempts>>
  BY DEF TimingStep, LeaseLate, LeaseRenewed, LeaseHeartbeat
<1>9. JobAttemptAllocated => UNCHANGED <<input, sessions, leases>>
  BY DEF JobAttemptAllocated
<1>. QED
  BY <1>1, <1>2, <1>3, <1>4, <1>5, <1>6, <1>7, <1>8, <1>9

(* Every step leaves the Attempts alone, allocates one, or changes one.    *)
LEMMA EveryStep ==
  ASSUME AttemptsSound, JobSound, [Next]_vars
  PROVE  /\ UNCHANGED input
         /\ \/ UNCHANGED attempts
            \/ JobAttemptAllocated
            \/ \E n \in DOMAIN attempts : \E b : Changes(n, b)
<1>1. Current # 0 => Current \in DOMAIN attempts /\ Sound(Current, Att)
  BY DEF AttemptsSound, JobSound, Att
<1>2. CASE AttemptStep
  <2>1. Current # 0
    BY <1>2 DEF AttemptStep, Working, AuthorizationBound, PreflightStarted, PreflightPassed,
         AttemptStarting, AttemptRunning, ResultIngressReceived, ResultRejected,
         AttemptDraining, AttemptCleaning, CaptureAccounting, ResultAccepted,
         AttemptTerminated, ActiveLease
  <2>. QED
    BY <1>1, <1>2, <2>1, WorkChanges, SettlingChanges, Frames DEF AttemptStep
<1>3. CASE SettlingStep
  <2>1. Current # 0
    BY <1>3 DEF SettlingStep, JobBudgetSettled, AttemptAssuranceEvaluated, Settling
  <2>. QED
    BY <1>1, <1>3, <2>1, SettlingChanges, Frames DEF SettlingStep
<1>4. CASE LeasingStep
  <2>1. PICK l \in Lease : Leasing(l)
    BY <1>4 DEF LeasingStep
  <2>2. Current # 0
    BY <2>1 DEF Leasing, Withdrawing, LeaseOffered, LeaseClaimed, LeaseReleased,
         LeaseExpired, LeaseRevoked, LeaseFenced, EndLease
  <2>. QED
    BY <1>1, <1>4, <2>1, <2>2, LeasingChanges, Frames
<1>5. CASE StopStep
  BY <1>5, StopChanges, Frames DEF StopStep
<1>. QED
  BY <1>2, <1>3, <1>4, <1>5, Steps, Frames

(* Every step keeps the Attempts sound.                                    *)
LEMMA StepAttempts ==
  ASSUME AttemptsSound, JobSound, [Next]_vars
  PROVE  AttemptsSound'
<1>0. \A n, b : Sound(n, b) => Sound(n, b)'
  BY EveryStep DEF Sound
<1>1. CASE UNCHANGED attempts
  BY <1>0, <1>1 DEF AttemptsSound
<1>2. CASE JobAttemptAllocated
  <2>1. PICK a : attempts' = Append(attempts, a) /\ Sound(Len(attempts) + 1, a)
    BY <1>2, NewSound
  <2>2. a \in Attempt
    BY <2>1 DEF Sound
  <2>3. /\ attempts' \in Seq(Attempt) /\ DOMAIN attempts' = 1 .. Len(attempts) + 1
        /\ DOMAIN attempts = 1 .. Len(attempts) /\ Len(attempts) \in Nat
        /\ \A n \in DOMAIN attempts : attempts'[n] = attempts[n]
        /\ attempts'[Len(attempts) + 1] = a
    BY <2>1, <2>2 DEF AttemptsSound
  <2>4. \A n \in DOMAIN attempts' : Sound(n, attempts'[n])
    BY <2>1, <2>3 DEF AttemptsSound
  <2>. QED
    BY <1>0, <2>3, <2>4 DEF AttemptsSound
<1>3. ASSUME NEW n \in DOMAIN attempts, NEW b, Changes(n, b)
      PROVE  AttemptsSound'
  <2>1. attempts' = [attempts EXCEPT ![n] = b] /\ Sound(n, b) /\ b \in Attempt
    BY <1>3 DEF Changes, Sound
  <2>2. attempts' \in Seq(Attempt)
    BY <2>1 DEF AttemptsSound
  <2>3. \A m \in DOMAIN attempts' : Sound(m, attempts'[m])
    BY <2>1 DEF AttemptsSound
  <2>. QED
    BY <1>0, <2>2, <2>3 DEF AttemptsSound
<1>. QED
  BY <1>1, <1>2, <1>3, EveryStep

-----------------------------------------------------------------------------
(* The last Attempt summarised is the last one.                            *)
LEMMA LastSummarised ==
  ASSUME AttemptsSound, JobSound, Current = 0, job.summaries # << >>
  PROVE  /\ Len(attempts) \in DOMAIN attempts
         /\ Max(Range(job.summaries)) = Len(attempts)
         /\ LastAttempt = attempts[Len(attempts)]
<1>1. /\ job.summaries \in Seq(Nat) /\ Len(job.summaries) = Len(attempts)
      /\ Len(attempts) \in Nat /\ DOMAIN attempts = 1 .. Len(attempts)
      /\ DOMAIN job.summaries = 1 .. Len(attempts)
  BY DEF JobSound, Job, AttemptsSound
<1>2. Len(attempts) \in DOMAIN attempts
  BY <1>1
<1>3. Range(job.summaries) = 1 .. Len(attempts)
  BY <1>1 DEF Range, JobSound
<1>4. /\ Max(Range(job.summaries)) \in Range(job.summaries)
      /\ \A i \in Range(job.summaries) : Max(Range(job.summaries)) >= i
  <2>1. \E m \in Range(job.summaries) : \A i \in Range(job.summaries) : m >= i
    BY <1>1, <1>2, <1>3
  <2>. QED
    BY <2>1 DEF Max
<1>5. Max(Range(job.summaries)) = Len(attempts)
  BY <1>1, <1>2, <1>3, <1>4
<1>. QED
  BY <1>2, <1>5 DEF LastAttempt

(* A changed Attempt leaves the number of Attempts as it is.               *)
LEMMA NumberKept ==
  ASSUME AttemptsSound, JobSound, [Next]_vars, ~JobAttemptAllocated
  PROVE  Len(attempts') = Len(attempts) /\ DOMAIN attempts' = DOMAIN attempts
<1>1. ASSUME NEW n \in DOMAIN attempts, NEW b, Changes(n, b)
      PROVE  Len(attempts') = Len(attempts) /\ DOMAIN attempts' = DOMAIN attempts
  BY <1>1 DEF Changes, AttemptsSound
<1>. QED
  BY <1>1, EveryStep

(* A step that changes the Job but not its place among the Attempts.       *)
LEMMA JobMoves ==
  ASSUME AttemptsSound, JobSound, [Next]_vars, ~JobAttemptAllocated, job' \in Job,
         job'.current = job.current, job'.counter = job.counter,
         job'.summaries = job.summaries,
         job'.floor \in {job.floor, Len(attempts) + 1},
         attempts = << >> => job'.floor = job.floor,
         job'.state \in {"NONE", "SUBMITTED", "QUEUED"} => Current = 0
  PROVE  JobSound'
<1>1. Len(attempts') = Len(attempts) /\ Len(attempts) \in Nat
  BY NumberKept DEF AttemptsSound
<1>2. attempts' = << >> => attempts = << >>
  BY <1>1 DEF AttemptsSound
<1>. QED
  BY <1>1, <1>2 DEF JobSound, Current

(* Every step keeps the Job sound.                                         *)
LEMMA StepJob ==
  ASSUME AttemptsSound, JobSound, [Next]_vars
  PROVE  JobSound'
<1>0. /\ job \in Job /\ Len(attempts) \in Nat
      /\ Current # 0 => /\ Current \in DOMAIN attempts /\ Current = Len(attempts)
                        /\ Sound(Current, Att)
  BY DEF AttemptsSound, JobSound, Att
<1>1. CASE UNCHANGED job
  <2>1. ~JobAttemptAllocated
    BY <1>0, <1>1 DEF JobAttemptAllocated, JobSound, Job, Set
  <2>. QED
    BY <1>0, <1>1, <2>1, JobMoves DEF JobSound
<1>2. CASE JobStep \/ (StopLatched /\ Current # 0)
  <2>1. ~JobAttemptAllocated
    BY <1>0, <1>2, Frames DEF JobAttemptAllocated, JobSound, StopLatched, AttemptsSound
  <2>2. CASE JobSubmitted
    <3>1. job.counter = 0 /\ job.floor = 0 /\ Current = 0 /\ attempts = << >>
      BY <2>2 DEF JobSubmitted, Empty, JobSound
    <3>2. job' = [NoJob EXCEPT !.state = "SUBMITTED"] /\ attempts' = << >>
      BY <2>2, <3>1 DEF JobSubmitted
    <3>3. job' \in Job
      <4>1. \A v \in BOOLEAN :
              [state |-> "SUBMITTED", current |-> 0, counter |-> 0, floor |-> 0, reserved |-> 0,
               consumed |-> 0, summaries |-> << >>, assurance |-> "PENDING", stopped |-> v] \in Job
        BY DEF Job
      <4>. QED
        BY <3>2, <4>1 DEF NoJob
    <3>. QED
      BY <3>1, <3>2, <3>3 DEF NoJob, JobSound, Current
  <2>3. CASE JobQueued \/ Requeued
    <3>1. job' = [job EXCEPT !.state = "QUEUED"] /\ Current = 0
      BY <2>3 DEF JobQueued, Requeued, JobSound
    <3>. QED
      BY <1>0, <2>1, <3>1, JobMoves DEF Job
  <2>4. CASE JobAssuranceEvaluated
    <3>. DEFINE assurance == IF job.summaries = << >> THEN "NOT_APPLICABLE"
                             ELSE LastAttempt.assurance
    <3>1. assurance \in {"PENDING", "NOT_APPLICABLE", "CLAIMED", "UNMET"}
      <4>1. Current = 0
        BY <2>4 DEF JobAssuranceEvaluated
      <4>2. ASSUME job.summaries # << >>
            PROVE  LastAttempt.assurance \in {"PENDING", "CLAIMED", "UNMET"}
        BY <4>1, <4>2, LastSummarised DEF AttemptsSound, Sound, Attempt
      <4>. QED
        BY <4>2
    <3>2. job' = [job EXCEPT !.assurance = assurance]
      BY <2>4 DEF JobAssuranceEvaluated
    <3>3. job.state \in {"ACTIVE", "STOPPING"}
      BY <2>4 DEF JobAssuranceEvaluated
    <3>. HIDE DEF assurance
    <3>. QED
      BY <1>0, <2>1, <3>1, <3>2, <3>3, JobMoves DEF Job
  <2>5. CASE JobEnded
    <3>1. PICK ending \in JobTerminal : job' = [job EXCEPT !.state = ending]
      BY <2>5 DEF JobEnded
    <3>2. job' \in Job
      <4>1. \A x \in JobTerminal : [job EXCEPT !.state = x] \in Job
        BY <1>0 DEF Job, JobTerminal
      <4>. QED
        BY <3>1, <4>1
    <3>3. job'.state \notin {"NONE", "SUBMITTED", "QUEUED"}
      BY <1>0, <3>1 DEF Job, JobTerminal
    <3>. QED
      BY <1>0, <2>1, <3>1, <3>2, <3>3, JobMoves DEF Job
  <2>6. CASE StopLatched
    <3>1. job' = [job EXCEPT !.state = "STOPPING", !.stopped = TRUE]
      BY <2>6 DEF StopLatched
    <3>2. \A v \in BOOLEAN : [job EXCEPT !.state = "STOPPING", !.stopped = v] \in Job
      BY <1>0 DEF Job
    <3>3. job' \in Job
      BY <3>1, <3>2
    <3>. QED
      BY <1>0, <2>1, <3>1, <3>3, JobMoves DEF Job
  <2>. QED
    BY <1>2, <2>2, <2>3, <2>4, <2>5, <2>6 DEF JobStep
<1>3. CASE JobBudgetSettled
  <2>1. /\ job' = [job EXCEPT !.reserved = @ - Reservation, !.consumed = @ + Reservation]
        /\ job.reserved >= Reservation /\ job.state \in {"ACTIVE", "STOPPING"}
    BY <1>3 DEF JobBudgetSettled, Settling
  <2>2. job' \in Job
    <3>1. job.reserved - Reservation \in Nat /\ job.consumed + Reservation \in Nat
      BY <1>0, <2>1, PlaneAssumption DEF Job
    <3>. QED
      BY <1>0, <2>1, <3>1 DEF Job
  <2>3. /\ job'.current = job.current /\ job'.counter = job.counter /\ job'.floor = job.floor
        /\ job'.summaries = job.summaries /\ job'.state = job.state
    BY <1>0, <2>1 DEF Job
  <2>4. ~JobAttemptAllocated
    BY <2>1 DEF JobAttemptAllocated
  <2>. QED
    BY <1>0, <2>2, <2>3, <2>4, JobMoves DEF JobSound
<1>4. CASE AttemptAssuranceEvaluated
  <2>1. /\ job' = [job EXCEPT !.current = 0, !.summaries = Append(@, Current)]
        /\ Current # 0 /\ job.state \in {"ACTIVE", "STOPPING"}
    BY <1>4 DEF AttemptAssuranceEvaluated, Settling
  <2>2. job.summaries \in Seq(Nat) /\ Append(job.summaries, Current) \in Seq(Nat)
    BY <1>0 DEF Job, Current
  <2>3. /\ job' \in Job /\ job'.current = 0 /\ job'.summaries = Append(job.summaries, Current)
        /\ job'.counter = job.counter /\ job'.floor = job.floor
    BY <1>0, <2>1, <2>2 DEF Job
  <2>4. /\ Len(job'.summaries) = Len(attempts)
        /\ \A i \in DOMAIN job'.summaries : job'.summaries[i] = i
    BY <1>0, <2>1, <2>2, <2>3 DEF JobSound
  <2>5. ~JobAttemptAllocated
    BY <2>1 DEF JobAttemptAllocated
  <2>6. Len(attempts') = Len(attempts) /\ attempts' # << >>
    BY <1>0, <2>1, <2>5, NumberKept, StepAttempts DEF AttemptsSound
  <2>. QED
    BY <2>3, <2>4, <2>6 DEF JobSound, Current
<1>5. ASSUME NEW l \in Lease, NEW ending, EndLease(l, ending)
      PROVE  JobSound'
  <2>1. Current # 0 /\ job' = [job EXCEPT !.floor = Att.generation + 1]
    BY <1>5 DEF EndLease
  <2>2. Att.generation = Len(attempts) /\ attempts # << >>
    BY <1>0, <2>1 DEF Sound, AttemptsSound
  <2>3. /\ job' \in Job /\ job'.current = job.current /\ job'.counter = job.counter
        /\ job'.floor = Len(attempts) + 1 /\ job'.summaries = job.summaries
        /\ job'.state = job.state
    <3>1. job' = [job EXCEPT !.floor = Len(attempts) + 1] /\ Len(attempts) + 1 \in Nat
      BY <1>0, <2>1, <2>2
    <3>. QED
      BY <1>0, <3>1 DEF Job
  <2>4. ~JobAttemptAllocated
    BY <2>1 DEF JobAttemptAllocated
  <2>. QED
    BY <1>0, <2>1, <2>2, <2>3, <2>4, JobMoves DEF JobSound
<1>6. CASE JobAttemptAllocated
  <2>. DEFINE g == job.counter + 1
  <2>1. /\ Current = 0 /\ Len(job.summaries) = Len(attempts)
        /\ job' = Set(job, [state |-> "ACTIVE", current |-> Len(attempts) + 1, counter |-> g,
                            floor |-> g, reserved |-> job.reserved + Reservation])
    BY <1>6 DEF JobAttemptAllocated
  <2>2. g = Len(attempts) + 1 /\ job.reserved + Reservation \in Nat
    BY <1>0, PlaneAssumption DEF JobSound, Job
  <2>3. /\ job' \in Job /\ job'.current = Len(attempts) + 1 /\ job'.counter = Len(attempts) + 1
        /\ job'.floor = Len(attempts) + 1 /\ job'.summaries = job.summaries
        /\ job'.state = "ACTIVE"
    BY <1>0, <2>1, <2>2 DEF Job, Set
  <2>4. PICK a : attempts' = Append(attempts, a) /\ Sound(Len(attempts) + 1, a)
    BY <1>6, NewSound
  <2>5. Len(attempts') = Len(attempts) + 1 /\ attempts' # << >>
    BY <2>4 DEF AttemptsSound
  <2>. QED
    BY <1>0, <2>1, <2>3, <2>5 DEF JobSound, Current
<1>7. CASE LeasingStep
  <2>1. PICK l \in Lease : Leasing(l)
    BY <1>7 DEF LeasingStep
  <2>2. CASE (\E s \in Session : LeaseOffered(l, s)) \/ LeaseClaimed(l)
    BY <1>1, <2>2 DEF LeaseOffered, LeaseClaimed
  <2>3. CASE Withdrawing(l)
    BY <1>5, <2>3 DEF Withdrawing, LeaseReleased, LeaseExpired, LeaseRevoked, LeaseFenced
  <2>. QED
    BY <2>1, <2>2, <2>3 DEF Leasing
<1>8. CASE StopAfterLeaseExpiry
  BY <1>1, <1>8 DEF StopAfterLeaseExpiry
<1>. QED
  BY <1>1, <1>2, <1>3, <1>4, <1>6, <1>7, <1>8, Steps, Frames DEF StopStep, SettlingStep

-----------------------------------------------------------------------------
(* The initial State.                                                      *)
LEMMA InitSound == PInit => AttemptsSound /\ JobSound /\ Tables
<1>. SUFFICES ASSUME PInit PROVE AttemptsSound /\ JobSound /\ Tables
  OBVIOUS
<1>1. AttemptsSound
  BY DEF PInit, AttemptsSound
<1>2. JobSound
  <2>1. \A v \in BOOLEAN :
          [state |-> "NONE", current |-> 0, counter |-> 0, floor |-> 0, reserved |-> 0,
           consumed |-> 0, summaries |-> << >>, assurance |-> "PENDING", stopped |-> v] \in Job
    BY DEF Job
  <2>2. job \in Job
    BY <2>1 DEF PInit, NoJob
  <2>. QED
    BY <2>2 DEF PInit, NoJob, JobSound, Current
<1>3. Tables
  <2>1. NoSession \in SessionRecord
    BY DEF NoSession, SessionRecord
  <2>2. \A v, h \in BOOLEAN :
          [state |-> "NONE", attempt |-> 0, session |-> "NONE", worker |-> "NONE",
           generation |-> 0, late |-> v, heard |-> h, tombstone |-> 0] \in LeaseRecord
    BY DEF LeaseRecord
  <2>3. NoLease \in LeaseRecord
    BY <2>2 DEF NoLease
  <2>. QED
    BY <2>1, <2>3 DEF PInit, Tables
<1>. QED
  BY <1>1, <1>2, <1>3

(* A stopped Attempt is never taken up again.                              *)
LEMMA StepStopIsFinal ==
  ASSUME AttemptsSound, JobSound, [Next]_vars, NEW n \in DOMAIN attempts, attempts[n].stopped
  PROVE  /\ attempts'[n].stopped
         /\ attempts'[n].state \in Ended
         /\ attempts'[n].result = attempts[n].result
         /\ attempts'[n].anchor = attempts[n].anchor
<1>1. CASE UNCHANGED attempts
  BY <1>1 DEF AttemptsSound, Sound
<1>2. CASE JobAttemptAllocated
  <2>1. PICK a : attempts' = Append(attempts, a)
    BY <1>2, NewSound
  <2>2. attempts'[n] = attempts[n]
    BY <2>1 DEF AttemptsSound
  <2>. QED
    BY <2>2 DEF AttemptsSound, Sound
<1>3. ASSUME NEW m \in DOMAIN attempts, NEW b, Changes(m, b)
      PROVE  /\ attempts'[n].stopped
             /\ attempts'[n].state \in Ended
             /\ attempts'[n].result = attempts[n].result
             /\ attempts'[n].anchor = attempts[n].anchor
  <2>1. attempts' = [attempts EXCEPT ![m] = b] /\ Onward(attempts[m], b)
    BY <1>3 DEF Changes
  <2>2. CASE m = n
    BY <2>1, <2>2 DEF Onward, AttemptsSound
  <2>3. CASE m # n
    BY <2>1, <2>3 DEF AttemptsSound, Sound
  <2>. QED
    BY <2>2, <2>3
<1>. QED
  BY <1>1, <1>2, <1>3, EveryStep

(* Every Attempt is sound and the Job keeps count of them.                 *)
THEOREM AttemptsInvariance == Spec => [](AttemptsSound /\ JobSound)
<1>1. PInit => AttemptsSound /\ JobSound
  BY InitSound
<1>2. AttemptsSound /\ JobSound /\ [Next]_vars => (AttemptsSound /\ JobSound)'
  BY StepAttempts, StepJob
<1>. QED
  BY <1>1, <1>2, PTL DEF Spec

(* Once an Attempt is stopped no later event brings it back to work or     *)
(* changes its Result.                                                     *)
THEOREM StopsAreFinal == Spec => StopIsFinal
<1>1. ASSUME AttemptsSound, JobSound, [Next]_vars
      PROVE  \A n \in DOMAIN attempts :
               attempts[n].stopped =>
                 /\ attempts'[n].stopped
                 /\ attempts'[n].state \in {"STOPPING", "CLEANING"} \cup AttemptTerminal
                 /\ attempts'[n].result = attempts[n].result
                 /\ attempts'[n].anchor = attempts[n].anchor
  BY <1>1, StepStopIsFinal DEF Ended
<1>. QED
  BY <1>1, AttemptsInvariance, PTL DEF Spec, StopIsFinal

-----------------------------------------------------------------------------
(* What the events of a Lease do to it.                                    *)
LEMMA OfferedLease ==
  ASSUME Tables, AttemptsSound, JobSound, NEW l \in Lease, NEW s \in Session, LeaseOffered(l, s)
  PROVE  \E q \in LeaseRecord : /\ leases' = [leases EXCEPT ![l] = q]
                               /\ q.state = "OFFERED" /\ q.session = s
                               /\ q.attempt = Current /\ q.generation = Att.generation
                               /\ ~q.heard
<1>. DEFINE q == Set(leases[l], [state |-> "OFFERED", attempt |-> Current, session |-> s,
                                 worker |-> sessions[s].worker, generation |-> Att.generation,
                                 heard |-> FALSE])
<1>1. Current \in Nat /\ Att.generation \in Nat /\ sessions[s].worker \in Worker \cup {"NONE"}
  BY DEF LeaseOffered, JobSound, AttemptsSound, Sound, Attempt, Att, Tables, SessionRecord
<1>2. /\ q \in LeaseRecord /\ q.state = "OFFERED" /\ q.session = s
      /\ q.attempt = Current /\ q.generation = Att.generation /\ ~q.heard
  BY <1>1 DEF Tables, LeaseRecord, Set
<1>3. leases' = [leases EXCEPT ![l] = q]
  BY DEF LeaseOffered, UpdateLease
<1>. QED
  BY <1>2, <1>3

(* What no event of a Lease changes once it was offered.                   *)
Bound(q, p) ==
  q.session = p.session /\ q.attempt = p.attempt /\ q.generation = p.generation

(* A claim makes the Lease active, in the same Session.                    *)
LEMMA ClaimedLease ==
  ASSUME Tables, NEW l \in Lease, LeaseClaimed(l)
  PROVE  \E q \in LeaseRecord : /\ leases' = [leases EXCEPT ![l] = q]
                               /\ q.state = "ACTIVE" /\ Bound(q, leases[l])
                               /\ q.late = leases[l].late /\ q.heard = leases[l].heard
<1>. DEFINE q == Set(leases[l], [state |-> "ACTIVE"])
<1>1. /\ q \in LeaseRecord /\ q.state = "ACTIVE" /\ Bound(q, leases[l])
      /\ q.late = leases[l].late /\ q.heard = leases[l].heard
  BY DEF Tables, LeaseRecord, Set, Bound
<1>2. leases' = [leases EXCEPT ![l] = q]
  BY DEF LeaseClaimed, UpdateLease
<1>. QED
  BY <1>1, <1>2

(* An end leaves it terminal, in the same Session.                         *)
LEMMA EndedLease ==
  ASSUME Tables, AttemptsSound, JobSound, NEW l \in Lease, NEW ending \in LeaseTerminal,
         EndLease(l, ending)
  PROVE  \E q \in LeaseRecord : /\ leases' = [leases EXCEPT ![l] = q]
                               /\ q.state = ending /\ Bound(q, leases[l])
                               /\ q.heard = leases[l].heard
<1>. DEFINE t == Att.generation + 1
            q == Set(leases[l], [state |-> ending, tombstone |-> t, late |-> FALSE])
<1>1. t \in Nat
  BY DEF EndLease, JobSound, AttemptsSound, Sound, Attempt, Att
<1>. HIDE DEF t
<1>2. \A v \in BOOLEAN : Set(leases[l], [state |-> ending, tombstone |-> t, late |-> v])
                           \in LeaseRecord
  BY <1>1 DEF Tables, LeaseRecord, Set
<1>3. q \in LeaseRecord
  BY <1>2
<1>4. q.state = ending /\ Bound(q, leases[l]) /\ q.heard = leases[l].heard
  BY DEF Tables, LeaseRecord, Set, Bound
<1>5. leases' = [leases EXCEPT ![l] = q]
  BY DEF EndLease, UpdateLease, t
<1>. QED
  BY <1>3, <1>4, <1>5

(* Time passing and a renewal change whether the Lease is late, a          *)
(* heartbeat that it was heard of, and neither of them anything else.      *)
Retimed(q, p) == q.state = p.state /\ Bound(q, p) /\ q.heard = p.heard
Overheard(q, p) == q.state = p.state /\ Bound(q, p) /\ q.late = p.late /\ q.heard

LEMMA TimedLease ==
  ASSUME Tables, NEW l \in Lease, LeaseLate(l) \/ LeaseRenewed(l) \/ LeaseHeartbeat(l)
  PROVE  \E q \in LeaseRecord : /\ leases' = [leases EXCEPT ![l] = q]
                               /\ \/ LeaseLate(l) /\ Retimed(q, leases[l]) /\ q.late
                                  \/ LeaseRenewed(l) /\ Retimed(q, leases[l])
                                       /\ q.late \in {FALSE, leases[l].late}
                                  \/ LeaseHeartbeat(l) /\ Overheard(q, leases[l])
<1>1. \A v \in BOOLEAN : LET q == Set(leases[l], [late |-> v])
                         IN  q \in LeaseRecord /\ Retimed(q, leases[l]) /\ q.late = v
  BY DEF Tables, LeaseRecord, Set, Retimed, Bound
<1>2. LET q == Set(leases[l], [heard |-> TRUE])
      IN  q \in LeaseRecord /\ Overheard(q, leases[l])
  BY DEF Tables, LeaseRecord, Set, Overheard, Bound
<1>3. leases[l].late \in BOOLEAN
  BY DEF Tables, LeaseRecord
<1>4. CASE LeaseLate(l)
  <2>1. leases' = [leases EXCEPT ![l] = Set(leases[l], [late |-> TRUE])]
    BY <1>4 DEF LeaseLate, UpdateLease
  <2>. QED
    BY <1>1, <1>4, <2>1
<1>5. CASE LeaseRenewed(l)
  <2>1. PICK v \in {FALSE, leases[l].late} :
          leases' = [leases EXCEPT ![l] = Set(leases[l], [late |-> v])]
    BY <1>5 DEF LeaseRenewed, UpdateLease
  <2>. QED
    BY <1>1, <1>3, <1>5, <2>1
<1>6. CASE LeaseHeartbeat(l)
  <2>1. leases' = [leases EXCEPT ![l] = Set(leases[l], [heard |-> TRUE])]
    BY <1>6 DEF LeaseHeartbeat, UpdateLease
  <2>. QED
    BY <1>2, <1>6, <2>1
<1>. QED
  BY <1>4, <1>5, <1>6

(* Every step leaves the Leases alone or changes one of them.              *)
LEMMA EveryLease ==
  ASSUME Tables, AttemptsSound, JobSound, [Next]_vars
  PROVE  \/ UNCHANGED leases
         \/ \E l \in Lease, q \in LeaseRecord :
              /\ leases' = [leases EXCEPT ![l] = q]
              /\ \/ TimingStep /\ q.state = leases[l].state /\ Bound(q, leases[l])
                 \/ \E s \in Session : LeaseOffered(l, s) /\ q.state = "OFFERED" /\ q.session = s
                 \/ LeaseClaimed(l) /\ q.state = "ACTIVE" /\ Bound(q, leases[l])
                 \/ /\ \E ending \in LeaseTerminal : EndLease(l, ending)
                    /\ q.state \in LeaseTerminal /\ Bound(q, leases[l])
<1>1. CASE TimingStep
  <2>1. PICK l \in Lease : LeaseLate(l) \/ LeaseRenewed(l) \/ LeaseHeartbeat(l)
    BY <1>1 DEF TimingStep
  <2>. QED
    BY <1>1, <2>1, TimedLease DEF Retimed, Overheard
<1>2. CASE LeasingStep
  <2>1. PICK l \in Lease : Leasing(l)
    BY <1>2 DEF LeasingStep
  <2>2. CASE \E s \in Session : LeaseOffered(l, s)
    BY <2>2, OfferedLease
  <2>3. CASE LeaseClaimed(l)
    BY <2>3, ClaimedLease
  <2>4. CASE Withdrawing(l)
    <3>1. PICK ending \in LeaseTerminal : EndLease(l, ending)
      BY <2>4 DEF Withdrawing, LeaseReleased, LeaseExpired, LeaseRevoked, LeaseFenced,
           LeaseTerminal
    <3>. QED
      BY <3>1, EndedLease
  <2>. QED
    BY <2>1, <2>2, <2>3, <2>4 DEF Leasing
<1>. QED
  BY <1>1, <1>2, Steps, Frames

-----------------------------------------------------------------------------
(* A live Lease is held in a Session of the State.                         *)
LEMMA LiveSession ==
  ASSUME Tables, Valid, NEW l \in Lease, Live(l)
  PROVE  /\ leases[l].session \in Session /\ sessions[leases[l].session].state # "NONE"
         /\ l \in sessions[leases[l].session].leases
<1>1. l \in Present(leases)
  BY DEF Present, Live, Tables
<1>2. /\ leases[l].session \in Present(sessions) /\ l \in sessions[leases[l].session].leases
  BY <1>1 DEF Valid
<1>. QED
  BY <1>2 DEF Present, Tables

(* The table of Sessions with one of them changed: the others are kept, or *)
(* dropped by the reducers that return only the entry they changed.        *)
SessionTo(s, r) ==
  \/ sessions' = [sessions EXCEPT ![s] = r]
  \/ sessions' = Only(sessions, s, r, NoSession)

(* What the changed Session may be.                                        *)
SessionMoves(s, r) ==
  \/ /\ SessionStep /\ leases' = leases /\ sessions[s].state = "NONE"
     /\ r.state = "REGISTERED" /\ r.leases = {} /\ r.inUse = 0
  \/ /\ SessionStep /\ leases' = leases /\ sessions[s].state # "NONE"
     /\ r.state \notin {"NONE", "REGISTERED"}
     /\ r.leases = sessions[s].leases /\ r.inUse = sessions[s].inUse
  \/ \E l \in Lease :
       /\ LeaseOffered(l, s) /\ r.state = sessions[s].state
       /\ r.leases = sessions[s].leases \cup {l} /\ r.inUse = sessions[s].inUse
  \/ \E l \in Lease :
       /\ LeaseClaimed(l) /\ s = leases[l].session /\ r.state = "BUSY"
       /\ r.leases = sessions[s].leases /\ r.inUse = sessions[s].inUse + 1
  \/ \E l \in Lease, ending \in LeaseTerminal :
       /\ EndLease(l, ending) /\ s = leases[l].session /\ r.state \in {"READY", "BUSY"}
       /\ r.leases = sessions[s].leases /\ r.inUse = InUseWithout(l)

(* What the events of a Session do to it.                                  *)
LEMMA SessionSteps ==
  ASSUME Tables, SessionStep
  PROVE  \/ UNCHANGED sessions
         \/ \E s \in Session, r \in SessionRecord : SessionTo(s, r) /\ SessionMoves(s, r)
<1>0. UNCHANGED leases
  BY Frames
<1>1. PICK s \in Session : \/ SessionReady(s) \/ SessionHeartbeat(s) \/ SessionLifecycle(s)
                          \/ \E w \in Worker : SessionRegistered(s, w)
  BY DEF SessionStep
<1>2. CASE SessionReady(s)
  <2>. DEFINE r == Set(sessions[s], [state |-> "READY", capacity |-> Capacity])
  <2>1. /\ r \in SessionRecord /\ r.state = "READY" /\ r.leases = sessions[s].leases
        /\ r.inUse = sessions[s].inUse
    BY PlaneAssumption DEF Tables, SessionRecord, Set
  <2>2. sessions' = [sessions EXCEPT ![s] = r] /\ sessions[s].state = "REGISTERED"
    BY <1>2 DEF SessionReady, UpdateSession
  <2>. QED
    BY <1>0, <2>1, <2>2 DEF SessionTo, SessionMoves
<1>3. CASE SessionHeartbeat(s)
  BY <1>3 DEF SessionHeartbeat
<1>4. CASE SessionLifecycle(s)
  <2>1. PICK target \in {"DRAINING", "OFFLINE", "QUARANTINED", "CLOSED"} :
          /\ UpdateSession(s, [state |-> target]) /\ sessions[s].state \in SessionSources[target]
    BY <1>4, PlaneAssumption DEF SessionLifecycle, Tables
  <2>. DEFINE r == Set(sessions[s], [state |-> target])
  <2>2. /\ r \in SessionRecord /\ r.state = target /\ r.leases = sessions[s].leases
        /\ r.inUse = sessions[s].inUse
    BY DEF Tables, SessionRecord, Set
  <2>3. sessions' = [sessions EXCEPT ![s] = r] /\ sessions[s].state # "NONE"
    BY <2>1 DEF UpdateSession, SessionSources
  <2>. QED
    BY <1>0, <2>2, <2>3 DEF SessionTo, SessionMoves
<1>5. CASE \E w \in Worker : SessionRegistered(s, w)
  <2>1. PICK w \in Worker : SessionRegistered(s, w)
    BY <1>5
  <2>. DEFINE r == [NoSession EXCEPT !.state = "REGISTERED", !.worker = w]
  <2>2. r \in SessionRecord /\ r.state = "REGISTERED" /\ r.leases = {} /\ r.inUse = 0
    BY DEF NoSession, SessionRecord
  <2>3. sessions' = Only(sessions, s, r, NoSession) /\ sessions[s].state = "NONE"
    BY <2>1 DEF SessionRegistered
  <2>. QED
    BY <1>0, <2>2, <2>3 DEF SessionTo, SessionMoves
<1>. QED
  BY <1>1, <1>2, <1>3, <1>4, <1>5

(* What the events of a Lease do to its Session.                           *)
LEMMA LeasingSessions ==
  ASSUME Tables, Valid, LeasingStep
  PROVE  \E s \in Session, r \in SessionRecord : SessionTo(s, r) /\ SessionMoves(s, r)
<1>1. PICK l \in Lease : Leasing(l)
  BY DEF LeasingStep
<1>2. ASSUME NEW s \in Session, LeaseOffered(l, s)
      PROVE  \E r \in SessionRecord : SessionTo(s, r) /\ SessionMoves(s, r)
  <2>. DEFINE r == [sessions[s] EXCEPT !.leases = @ \cup {l}]
  <2>1. /\ r \in SessionRecord /\ r.state = sessions[s].state
        /\ r.leases = sessions[s].leases \cup {l} /\ r.inUse = sessions[s].inUse
    BY DEF Tables, SessionRecord
  <2>2. sessions' = Only(sessions, s, r, NoSession)
    BY <1>2 DEF LeaseOffered
  <2>. QED
    BY <1>2, <2>1, <2>2 DEF SessionTo, SessionMoves
<1>3. CASE LeaseClaimed(l)
  <2>. DEFINE s == leases[l].session
              r == Set(sessions[s], [state |-> "BUSY", inUse |-> sessions[s].inUse + 1])
  <2>1. s \in Session
    BY <1>3, LiveSession DEF LeaseClaimed, Live
  <2>2. /\ r \in SessionRecord /\ r.state = "BUSY"
        /\ r.leases = sessions[s].leases /\ r.inUse = sessions[s].inUse + 1
    BY <2>1 DEF Tables, SessionRecord, Set
  <2>3. sessions' = Only(sessions, s, r, NoSession)
    BY <1>3 DEF LeaseClaimed
  <2>. QED
    BY <1>3, <2>1, <2>2, <2>3 DEF SessionTo, SessionMoves
<1>4. ASSUME NEW ending \in LeaseTerminal, EndLease(l, ending)
      PROVE  \E s \in Session, r \in SessionRecord : SessionTo(s, r) /\ SessionMoves(s, r)
  <2>. DEFINE s == leases[l].session
              state == IF InUseWithout(l) = 0 THEN "READY" ELSE "BUSY"
              r == Set(sessions[s], [state |-> state, inUse |-> InUseWithout(l)])
  <2>1. s \in Session
    BY <1>4, LiveSession DEF EndLease
  <2>2. InUseWithout(l) \in Nat
    BY <1>4, <2>1 DEF EndLease, InUseWithout, Tables, SessionRecord
  <2>3. /\ r \in SessionRecord /\ r.state \in {"READY", "BUSY"}
        /\ r.leases = sessions[s].leases /\ r.inUse = InUseWithout(l)
    BY <2>1, <2>2 DEF Tables, SessionRecord, Set
  <2>4. sessions' = [sessions EXCEPT ![s] = r]
    BY <1>4 DEF EndLease, UpdateSession
  <2>. QED
    BY <1>4, <2>1, <2>3, <2>4 DEF SessionTo, SessionMoves
<1>5. Withdrawing(l) => \E ending \in LeaseTerminal : EndLease(l, ending)
  BY DEF Withdrawing, LeaseReleased, LeaseExpired, LeaseRevoked, LeaseFenced, LeaseTerminal
<1>. QED
  BY <1>1, <1>2, <1>3, <1>4, <1>5 DEF Leasing

(* Every step leaves the Sessions alone or changes one of them.            *)
LEMMA EverySession ==
  ASSUME Tables, Valid, [Next]_vars
  PROVE  \/ UNCHANGED sessions
         \/ \E s \in Session, r \in SessionRecord : SessionTo(s, r) /\ SessionMoves(s, r)
  BY Steps, Frames, SessionSteps, LeasingSessions

(* The changed Session, and what the others may be.                        *)
LEMMA SessionTable ==
  ASSUME Tables, NEW s \in Session, NEW r \in SessionRecord, SessionTo(s, r)
  PROVE  /\ sessions' \in [Session -> SessionRecord] /\ sessions'[s] = r
         /\ \A t \in Session : t # s => sessions'[t] \in {sessions[t], NoSession}
<1>1. NoSession \in SessionRecord
  BY DEF NoSession, SessionRecord
<1>2. CASE sessions' = [sessions EXCEPT ![s] = r]
  BY <1>2 DEF Tables
<1>3. CASE sessions' = Only(sessions, s, r, NoSession)
  BY <1>1, <1>3 DEF Tables, Only
<1>. QED
  BY <1>2, <1>3 DEF SessionTo

(* Every step keeps the tables typed.                                      *)
LEMMA StepTables ==
  ASSUME Tables, AttemptsSound, JobSound, Valid, [Next]_vars
  PROVE  Tables'
<1>1. leases' \in [Lease -> LeaseRecord]
  BY EveryLease DEF Tables
<1>2. sessions' \in [Session -> SessionRecord]
  BY EverySession, SessionTable DEF Tables
<1>. QED
  BY <1>1, <1>2, EveryStep DEF Tables

(* A Session that is only registered has no Lease.                         *)
NewSessionsFree == \A s \in Session : sessions[s].state = "REGISTERED" => sessions[s].leases = {}

(* A Session leaves REGISTERED before it is offered a Lease.               *)
LEMMA StepNewSessionsFree ==
  ASSUME Tables, Valid, NewSessionsFree, [Next]_vars
  PROVE  NewSessionsFree'
<1>1. ASSUME NEW s \in Session, NEW r \in SessionRecord, SessionTo(s, r), SessionMoves(s, r)
      PROVE  NewSessionsFree'
  <2>1. r.state = "REGISTERED" => r.leases = {}
    BY <1>1 DEF SessionMoves, LeaseOffered
  <2>2. NoSession.state # "REGISTERED"
    BY DEF NoSession
  <2>3. /\ sessions'[s] = r
        /\ \A t \in Session : t # s => sessions'[t] \in {sessions[t], NoSession}
    BY <1>1, SessionTable
  <2>. QED
    BY <2>1, <2>2, <2>3 DEF NewSessionsFree
<1>. QED
  BY <1>1, EverySession DEF NewSessionsFree

-----------------------------------------------------------------------------
(* Deadlines.                                                              *)
DueOf(l) == /\ leases[l].state = "OFFERED" => <<"CLAIM", l>> \in deadlines
            /\ leases[l].state = "ACTIVE" => <<"LEASE_EXPIRY", l>> \in deadlines

DeadlinesKept == \A d \in deadlines : d[1] \in {"CLAIM", "LEASE_EXPIRY"} => d \in deadlines'

(* A State whose only Session is new, or that is empty, has no Lease.      *)
LEMMA NoLeases ==
  ASSUME Tables, Valid, NewSessionsFree,
         Empty \/ \E s \in Session : SessionReady(s)
  PROVE  Present(leases) = {}
<1>1. CASE Empty
  BY <1>1 DEF Empty
<1>2. CASE \E s \in Session : SessionReady(s)
  <2>1. PICK s \in Session : Present(sessions) = {s} /\ sessions[s].state = "REGISTERED"
    BY <1>2 DEF SessionReady
  <2>2. sessions[s].leases = {}
    BY <2>1 DEF NewSessionsFree
  <2>3. \A l \in Present(leases) : l \in sessions[s].leases
    BY <2>1 DEF Valid
  <2>. QED
    BY <2>2, <2>3
<1>. QED
  BY <1>1, <1>2

(* No step drops the deadline of a live Lease.                             *)
LEMMA StepTimed ==
  ASSUME Tables, AttemptsSound, JobSound, Valid, NewSessionsFree, LeasesAreTimed, [Next]_vars
  PROVE  LeasesAreTimed'
<1>0. \A l \in Lease : DueOf(l)
  BY DEF LeasesAreTimed, Present, Tables, DueOf
<1>1. SUFFICES \A l \in Lease : DueOf(l)'
  <2>1. Tables'
    BY StepTables
  <2>. QED
    BY <2>1 DEF LeasesAreTimed, Present, Tables, DueOf
<1>2. ASSUME leases' = leases, DeadlinesKept
      PROVE  \A l \in Lease : DueOf(l)'
  <2>1. TAKE l \in Lease
  <2>2. <<"CLAIM", l>> \in deadlines => <<"CLAIM", l>> \in deadlines'
    BY <1>2 DEF DeadlinesKept
  <2>3. <<"LEASE_EXPIRY", l>> \in deadlines => <<"LEASE_EXPIRY", l>> \in deadlines'
    BY <1>2 DEF DeadlinesKept
  <2>. QED
    BY <1>0, <1>2, <2>2, <2>3 DEF DueOf
<1>3. ASSUME Present(leases) = {}, leases' = leases
      PROVE  \A l \in Lease : DueOf(l)'
  BY <1>3 DEF Present, DueOf, Tables
<1>4. CASE Elsewhere \/ SettlingStep
  BY <1>2, <1>4, Frames DEF DeadlinesKept
<1>5. CASE SessionStep
  <2>1. PICK s \in Session : \/ SessionReady(s) \/ SessionHeartbeat(s) \/ SessionLifecycle(s)
                            \/ \E w \in Worker : SessionRegistered(s, w)
    BY <1>5 DEF SessionStep
  <2>2. leases' = leases
    BY <1>5, Frames
  <2>3. CASE SessionReady(s)
    BY <1>3, <2>2, <2>3, NoLeases
  <2>4. CASE SessionHeartbeat(s) \/ SessionLifecycle(s) \/ \E w \in Worker : SessionRegistered(s, w)
    <3>1. deadlines \ {<<"HEARTBEAT", s>>} \subseteq deadlines'
      BY <2>4 DEF SessionHeartbeat, SessionLifecycle, SessionRegistered
    <3>. QED
      BY <1>2, <2>2, <3>1 DEF DeadlinesKept
  <2>. QED
    BY <2>1, <2>3, <2>4
<1>6. CASE JobStep
  <2>1. leases' = leases
    BY <1>6, Frames
  <2>2. CASE JobSubmitted
    BY <1>3, <2>1, <2>2, NoLeases DEF JobSubmitted
  <2>3. CASE ~JobSubmitted
    <3>1. deadlines \ {<<"JOB", 0>>} \subseteq deadlines'
      BY <1>6, <2>3 DEF JobStep, JobQueued, JobAssuranceEvaluated, JobEnded, Requeued, StopLatched
    <3>. QED
      BY <1>2, <2>1, <3>1 DEF DeadlinesKept
  <2>. QED
    BY <2>2, <2>3
<1>7. CASE StopStep \/ JobAttemptAllocated
  <2>1. deadlines \subseteq deadlines'
    BY <1>7 DEF StopStep, StopLatched, StopAfterLeaseExpiry, JobAttemptAllocated
  <2>. QED
    BY <1>2, <1>7, <2>1, Frames DEF DeadlinesKept
<1>8. CASE AttemptStep
  <2>1. deadlines \ {<<"ATTEMPT", Current>>, <<"GRACE", Current>>} \subseteq deadlines'
    BY <1>8 DEF AttemptStep, Working, AuthorizationBound, PreflightStarted, PreflightPassed,
         AttemptStarting, AttemptRunning, ResultIngressReceived, ResultRejected,
         AttemptDraining, AttemptCleaning, CaptureAccounting, ResultAccepted,
         AttemptTerminated, OnlyAttempt
  <2>. QED
    BY <1>2, <1>8, <2>1, Frames DEF DeadlinesKept
<1>9. CASE TimingStep
  <2>1. deadlines \subseteq deadlines'
    BY <1>9 DEF TimingStep, LeaseLate, LeaseRenewed, LeaseHeartbeat
  <2>2. \A l \in Lease : leases'[l].state = leases[l].state
    <3>1. PICK l \in Lease : LeaseLate(l) \/ LeaseRenewed(l) \/ LeaseHeartbeat(l)
      BY <1>9 DEF TimingStep
    <3>. QED
      BY <3>1, TimedLease DEF Tables, Retimed, Overheard
  <2>. QED
    BY <1>0, <2>1, <2>2 DEF DueOf
<1>10. CASE LeasingStep
  <2>1. PICK l \in Lease : Leasing(l)
    BY <1>10 DEF LeasingStep
  <2>2. CASE \E s \in Session : LeaseOffered(l, s)
    <3>1. PICK q \in LeaseRecord : leases' = [leases EXCEPT ![l] = q] /\ q.state = "OFFERED"
      BY <2>2, OfferedLease
    <3>2. deadlines' = deadlines \cup {<<"CLAIM", l>>}
      BY <2>2 DEF LeaseOffered
    <3>. QED
      BY <1>0, <3>1, <3>2 DEF DueOf, Tables
  <2>3. CASE LeaseClaimed(l)
    <3>1. PICK q \in LeaseRecord : leases' = [leases EXCEPT ![l] = q] /\ q.state = "ACTIVE"
      BY <2>3, ClaimedLease
    <3>2. /\ deadlines \ {<<"CLAIM", l>>} \subseteq deadlines'
          /\ <<"LEASE_EXPIRY", l>> \in deadlines'
      BY <2>3 DEF LeaseClaimed
    <3>. QED
      BY <1>0, <3>1, <3>2 DEF DueOf, Tables
  <2>4. ASSUME NEW ending \in LeaseTerminal, EndLease(l, ending)
        PROVE  \A k \in Lease : DueOf(k)'
    <3>1. PICK q \in LeaseRecord : leases' = [leases EXCEPT ![l] = q] /\ q.state = ending
      BY <2>4, EndedLease
    <3>2. deadlines \ {<<"CLAIM", l>>, <<"LEASE_EXPIRY", l>>, <<"HEARTBEAT", leases[l].session>>}
            \subseteq deadlines'
      BY <2>4 DEF EndLease
    <3>3. ending \notin {"OFFERED", "ACTIVE"}
      BY DEF LeaseTerminal
    <3>. QED
      BY <1>0, <3>1, <3>2, <3>3 DEF DueOf, Tables
  <2>5. Withdrawing(l) => \E ending \in LeaseTerminal : EndLease(l, ending)
    BY DEF Withdrawing, LeaseReleased, LeaseExpired, LeaseRevoked, LeaseFenced, LeaseTerminal
  <2>. QED
    BY <2>1, <2>2, <2>3, <2>4, <2>5 DEF Leasing
<1>. QED
  BY <1>4, <1>5, <1>6, <1>7, <1>8, <1>9, <1>10, Steps

-----------------------------------------------------------------------------
(* Each Lease is bound to the Attempt it was offered to, and that to it.   *)
LeasesSound ==
  \A l \in Present(leases) :
    /\ leases[l].attempt \in DOMAIN attempts /\ leases[l].generation = leases[l].attempt
    /\ attempts[leases[l].attempt].lease = l

(* Only an offer binds an Attempt to a Lease.                              *)
LEMMA BindingsKept ==
  ASSUME AttemptsSound, JobSound, [Next]_vars,
         \A l \in Lease, s \in Session : ~LeaseOffered(l, s)
  PROVE  \A n \in DOMAIN attempts :
           n \in DOMAIN attempts' /\ attempts'[n].lease = attempts[n].lease
<1>1. CASE JobAttemptAllocated
  <2>1. PICK a : attempts' = Append(attempts, a)
    BY <1>1, NewSound
  <2>. QED
    BY <2>1 DEF AttemptsSound
<1>2. ASSUME NEW m \in DOMAIN attempts, NEW b, Changes(m, b)
      PROVE  \A n \in DOMAIN attempts :
               n \in DOMAIN attempts' /\ attempts'[n].lease = attempts[n].lease
  BY <1>2 DEF Changes, AttemptsSound
<1>. QED
  BY <1>1, <1>2, EveryStep

(* Every step keeps the Leases bound.                                      *)
LEMMA StepLeases ==
  ASSUME Tables, AttemptsSound, JobSound, LeasesSound, [Next]_vars
  PROVE  LeasesSound'
<1>1. CASE \A l \in Lease, s \in Session : ~LeaseOffered(l, s)
  <2>1. ASSUME NEW k \in Present(leases)'
        PROVE  /\ k \in Present(leases) /\ leases'[k].attempt = leases[k].attempt
               /\ leases'[k].generation = leases[k].generation
    <3>1. CASE UNCHANGED leases
      BY <3>1 DEF Present
    <3>2. ASSUME NEW l \in Lease, NEW q \in LeaseRecord, leases' = [leases EXCEPT ![l] = q],
                 Bound(q, leases[l]), leases[l].state # "NONE"
          PROVE  /\ k \in Present(leases) /\ leases'[k].attempt = leases[k].attempt
                 /\ leases'[k].generation = leases[k].generation
      BY <3>2 DEF Present, Tables, Bound
    <3>3. ASSUME NEW l \in Lease, NEW q \in LeaseRecord, leases' = [leases EXCEPT ![l] = q],
                 Bound(q, leases[l]), q.state = "NONE"
          PROVE  /\ k \in Present(leases) /\ leases'[k].attempt = leases[k].attempt
                 /\ leases'[k].generation = leases[k].generation
      BY <3>3 DEF Present, Tables, Bound
    <3>4. \A l \in Lease : (\E ending \in LeaseTerminal : EndLease(l, ending)) \/ LeaseClaimed(l)
                           => leases[l].state # "NONE"
      BY DEF EndLease, Live, LeaseClaimed
    <3>. QED
      BY <1>1, <3>1, <3>2, <3>3, <3>4, EveryLease
  <2>. QED
    BY <1>1, <2>1, BindingsKept DEF LeasesSound
<1>2. ASSUME NEW l \in Lease, NEW s \in Session, LeaseOffered(l, s)
      PROVE  LeasesSound'
  <2>1. PICK q \in LeaseRecord : /\ leases' = [leases EXCEPT ![l] = q]
                                 /\ q.attempt = Current /\ q.generation = Att.generation
    BY <1>2, OfferedLease
  <2>2. /\ Current \in DOMAIN attempts /\ Att.lease = "NONE" /\ Att.generation = Current
        /\ attempts' = [attempts EXCEPT ![Current] = Set(Att, [lease |-> l])]
        /\ Att \in Attempt
    BY <1>2 DEF LeaseOffered, UpdateAttempt, AttemptsSound, JobSound, Sound, Att
  <2>3. Set(Att, [lease |-> l]).lease = l
    BY <2>2 DEF Attempt, Set
  <2>4. DOMAIN attempts' = DOMAIN attempts /\ attempts'[Current].lease = l
        /\ \A n \in DOMAIN attempts : n # Current => attempts'[n] = attempts[n]
    BY <2>2, <2>3 DEF AttemptsSound
  <2>5. ASSUME NEW k \in Present(leases)', k # l
        PROVE  /\ leases'[k].attempt \in DOMAIN attempts'
               /\ leases'[k].generation = leases'[k].attempt
               /\ attempts'[leases'[k].attempt].lease = k
    <3>1. k \in Present(leases) /\ leases'[k] = leases[k] /\ k # "NONE"
      BY <2>1, <2>5, PlaneAssumption DEF Present, Tables
    <3>2. leases[k].attempt # Current
      BY <2>2, <3>1 DEF LeasesSound, Att
    <3>. QED
      BY <2>4, <3>1, <3>2 DEF LeasesSound
  <2>6. leases'[l] = q
    BY <2>1 DEF Tables
  <2>. QED
    BY <2>1, <2>2, <2>4, <2>5, <2>6 DEF LeasesSound
<1>. QED
  BY <1>1, <1>2

-----------------------------------------------------------------------------
(* Fencing: the floor stands at the current Attempt until its Lease ends.  *)
FloorStands ==
  Current # 0 /\ (Att.lease = "NONE" \/ Live(Att.lease)) => job.floor = Len(attempts)

Holder == IF ActiveLease THEN Att.generation ELSE 0
Accepted == {n \in DOMAIN attempts : attempts[n].result = "ACCEPTED"}

(* A step that keeps the Attempts' Leases, and those in their states.      *)
LEMMA LeaseOfCurrent ==
  ASSUME Tables, AttemptsSound, JobSound, [Next]_vars,
         NEW n \in DOMAIN attempts, NEW b, Changes(n, b), b.lease = attempts[n].lease,
         job'.current = job.current, Current # 0
  PROVE  Att'.lease = Att.lease /\ Att'.generation = Att.generation
<1>1. /\ attempts' = [attempts EXCEPT ![n] = b] /\ Sound(n, b) /\ Sound(n, attempts[n])
      /\ attempts \in Seq(Attempt) /\ Current \in DOMAIN attempts /\ Current' = Current
  BY DEF Changes, AttemptsSound, JobSound, Current
<1>. QED
  BY <1>1 DEF Att, Sound

(* What the floor and the holder become when nothing is offered or ended.  *)
LEMMA NothingLeased ==
  ASSUME Tables, AttemptsSound, JobSound, FloorStands, [Next]_vars,
         \A l \in Lease : leases'[l].state = leases[l].state,
         job'.current = job.current, job'.floor = job.floor,
         ~JobAttemptAllocated, \A l \in Lease, s \in Session : ~LeaseOffered(l, s)
  PROVE  FloorStands' /\ Holder' = Holder
<1>1. Len(attempts') = Len(attempts) /\ Current' = Current
  BY NumberKept DEF Current
<1>2. CASE Current = 0
  BY <1>1, <1>2 DEF FloorStands, Holder, ActiveLease
<1>3. CASE Current # 0
  <2>1. Att'.lease = Att.lease /\ Att'.generation = Att.generation
    <3>1. CASE UNCHANGED attempts
      BY <1>1, <3>1 DEF Att
    <3>2. CASE \E n \in DOMAIN attempts : \E b : Changes(n, b)
      <4>0. PICK n \in DOMAIN attempts : \E b : Changes(n, b)
        BY <3>2
      <4>1. PICK b : Changes(n, b)
        BY <4>0
      <4>2. b.lease = attempts[n].lease
        BY <4>1 DEF Changes
      <4>. QED
        BY <1>3, <4>1, <4>2, LeaseOfCurrent
    <3>. QED
      BY <3>1, <3>2, EveryStep
  <2>2. Att.lease \in Lease \cup {"NONE"}
    BY <1>3 DEF AttemptsSound, JobSound, Sound, Attempt, Att
  <2>3. Att.lease # "NONE" => leases'[Att.lease].state = leases[Att.lease].state
    BY <2>2
  <2>4. FloorStands'
    BY <1>1, <1>3, <2>1, <2>3 DEF FloorStands, Live
  <2>5. Holder' = Holder
    BY <1>1, <1>3, <2>1, <2>3 DEF Holder, ActiveLease
  <2>. QED
    BY <2>4, <2>5
<1>. QED
  BY <1>2, <1>3

(* Results are accepted by ResultAccepted alone.                           *)
LEMMA AcceptedKept ==
  ASSUME AttemptsSound, JobSound, [Next]_vars, ~ResultAccepted
  PROVE  Accepted' = Accepted
<1>1. CASE UNCHANGED attempts
  BY <1>1 DEF Accepted
<1>2. CASE JobAttemptAllocated
  <2>1. PICK a : attempts' = Append(attempts, a) /\ a.result = "NONE"
                /\ Sound(Len(attempts) + 1, a)
    BY <1>2, NewSound
  <2>2. /\ DOMAIN attempts' = 1 .. Len(attempts) + 1 /\ DOMAIN attempts = 1 .. Len(attempts)
        /\ Len(attempts) \in Nat /\ attempts'[Len(attempts) + 1] = a
        /\ \A n \in DOMAIN attempts : attempts'[n] = attempts[n]
    BY <2>1 DEF AttemptsSound
  <2>. QED
    BY <2>1, <2>2 DEF Accepted
<1>3. ASSUME NEW n \in DOMAIN attempts, NEW b, Changes(n, b)
      PROVE  Accepted' = Accepted
  BY <1>3 DEF Changes, Accepted, AttemptsSound
<1>. QED
  BY <1>1, <1>2, <1>3, EveryStep

(* The steps of the fencing promise, over the sets of generations that the *)
(* Leases make, and the holder and the accepted Results as named above.    *)
LateLeases == {l \in ActiveLeases : leases[l].late}
HeardLeases == {l \in Present(leases) : leases[l].heard}

View == INSTANCE Fencing WITH
          issued <- job.counter, floor <- job.floor,
          offered <- Generations(Present(leases)), leased <- Generations(ActiveLeases),
          late <- Generations(LateLeases), heard <- Generations(HeardLeases),
          holder <- Holder, accepted <- Accepted

Leases == <<Generations(Present(leases)), Generations(ActiveLeases),
            Generations(LateLeases), Generations(HeardLeases)>>

(* Leases that do not change make the same generations.                    *)
LEMMA SameLeases ==
  ASSUME leases' = leases
  PROVE  Leases' = Leases
  BY DEF Leases, Generations, ActiveLeases, LateLeases, HeardLeases, Present

(* No two Leases have the same generation.                                 *)
LEMMA OneGeneration ==
  ASSUME LeasesSound, NEW k \in Present(leases), NEW l \in Present(leases),
         leases[k].generation = leases[l].generation
  PROVE  k = l
  BY DEF LeasesSound

(* What the generations of a set of Leases become when one Lease that has  *)
(* its generation already enters or leaves the set.                        *)
LEMMA Regenerated ==
  ASSUME Tables, LeasesSound, NEW l \in Present(leases), NEW q \in LeaseRecord,
         leases' = [leases EXCEPT ![l] = q], q.generation = leases[l].generation,
         NEW S \in SUBSET Present(leases), NEW T
  PROVE  LET after == {leases'[k].generation : k \in T}
             g == leases[l].generation
         IN  /\ g \in Generations(S) <=> l \in S
             /\ T = S => after = Generations(S)
             /\ T = S \cup {l} => after = Generations(S) \cup {g}
             /\ T = S \ {l} => after = Generations(S) \ {g}
<1>1. \A k \in Present(leases) : leases'[k].generation = leases[k].generation
  BY DEF Present, Tables
<1>2. \A k \in Present(leases) : leases[k].generation = leases[l].generation => k = l
  BY OneGeneration
<1>. QED
  BY <1>1, <1>2 DEF Generations

(* The sets of Leases once one of them has changed.                        *)
LEMMA LeaseSets ==
  ASSUME Tables, NEW l \in Lease, NEW q \in LeaseRecord, leases' = [leases EXCEPT ![l] = q]
  PROVE  /\ Present(leases)' = IF q.state # "NONE" THEN Present(leases) \cup {l}
                               ELSE Present(leases) \ {l}
         /\ ActiveLeases' = IF q.state = "ACTIVE" THEN ActiveLeases \cup {l}
                            ELSE ActiveLeases \ {l}
         /\ LateLeases' = IF q.state = "ACTIVE" /\ q.late THEN LateLeases \cup {l}
                          ELSE LateLeases \ {l}
         /\ HeardLeases' = IF q.state # "NONE" /\ q.heard THEN HeardLeases \cup {l}
                           ELSE HeardLeases \ {l}
         /\ (l \in ActiveLeases <=> q.state = "ACTIVE") => ActiveLeases' = ActiveLeases
         /\ (l \in LateLeases <=> q.state = "ACTIVE" /\ q.late) => LateLeases' = LateLeases
         /\ (l \in HeardLeases <=> q.state # "NONE" /\ q.heard) => HeardLeases' = HeardLeases
  BY DEF Tables, Present, ActiveLeases, LateLeases, HeardLeases

LEMMA LeaseSubsets ==
  ASSUME Tables
  PROVE  /\ ActiveLeases \subseteq Present(leases) /\ LateLeases \subseteq Present(leases)
         /\ HeardLeases \subseteq Present(leases)
  BY DEF ActiveLeases, LateLeases, HeardLeases, Present, Tables

(* So with the generations that each of the sets makes.                    *)
LEMMA Regenerations ==
  ASSUME Tables, LeasesSound, NEW l \in Present(leases), NEW q \in LeaseRecord,
         leases' = [leases EXCEPT ![l] = q], q.generation = leases[l].generation,
         Present(leases)' = Present(leases)
  PROVE  LET g == leases[l].generation
         IN  /\ Generations(Present(leases))' = Generations(Present(leases))
             /\ g \in Generations(Present(leases))
             /\ g \in Generations(ActiveLeases) <=> l \in ActiveLeases
             /\ g \in Generations(LateLeases) <=> l \in LateLeases
             /\ g \in Generations(HeardLeases) <=> l \in HeardLeases
             /\ ActiveLeases' = ActiveLeases =>
                  Generations(ActiveLeases)' = Generations(ActiveLeases)
             /\ ActiveLeases' = ActiveLeases \cup {l} =>
                  Generations(ActiveLeases)' = Generations(ActiveLeases) \cup {g}
             /\ ActiveLeases' = ActiveLeases \ {l} =>
                  Generations(ActiveLeases)' = Generations(ActiveLeases) \ {g}
             /\ LateLeases' = LateLeases => Generations(LateLeases)' = Generations(LateLeases)
             /\ LateLeases' = LateLeases \cup {l} =>
                  Generations(LateLeases)' = Generations(LateLeases) \cup {g}
             /\ LateLeases' = LateLeases \ {l} =>
                  Generations(LateLeases)' = Generations(LateLeases) \ {g}
             /\ HeardLeases' = HeardLeases =>
                  Generations(HeardLeases)' = Generations(HeardLeases)
             /\ HeardLeases' = HeardLeases \cup {l} =>
                  Generations(HeardLeases)' = Generations(HeardLeases) \cup {g}
<1>. DEFINE g == leases[l].generation
<1>1. \A S \in SUBSET Present(leases) : \A T :
        /\ g \in Generations(S) <=> l \in S
        /\ T = S => {leases'[k].generation : k \in T} = Generations(S)
        /\ T = S \cup {l} => {leases'[k].generation : k \in T} = Generations(S) \cup {g}
        /\ T = S \ {l} => {leases'[k].generation : k \in T} = Generations(S) \ {g}
  BY Regenerated
<1>2. /\ Generations(Present(leases))' = {leases'[k].generation : k \in Present(leases)'}
      /\ Generations(ActiveLeases)' = {leases'[k].generation : k \in ActiveLeases'}
      /\ Generations(LateLeases)' = {leases'[k].generation : k \in LateLeases'}
      /\ Generations(HeardLeases)' = {leases'[k].generation : k \in HeardLeases'}
  BY DEF Generations
<1>. QED
  BY <1>1, <1>2, LeaseSubsets

(* The two ways of counting the accepted Results agree.                    *)
LEMMA AcceptedGenerations ==
  AttemptsSound =>
    {attempts[n].generation : n \in {m \in DOMAIN attempts : attempts[m].result = "ACCEPTED"}}
      = Accepted
  BY DEF AttemptsSound, Sound, Accepted

(* A step with which nobody gains or loses authority; a Result may be      *)
(* accepted with it.                                                       *)
LEMMA HolderStays ==
  ASSUME Tables, AttemptsSound, JobSound, FloorStands, [Next]_vars,
         leases' = leases,
         job'.current = job.current, job'.floor = job.floor, job'.counter = job.counter,
         ~JobAttemptAllocated, \A l \in Lease, s \in Session : ~LeaseOffered(l, s)
  PROVE  FloorStands' /\ [View!FNext]_View!fvars
<1>1. FloorStands' /\ Holder' = Holder
  BY NothingLeased
<1>0. UNCHANGED Leases
  BY SameLeases
<1>2. CASE ~ResultAccepted
  BY <1>0, <1>1, <1>2, AcceptedKept DEF View!fvars, Leases
<1>3. CASE ResultAccepted
  <2>1. /\ Current \in DOMAIN attempts /\ Sound(Current, Att) /\ ActiveLease
        /\ Current = Len(attempts) /\ job.counter = Len(attempts) /\ Len(attempts) \in Nat
    BY <1>3 DEF ResultAccepted, ActiveLease, AttemptsSound, JobSound, Att
  <2>2. Holder = Current /\ job.floor = Len(attempts)
    BY <2>1 DEF Holder, Sound, FloorStands, ActiveLease, Live
  <2>3. Current \notin Accepted
    BY <1>3, <2>1 DEF ResultAccepted, Sound, Accepted, Att
  <2>4. Accepted' = Accepted \cup {Current}
    <3>. DEFINE b == Set(Att, [intake |-> "DISPOSED", result |-> "ACCEPTED"])
    <3>1. b.result = "ACCEPTED"
      BY <2>1 DEF Set, Sound, Attempt
    <3>2. attempts' = [attempts EXCEPT ![Current] = b]
      BY <1>3 DEF ResultAccepted, UpdateAttempt, Att
    <3>. HIDE DEF b
    <3>. QED
      BY <2>1, <3>1, <3>2 DEF Accepted, AttemptsSound
  <2>5. View!Accept
    BY <1>0, <1>1, <2>1, <2>2, <2>3, <2>4 DEF View!Accept, Leases
  <2>. QED
    BY <1>1, <2>5 DEF View!FNext
<1>. QED
  BY <1>2, <1>3

(* Time passes for a Lease, or it is heard of or renewed: the floor is not *)
(* looked at, but no other Lease was ever offered.                         *)
LEMMA TimingFences ==
  ASSUME Tables, AttemptsSound, JobSound, LeasesSound, FloorStands, [Next]_vars,
         TimingStep, leases' # leases
  PROVE  FloorStands' /\ [View!FNext]_View!fvars
<1>1. PICK l \in Lease : LeaseLate(l) \/ LeaseRenewed(l) \/ LeaseHeartbeat(l)
  BY DEF TimingStep
<1>2. PICK q \in LeaseRecord :
        /\ leases' = [leases EXCEPT ![l] = q]
        /\ \/ LeaseLate(l) /\ Retimed(q, leases[l]) /\ q.late
           \/ LeaseRenewed(l) /\ Retimed(q, leases[l]) /\ q.late \in {FALSE, leases[l].late}
           \/ LeaseHeartbeat(l) /\ Overheard(q, leases[l])
  BY <1>1, TimedLease
<1>3. q.state = leases[l].state /\ Bound(q, leases[l]) /\ Live(l)
  BY <1>2 DEF Retimed, Overheard, LeaseLate, LeaseRenewed, LeaseHeartbeat, Live
<1>. DEFINE g == leases[l].generation
<1>4. l \in Present(leases) /\ q.generation = g
  BY <1>3 DEF Present, Live, Bound, Tables
<1>5. /\ job' = job /\ Accepted' = Accepted
      /\ FloorStands' /\ Holder' = Holder
  <2>1. ~ResultAccepted /\ ~JobAttemptAllocated
    BY Frames DEF AttemptStep
  <2>2. \A k \in Lease, s \in Session : ~LeaseOffered(k, s)
    <3>1. ASSUME NEW k \in Lease, NEW s \in Session, LeaseOffered(k, s)
          PROVE  FALSE
      <4>1. \A m \in Lease : leases'[m].state = leases[m].state
        BY <1>2, <1>3 DEF Tables
      <4>2. leases'[k].state = "OFFERED" /\ leases[k].state = "NONE"
        BY <3>1, OfferedLease DEF Tables, LeaseOffered
      <4>. QED
        BY <4>1, <4>2
    <3>. QED
      BY <3>1
  <2>3. \A k \in Lease : leases'[k].state = leases[k].state
    BY <1>2, <1>3 DEF Tables
  <2>4. job' = job
    BY Frames
  <2>. QED
    BY <2>1, <2>2, <2>3, <2>4, NothingLeased, AcceptedKept
<1>6. /\ Present(leases)' = Present(leases) /\ ActiveLeases' = ActiveLeases
      /\ LateLeases' = IF q.state = "ACTIVE" /\ q.late THEN LateLeases \cup {l}
                       ELSE LateLeases \ {l}
      /\ HeardLeases' = IF q.heard THEN HeardLeases \cup {l} ELSE HeardLeases \ {l}
  <2>1. q.state # "NONE" /\ (q.state = "ACTIVE" <=> l \in ActiveLeases)
    BY <1>3 DEF Live, ActiveLeases
  <2>2. /\ Present(leases)' = Present(leases) \cup {l}
        /\ ActiveLeases' = IF q.state = "ACTIVE" THEN ActiveLeases \cup {l}
                           ELSE ActiveLeases \ {l}
        /\ LateLeases' = IF q.state = "ACTIVE" /\ q.late THEN LateLeases \cup {l}
                         ELSE LateLeases \ {l}
        /\ HeardLeases' = IF q.heard THEN HeardLeases \cup {l} ELSE HeardLeases \ {l}
    BY <1>2, <2>1, LeaseSets
  <2>3. Present(leases) \cup {l} = Present(leases)
    BY <1>4
  <2>4. ActiveLeases' = ActiveLeases
    BY <2>1, <2>2
  <2>. QED
    BY <2>2, <2>3, <2>4
<1>8. /\ Generations(Present(leases))' = Generations(Present(leases))
      /\ Generations(ActiveLeases)' = Generations(ActiveLeases)
      /\ g \in Generations(Present(leases))
      /\ g \in Generations(ActiveLeases) <=> l \in ActiveLeases
      /\ g \in Generations(LateLeases) <=> l \in LateLeases
      /\ g \in Generations(HeardLeases) <=> l \in HeardLeases
      /\ LateLeases' = LateLeases => Generations(LateLeases)' = Generations(LateLeases)
      /\ LateLeases' = LateLeases \cup {l} =>
           Generations(LateLeases)' = Generations(LateLeases) \cup {g}
      /\ LateLeases' = LateLeases \ {l} =>
           Generations(LateLeases)' = Generations(LateLeases) \ {g}
      /\ HeardLeases' = HeardLeases => Generations(HeardLeases)' = Generations(HeardLeases)
      /\ HeardLeases' = HeardLeases \cup {l} =>
           Generations(HeardLeases)' = Generations(HeardLeases) \cup {g}
  BY <1>2, <1>4, <1>6, Regenerations
<1>9. CASE LeaseLate(l) /\ Retimed(q, leases[l]) /\ q.late
  <2>1. ~leases[l].late /\ l \notin LateLeases
    BY <1>9 DEF LeaseLate, LateLeases
  <2>2. HeardLeases' = HeardLeases
    BY <1>4, <1>6, <1>9 DEF Retimed, HeardLeases
  <2>3. CASE q.state = "ACTIVE"
    <3>1. LateLeases' = LateLeases \cup {l} /\ l \in ActiveLeases
      BY <1>3, <1>6, <1>9, <2>3 DEF ActiveLeases
    <3>2. View!Expire(g)
      BY <1>5, <1>8, <2>1, <2>2, <3>1 DEF View!Expire
    <3>. QED
      BY <1>5, <1>8, <3>2 DEF View!FNext
  <2>4. CASE q.state # "ACTIVE"
    <3>1. LateLeases' = LateLeases
      BY <1>6, <2>1, <2>4
    <3>. QED
      BY <1>5, <1>8, <2>2, <3>1 DEF View!fvars
  <2>. QED
    BY <2>3, <2>4
<1>10. CASE LeaseRenewed(l) /\ Retimed(q, leases[l]) /\ q.late \in {FALSE, leases[l].late}
  <2>1. Present(leases) = {l} /\ leases[l].state = "ACTIVE"
    BY <1>10 DEF LeaseRenewed
  <2>2. HeardLeases' = HeardLeases
    BY <1>4, <1>6, <1>10 DEF Retimed, HeardLeases
  <2>3. leases[l].late \in BOOLEAN /\ (leases[l].late <=> l \in LateLeases)
    BY <2>1 DEF Tables, LeaseRecord, LateLeases, ActiveLeases
  <2>4. CASE leases[l].late /\ ~q.late
    <3>1. LateLeases' = LateLeases \ {l}
      BY <1>6, <2>4
    <3>2. Generations(Present(leases)) = {g}
      BY <2>1 DEF Generations
    <3>3. View!Extend(g)
      BY <1>5, <1>8, <2>2, <2>3, <2>4, <3>1, <3>2 DEF View!Extend
    <3>. QED
      BY <1>5, <1>8, <3>3 DEF View!FNext
  <2>5. CASE q.late = leases[l].late
    <3>1. LateLeases' = LateLeases
      BY <1>3, <1>6, <2>1, <2>3, <2>5
    <3>. QED
      BY <1>5, <1>8, <2>2, <3>1 DEF View!fvars
  <2>. QED
    BY <1>10, <2>3, <2>4, <2>5
<1>11. CASE LeaseHeartbeat(l) /\ Overheard(q, leases[l])
  <2>1. Present(leases) = {l} /\ leases[l].state = "ACTIVE" /\ l \in ActiveLeases
    BY <1>11 DEF LeaseHeartbeat, ActiveLeases
  <2>2. HeardLeases' = HeardLeases \cup {l}
    BY <1>6, <1>11 DEF Overheard
  <2>3. LateLeases' = LateLeases
    BY <1>6, <1>11, <2>1 DEF Overheard, LateLeases
  <2>4. CASE l \in HeardLeases
    <3>1. HeardLeases' = HeardLeases
      BY <2>2, <2>4
    <3>. QED
      BY <1>5, <1>8, <2>3, <3>1 DEF View!fvars
  <2>5. CASE l \notin HeardLeases
    <3>1. Generations(Present(leases)) = {g}
      BY <2>1 DEF Generations
    <3>2. View!Hear(g)
      BY <1>5, <1>8, <2>1, <2>2, <2>3, <2>5, <3>1 DEF View!Hear
    <3>. QED
      BY <1>5, <1>8, <3>2 DEF View!FNext
  <2>. QED
    BY <2>4, <2>5
<1>. QED
  BY <1>2, <1>9, <1>10, <1>11

(* A step on a Lease accepts no Result.                                    *)
LEMMA LeasingAcceptsNothing ==
  ASSUME Tables, AttemptsSound, JobSound, [Next]_vars, LeasingStep
  PROVE  Accepted' = Accepted /\ ~JobAttemptAllocated
<1>1. PICK l \in Lease : Leasing(l)
  BY DEF LeasingStep
<1>2. leases' # leases
  <2>1. CASE \E s \in Session : LeaseOffered(l, s)
    BY <2>1, OfferedLease DEF LeaseOffered, Tables
  <2>2. CASE LeaseClaimed(l)
    BY <2>2, ClaimedLease DEF LeaseClaimed, Tables
  <2>3. CASE Withdrawing(l)
    <3>1. PICK ending \in LeaseTerminal : EndLease(l, ending)
      BY <2>3 DEF Withdrawing, LeaseReleased, LeaseExpired, LeaseRevoked, LeaseFenced,
           LeaseTerminal
    <3>2. leases[l].state \notin LeaseTerminal
      BY <3>1 DEF EndLease, Live, LeaseTerminal
    <3>3. PICK q \in LeaseRecord :
            leases' = [leases EXCEPT ![l] = q] /\ q.state \in LeaseTerminal
      BY <3>1, EndedLease
    <3>. QED
      BY <3>2, <3>3 DEF Tables
  <2>. QED
    BY <1>1, <2>1, <2>2, <2>3 DEF Leasing
<1>3. ~ResultAccepted /\ ~JobAttemptAllocated
  BY <1>2, Frames DEF AttemptStep
<1>. QED
  BY <1>3, AcceptedKept

(* What an update of the current Attempt makes of it.                      *)
LEMMA UpdatedAttempt ==
  ASSUME AttemptsSound, JobSound, Current # 0, Current' = Current,
         NEW changes, UpdateAttempt(changes)
  PROVE  /\ Att' = Set(Att, changes)
         /\ Len(attempts') = Len(attempts) /\ Len(attempts) \in Nat
         /\ Current = Len(attempts) /\ job.counter = Len(attempts)
         /\ Att \in Attempt /\ Att.generation = Len(attempts)
  BY DEF AttemptsSound, JobSound, Sound, UpdateAttempt, Att

(* A step on a Lease offers, grants or withdraws authority.                *)
LEMMA LeasingFences ==
  ASSUME Tables, AttemptsSound, JobSound, LeasesSound, FloorStands, [Next]_vars, LeasingStep
  PROVE  FloorStands' /\ [View!FNext]_View!fvars
<1>0. Accepted' = Accepted
  BY LeasingAcceptsNothing
<1>1. PICK l \in Lease : Leasing(l)
  BY DEF LeasingStep
<1>2. l # "NONE"
  BY PlaneAssumption
<1>3. ASSUME NEW s \in Session, LeaseOffered(l, s)
      PROVE  FloorStands' /\ [View!FNext]_View!fvars
  <2>1. /\ Current # 0 /\ Att.lease = "NONE" /\ job' = job
        /\ UpdateAttempt([lease |-> l])
    BY <1>3 DEF LeaseOffered
  <2>2. Current' = Current
    BY <2>1 DEF Current
  <2>3. /\ Att' = Set(Att, [lease |-> l]) /\ Len(attempts') = Len(attempts) /\ Att \in Attempt
    BY <2>1, <2>2, UpdatedAttempt
  <2>4. Att'.lease = l
    BY <2>3 DEF Attempt, Set
  <2>5. leases'[l].state = "OFFERED"
    BY <1>3, OfferedLease DEF Tables
  <2>6. Holder = 0 /\ Holder' = 0
    BY <2>1, <2>4, <2>5 DEF Holder, ActiveLease
  <2>7. FloorStands'
    BY <2>1, <2>3 DEF FloorStands
  <2>8. /\ Current = job.counter /\ job.floor = job.counter /\ job.counter # 0
        /\ Att.generation = job.counter
    BY <2>1, <2>2, UpdatedAttempt DEF FloorStands
  <2>9. job.counter \notin Generations(Present(leases))
    BY <1>2, <2>1, <2>8, PlaneAssumption DEF LeasesSound, Generations, Present, Tables, Att
  <2>10. /\ Generations(Present(leases))' = Generations(Present(leases)) \cup {job.counter}
         /\ Generations(ActiveLeases)' = Generations(ActiveLeases)
         /\ Generations(LateLeases)' = Generations(LateLeases)
         /\ Generations(HeardLeases)' = Generations(HeardLeases)
    <3>1. PICK q \in LeaseRecord : /\ leases' = [leases EXCEPT ![l] = q]
                                   /\ q.state = "OFFERED" /\ ~q.heard
                                   /\ q.generation = Att.generation
      BY <1>3, OfferedLease
    <3>2. leases[l].state = "NONE"
      BY <1>3 DEF LeaseOffered
    <3>3. /\ l \notin Present(leases) /\ l \notin ActiveLeases
          /\ l \notin LateLeases /\ l \notin HeardLeases
      BY <3>2 DEF Present, ActiveLeases, LateLeases, HeardLeases
    <3>4. /\ Present(leases)' = Present(leases) \cup {l} /\ ActiveLeases' = ActiveLeases
          /\ LateLeases' = LateLeases /\ HeardLeases' = HeardLeases
      <4>1. q.state # "NONE" /\ q.state # "ACTIVE"
        BY <3>1
      <4>. QED
        BY <3>1, <3>3, <4>1, LeaseSets
    <3>5. /\ leases'[l].generation = job.counter
          /\ \A k \in Lease \ {l} : leases'[k] = leases[k]
      BY <2>8, <3>1 DEF Tables
    <3>6. /\ Present(leases) \subseteq Lease \ {l} /\ ActiveLeases \subseteq Lease \ {l}
          /\ LateLeases \subseteq Lease \ {l} /\ HeardLeases \subseteq Lease \ {l}
      BY <3>3 DEF Present, ActiveLeases, LateLeases, HeardLeases, Tables
    <3>7. /\ Generations(ActiveLeases)' = Generations(ActiveLeases)
          /\ Generations(LateLeases)' = Generations(LateLeases)
          /\ Generations(HeardLeases)' = Generations(HeardLeases)
      BY <3>4, <3>5, <3>6 DEF Generations
    <3>8. Generations(Present(leases))' = Generations(Present(leases)) \cup {job.counter}
      BY <3>4, <3>5, <3>6 DEF Generations
    <3>. QED
      BY <3>7, <3>8
  <2>11. View!Offer
    BY <1>0, <2>1, <2>6, <2>8, <2>9, <2>10 DEF View!Offer
  <2>. QED
    BY <2>7, <2>11 DEF View!FNext
<1>4. CASE LeaseClaimed(l)
  <2>1. /\ Current # 0 /\ Att.lease = l /\ leases[l].state = "OFFERED" /\ job' = job
        /\ UpdateAttempt([state |-> "LEASED", fenced |-> TRUE])
    BY <1>4 DEF LeaseClaimed
  <2>2. Current' = Current
    BY <2>1 DEF Current
  <2>3. /\ Att' = Set(Att, [state |-> "LEASED", fenced |-> TRUE])
        /\ Len(attempts') = Len(attempts) /\ Att \in Attempt
        /\ Att.generation = Len(attempts) /\ job.counter = Len(attempts)
    BY <2>1, <2>2, UpdatedAttempt
  <2>4. Att'.lease = l /\ Att'.generation = Len(attempts)
    BY <2>1, <2>3 DEF Attempt, Set
  <2>5. leases'[l].state = "ACTIVE"
    BY <1>4, ClaimedLease DEF Tables
  <2>6. Holder = 0 /\ Holder' = job.counter
    BY <1>2, <2>1, <2>2, <2>3, <2>4, <2>5 DEF Holder, ActiveLease
  <2>7. job.floor = job.counter
    BY <2>1, <2>3 DEF FloorStands, Live
  <2>8. FloorStands'
    BY <2>1, <2>3, <2>7 DEF FloorStands
  <2>9. PICK q \in LeaseRecord : /\ leases' = [leases EXCEPT ![l] = q] /\ q.state = "ACTIVE"
                                 /\ q.late = leases[l].late /\ q.heard = leases[l].heard
                                 /\ q.generation = leases[l].generation
    BY <1>4, ClaimedLease DEF Bound
  <2>10. l \in Present(leases) /\ leases[l].generation = job.counter
    BY <1>4, <2>1, <2>3 DEF Present, Tables, LeasesSound, LeaseClaimed, JobSound
  <2>11. ~leases[l].late
    BY <1>4 DEF LeaseClaimed
  <2>12. l \notin ActiveLeases /\ l \notin LateLeases
    BY <2>1 DEF ActiveLeases, LateLeases
  <2>13. /\ Present(leases)' = Present(leases) /\ ActiveLeases' = ActiveLeases \cup {l}
         /\ LateLeases' = LateLeases /\ HeardLeases' = HeardLeases
    <3>1. /\ l \in HeardLeases <=> q.state # "NONE" /\ q.heard
          /\ l \in LateLeases <=> q.state = "ACTIVE" /\ q.late
          /\ q.state # "NONE"
      BY <2>9, <2>10, <2>11, <2>12 DEF HeardLeases
    <3>2. Present(leases) \cup {l} = Present(leases)
      BY <2>10
    <3>. QED
      BY <2>9, <3>1, <3>2, LeaseSets
  <2>14. /\ Generations(Present(leases))' = Generations(Present(leases))
         /\ Generations(ActiveLeases)' = Generations(ActiveLeases) \cup {job.counter}
         /\ Generations(LateLeases)' = Generations(LateLeases)
         /\ Generations(HeardLeases)' = Generations(HeardLeases)
         /\ job.counter \in Generations(Present(leases)) \ Generations(ActiveLeases)
    BY <2>9, <2>10, <2>12, <2>13, LeaseSubsets, Regenerations
  <2>15. View!Grant
    BY <1>0, <2>1, <2>6, <2>7, <2>14 DEF View!Grant
  <2>. QED
    BY <2>8, <2>15 DEF View!FNext
<1>5. ASSUME NEW ending \in LeaseTerminal, EndLease(l, ending)
      PROVE  FloorStands' /\ [View!FNext]_View!fvars
  <2>1. /\ Current # 0 /\ Att.lease = l /\ Live(l)
        /\ job' = [job EXCEPT !.floor = Att.generation + 1]
        /\ UpdateAttempt([leaseEnd |-> Att.generation + 1])
    BY <1>5 DEF EndLease
  <2>2. /\ Current' = Current /\ job'.counter = job.counter
        /\ job'.floor = Att.generation + 1
    BY <2>1 DEF Current, JobSound, Job
  <2>3. /\ Att' = Set(Att, [leaseEnd |-> Att.generation + 1])
        /\ Len(attempts') = Len(attempts) /\ Att \in Attempt
        /\ Att.generation = Len(attempts) /\ job.counter = Len(attempts)
    BY <2>1, <2>2, UpdatedAttempt
  <2>4. Att'.lease = l
    BY <2>1, <2>3 DEF Attempt, Set
  <2>5. leases'[l].state \in LeaseTerminal
    BY <1>5, EndedLease DEF Tables
  <2>6. Holder' = 0
    BY <1>2, <2>2, <2>4, <2>5 DEF Holder, ActiveLease, LeaseTerminal
  <2>7. job.floor = job.counter
    BY <2>1, <2>3 DEF FloorStands
  <2>8. FloorStands'
    BY <1>2, <2>4, <2>5 DEF FloorStands, Live, LeaseTerminal
  <2>9. PICK q \in LeaseRecord : /\ leases' = [leases EXCEPT ![l] = q] /\ q.state = ending
                                 /\ q.heard = leases[l].heard
                                 /\ q.generation = leases[l].generation
    BY <1>5, EndedLease DEF Bound
  <2>10. l \in Present(leases) /\ leases[l].generation = job.counter
    BY <1>5, <2>1, <2>3 DEF Present, Tables, LeasesSound, EndLease, Live, JobSound
  <2>11. ending \notin {"NONE", "ACTIVE"}
    BY DEF LeaseTerminal
  <2>12. /\ Present(leases)' = Present(leases) /\ ActiveLeases' = ActiveLeases \ {l}
         /\ LateLeases' = LateLeases \ {l} /\ HeardLeases' = HeardLeases
    <3>1. /\ l \in HeardLeases <=> q.state # "NONE" /\ q.heard
          /\ q.state # "NONE" /\ q.state # "ACTIVE"
      BY <2>9, <2>10, <2>11 DEF HeardLeases
    <3>2. Present(leases) \cup {l} = Present(leases)
      BY <2>10
    <3>. QED
      BY <2>9, <3>1, <3>2, LeaseSets
  <2>13. /\ Generations(Present(leases))' = Generations(Present(leases))
         /\ Generations(ActiveLeases)' = Generations(ActiveLeases) \ {job.counter}
         /\ Generations(LateLeases)' = Generations(LateLeases) \ {job.counter}
         /\ Generations(HeardLeases)' = Generations(HeardLeases)
         /\ job.counter \in Generations(Present(leases))
    BY <2>9, <2>10, <2>12, LeaseSubsets, Regenerations
  <2>14. View!Withdraw
    BY <1>0, <2>2, <2>3, <2>6, <2>7, <2>13 DEF View!Withdraw
  <2>. QED
    BY <2>8, <2>14 DEF View!FNext
<1>6. Withdrawing(l) => \E ending \in LeaseTerminal : EndLease(l, ending)
  BY DEF Withdrawing, LeaseReleased, LeaseExpired, LeaseRevoked, LeaseFenced, LeaseTerminal
<1>. QED
  BY <1>1, <1>3, <1>4, <1>5, <1>6 DEF Leasing

(* The allocation of an Attempt issues its generation.                     *)
LEMMA AllocationIssues ==
  ASSUME AttemptsSound, JobSound, [Next]_vars, JobAttemptAllocated
  PROVE  FloorStands' /\ [View!FNext]_View!fvars
<1>1. /\ Current = 0
      /\ job' = Set(job, [state |-> "ACTIVE", current |-> Len(attempts) + 1,
                          counter |-> job.counter + 1, floor |-> job.counter + 1,
                          reserved |-> job.reserved + Reservation])
  BY DEF JobAttemptAllocated
<1>2. /\ job'.counter = job.counter + 1 /\ job'.floor = job.counter + 1
      /\ job'.current = Len(attempts) + 1
  BY <1>1 DEF JobSound, Job, Set
<1>3. PICK a : attempts' = Append(attempts, a) /\ a.lease = "NONE" /\ a.result = "NONE"
  BY NewSound
<1>4. /\ Len(attempts') = Len(attempts) + 1 /\ attempts'[Len(attempts) + 1] = a
      /\ job.counter = Len(attempts)
  BY <1>3 DEF AttemptsSound, JobSound
<1>5. Att' = a /\ Holder = 0 /\ Holder' = 0
  BY <1>1, <1>2, <1>3, <1>4 DEF Att, Current, Holder, ActiveLease
<1>6. FloorStands'
  BY <1>2, <1>4 DEF FloorStands
<1>7. Accepted' = Accepted
  <2>1. ~ResultAccepted
    BY <1>1 DEF ResultAccepted, ActiveLease
  <2>. QED
    BY <2>1, AcceptedKept
<1>8. UNCHANGED Leases
  BY Frames, SameLeases
<1>9. View!Issue
  BY <1>2, <1>5, <1>7, <1>8 DEF View!Issue, Leases
<1>. QED
  BY <1>6, <1>9 DEF View!FNext

(* The evaluation of an Attempt abandons what authority it still has.      *)
LEMMA EvaluationAbandons ==
  ASSUME AttemptsSound, JobSound, [Next]_vars, AttemptAssuranceEvaluated
  PROVE  FloorStands' /\ [View!FNext]_View!fvars
<1>1. /\ Current # 0 /\ Att.state \in AttemptTerminal
      /\ job' = [job EXCEPT !.current = 0, !.summaries = Append(@, Current)]
  BY DEF AttemptAssuranceEvaluated, Settling
<1>2. job'.current = 0 /\ job'.counter = job.counter /\ job'.floor = job.floor
  BY <1>1 DEF JobSound, Job
<1>3. FloorStands' /\ Holder' = 0
  BY <1>2 DEF FloorStands, Holder, ActiveLease, Current
<1>4. Accepted' = Accepted
  <2>1. ~ResultAccepted
    BY <1>1 DEF ResultAccepted, ActiveLease, AttemptTerminal
  <2>. QED
    BY <2>1, AcceptedKept
<1>5. UNCHANGED Leases
  BY Frames, SameLeases DEF SettlingStep
<1>6. CASE Holder = 0
  BY <1>2, <1>3, <1>4, <1>5, <1>6 DEF View!fvars, Leases
<1>7. CASE Holder # 0
  BY <1>2, <1>3, <1>4, <1>5, <1>7 DEF View!Abandon, View!FNext, Leases
<1>. QED
  BY <1>3, <1>6, <1>7

(* Only an allocation or an evaluation changes which Attempt is current,   *)
(* and only an end of a Lease or an allocation raises the floor.           *)
LEMMA CurrentKept ==
  ASSUME AttemptsSound, JobSound, [Next]_vars,
         ~JobAttemptAllocated, ~AttemptAssuranceEvaluated
  PROVE  /\ Current' = Current
         /\ LeasingStep \/ (job'.floor = job.floor /\ job'.counter = job.counter)
<1>1. CASE JobStep \/ StopStep
  <2>1. CASE JobSubmitted
    BY <2>1 DEF JobSubmitted, Empty, JobSound, NoJob, Current
  <2>2. job' = job \/ JobSubmitted \/ (\E x : job' = [job EXCEPT !.state = x])
          \/ (\E x : job' = [job EXCEPT !.assurance = x])
          \/ \E x, y : job' = [job EXCEPT !.state = x, !.stopped = y]
    BY <1>1 DEF JobStep, StopStep, JobQueued, JobAssuranceEvaluated, JobEnded, Requeued,
         StopLatched, StopAfterLeaseExpiry
  <2>. QED
    BY <2>1, <2>2 DEF JobSound, Job, Current
<1>2. CASE JobBudgetSettled
  BY <1>2 DEF JobBudgetSettled, JobSound, Job, Current
<1>3. CASE LeasingStep
  <2>1. PICK l \in Lease : Leasing(l)
    BY <1>3 DEF LeasingStep
  <2>2. job' = job \/ \E x : job' = [job EXCEPT !.floor = x]
    BY <2>1 DEF Leasing, Withdrawing, LeaseOffered, LeaseClaimed, LeaseReleased,
       LeaseExpired, LeaseRevoked, LeaseFenced, EndLease
  <2>. QED
    BY <1>3, <2>2 DEF JobSound, Job, Current
<1>. QED
  BY <1>1, <1>2, <1>3, Steps, Frames DEF SettlingStep, Current

(* Every step is a step of the promise, or none.                           *)
LEMMA StepFences ==
  ASSUME Tables, AttemptsSound, JobSound, LeasesSound, FloorStands, [Next]_vars
  PROVE  FloorStands' /\ [View!FNext]_View!fvars
<1>1. CASE LeasingStep
  BY <1>1, LeasingFences
<1>2. CASE JobAttemptAllocated
  BY <1>2, AllocationIssues
<1>3. CASE AttemptAssuranceEvaluated
  BY <1>3, EvaluationAbandons
<1>4. CASE TimingStep /\ leases' # leases
  BY <1>4, TimingFences
<1>5. CASE ~LeasingStep /\ ~JobAttemptAllocated /\ ~AttemptAssuranceEvaluated /\ leases' = leases
  <2>1. \A l \in Lease, s \in Session : ~LeaseOffered(l, s)
    BY <1>5 DEF LeasingStep, Leasing
  <2>2. job'.current = job.current /\ job'.floor = job.floor /\ job'.counter = job.counter
    BY <1>5, CurrentKept DEF Current
  <2>. QED
    BY <1>5, <2>1, <2>2, HolderStays
<1>6. LeasingStep \/ TimingStep \/ leases' = leases
  BY Steps, Frames
<1>. QED
  BY <1>1, <1>2, <1>3, <1>4, <1>5, <1>6

-----------------------------------------------------------------------------
(* The invariant: what the proofs above keep together.                     *)
PlaneInv ==
  /\ AttemptsSound /\ JobSound /\ Tables /\ Valid /\ NewSessionsFree
  /\ LeasesAreTimed /\ LeasesSound /\ FloorStands

(* The initial State satisfies the invariant.                              *)
LEMMA InitPlane == PInit => PlaneInv
<1>. SUFFICES ASSUME PInit PROVE PlaneInv
  OBVIOUS
<1>1. Present(workers) = {} /\ Present(sessions) = {} /\ Present(leases) = {}
  BY DEF PInit, Present, NoWorker, NoSession, NoLease
<1>2. Valid
  BY <1>1 DEF PInit, Valid, Recovering
<1>3. NewSessionsFree
  BY DEF PInit, NewSessionsFree, NoSession
<1>4. LeasesAreTimed
  BY <1>1 DEF LeasesAreTimed
<1>5. LeasesSound
  BY <1>1 DEF LeasesSound
<1>6. FloorStands
  BY DEF PInit, FloorStands, Current, NoJob
<1>. QED
  BY <1>2, <1>3, <1>4, <1>5, <1>6, InitSound DEF PlaneInv

(* Every State is valid: no reducer returns one that is not.               *)
LEMMA StepPlane ==
  ASSUME PlaneInv, [Next]_vars
  PROVE  PlaneInv'
<1>1. Valid'
  <2>1. CASE UNCHANGED vars
    BY <2>1 DEF PlaneInv, Valid, Recovering, Present, vars
  <2>. QED
    BY <2>1 DEF Next
<1>. QED
  BY <1>1, StepAttempts, StepJob, StepTables, StepNewSessionsFree, StepTimed, StepLeases,
     StepFences DEF PlaneInv

(* The invariant holds of every State of the replay.                       *)
THEOREM PlaneInvariance == Spec => []PlaneInv
  BY InitPlane, StepPlane, PTL DEF Spec

(* No authority without an end: an offered Lease is always due to be       *)
(* claimed and an active one to expire.                                    *)
THEOREM LeasesTimed == Spec => []LeasesAreTimed
<1>1. PlaneInv => LeasesAreTimed
  BY DEF PlaneInv
<1>. QED
  BY <1>1, PlaneInvariance, PTL

(* Authority is fenced, with any number of retries, Leases and Sessions:   *)
(* every event is a step of Fencing, whose Leases that ended are neither   *)
(* heard of nor extended, while one that its Attempt left active still is, *)
(* below the floor, until another Lease is offered.                        *)
THEOREM FencingImplemented == Spec => ImplementsFencing
<1>1. PInit => F!FInit
  <2>. SUFFICES ASSUME PInit PROVE F!FInit
    OBVIOUS
  <2>1. Present(leases) = {} /\ ActiveLeases = {}
    BY DEF PInit, Present, ActiveLeases, NoLease
  <2>. QED
    BY <2>1 DEF PInit, F!FInit, Generations, ActiveLease, Current, NoJob
<1>2. ASSUME PlaneInv, PlaneInv', [Next]_vars
      PROVE  [F!FNext]_F!fvars
  <2>1. [View!FNext]_View!fvars
    BY <1>2, StepFences DEF PlaneInv
  <2>2. AttemptsSound /\ AttemptsSound'
    BY <1>2 DEF PlaneInv
  <2>. DEFINE A == {attempts[n].generation :
                      n \in {m \in DOMAIN attempts : attempts[m].result = "ACCEPTED"}}
  <2>3. A = Accepted
    BY <2>2, AcceptedGenerations
  <2>4. A' = Accepted'
    BY <2>2 DEF AttemptsSound, Sound, Accepted
  <2>. HIDE DEF A
  <2>. QED
    BY <2>1, <2>3, <2>4 DEF A, Holder, LateLeases, HeardLeases,
       View!FNext, View!fvars, View!Issue, View!Offer, View!Grant, View!Withdraw,
       View!Abandon, View!Expire, View!Extend, View!Hear, View!Accept,
       F!FNext, F!fvars, F!Issue, F!Offer, F!Grant, F!Withdraw,
       F!Abandon, F!Expire, F!Extend, F!Hear, F!Accept
<1>. QED
  BY <1>1, <1>2, PlaneInvariance, PTL DEF Spec, ImplementsFencing, F!FSpec

-----------------------------------------------------------------------------
(* Slots: the active Leases of a Session, whether it is in the State or not. *)
ActiveOf(s) == {l \in Lease : leases[l].state = "ACTIVE" /\ leases[l].session = s}

SlotsCounted ==
  \A s \in Session :
    /\ IsFiniteSet(ActiveOf(s))
    /\ sessions[s].state # "NONE" => sessions[s].inUse = Cardinality(ActiveOf(s))

(* A Session that is not in the State has no active Lease.                 *)
LEMMA AbsentFree ==
  ASSUME Tables, Valid, NEW s \in Session, sessions[s].state = "NONE"
  PROVE  ActiveOf(s) = {}
<1>1. SUFFICES ASSUME NEW l \in Lease, leases[l].state = "ACTIVE", leases[l].session = s
               PROVE  FALSE
  BY DEF ActiveOf
<1>. QED
  BY <1>1, LiveSession DEF Live

(* The other Sessions keep their slots when one Lease of s changes.        *)
LEMMA OtherSlots ==
  ASSUME Tables, SlotsCounted, NEW s \in Session, NEW r \in SessionRecord, SessionTo(s, r),
         \A t \in Session : t # s => ActiveOf(t)' = ActiveOf(t),
         IsFiniteSet(ActiveOf(s)'),
         r.state # "NONE" => r.inUse = Cardinality(ActiveOf(s)')
  PROVE  SlotsCounted'
<1>1. /\ sessions'[s] = r
      /\ \A t \in Session : t # s => sessions'[t] \in {sessions[t], NoSession}
  BY SessionTable
<1>2. NoSession.state = "NONE"
  BY DEF NoSession
<1>3. \A t \in Session : /\ IsFiniteSet(ActiveOf(t)')
                         /\ sessions'[t].state # "NONE" =>
                              sessions'[t].inUse = Cardinality(ActiveOf(t)')
  BY <1>1, <1>2 DEF SlotsCounted
<1>. QED
  BY <1>3 DEF SlotsCounted

(* Every step keeps the slots counted.                                     *)
LEMMA StepSlots ==
  ASSUME Tables, AttemptsSound, JobSound, Valid, SlotsCounted, [Next]_vars
  PROVE  SlotsCounted'
<1>1. ASSUME NEW s \in Session, NEW r \in SessionRecord, SessionTo(s, r), SessionMoves(s, r)
      PROVE  SlotsCounted'
  <2>1. CASE /\ leases' = leases /\ sessions[s].state = "NONE" /\ r.inUse = 0
    <3>1. \A t \in Session : ActiveOf(t)' = ActiveOf(t)
      BY <2>1 DEF ActiveOf
    <3>2. ActiveOf(s)' = {}
      BY <2>1, <3>1, AbsentFree
    <3>. QED
      BY <1>1, <2>1, <3>1, <3>2, OtherSlots, FS_EmptySet
  <2>2. CASE /\ leases' = leases /\ sessions[s].state # "NONE" /\ r.inUse = sessions[s].inUse
    <3>1. \A t \in Session : ActiveOf(t)' = ActiveOf(t)
      BY <2>2 DEF ActiveOf
    <3>. QED
      BY <1>1, <2>2, <3>1, OtherSlots DEF SlotsCounted
  <2>3. ASSUME NEW l \in Lease, LeaseOffered(l, s), r.inUse = sessions[s].inUse
        PROVE  SlotsCounted'
    <3>1. PICK q \in LeaseRecord : leases' = [leases EXCEPT ![l] = q] /\ q.state = "OFFERED"
      BY <2>3, OfferedLease
    <3>2. leases[l].state = "NONE" /\ sessions[s].state # "NONE"
      BY <2>3 DEF LeaseOffered
    <3>3. \A t \in Session : ActiveOf(t)' = ActiveOf(t)
      BY <3>1, <3>2 DEF ActiveOf, Tables
    <3>. QED
      BY <1>1, <2>3, <3>2, <3>3, OtherSlots DEF SlotsCounted
  <2>4. ASSUME NEW l \in Lease, LeaseClaimed(l), s = leases[l].session,
               r.inUse = sessions[s].inUse + 1
        PROVE  SlotsCounted'
    <3>1. PICK q \in LeaseRecord : /\ leases' = [leases EXCEPT ![l] = q] /\ q.state = "ACTIVE"
                                  /\ q.session = s
      BY <2>4, ClaimedLease DEF Bound
    <3>2. leases[l].state = "OFFERED" /\ sessions[s].state # "NONE"
      BY <2>4 DEF LeaseClaimed
    <3>3. \A t \in Session : t # s => ActiveOf(t)' = ActiveOf(t)
      BY <3>1, <3>2 DEF ActiveOf, Tables
    <3>4. ActiveOf(s)' = ActiveOf(s) \cup {l} /\ l \notin ActiveOf(s)
      BY <3>1, <3>2 DEF ActiveOf, Tables
    <3>5. IsFiniteSet(ActiveOf(s)) /\ sessions[s].inUse = Cardinality(ActiveOf(s))
      BY <3>2 DEF SlotsCounted
    <3>6. /\ IsFiniteSet(ActiveOf(s)')
          /\ Cardinality(ActiveOf(s)') = Cardinality(ActiveOf(s)) + 1
      BY <3>4, <3>5, FS_AddElement
    <3>. QED
      BY <1>1, <2>4, <3>3, <3>5, <3>6, OtherSlots
  <2>5. ASSUME NEW l \in Lease, NEW ending \in LeaseTerminal, EndLease(l, ending),
               s = leases[l].session, r.inUse = InUseWithout(l)
        PROVE  SlotsCounted'
    <3>1. PICK q \in LeaseRecord : /\ leases' = [leases EXCEPT ![l] = q]
                                  /\ q.state = ending /\ q.session = s
      BY <2>5, EndedLease DEF Bound
    <3>2. Live(l) /\ sessions[s].state # "NONE" /\ ending # "ACTIVE"
      BY <2>5, LiveSession DEF EndLease, LeaseTerminal
    <3>3. \A t \in Session : t # s => ActiveOf(t)' = ActiveOf(t)
      BY <2>5, <3>1 DEF ActiveOf, Tables
    <3>4. ActiveOf(s)' = ActiveOf(s) \ {l}
      BY <3>1, <3>2 DEF ActiveOf, Tables
    <3>5. IsFiniteSet(ActiveOf(s)) /\ sessions[s].inUse = Cardinality(ActiveOf(s))
      BY <3>2 DEF SlotsCounted
    <3>6. l \in ActiveOf(s) <=> leases[l].state = "ACTIVE"
      BY <2>5 DEF ActiveOf
    <3>7. /\ IsFiniteSet(ActiveOf(s)')
          /\ Cardinality(ActiveOf(s)') =
               IF l \in ActiveOf(s) THEN Cardinality(ActiveOf(s)) - 1 ELSE Cardinality(ActiveOf(s))
      BY <3>4, <3>5, FS_RemoveElement
    <3>8. r.inUse = Cardinality(ActiveOf(s)')
      BY <2>5, <3>5, <3>6, <3>7 DEF InUseWithout
    <3>. QED
      BY <1>1, <3>3, <3>7, <3>8, OtherSlots
  <2>. QED
    BY <1>1, <2>1, <2>2, <2>3, <2>4, <2>5 DEF SessionMoves
<1>2. CASE LeasingStep
  BY <1>1, <1>2, LeasingSessions
<1>3. CASE ~LeasingStep /\ UNCHANGED sessions
  <2>1. \A l \in Lease : /\ leases'[l].state = leases[l].state
                         /\ leases'[l].session = leases[l].session
    <3>1. CASE TimingStep
      <4>1. PICK l \in Lease : LeaseLate(l) \/ LeaseRenewed(l) \/ LeaseHeartbeat(l)
        BY <3>1 DEF TimingStep
      <4>. QED
        BY <4>1, TimedLease DEF Tables, Retimed, Overheard, Bound
    <3>. QED
      BY <1>3, <3>1, Steps, Frames
  <2>2. \A s \in Session : ActiveOf(s)' = ActiveOf(s)
    BY <2>1 DEF ActiveOf
  <2>. QED
    BY <1>3, <2>2 DEF SlotsCounted
<1>. QED
  BY <1>1, <1>2, <1>3, EverySession

(* A Session's slots in use are exactly its active Leases, for any         *)
(* capacity and any number of Sessions and Leases.                         *)
THEOREM SlotsAreCounted == Spec => []CapacityCounted
<1>1. PInit => SlotsCounted
  <2>. SUFFICES ASSUME PInit, NEW s \in Session
                PROVE  IsFiniteSet(ActiveOf(s)) /\ sessions[s].state = "NONE"
    BY DEF SlotsCounted
  <2>1. ActiveOf(s) = {}
    BY DEF PInit, ActiveOf, NoLease
  <2>. QED
    BY <2>1, FS_EmptySet DEF PInit, NoSession
<1>2. PlaneInv /\ SlotsCounted /\ [Next]_vars => SlotsCounted'
  BY StepSlots DEF PlaneInv
<1>3. PlaneInv /\ SlotsCounted => CapacityCounted
  <2>. SUFFICES ASSUME PlaneInv, SlotsCounted, NEW s \in Present(sessions)
                PROVE  sessions[s].inUse =
                         Cardinality({l \in LeasesOf(s) : leases[l].state = "ACTIVE"})
    BY DEF CapacityCounted
  <2>1. s \in Session /\ sessions[s].state # "NONE"
    BY DEF PlaneInv, Tables, Present
  <2>2. {l \in LeasesOf(s) : leases[l].state = "ACTIVE"} = ActiveOf(s)
    BY DEF PlaneInv, Tables, Present, LeasesOf, ActiveOf
  <2>. QED
    BY <2>1, <2>2 DEF SlotsCounted
<1>. QED
  BY <1>1, <1>2, <1>3, PlaneInvariance, PTL DEF Spec

-----------------------------------------------------------------------------
(* Accounts: every Attempt but the current one is assured, hence settled.  *)
Assured == \A n \in DOMAIN attempts : n # Current => attempts[n].assurance # "PENDING"

(* An Attempt stops being current when it is assured.                      *)
LEMMA StepAssured ==
  ASSUME AttemptsSound, JobSound, Assured, [Next]_vars
  PROVE  Assured'
<1>0. /\ Current # 0 => Current \in DOMAIN attempts /\ Current = Len(attempts)
      /\ DOMAIN attempts = 1 .. Len(attempts) /\ Len(attempts) \in Nat
  BY DEF AttemptsSound, JobSound
<1>1. CASE JobAttemptAllocated
  <2>1. PICK a : attempts' = Append(attempts, a) /\ Sound(Len(attempts) + 1, a)
    BY <1>1, NewSound
  <2>2. /\ Current = 0
        /\ job' = Set(job, [state |-> "ACTIVE", current |-> Len(attempts) + 1,
                            counter |-> job.counter + 1, floor |-> job.counter + 1,
                            reserved |-> job.reserved + Reservation])
    BY <1>1 DEF JobAttemptAllocated
  <2>3. Current' = Len(attempts) + 1
    BY <2>2 DEF JobSound, Job, Set, Current
  <2>4. /\ DOMAIN attempts' = 1 .. Len(attempts) + 1
        /\ \A n \in DOMAIN attempts : attempts'[n] = attempts[n]
    BY <2>1 DEF AttemptsSound
  <2>. QED
    BY <1>0, <2>2, <2>3, <2>4 DEF Assured
<1>2. CASE AttemptAssuranceEvaluated
  <2>1. PICK evaluation \in {"CLAIMED", "UNMET"} :
          attempts' = [attempts EXCEPT ![Current] = Set(Att, [assurance |-> evaluation])]
    BY <1>2 DEF AttemptAssuranceEvaluated, UpdateAttempt, Att
  <2>2. Current \in DOMAIN attempts /\ Att \in Attempt
    BY <1>0, <1>2 DEF AttemptAssuranceEvaluated, Settling, AttemptsSound, Sound, Att
  <2>3. Set(Att, [assurance |-> evaluation]).assurance = evaluation
    BY <2>2 DEF Set, Attempt
  <2>4. \A n \in DOMAIN attempts' : attempts'[n].assurance # "PENDING"
    BY <2>1, <2>2, <2>3 DEF Assured, AttemptsSound
  <2>. QED
    BY <2>4 DEF Assured
<1>3. CASE ~JobAttemptAllocated /\ ~AttemptAssuranceEvaluated
  <2>1. Current' = Current
    BY <1>3, CurrentKept
  <2>2. DOMAIN attempts' = DOMAIN attempts
    BY <1>3, NumberKept
  <2>3. \A n \in DOMAIN attempts : attempts'[n].assurance = attempts[n].assurance
    <3>1. ASSUME NEW n \in DOMAIN attempts, NEW b, Changes(n, b)
          PROVE  \A m \in DOMAIN attempts : attempts'[m].assurance = attempts[m].assurance
      BY <1>3, <3>1 DEF Changes, AttemptsSound
    <3>. QED
      BY <1>3, <3>1, EveryStep
  <2>. QED
    BY <2>1, <2>2, <2>3 DEF Assured
<1>. QED
  BY <1>1, <1>2, <1>3

(* The ledger, by whether the current Attempt is settled.                  *)
Held == IF Current # 0 /\ ~Att.settled THEN 1 ELSE 0

Ledger ==
  /\ job.reserved = Reservation * Held
  /\ job.consumed = Reservation * (Len(attempts) - Held)
  /\ job.reserved + job.consumed <= Limit

(* Only an allocation and a settlement touch the budget.                   *)
LEMMA BudgetKept ==
  ASSUME AttemptsSound, JobSound, Ledger, [Next]_vars, ~JobAttemptAllocated, ~JobBudgetSettled
  PROVE  job'.reserved = job.reserved /\ job'.consumed = job.consumed
<1>1. CASE JobSubmitted
  <2>1. Current = 0 /\ attempts = << >> /\ job' = [NoJob EXCEPT !.state = "SUBMITTED"]
    BY <1>1 DEF JobSubmitted, Empty, JobSound
  <2>2. Held = 0 /\ Len(attempts) = 0
    BY <2>1 DEF Held
  <2>3. job.reserved = 0 /\ job.consumed = 0
    BY <2>2, PlaneAssumption DEF Ledger
  <2>. QED
    BY <2>1, <2>3 DEF NoJob
<1>2. CASE JobStep \/ StopStep
  <2>1. job' = job \/ JobSubmitted \/ (\E x : job' = [job EXCEPT !.state = x])
          \/ (\E x : job' = [job EXCEPT !.assurance = x])
          \/ \E x, y : job' = [job EXCEPT !.state = x, !.stopped = y]
    BY <1>2 DEF JobStep, StopStep, JobQueued, JobAssuranceEvaluated, JobEnded, Requeued,
         StopLatched, StopAfterLeaseExpiry
  <2>. QED
    BY <1>1, <2>1 DEF JobSound, Job
<1>3. CASE AttemptAssuranceEvaluated
  BY <1>3 DEF AttemptAssuranceEvaluated, JobSound, Job
<1>4. CASE LeasingStep
  <2>1. PICK l \in Lease : Leasing(l)
    BY <1>4 DEF LeasingStep
  <2>2. job' = job \/ \E x : job' = [job EXCEPT !.floor = x]
    BY <2>1 DEF Leasing, Withdrawing, LeaseOffered, LeaseClaimed, LeaseReleased,
       LeaseExpired, LeaseRevoked, LeaseFenced, EndLease
  <2>. QED
    BY <2>2 DEF JobSound, Job
<1>. QED
  BY <1>2, <1>3, <1>4, Steps, Frames DEF SettlingStep

(* Every step keeps the ledger balanced.                                   *)
LEMMA StepLedger ==
  ASSUME AttemptsSound, JobSound, Ledger, [Next]_vars
  PROVE  Ledger'
<1>0. /\ Current # 0 => /\ Current \in DOMAIN attempts /\ Current = Len(attempts)
                        /\ Att \in Attempt
      /\ Len(attempts) \in Nat /\ Reservation \in Nat
  BY PlaneAssumption DEF AttemptsSound, JobSound, Sound, Att
<1>1. CASE JobAttemptAllocated
  <2>1. PICK a : attempts' = Append(attempts, a) /\ ~a.settled
    BY <1>1, NewSound
  <2>2. /\ Current = 0 /\ job.reserved + Reservation + job.consumed <= Limit
        /\ job' = Set(job, [state |-> "ACTIVE", current |-> Len(attempts) + 1,
                            counter |-> job.counter + 1, floor |-> job.counter + 1,
                            reserved |-> job.reserved + Reservation])
    BY <1>1 DEF JobAttemptAllocated
  <2>3. /\ job'.current = Len(attempts) + 1 /\ job'.reserved = job.reserved + Reservation
        /\ job'.consumed = job.consumed
    BY <2>2 DEF JobSound, Job, Set
  <2>4. Len(attempts') = Len(attempts) + 1 /\ attempts'[Len(attempts) + 1] = a
    BY <2>1 DEF AttemptsSound
  <2>5. Held = 0 /\ Held' = 1
    BY <1>0, <2>1, <2>2, <2>3, <2>4 DEF Held, Current, Att
  <2>6. job.reserved = 0 /\ job.consumed = Reservation * Len(attempts)
    BY <1>0, <2>5 DEF Ledger
  <2>7. /\ job'.reserved = Reservation /\ job'.consumed = Reservation * Len(attempts)
        /\ job'.reserved + job'.consumed <= Limit
    BY <1>0, <2>2, <2>3, <2>6
  <2>8. Len(attempts') - Held' = Len(attempts) /\ Reservation * Held' = Reservation
    BY <1>0, <2>4, <2>5
  <2>. QED
    BY <2>7, <2>8 DEF Ledger
<1>2. CASE JobBudgetSettled
  <2>1. /\ Current # 0 /\ ~Att.settled /\ UpdateAttempt([settled |-> TRUE])
        /\ job' = [job EXCEPT !.reserved = @ - Reservation, !.consumed = @ + Reservation]
    BY <1>2 DEF JobBudgetSettled, Settling
  <2>2. /\ job'.reserved = job.reserved - Reservation
        /\ job'.consumed = job.consumed + Reservation
        /\ Current' = Current
    BY <2>1 DEF JobSound, Job, Current
  <2>3. Att' = Set(Att, [settled |-> TRUE]) /\ Len(attempts') = Len(attempts)
    BY <2>1, <2>2, UpdatedAttempt
  <2>4. Att'.settled
    BY <1>0, <2>1, <2>3, FlagsTyped
  <2>5. Held = 1 /\ Held' = 0
    BY <2>1, <2>4 DEF Held
  <2>6. job.reserved = Reservation /\ job.consumed = Reservation * (Len(attempts) - 1)
    BY <1>0, <2>5 DEF Ledger
  <2>7. Reservation * (Len(attempts) - 1) + Reservation = Reservation * Len(attempts)
    BY <1>0
  <2>8. job'.reserved = 0 /\ job'.consumed = Reservation * Len(attempts)
    BY <1>0, <2>2, <2>6, <2>7
  <2>9. job'.reserved + job'.consumed <= Limit
    <3>1. job.reserved + job.consumed <= Limit
      BY DEF Ledger
    <3>. QED
      BY <1>0, <2>6, <2>7, <2>8, <3>1
  <2>. QED
    BY <1>0, <2>3, <2>5, <2>8, <2>9 DEF Ledger
<1>3. CASE AttemptAssuranceEvaluated
  <2>1. /\ Current # 0 /\ Att.settled
        /\ job' = [job EXCEPT !.current = 0, !.summaries = Append(@, Current)]
    BY <1>3 DEF AttemptAssuranceEvaluated, Settling
  <2>2. Current' = 0 /\ ~JobAttemptAllocated
    BY <2>1 DEF JobSound, Job, Current, JobAttemptAllocated
  <2>3. Held = 0 /\ Held' = 0
    BY <2>1, <2>2 DEF Held
  <2>4. job'.reserved = job.reserved /\ job'.consumed = job.consumed
    BY <2>1 DEF JobSound, Job
  <2>5. Len(attempts') = Len(attempts)
    BY <2>2, NumberKept
  <2>. QED
    BY <2>3, <2>4, <2>5 DEF Ledger
<1>4. CASE ~JobAttemptAllocated /\ ~JobBudgetSettled /\ ~AttemptAssuranceEvaluated
  <2>1. /\ job'.reserved = job.reserved /\ job'.consumed = job.consumed
        /\ Len(attempts') = Len(attempts) /\ Current' = Current
    BY <1>4, BudgetKept, NumberKept, CurrentKept
  <2>2. \A n \in DOMAIN attempts : attempts'[n].settled = attempts[n].settled
    <3>1. ASSUME NEW n \in DOMAIN attempts, NEW b, Changes(n, b)
          PROVE  \A m \in DOMAIN attempts : attempts'[m].settled = attempts[m].settled
      BY <1>4, <3>1 DEF Changes, AttemptsSound
    <3>. QED
      BY <1>4, <3>1, EveryStep
  <2>3. Held' = Held
    BY <1>0, <2>1, <2>2 DEF Held, Att
  <2>. QED
    BY <2>1, <2>3 DEF Ledger
<1>. QED
  BY <1>1, <1>2, <1>3, <1>4

(* The invariant of the accounts.                                          *)
THEOREM Accounts == Spec => [](PlaneInv /\ Assured /\ Ledger)
<1>1. PInit => Assured /\ Ledger
  <2>. SUFFICES ASSUME PInit PROVE Assured /\ Ledger
    OBVIOUS
  <2>1. attempts = << >> /\ Current = 0 /\ job = NoJob
    BY DEF PInit, Current, NoJob
  <2>2. Held = 0 /\ Len(attempts) = 0
    BY <2>1 DEF Held
  <2>. QED
    BY <2>1, <2>2, PlaneAssumption DEF Assured, Ledger, NoJob
<1>2. PlaneInv /\ Assured /\ Ledger /\ [Next]_vars => (Assured /\ Ledger)'
  BY StepAssured, StepLedger DEF PlaneInv
<1>. QED
  BY <1>1, <1>2, PlaneInvariance, PTL DEF Spec

(* The ledger is the sum of what its Attempts did to it, however many      *)
(* there were and whatever each reserved.                                  *)
THEOREM LedgerOfAttempts == Spec => []LedgerBalances
<1>1. ASSUME PlaneInv, Assured, Ledger
      PROVE  LedgerBalances
  <2>. DEFINE Unsettled == {n \in DOMAIN attempts : ~attempts[n].settled}
  <2>1. /\ AttemptsSound /\ JobSound
        /\ Current # 0 => Current \in DOMAIN attempts
        /\ 0 \notin DOMAIN attempts
    BY <1>1 DEF PlaneInv, AttemptsSound, JobSound
  <2>2. \A n \in DOMAIN attempts : n # Current => attempts[n].settled
    BY <1>1, <2>1 DEF Assured, AttemptsSound, Sound
  <2>3. CASE Held = 1
    <3>1. Unsettled = {Current}
      BY <2>1, <2>2, <2>3 DEF Held, Att
    <3>2. Cardinality(Unsettled) = 1
      BY <3>1, FS_Singleton
    <3>. QED
      BY <1>1, <2>3, <3>2 DEF Ledger, LedgerBalances
  <2>4. CASE Held = 0
    <3>1. Unsettled = {}
      BY <2>1, <2>2, <2>4 DEF Held, Att
    <3>2. Cardinality(Unsettled) = 0
      BY <3>1, FS_EmptySet
    <3>. QED
      BY <1>1, <2>4, <3>2 DEF Ledger, LedgerBalances
  <2>. QED
    BY <2>3, <2>4 DEF Held
<1>. QED
  BY <1>1, Accounts, PTL

-----------------------------------------------------------------------------
(* Ends: what the Job's judgement rests on.                                *)
Last == attempts[Len(attempts)]

Judged ==
  /\ job.state \in {"NONE", "SUBMITTED", "QUEUED", "ACTIVE"} => ~job.stopped
  /\ job.state \in JobTerminal => Current = 0
  /\ job.assurance # "PENDING" =>
       /\ Current = 0 /\ job.state \in {"ACTIVE", "STOPPING"} \cup JobTerminal
       /\ job.assurance # "NOT_APPLICABLE" =>
            attempts # << >> /\ Last.assurance = job.assurance
  /\ job.state = "SUCCEEDED" =>
       /\ ~job.stopped /\ attempts # << >> /\ job.assurance = "CLAIMED"
       /\ Last.state = "SUCCEEDED" /\ Last.anchor # "NOT_ESTABLISHED"
       /\ Last.source # "QUARANTINED"

(* While an Attempt is current nothing is judged.                          *)
LEMMA NotYetJudged ==
  ASSUME JobSound, Judged, Current # 0,
         job'.state = job.state, job'.stopped = job.stopped, job'.assurance = job.assurance
  PROVE  Judged'
<1>1. job.assurance = "PENDING" /\ job.state \notin JobTerminal
  BY DEF Judged
<1>. QED
  BY <1>1 DEF Judged, JobTerminal

(* Every step keeps the judgement where it rests.                          *)
LEMMA StepJudged ==
  ASSUME AttemptsSound, JobSound, Judged, [Next]_vars
  PROVE  Judged'
<1>0. job \in Job /\ Len(attempts) \in Nat
  BY DEF AttemptsSound, JobSound
<1>1. CASE UNCHANGED <<job, attempts>>
  BY <1>1 DEF Judged, Last, Current
<1>2. CASE AttemptStep \/ SettlingStep \/ LeasingStep
  <2>1. Current # 0
    BY <1>2 DEF AttemptStep, Working, AuthorizationBound, PreflightStarted, PreflightPassed,
         AttemptStarting, AttemptRunning, ResultIngressReceived, ResultRejected,
         AttemptDraining, AttemptCleaning, CaptureAccounting, ResultAccepted,
         AttemptTerminated, ActiveLease, SettlingStep, JobBudgetSettled,
         AttemptAssuranceEvaluated, Settling, LeasingStep, Leasing, Withdrawing,
         LeaseOffered, LeaseClaimed, LeaseReleased, LeaseExpired, LeaseRevoked, LeaseFenced,
         EndLease
  <2>2. \/ job' = job \/ (\E x : job' = [job EXCEPT !.floor = x])
        \/ (\E x, y : job' = [job EXCEPT !.reserved = x, !.consumed = y])
        \/ \E x, y : job' = [job EXCEPT !.current = x, !.summaries = y]
    BY <1>2, Frames DEF SettlingStep, JobBudgetSettled, AttemptAssuranceEvaluated,
         LeasingStep, Leasing, Withdrawing, LeaseOffered, LeaseClaimed, LeaseReleased,
         LeaseExpired, LeaseRevoked, LeaseFenced, EndLease
  <2>3. job'.state = job.state /\ job'.stopped = job.stopped /\ job'.assurance = job.assurance
    BY <1>0, <2>2 DEF Job
  <2>. QED
    BY <2>1, <2>3, NotYetJudged
<1>3. CASE JobAttemptAllocated
  <2>1. /\ job.state = "QUEUED"
        /\ job' = Set(job, [state |-> "ACTIVE", current |-> Len(attempts) + 1,
                            counter |-> job.counter + 1, floor |-> job.counter + 1,
                            reserved |-> job.reserved + Reservation])
    BY <1>3 DEF JobAttemptAllocated
  <2>2. job'.state = "ACTIVE" /\ job'.stopped = job.stopped /\ job'.assurance = job.assurance
    BY <1>0, <2>1 DEF Job, Set
  <2>3. job.assurance = "PENDING" /\ ~job.stopped
    BY <2>1 DEF Judged, JobTerminal
  <2>. QED
    BY <2>2, <2>3 DEF Judged, JobTerminal
<1>4. CASE JobSubmitted
  <2>1. job' = [NoJob EXCEPT !.state = "SUBMITTED"]
    BY <1>4 DEF JobSubmitted
  <2>2. job'.state = "SUBMITTED" /\ ~job'.stopped /\ job'.assurance = "PENDING"
    BY <2>1 DEF NoJob
  <2>. QED
    BY <2>2 DEF Judged, JobTerminal
<1>5. CASE JobQueued \/ Requeued
  <2>1. /\ job' = [job EXCEPT !.state = "QUEUED"] /\ ~job.stopped /\ job.assurance = "PENDING"
    BY <1>5 DEF JobQueued, Requeued, Judged, JobTerminal
  <2>2. job'.state = "QUEUED" /\ job'.stopped = job.stopped /\ job'.assurance = "PENDING"
    BY <1>0, <2>1 DEF Job
  <2>. QED
    BY <2>1, <2>2 DEF Judged, JobTerminal
<1>6. CASE JobAssuranceEvaluated
  <2>. DEFINE assurance == IF job.summaries = << >> THEN "NOT_APPLICABLE"
                           ELSE LastAttempt.assurance
  <2>1. /\ job' = [job EXCEPT !.assurance = assurance] /\ attempts' = attempts
        /\ Current = 0 /\ job.state \in {"ACTIVE", "STOPPING"}
    BY <1>6 DEF JobAssuranceEvaluated, OnlyJob
  <2>2. assurance # "NOT_APPLICABLE" => attempts # << >> /\ assurance = Last.assurance
    <3>1. job.summaries # << >> => /\ Len(attempts) \in DOMAIN attempts
                                   /\ LastAttempt = attempts[Len(attempts)]
      BY <2>1, LastSummarised
    <3>. QED
      BY <3>1 DEF Last
  <2>. HIDE DEF assurance
  <2>3. /\ job'.state = job.state /\ job'.stopped = job.stopped /\ job'.assurance = assurance
        /\ job'.current = 0
    BY <1>0, <2>1 DEF Job, Current
  <2>. QED
    BY <2>1, <2>2, <2>3 DEF Judged, JobTerminal, Last, Current
<1>7. CASE JobEnded
  <2>1. PICK ending \in JobTerminal :
          /\ job' = [job EXCEPT !.state = ending]
          /\ IF ending = "SUCCEEDED" THEN MaySucceed ELSE job.state = "STOPPING" /\ job.stopped
    BY <1>7 DEF JobEnded
  <2>2. attempts' = attempts /\ Current = 0 /\ job.assurance # "PENDING"
    BY <1>7 DEF JobEnded, OnlyJob
  <2>3. /\ job'.state = ending /\ job'.stopped = job.stopped /\ job'.current = 0
        /\ job'.assurance = job.assurance
    BY <1>0, <2>1, <2>2 DEF Job, Current
  <2>4. ASSUME ending = "SUCCEEDED"
        PROVE  /\ ~job.stopped /\ attempts # << >> /\ job.assurance = "CLAIMED"
               /\ Last.state = "SUCCEEDED" /\ Last.anchor # "NOT_ESTABLISHED"
               /\ Last.source # "QUARANTINED"
    <3>1. MaySucceed /\ job.state = "ACTIVE" /\ job.assurance = "CLAIMED"
      BY <2>1, <2>4 DEF MaySucceed
    <3>2. ~job.stopped /\ attempts # << >>
      BY <3>1 DEF Judged
    <3>3. job.summaries # << >>
      BY <2>2, <3>2 DEF JobSound, AttemptsSound
    <3>4. LastAttempt = Last
      BY <2>2, <3>3, LastSummarised DEF Last
    <3>. QED
      BY <3>1, <3>2, <3>4 DEF MaySucceed
  <2>. QED
    BY <2>1, <2>2, <2>3, <2>4 DEF Judged, JobTerminal, Last, Current
<1>8. CASE StopLatched
  <2>1. /\ job' = [job EXCEPT !.state = "STOPPING", !.stopped = TRUE]
        /\ Current # 0 \/ attempts' = attempts
        /\ job.state \in {"QUEUED", "ACTIVE"}
    BY <1>8 DEF StopLatched
  <2>2. job'.state = "STOPPING" /\ job'.assurance = job.assurance /\ job'.current = job.current
    BY <1>0, <2>1 DEF Job
  <2>3. CASE job.assurance = "PENDING"
    BY <2>2, <2>3 DEF Judged, JobTerminal
  <2>4. CASE job.assurance # "PENDING"
    BY <2>1, <2>2, <2>4 DEF Judged, JobTerminal, Last, Current
  <2>. QED
    BY <2>3, <2>4
<1>9. CASE StopAfterLeaseExpiry
  <2>1. job' = job /\ job.state = "ACTIVE" /\ Len(attempts) = 1 /\ Len(attempts') = 1
    BY <1>9 DEF StopAfterLeaseExpiry
  <2>2. attempts'[1].assurance = attempts[1].assurance
    <3>0. PICK n \in DOMAIN attempts : \E b : Changes(n, b)
      BY <1>9, StopChanges
    <3>1. PICK b : Changes(n, b)
      BY <3>0
    <3>2. ~AttemptAssuranceEvaluated
      BY <1>0, <2>1 DEF AttemptAssuranceEvaluated, Settling, JobSound, Job, Current
    <3>. QED
      BY <3>1, <3>2, <2>1 DEF Changes, AttemptsSound
  <2>3. attempts' # << >>
    BY <2>1
  <2>. QED
    BY <2>1, <2>2, <2>3 DEF Judged, JobTerminal, Last, Current
<1>. QED
  BY <1>1, <1>2, <1>3, <1>4, <1>5, <1>6, <1>7, <1>8, <1>9, Steps, Frames DEF JobStep, StopStep

(* A Job that ended counts every Attempt, each terminal, settled and       *)
(* assured; and it SUCCEEDED only on the word of its last Attempt.         *)
THEOREM EndedJobs == Spec => []FinishedJobs
<1>1. PInit => Judged
  BY DEF PInit, Judged, NoJob, JobTerminal
<1>2. PlaneInv /\ Judged /\ [Next]_vars => Judged'
  BY StepJudged DEF PlaneInv
<1>3. ASSUME PlaneInv, Assured, Judged
      PROVE  FinishedJobs
  <2>. SUFFICES ASSUME job.state \in JobTerminal
                PROVE  /\ \A n \in DOMAIN attempts :
                            /\ attempts[n].state \in AttemptTerminal /\ attempts[n].settled
                            /\ attempts[n].assurance # "PENDING"
                       /\ job.state = "SUCCEEDED" =>
                            /\ attempts # << >> /\ ~job.stopped
                            /\ Last.state = "SUCCEEDED" /\ Last.result # "REJECTED"
                            /\ Last.assurance = "CLAIMED" /\ Last.assurance = job.assurance
                            /\ Len(attempts) \notin input.quarantined
    BY DEF FinishedJobs, Last
  <2>1. AttemptsSound /\ Current = 0 /\ DOMAIN attempts = 1 .. Len(attempts)
    BY <1>3 DEF PlaneInv, Judged, AttemptsSound
  <2>2. ASSUME NEW n \in DOMAIN attempts
        PROVE  /\ attempts[n].state \in AttemptTerminal /\ attempts[n].settled
               /\ attempts[n].assurance # "PENDING"
    <3>1. n # Current
      BY <2>1
    <3>. QED
      BY <1>3, <2>1, <3>1 DEF Assured, AttemptsSound, Sound
  <2>3. ASSUME job.state = "SUCCEEDED"
        PROVE  /\ attempts # << >> /\ ~job.stopped
               /\ Last.state = "SUCCEEDED" /\ Last.result # "REJECTED"
               /\ Last.assurance = "CLAIMED" /\ Last.assurance = job.assurance
               /\ Len(attempts) \notin input.quarantined
    <3>1. /\ attempts # << >> /\ ~job.stopped /\ job.assurance = "CLAIMED"
          /\ Last.state = "SUCCEEDED" /\ Last.anchor # "NOT_ESTABLISHED"
          /\ Last.source # "QUARANTINED" /\ Last.assurance = job.assurance
      BY <1>3, <2>3 DEF Judged
    <3>2. Sound(Len(attempts), Last)
      BY <2>1, <3>1 DEF AttemptsSound, Last
    <3>3. Last.source \in {"NONE", "KEPT", "QUARANTINED"} /\ Last.captured
      BY <3>1, <3>2 DEF Sound, Attempt, AttemptTerminal
    <3>. QED
      BY <3>1, <3>2, <3>3 DEF Sound
  <2>. QED
    BY <2>2, <2>3
<1>. QED
  BY <1>1, <1>2, <1>3, Accounts, PTL DEF Spec
=============================================================================
