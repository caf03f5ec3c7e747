---------------------------- MODULE ExecutionPlane ----------------------------
(***************************************************************************)
(* The installed reducers of the execution contracts                       *)
(* (src/benchwork/execution_contracts.py): how one journaled event after   *)
(* another turns the Execution State into the next one.  An event whose    *)
(* reducer raises has no action; identities, Sigils, revisions and         *)
(* causation links are the event's own to get right and are left out.      *)
(*                                                                         *)
(* Every reducer ends in build_execution_state_v1, which validates the     *)
(* State it returns, so Next takes a Step only to a Valid State.           *)
(*                                                                         *)
(* There is one Job, as every reducer demands.  Attempt n is the n-th      *)
(* allocated; a Lease, Session or Worker not in the State is "NONE".       *)
(***************************************************************************)
EXTENDS Naturals, Sequences, FiniteSets, FiniteSetsExt

CONSTANTS Worker, Session, Lease,
          Capacity,      \* Leases a ready Session can hold at once
          Reservation,   \* budget each Attempt reserves
          Limit,         \* the Job's budget
          Ending,        \* the Attempt and Job terminal states explored
          Input,         \* the inputs explored, see input below
          MaxChunks      \* bound: the chunks of a log stream

ASSUME PlaneAssumption ==
  /\ "NONE" \notin Worker \cup Session \cup Lease
  /\ Capacity \in Nat \ {0} /\ Reservation \in Nat /\ Limit \in Nat
  /\ MaxChunks \in Nat
  /\ \A i \in Input : i.attempts \in Nat /\ i.authorized \subseteq Nat
                        /\ i.quarantined \subseteq Nat
                        /\ i.workerMoves \subseteq {"DRAINING", "QUARANTINED"}
                        /\ i.sessionMoves \subseteq {"DRAINING", "OFFLINE", "QUARANTINED", "CLOSED"}

VARIABLES input,      \* what the caller will supply, fixed by Init: how many Attempts,
                      \* which need an authorization, whose terminal source is
                      \* quarantined, the withdrawals and log streams explored
          executor,   \* clock, authority gates and Recovery
          workers, sessions, job, attempts, leases, logs,
          deadlines   \* what the State lists as due: <<kind, entity>>

vars == <<input, executor, workers, sessions, job, attempts, leases, logs, deadlines>>

(***************************************************************************)
(* States of the entities.                                                 *)
(***************************************************************************)
AttemptTerminal == {"SUCCEEDED", "FAILED", "CANCELLED", "TIMED_OUT", "POLICY_VIOLATION",
                    "LEASE_EXPIRED", "LOST", "FENCED", "REJECTED"}
JobTerminal == {"SUCCEEDED", "FAILED", "CANCELLED", "TIMED_OUT", "POLICY_VIOLATION"}
LeaseTerminal == {"RELEASED", "REVOKED", "EXPIRED", "FENCED"}

ASSUME EndingAssumption == Ending \subseteq AttemptTerminal

NoWorker == [state |-> "NONE", sessions |-> {}]
NoSession == [state |-> "NONE", worker |-> "NONE", capacity |-> 0, inUse |-> 0,
              leases |-> {}]
NoLease == [state |-> "NONE", attempt |-> 0, session |-> "NONE", worker |-> "NONE",
            generation |-> 0, late |-> FALSE, heard |-> FALSE, tombstone |-> 0]
NoJob == [state |-> "NONE", current |-> 0, counter |-> 0, floor |-> 0, reserved |-> 0,
          consumed |-> 0, summaries |-> <<>>, assurance |-> "PENDING", stopped |-> FALSE]

NewAttempt(generation, authorization) ==
  [state |-> "CREATED", generation |-> generation, authorization |-> authorization,
   lease |-> "NONE", fenced |-> FALSE, result |-> "NONE", intake |-> "NONE",
   anchor |-> "NOT_ESTABLISHED", leaseEnd |-> 0, stopped |-> FALSE, source |-> "NONE",
   captured |-> FALSE, settled |-> FALSE, assurance |-> "PENDING"]

OpenLog == [state |-> "OPEN", next |-> 0, truncated |-> FALSE]

Present(f) == {x \in DOMAIN f : f[x].state # "NONE"}
LeasesOf(s) == {l \in Present(leases) : leases[l].session = s}
Live(l) == leases[l].state \in {"OFFERED", "ACTIVE"}

(* The Attempt the Job runs now, and the Lease attached to it.             *)
Current == job.current
Att == attempts[Current]
ActiveLease == Current # 0 /\ Att.lease # "NONE" /\ leases[Att.lease].state = "ACTIVE"

Empty ==
  /\ Present(workers) = {} /\ Present(sessions) = {} /\ Present(leases) = {}
  /\ job.state = "NONE" /\ attempts = <<>> /\ deadlines = {}

(***************************************************************************)
(* What validate_execution_state_v1 demands of every State.                *)
(***************************************************************************)
Recovering == executor.recovery \notin {"NONE", "COMPLETED"}

Valid ==
  /\ (executor.clock = "UNCERTAIN") <=> ("CLOCK_UNCERTAIN" \in executor.gates)
  /\ Recovering <=> ("RECOVERY_ACTIVE" \in executor.gates)
  /\ \A s \in Present(sessions) :
       /\ sessions[s].worker \in Present(workers)
       /\ s \in workers[sessions[s].worker].sessions
       /\ (sessions[s].capacity = 0) <=> (sessions[s].state = "REGISTERED")
       /\ sessions[s].inUse <= sessions[s].capacity
  /\ UNION {workers[w].sessions : w \in Present(workers)} = Present(sessions)
  /\ \A l \in Present(leases) :
       /\ (leases[l].tombstone # 0) <=> (leases[l].state \in LeaseTerminal)
       /\ leases[l].session \in Present(sessions)
       /\ leases[l].worker = sessions[leases[l].session].worker
       /\ l \in sessions[leases[l].session].leases
  /\ UNION {sessions[s].leases : s \in Present(sessions)} = Present(leases)

(***************************************************************************)
(* Updates shared by several reducers.                                     *)
(***************************************************************************)
(* Replace the current Attempt; the changes are given as a record.         *)
Set(record, changes) ==
  [f \in DOMAIN record |-> IF f \in DOMAIN changes THEN changes[f] ELSE record[f]]
UpdateAttempt(changes) == attempts' = [attempts EXCEPT ![Current] = Set(@, changes)]
UpdateSession(s, changes) == sessions' = [sessions EXCEPT ![s] = Set(@, changes)]
UpdateLease(l, changes) == leases' = [leases EXCEPT ![l] = Set(@, changes)]

(* Some reducers return a table that holds only the entry they changed.    *)
Only(table, x, record, none) ==
  [y \in DOMAIN table |-> IF y = x THEN record ELSE none]

(***************************************************************************)
(* Executor and Recovery.                                                  *)
(***************************************************************************)
PInit ==
  /\ input \in Input
  /\ executor = [clock |-> "TRUSTED", gates |-> {}, recovery |-> "NONE", restore |-> FALSE]
  /\ workers = [w \in Worker |-> NoWorker]
  /\ sessions = [s \in Session |-> NoSession]
  /\ job = NoJob /\ attempts = <<>> /\ logs = <<>>
  /\ leases = [l \in Lease |-> NoLease]
  /\ deadlines = {}

OnlyExecutor(changes) ==
  /\ executor' = Set(executor, changes)
  /\ UNCHANGED <<input, workers, sessions, job, attempts, leases, logs, deadlines>>

ClockUncertain ==
  /\ executor.clock = "TRUSTED" /\ executor.gates = {} /\ executor.recovery = "NONE"
  /\ Empty
  /\ OnlyExecutor([clock |-> "UNCERTAIN", gates |-> {"CLOCK_UNCERTAIN"}])

RecoveryStarted ==
  /\ executor.clock = "UNCERTAIN" /\ executor.gates = {"CLOCK_UNCERTAIN"}
  /\ executor.recovery = "NONE" /\ Empty
  /\ OnlyExecutor([recovery |-> "STARTED", gates |-> {"CLOCK_UNCERTAIN", "RECOVERY_ACTIVE"}])

NextPhase == [STARTED |-> "FENCING", FENCING |-> "RECONCILING", RECONCILING |-> "FINALIZING"]

(* The phase whose action set may restore the clock.                       *)
MayRestore(phase) == phase = "FINALIZING"

(* Whether the phase's actions were carried out is not looked at; the next *)
(* phase's action set is the caller's.                                     *)
PhaseAdvanced ==
  /\ executor.recovery \in DOMAIN NextPhase
  /\ \E restore \in BOOLEAN :
       /\ restore => MayRestore(NextPhase[executor.recovery])
       /\ OnlyExecutor([recovery |-> NextPhase[executor.recovery], restore |-> restore])

ActionSetRebased ==
  /\ Recovering
  /\ \E restore \in BOOLEAN :
       /\ restore => MayRestore(executor.recovery)
       /\ OnlyExecutor([restore |-> restore])

ClockRestored ==
  /\ executor.clock = "UNCERTAIN" /\ executor.gates = {"CLOCK_UNCERTAIN", "RECOVERY_ACTIVE"}
  /\ executor.recovery = "FINALIZING" /\ executor.restore
  /\ \A l \in Lease : ~Live(l)
  /\ OnlyExecutor([clock |-> "TRUSTED", gates |-> {"RECOVERY_ACTIVE"}])

RecoveryCompleted ==
  /\ executor.recovery = "FINALIZING"
  /\ OnlyExecutor([recovery |-> "COMPLETED", gates |-> executor.gates \ {"RECOVERY_ACTIVE"},
                   restore |-> FALSE])

(***************************************************************************)
(* Workers and their Sessions.                                             *)
(***************************************************************************)
OnlyWorkers == UNCHANGED <<input, executor, sessions, job, attempts, leases, logs, deadlines>>
OnlySessions == UNCHANGED <<input, executor, workers, job, attempts, leases, logs>>

WorkerRegistered(w) ==
  /\ workers[w].state = "NONE"
  /\ workers' = [workers EXCEPT ![w].state = "REGISTERED"]
  /\ OnlyWorkers

WorkerEnabled(w) ==
  /\ Present(workers) = {w} /\ workers[w].state = "REGISTERED"
  /\ workers' = [workers EXCEPT ![w].state = "ENABLED"]
  /\ OnlyWorkers

WorkerWithdrawn(w) ==
  /\ \E target \in input.workerMoves :
       /\ workers[w].state \in IF target = "DRAINING" THEN {"ENABLED"}
                                ELSE {"REGISTERED", "ENABLED", "DRAINING"}
       /\ workers' = [workers EXCEPT ![w].state = target]
  /\ OnlyWorkers

WorkerRetired(w) ==
  /\ workers[w].state \in {"REGISTERED", "ENABLED", "DRAINING", "QUARANTINED"}
  /\ \A s \in Present(sessions) : sessions[s].worker = w => sessions[s].state = "CLOSED"
  /\ \A l \in Present(leases) : leases[l].worker = w => ~Live(l)
  /\ workers' = [workers EXCEPT ![w].state = "RETIRED"]
  /\ OnlyWorkers

SessionRegistered(s, w) ==
  /\ workers[w].state = "ENABLED" /\ sessions[s].state = "NONE"
  /\ workers' = Only(workers, w, [workers[w] EXCEPT !.sessions = @ \cup {s}], NoWorker)
  /\ sessions' = Only(sessions, s, [NoSession EXCEPT !.state = "REGISTERED", !.worker = w],
                      NoSession)
  /\ UNCHANGED <<input, executor, job, attempts, leases, logs, deadlines>>

(* The deadlines it returns hold the Session's heartbeat and nothing else. *)
SessionReady(s) ==
  /\ Present(sessions) = {s} /\ sessions[s].state = "REGISTERED"
  /\ UpdateSession(s, [state |-> "READY", capacity |-> Capacity])
  /\ deadlines' = {<<"HEARTBEAT", s>>}
  /\ OnlySessions

SessionHeartbeat(s) ==
  /\ sessions[s].state \in {"READY", "BUSY", "DRAINING"}
  /\ deadlines' = deadlines \cup {<<"HEARTBEAT", s>>}
  /\ OnlySessions /\ UNCHANGED sessions

SessionSources ==
  [DRAINING |-> {"READY", "BUSY"},
   OFFLINE |-> {"REGISTERED", "READY", "BUSY", "DRAINING"},
   QUARANTINED |-> {"REGISTERED", "READY", "BUSY", "DRAINING"},
   CLOSED |-> {"REGISTERED", "READY", "DRAINING", "OFFLINE", "QUARANTINED"}]

SessionLifecycle(s) ==
  \E target \in input.sessionMoves :
    LET silent == target # "DRAINING"
    IN  /\ sessions[s].state \in SessionSources[target]
        /\ target = "CLOSED" => \A l \in LeasesOf(s) : ~Live(l)
        /\ UpdateSession(s, [state |-> target])
        /\ deadlines' = IF silent THEN deadlines \ {<<"HEARTBEAT", s>>} ELSE deadlines
        /\ OnlySessions

(***************************************************************************)
(* The Job, up to the allocation of an Attempt.                            *)
(***************************************************************************)
JobSubmitted ==
  /\ executor.clock = "TRUSTED" /\ executor.gates = {} /\ executor.recovery = "NONE"
  /\ Empty
  /\ job' = [NoJob EXCEPT !.state = "SUBMITTED"]
  /\ deadlines' = {<<"JOB", 0>>}
  /\ UNCHANGED <<input, executor, workers, sessions, attempts, leases, logs>>

JobQueued ==
  /\ job.state = "SUBMITTED"
  /\ job' = [job EXCEPT !.state = "QUEUED"]
  /\ UNCHANGED <<input, executor, workers, sessions, attempts, leases, logs, deadlines>>

(* The ledger, the fence floor, the Attempt and its logs in one step.      *)
JobAttemptAllocated ==
  LET generation == job.counter + 1
  IN  /\ Len(attempts) < input.attempts
      /\ job.state = "QUEUED" /\ Current = 0
      /\ Len(job.summaries) = Len(attempts)
      /\ \A n \in DOMAIN attempts : attempts[n].state \in AttemptTerminal
      /\ job.reserved + Reservation + job.consumed <= Limit
      /\ job' = Set(job, [state |-> "ACTIVE", current |-> Len(attempts) + 1,
                          counter |-> generation, floor |-> generation,
                          reserved |-> job.reserved + Reservation])
      /\ attempts' = Append(attempts, NewAttempt(generation,
                        IF Len(attempts) + 1 \in input.authorized THEN "PENDING" ELSE "NONE"))
      /\ logs' = Append(logs, [i \in input.streams |-> OpenLog])
      /\ deadlines' = deadlines \cup {<<"ATTEMPT", Len(attempts) + 1>>}
      /\ UNCHANGED <<input, executor, workers, sessions, leases>>

(***************************************************************************)
(* The current Attempt.  After its Lease is claimed it is FENCED: bound to *)
(* the public fence tuple and the Lease's executor epoch.                  *)
(***************************************************************************)
OnlyAttempt == UNCHANGED <<input, executor, workers, sessions, job, leases, logs, deadlines>>

AuthorizationBound ==
  /\ Current # 0 /\ Att.state = "CREATED"
  /\ Att.authorization = "PENDING" /\ ~Att.stopped
  /\ UpdateAttempt([authorization |-> "BOUND"])
  /\ OnlyAttempt

PreflightStarted ==
  /\ Current # 0 /\ Att.state = "CREATED" /\ Att.authorization # "PENDING"
  /\ UpdateAttempt([state |-> "PREFLIGHTING"])
  /\ OnlyAttempt

PreflightPassed ==
  /\ Current # 0 /\ Att.state = "PREFLIGHTING"
  /\ UpdateAttempt([state |-> "READY"])
  /\ OnlyAttempt

AttemptStarting ==
  /\ ActiveLease /\ Att.state = "LEASED" /\ Att.fenced
  /\ UpdateAttempt([state |-> "STARTING"])
  /\ OnlyAttempt

AttemptRunning ==
  /\ ActiveLease /\ Att.state = "STARTING"
  /\ UpdateAttempt([state |-> "RUNNING"])
  /\ OnlyAttempt

ResultIngressReceived ==
  /\ ActiveLease /\ Att.state = "RUNNING" /\ Att.intake = "NONE"
  /\ UpdateAttempt([intake |-> "RECEIVED"])
  /\ OnlyAttempt

(* Mutant of ResultAccepted: the Lease is not looked at.                   *)
ResultAcceptedLate ==
  /\ Current # 0 /\ Att.state = "RUNNING" /\ Att.intake = "RECEIVED"
  /\ UpdateAttempt([intake |-> "DISPOSED", result |-> "ACCEPTED"])
  /\ OnlyAttempt

ResultAccepted ==
  /\ ActiveLease /\ Att.state = "RUNNING" /\ Att.intake = "RECEIVED"
  /\ UpdateAttempt([intake |-> "DISPOSED", result |-> "ACCEPTED"])
  /\ OnlyAttempt

(* A rejection does not ask for an active Lease.                           *)
ResultRejected ==
  /\ Current # 0 /\ Att.state = "RUNNING" /\ Att.fenced
  /\ Att.intake = "RECEIVED" /\ Att.result = "NONE"
  /\ UpdateAttempt([intake |-> "DISPOSED", result |-> "REJECTED"])
  /\ OnlyAttempt

(* Mutant of AttemptDraining: a stopped Attempt drains too.                *)
AttemptDrainingStopped ==
  /\ Current # 0 /\ Att.state \in {"RUNNING", "STOPPING"} /\ Att.fenced
  /\ UpdateAttempt([state |-> "DRAINING",
                    anchor |-> IF Att.result = "ACCEPTED" THEN "RESULT_ACCEPTED" ELSE "NO_RESULT"])
  /\ OnlyAttempt

(* A Result received and not yet disposed of drains as no Result.          *)
AttemptDraining ==
  /\ Current # 0 /\ Att.state = "RUNNING" /\ Att.fenced
  /\ UpdateAttempt([state |-> "DRAINING",
                    anchor |-> CASE Att.result = "ACCEPTED" -> "RESULT_ACCEPTED"
                                 [] Att.result = "NONE" -> "NO_RESULT"
                                 [] Att.result = "REJECTED" -> "NOT_ESTABLISHED"])
  /\ OnlyAttempt

(* The stop that follows an expired Lease; the Job is left as it is.       *)
StopAfterLeaseExpiry ==
  /\ Len(attempts) = 1 /\ Cardinality(Present(leases)) = 1 /\ job.state = "ACTIVE"
  /\ LET a == attempts[1]
     IN  /\ a.lease # "NONE" /\ leases[a.lease].state = "EXPIRED"
         /\ a.state \in {"READY", "LEASED", "STARTING", "RUNNING", "DRAINING"}
         /\ ~a.stopped
         /\ attempts' = <<Set(a, [state |-> "STOPPING", stopped |-> TRUE])>>
  /\ deadlines' = deadlines \cup {<<"GRACE", 1>>}
  /\ UNCHANGED <<input, executor, workers, sessions, job, leases, logs>>

AttemptCleaning ==
  /\ Current # 0 /\ Att.state \in {"DRAINING", "STOPPING"} /\ Att.fenced
  /\ Att.source = "NONE"
  /\ UpdateAttempt([state |-> "CLEANING",
                    source |-> IF Current \in input.quarantined THEN "QUARANTINED" ELSE "KEPT"])
  /\ OnlyAttempt

CaptureAccounting ==
  /\ Current # 0 /\ Att.state = "CLEANING" /\ ~Att.captured
  /\ UpdateAttempt([captured |-> TRUE])
  /\ OnlyAttempt

(* The Lease, if the Attempt has one, may still be active.                 *)
AttemptTerminated ==
  /\ Current # 0 /\ Att.state \in {"DRAINING", "STOPPING", "CLEANING"}
  /\ Att.fenced /\ Att.captured
  /\ \E ending \in Ending :
       /\ ending = "SUCCEEDED" => Att.anchor # "NOT_ESTABLISHED"
       /\ UpdateAttempt([state |-> ending])
  /\ deadlines' = deadlines \ {<<"ATTEMPT", Current>>, <<"GRACE", Current>>}
  /\ UNCHANGED <<input, executor, workers, sessions, job, leases, logs>>

(***************************************************************************)
(* Settling a terminal Attempt, and ending the Job.                        *)
(***************************************************************************)
Settling == job.state \in {"ACTIVE", "STOPPING"} /\ Current # 0 /\ Att.state \in AttemptTerminal
OnlyJobAndAttempt == UNCHANGED <<input, executor, workers, sessions, leases, logs, deadlines>>

(* Mutant of JobBudgetSettled: the reservation is charged and not released. *)
JobBudgetSettledHeld ==
  /\ Settling /\ ~Att.settled /\ Att.captured /\ job.reserved >= Reservation
  /\ job' = [job EXCEPT !.consumed = @ + Reservation]
  /\ UpdateAttempt([settled |-> TRUE])
  /\ OnlyJobAndAttempt

(* The capture records usage as UNAVAILABLE, so the whole reservation is   *)
(* charged.                                                                *)
JobBudgetSettled ==
  /\ Settling /\ ~Att.settled /\ Att.captured /\ job.reserved >= Reservation
  /\ job' = [job EXCEPT !.reserved = @ - Reservation, !.consumed = @ + Reservation]
  /\ UpdateAttempt([settled |-> TRUE])
  /\ OnlyJobAndAttempt

AttemptAssuranceEvaluated ==
  /\ Settling /\ Att.settled /\ Att.assurance = "PENDING"
  /\ \A i \in DOMAIN job.summaries : job.summaries[i] # Current
  /\ job' = [job EXCEPT !.current = 0, !.summaries = Append(@, Current)]
  /\ \E evaluation \in {"CLAIMED", "UNMET"} : UpdateAttempt([assurance |-> evaluation])
  /\ OnlyJobAndAttempt

(* The Attempt the Job is judged by: the last one summarised.              *)
LastAttempt == attempts[Max(Range(job.summaries))]

OnlyJob == UNCHANGED <<input, executor, workers, sessions, attempts, leases, logs>>

JobAssuranceEvaluated ==
  /\ job.state \in {"ACTIVE", "STOPPING"} /\ Current = 0 /\ job.assurance = "PENDING"
  /\ job' = [job EXCEPT !.assurance =
               IF job.summaries = <<>> THEN "NOT_APPLICABLE" ELSE LastAttempt.assurance]
  /\ OnlyJob /\ UNCHANGED deadlines

(* Mutant of MaySucceed: the source of the end is not looked at.           *)
MaySucceedFromQuarantine ==
  /\ job.state = "ACTIVE" /\ job.assurance = "CLAIMED"
  /\ LastAttempt.state = "SUCCEEDED" /\ LastAttempt.anchor # "NOT_ESTABLISHED"

(* The Job succeeds with its last Attempt.                                 *)
MaySucceed ==
  /\ job.state = "ACTIVE" /\ job.assurance = "CLAIMED"
  /\ LastAttempt.state = "SUCCEEDED"
  /\ LastAttempt.anchor # "NOT_ESTABLISHED" /\ LastAttempt.source # "QUARANTINED"

JobEnded ==
  /\ Current = 0 /\ job.assurance # "PENDING"
  /\ job.summaries = [n \in DOMAIN attempts |-> n]
  /\ \E ending \in JobTerminal \cap Ending :
       /\ IF ending = "SUCCEEDED" THEN MaySucceed ELSE job.state = "STOPPING" /\ job.stopped
       /\ job' = [job EXCEPT !.state = ending]
  /\ deadlines' = deadlines \ {<<"JOB", 0>>}
  /\ OnlyJob

(***************************************************************************)
(* Leases.  Neither the Worker's state, nor the gates, nor the clock is    *)
(* looked at when one is offered or claimed.                               *)
(***************************************************************************)
LeaseOffered(l, s) ==
  /\ Current # 0 /\ Att.state = "READY" /\ Att.lease = "NONE"
  /\ leases[l].state = "NONE"
  /\ sessions[s].state \in {"READY", "BUSY"} /\ sessions[s].inUse < sessions[s].capacity
  /\ UpdateAttempt([lease |-> l])
  /\ sessions' = Only(sessions, s, [sessions[s] EXCEPT !.leases = @ \cup {l}], NoSession)
  /\ UpdateLease(l, [state |-> "OFFERED", attempt |-> Current, session |-> s,
                     worker |-> sessions[s].worker, generation |-> Att.generation,
                     heard |-> FALSE])
  /\ deadlines' = deadlines \cup {<<"CLAIM", l>>}
  /\ UNCHANGED <<input, executor, workers, job, logs>>

LeaseClaimed(l) ==
  LET s == leases[l].session
  IN  /\ Current # 0 /\ leases[l].state = "OFFERED" /\ leases[l].attempt = Current
      /\ Att.state = "READY" /\ Att.lease = l /\ ~leases[l].late
      /\ sessions[s].state \in {"READY", "BUSY"}
      /\ sessions[s].inUse + 1 <= sessions[s].capacity
      /\ UpdateAttempt([state |-> "LEASED", fenced |-> TRUE])
      /\ sessions' = Only(sessions, s, Set(sessions[s], [state |-> "BUSY",
                                                         inUse |-> sessions[s].inUse + 1]),
                          NoSession)
      /\ UpdateLease(l, [state |-> "ACTIVE"])
      /\ deadlines' = (deadlines \ {<<"CLAIM", l>>})
                        \cup {<<"LEASE_EXPIRY", l>>, <<"HEARTBEAT", s>>}
      /\ UNCHANGED <<input, executor, workers, job, logs>>

(* A Lease expires (an offer's claim time, an active Lease's expiry).      *)
LeaseLate(l) ==
  /\ Live(l) /\ ~leases[l].late
  /\ UpdateLease(l, [late |-> TRUE])
  /\ UNCHANGED <<input, executor, workers, sessions, job, attempts, logs, deadlines>>

(* Mutant of InUseWithout: the slot is not returned.                       *)
InUseKept(l) == sessions[leases[l].session].inUse

(* An active Lease returns its slot, an offer never took one.              *)
InUseWithout(l) ==
  LET inUse == sessions[leases[l].session].inUse
  IN  IF leases[l].state = "ACTIVE" THEN inUse - 1 ELSE inUse

(* What the four ends of a Lease share: the slot is returned, the fence    *)
(* floor rises past the generation, and the Session is READY or BUSY again *)
(* whatever it was.                                                        *)
EndLease(l, ending) ==
  LET s == leases[l].session
      active == leases[l].state = "ACTIVE"
      inUse == InUseWithout(l)
      tombstone == Att.generation + 1
  IN  /\ Current # 0 /\ Live(l) /\ leases[l].attempt = Current /\ Att.lease = l
      /\ active => sessions[s].inUse >= 1
      /\ tombstone > job.floor
      /\ UpdateSession(s, [state |-> IF inUse = 0 THEN "READY" ELSE "BUSY", inUse |-> inUse])
      /\ job' = [job EXCEPT !.floor = tombstone]
      /\ UpdateAttempt([leaseEnd |-> tombstone])
      /\ UpdateLease(l, [state |-> ending, tombstone |-> tombstone, late |-> FALSE])
      /\ deadlines' = deadlines \ ({<<"CLAIM", l>>, <<"LEASE_EXPIRY", l>>}
                                    \cup (IF active THEN {<<"HEARTBEAT", s>>} ELSE {}))
      /\ UNCHANGED <<input, executor, workers, logs>>

LeaseReleased(l) == leases[l].state = "ACTIVE" /\ EndLease(l, "RELEASED")
LeaseExpired(l) == leases[l].late /\ EndLease(l, "EXPIRED")
LeaseRevoked(l) ==
  Current # 0 /\ Att.state = "STOPPING" /\ Att.stopped /\ EndLease(l, "REVOKED")
LeaseFenced(l) == EndLease(l, "FENCED")

(* Heartbeats and renewals are refused once the State has a second Lease.  *)
(* Neither looks at the Attempt, the Job or its fence floor.  A heartbeat  *)
(* must have been received before the expiry, whenever it is journaled.    *)
LeaseHeartbeat(l) ==
  /\ Present(leases) = {l} /\ leases[l].state = "ACTIVE"
  /\ UpdateLease(l, [heard |-> TRUE])
  /\ deadlines' = deadlines \cup {<<"HEARTBEAT", leases[l].session>>}
  /\ UNCHANGED <<input, executor, workers, sessions, job, attempts, logs>>

(* Mutant of LeaseRenewed: the old expiry is dropped, the new one not listed. *)
LeaseRenewedUntimed(l) ==
  /\ Present(leases) = {l} /\ leases[l].state = "ACTIVE"
  /\ \E late \in {FALSE, leases[l].late} : UpdateLease(l, [late |-> late])
  /\ deadlines' = deadlines \ {<<"LEASE_EXPIRY", l>>}
  /\ UNCHANGED <<input, executor, workers, sessions, job, attempts, logs>>

(* The new expiry is compared with the old one, not with the time: an      *)
(* expired Lease can be renewed, into the future or not.                   *)
LeaseRenewed(l) ==
  /\ Present(leases) = {l} /\ leases[l].state = "ACTIVE"
  /\ \E late \in {FALSE, leases[l].late} : UpdateLease(l, [late |-> late])
  /\ deadlines' = deadlines \cup {<<"LEASE_EXPIRY", l>>}
  /\ UNCHANGED <<input, executor, workers, sessions, job, attempts, logs>>

(***************************************************************************)
(* Log streams.                                                            *)
(***************************************************************************)
UpdateLog(n, i, changes) ==
  /\ logs' = [logs EXCEPT ![n][i] = Set(@, changes)]
  /\ UNCHANGED <<input, executor, workers, sessions, job, attempts, leases, deadlines>>

LogChunkCommitted(i) ==
  /\ ActiveLease /\ logs[Current][i].state = "OPEN" /\ logs[Current][i].next < MaxChunks
  /\ UpdateLog(Current, i, [next |-> logs[Current][i].next + 1])

LogClosed(n, i) == logs[n][i].state = "OPEN" /\ UpdateLog(n, i, [state |-> "CLOSED"])

LogTruncated(n, i) ==
  /\ logs[n][i].state = "OPEN" /\ ~logs[n][i].truncated
  /\ UpdateLog(n, i, [truncated |-> TRUE])

(***************************************************************************)
(* Events that are only recorded: they move a revision and nothing else.   *)
(***************************************************************************)
PreflightProgressed == Current # 0 /\ Att.state = "PREFLIGHTING" /\ UNCHANGED vars
StopProgressed == Current # 0 /\ Att.state = "STOPPING" /\ Att.fenced /\ UNCHANGED vars
CleanupProgressed ==
  Current # 0 /\ Att.state \in {"DRAINING", "STOPPING", "CLEANING"} /\ Att.fenced /\ UNCHANGED vars
LateResultRejected ==
  /\ Current # 0 /\ Att.fenced
  /\ Att.state \in {"DRAINING", "STOPPING", "CLEANING"} \cup (AttemptTerminal \ {"POLICY_VIOLATION"})
  /\ UNCHANGED vars
SessionMessageRejected(s) == sessions[s].state # "NONE" /\ UNCHANGED vars
JobMessageRejected == job.state # "NONE" /\ UNCHANGED vars
LeaseMessageRejected(l) == leases[l].state # "NONE" /\ UNCHANGED vars
TombstoneRepublished(l) == leases[l].state \in LeaseTerminal /\ UNCHANGED vars
LogChunkDuplicate(n, i) == logs[n][i].next > 0 /\ UNCHANGED vars
LogChunkRejected(n, i) == i \in DOMAIN logs[n] /\ UNCHANGED vars

(***************************************************************************)
(* External: events the contracts name and no reducer is installed for.    *)
(* Their effect comes in the State the caller supplies, as in the tests.   *)
(***************************************************************************)
StopLatched ==
  /\ job.state \in {"QUEUED", "ACTIVE"} /\ ~job.stopped
  /\ Current # 0 => /\ ~Att.stopped
                    /\ Att.state \notin {"CLEANING"} \cup AttemptTerminal
  /\ job' = [job EXCEPT !.state = "STOPPING", !.stopped = TRUE]
  /\ IF Current = 0
     THEN UNCHANGED <<attempts, deadlines>>
     ELSE /\ UpdateAttempt([state |-> "STOPPING", stopped |-> TRUE])
          /\ deadlines' = deadlines \cup {<<"GRACE", Current>>}
  /\ UNCHANGED <<input, executor, workers, sessions, leases, logs>>

Requeued ==
  /\ job.state = "ACTIVE" /\ Current = 0 /\ job.assurance = "PENDING"
  /\ LastAttempt.state # "SUCCEEDED" /\ Len(attempts) < input.attempts
  /\ job' = [job EXCEPT !.state = "QUEUED"]
  /\ UNCHANGED <<input, executor, workers, sessions, attempts, leases, logs, deadlines>>

(***************************************************************************)
(* The replay: the event's reducer, and the State it returns must be valid.*)
(***************************************************************************)
Step ==
  \/ ClockUncertain \/ RecoveryStarted \/ PhaseAdvanced \/ ActionSetRebased
  \/ ClockRestored \/ RecoveryCompleted
  \/ \E w \in Worker : WorkerRegistered(w) \/ WorkerEnabled(w) \/ WorkerWithdrawn(w)
                         \/ WorkerRetired(w) \/ \E s \in Session : SessionRegistered(s, w)
  \/ \E s \in Session : SessionReady(s) \/ SessionHeartbeat(s) \/ SessionLifecycle(s)
                          \/ SessionMessageRejected(s)
  \/ JobSubmitted \/ JobQueued \/ JobAttemptAllocated \/ JobMessageRejected
  \/ AuthorizationBound \/ PreflightStarted \/ PreflightProgressed \/ PreflightPassed
  \/ \E l \in Lease, s \in Session : LeaseOffered(l, s)
  \/ \E l \in Lease : LeaseClaimed(l) \/ LeaseReleased(l) \/ LeaseExpired(l) \/ LeaseRevoked(l)
                        \/ LeaseFenced(l) \/ LeaseHeartbeat(l) \/ LeaseRenewed(l)
                        \/ LeaseMessageRejected(l) \/ TombstoneRepublished(l) \/ LeaseLate(l)
  \/ AttemptStarting \/ AttemptRunning
  \/ ResultIngressReceived \/ ResultAccepted \/ ResultRejected \/ LateResultRejected
  \/ StopAfterLeaseExpiry \/ StopLatched \/ StopProgressed
  \/ AttemptDraining \/ AttemptCleaning \/ CleanupProgressed \/ CaptureAccounting
  \/ AttemptTerminated \/ JobBudgetSettled \/ AttemptAssuranceEvaluated
  \/ JobAssuranceEvaluated \/ JobEnded \/ Requeued
  \/ \E i \in input.streams : \/ LogChunkCommitted(i)
                       \/ \E n \in DOMAIN logs : LogClosed(n, i) \/ LogTruncated(n, i)
                            \/ LogChunkDuplicate(n, i) \/ LogChunkRejected(n, i)

Next == Step /\ Valid'

Spec == PInit /\ [][Next]_vars

(***************************************************************************)
(* Properties.                                                             *)
(***************************************************************************)
(* Authority is fenced: generations are issued one by one, only the newest *)
(* is offered and granted a Lease and only until the floor passes it, its  *)
(* Result is accepted from the holder and at most once, and a Lease that   *)
(* ended is neither heard of nor extended, whatever the order of expiries, *)
(* stops, heartbeats, renewals, retries and late Results.  A Lease that is *)
(* still active when its Attempt was terminated stays so: it is heard of   *)
(* and extended below the floor, until a retry is offered another Lease.   *)
Generations(S) == {leases[l].generation : l \in S}
ActiveLeases == {l \in Lease : leases[l].state = "ACTIVE"}

F == INSTANCE Fencing WITH
       issued <- job.counter,
       floor <- job.floor,
       offered <- Generations(Present(leases)),
       leased <- Generations(ActiveLeases),
       late <- Generations({l \in ActiveLeases : leases[l].late}),
       heard <- Generations({l \in Present(leases) : leases[l].heard}),
       holder <- IF ActiveLease THEN Att.generation ELSE 0,
       accepted <- {attempts[n].generation : n \in {m \in DOMAIN attempts :
                                                      attempts[m].result = "ACCEPTED"}}
ImplementsFencing == F!FSpec

(* A Session's slots in use are exactly its active Leases, through every   *)
(* order of claims, ends of Leases and changes of the Session's state: no  *)
(* slot is leaked while its Lease is gone, none is granted twice.          *)
CapacityCounted ==
  \A s \in Present(sessions) :
    sessions[s].inUse = Cardinality({l \in LeasesOf(s) : leases[l].state = "ACTIVE"})

(* The ledger is the sum of what its Attempts did to it: each holds its    *)
(* reservation until it is settled and is charged once, over every retry.  *)
LedgerBalances ==
  LET Unsettled == {n \in DOMAIN attempts : ~attempts[n].settled}
  IN  /\ job.reserved = Reservation * Cardinality(Unsettled)
      /\ job.consumed = Reservation * (Len(attempts) - Cardinality(Unsettled))
      /\ job.reserved + job.consumed <= Limit

(* No authority without an end: an offered Lease is always due to be       *)
(* claimed and an active one to expire, although several reducers write    *)
(* the list of deadlines and one of them replaces it.                      *)
LeasesAreTimed ==
  \A l \in Present(leases) :
    /\ leases[l].state = "OFFERED" => <<"CLAIM", l>> \in deadlines
    /\ leases[l].state = "ACTIVE" => <<"LEASE_EXPIRY", l>> \in deadlines

(* A Job that ended counts every Attempt, each terminal, settled and       *)
(* assured; and it SUCCEEDED only on the word of its last Attempt.         *)
FinishedJobs ==
  job.state \in JobTerminal =>
    /\ \A n \in DOMAIN attempts :
         /\ attempts[n].state \in AttemptTerminal /\ attempts[n].settled
         /\ attempts[n].assurance # "PENDING"
    /\ job.state = "SUCCEEDED" =>
         /\ attempts # <<>> /\ ~job.stopped
         /\ LET last == attempts[Len(attempts)]
            IN  /\ last.state = "SUCCEEDED" /\ last.result # "REJECTED"
                /\ last.assurance = "CLAIMED" /\ last.assurance = job.assurance
                /\ Len(attempts) \notin input.quarantined

(* Once an Attempt is stopped no later event brings it back to work or     *)
(* changes its Result; it can only be cleaned up and ended.                *)
StopIsFinal ==
  [][\A n \in DOMAIN attempts :
       attempts[n].stopped =>
         /\ attempts'[n].stopped
         /\ attempts'[n].state \in {"STOPPING", "CLEANING"} \cup AttemptTerminal
         /\ attempts'[n].result = attempts[n].result
         /\ attempts'[n].anchor = attempts[n].anchor]_vars
=============================================================================
