-------------------------- MODULE ExecutionJournal --------------------------
(***************************************************************************)
(* ExecutionService: the durable control plane of local Jobs.  Clients on  *)
(* several processes share one append-only journal under a file lock; what *)
(* a Job is, is computed from the journal on every call, by the projector  *)
(* that also judges an event before it is appended.                        *)
(*                                                                         *)
(* A section that holds the lock is one step, save that a cancellation     *)
(* appends twice, each line flushed, and may be killed in between.  A kill *)
(* leaves the line written, cut short or absent, and the client without an *)
(* answer.  The head file is written but never read, and is left out.      *)
(***************************************************************************)
EXTENDS Naturals, Sequences, FiniteSets

CONSTANTS
  Client, Job,       \* a Job's id is computed from its Task and the Start key
  Request,           \* the Start requests made under one Task and key
  CancelKey,
  Results,           \* the terminal states that workers report
  Limit,             \* page size of an observation
  ClockStepsBack,    \* may the wall clock step back between two calls?
  MaxEvents, MaxClock, MaxKills

ASSUME ExecutionAssumption ==
  /\ Limit \in Nat \ {0}
  /\ "none" \notin Job
  /\ Results \cap {"NONE", "SUBMITTED", "QUEUED", "CANCEL_REQUESTED"} = {}

VARIABLES
  journal,           \* the complete lines
  torn,              \* an incomplete last line
  pc,                \* what each client is in the middle of
  now,               \* the wall clock, in seconds
  answers,           \* what calls have returned
  kills

vars == <<journal, torn, pc, now, answers, kills>>

Terminal == Results \cup {"CANCELLED"}
-----------------------------------------------------------------------------
(* The projection of a journal js. *)

EventsOf(js, j, type) == { i \in DOMAIN js : js[i].type = type /\ js[i].job = j }

(* Mutant of State: a requested cancellation leaves the state alone. *)
StateIgnoringRequests(js, j) ==
  IF EventsOf(js, j, "terminal") # {}
    THEN js[CHOOSE i \in EventsOf(js, j, "terminal") : TRUE].says
  ELSE IF EventsOf(js, j, "queued") # {} THEN "QUEUED"
  ELSE IF EventsOf(js, j, "submitted") # {} THEN "SUBMITTED"
  ELSE "NONE"

State(js, j) ==
  IF EventsOf(js, j, "terminal") # {}
    THEN js[CHOOSE i \in EventsOf(js, j, "terminal") : TRUE].says
  ELSE IF EventsOf(js, j, "cancellation_requested") # {} THEN "CANCEL_REQUESTED"
  ELSE IF EventsOf(js, j, "queued") # {} THEN "QUEUED"
  ELSE IF EventsOf(js, j, "submitted") # {} THEN "SUBMITTED"
  ELSE "NONE"

Revision(js, j) ==
  Cardinality({ i \in DOMAIN js : js[i].job = j /\ js[i].type # "cancellation_observed" })

StartOf(js, j) == js[CHOOSE i \in EventsOf(js, j, "submitted") : TRUE].says

Cancellations(js, j, k) ==
  { i \in EventsOf(js, j, "cancellation_requested")
            \cup EventsOf(js, j, "cancellation_observed") : js[i].says = k }

(* _project: may the event e follow js? *)
Accepts(js, e) ==
  LET s == State(js, e.job) IN
  \/ e.type = "epoch" /\ js = << >>
  \/ /\ js # << >>
     /\ \/ e.type = "submitted" /\ s = "NONE"
        \/ e.type = "queued" /\ s = "SUBMITTED"
        \/ e.type = "cancellation_requested" /\ s \notin Terminal \cup {"NONE"}
             /\ e.revision = Revision(js, e.job) /\ Cancellations(js, e.job, e.says) = {}
        \/ e.type = "cancellation_observed" /\ s \in Terminal
             /\ e.revision = Revision(js, e.job) /\ Cancellations(js, e.job, e.says) = {}
        \/ e.type = "terminal" /\ s \notin Terminal \cup {"NONE"}
             /\ e.says \in Terminal /\ (s = "CANCEL_REQUESTED" => e.says = "CANCELLED")

(* _events_unlocked refuses an unterminated line and a time that decreases. *)
Monotone(js) == \A i \in DOMAIN js : i > 1 => js[i - 1].at <= js[i].at

Readable == ~torn /\ Monotone(journal)
-----------------------------------------------------------------------------
Idle == [at |-> "idle"]

NoAnswer == {}

(* The lock is free between sections: only a cancellation spans two steps. *)
LockFree == \A c \in Client : pc[c].at # "cancelling"

Event(type, j, says, revision) ==
  [type |-> type, job |-> j, says |-> says, revision |-> revision, at |-> now]

(* A call that ends by reading the journal back, to build its observation. *)
Return(c, js, next, answer) ==
  IF Monotone(js)
  THEN pc' = [pc EXCEPT ![c] = next] /\ answers' = answers \cup answer
  ELSE pc' = [pc EXCEPT ![c] = Idle] /\ UNCHANGED answers

(* _append_unlocked by client c, which then goes on to next with answer. *)
Put(c, e, next, answer) ==
  /\ Readable
  /\ Len(journal) < MaxEvents
  /\ Accepts(journal, e)
  /\ UNCHANGED now
  /\ \/ /\ journal' = Append(journal, e)
        /\ Return(c, journal', next, answer)
        /\ UNCHANGED <<torn, kills>>
     \/ /\ kills < MaxKills /\ kills' = kills + 1
        /\ pc' = [pc EXCEPT ![c] = Idle]
        /\ \/ journal' = Append(journal, e) /\ UNCHANGED torn
           \/ torn' = TRUE /\ UNCHANGED journal
        /\ UNCHANGED answers

(* A section that only reads. *)
Read(c, next, answer) ==
  /\ Readable
  /\ Return(c, journal, next, answer)
  /\ UNCHANGED <<journal, torn, now, kills>>
-----------------------------------------------------------------------------
Init ==
  /\ journal = << >> /\ torn = FALSE
  /\ pc = [c \in Client |-> Idle]
  /\ now = 0 /\ kills = 0
  /\ answers = {}

(* start calls initialize, in a section of its own, and then takes the lock *)
(* again.                                                                   *)
Initialize(c, j, q) ==
  LET next == [at |-> "starting", job |-> j, request |-> q] IN
  /\ LockFree /\ pc[c] = Idle
  /\ \/ journal = << >> /\ Put(c, Event("epoch", "none", "none", 0), next, NoAnswer)
     \/ journal # << >> /\ Read(c, next, NoAnswer)

(* Mutant of Submit: the request under the key is not compared. *)
SubmitForAnyRequest(c) ==
  /\ LockFree /\ pc[c].at = "starting"
  /\ LET j == pc[c].job
         answer == {[call |-> "start", job |-> j, says |-> pc[c].request]}
     IN  \/ /\ State(journal, j) = "NONE"
            /\ Put(c, Event("submitted", j, pc[c].request, 0), Idle, answer)
         \/ State(journal, j) # "NONE" /\ Read(c, Idle, answer)

Submit(c) ==
  /\ LockFree /\ pc[c].at = "starting"
  /\ LET j == pc[c].job
         q == pc[c].request
         answer == {[call |-> "start", job |-> j, says |-> q]}
     IN  \/ /\ State(journal, j) = "NONE"
            /\ Put(c, Event("submitted", j, q, 0), Idle, answer)
         \/ /\ State(journal, j) # "NONE" /\ StartOf(journal, j) = q
            /\ Read(c, Idle, answer)
         \/ /\ State(journal, j) # "NONE" /\ StartOf(journal, j) # q
            /\ Read(c, Idle, NoAnswer)

Queue(c, j) ==
  /\ LockFree /\ pc[c] = Idle /\ State(journal, j) = "SUBMITTED"
  /\ Put(c, Event("queued", j, "none", 0), Idle, NoAnswer)

(* Mutant of Cancel: the call returns after its first append. *)
CancelInOneAppend(c, j, k) ==
  /\ LockFree /\ pc[c] = Idle /\ State(journal, j) \notin Terminal \cup {"NONE"}
  /\ Put(c, Event("cancellation_requested", j, k, Revision(journal, j)), Idle,
         {[call |-> "cancel", job |-> j, says |-> k]})

(* The revision is the one an observation gave the caller: a stale one is   *)
(* refused, so the current one is all that need be tried.                   *)
Cancel(c, j, k) ==
  /\ LockFree /\ pc[c] = Idle /\ State(journal, j) # "NONE"
  /\ LET answer == {[call |-> "cancel", job |-> j, says |-> k]}
         e(type) == Event(type, j, k, Revision(journal, j))
     IN  \/ Cancellations(journal, j, k) # {} /\ Read(c, Idle, NoAnswer)
         \/ /\ Cancellations(journal, j, k) = {} /\ State(journal, j) \in Terminal
            /\ Put(c, e("cancellation_observed"), Idle, answer)
         \/ /\ Cancellations(journal, j, k) = {} /\ State(journal, j) \notin Terminal
            /\ Len(journal) + 1 < MaxEvents
            /\ Put(c, e("cancellation_requested"),
                   [at |-> "cancelling", job |-> j, key |-> k], NoAnswer)

FinishCancel(c) ==
  /\ pc[c].at = "cancelling"
  /\ Put(c, Event("terminal", pc[c].job, "CANCELLED", 0), Idle,
         {[call |-> "cancel", job |-> pc[c].job, says |-> pc[c].key]})

(* Between two sections, or before the line reaches the file. *)
Killed(c) ==
  /\ pc[c] # Idle
  /\ kills < MaxKills /\ kills' = kills + 1
  /\ pc' = [pc EXCEPT ![c] = Idle]
  /\ UNCHANGED <<journal, torn, now, answers>>

(* Mutant of RecordTerminal: a retry is answered with its own result. *)
RecordTerminalAgain(c, j, end) ==
  /\ LockFree /\ pc[c] = Idle
  /\ LET answer == {[call |-> "outcome", job |-> j, says |-> end]}
     IN  \/ State(journal, j) = "QUEUED" /\ Put(c, Event("terminal", j, end, 0), Idle, answer)
         \/ State(journal, j) \in Terminal /\ Read(c, Idle, answer)

(* Mutant of RecordTerminal: the queue is not required. *)
RecordTerminalUnqueued(c, j, end) ==
  /\ LockFree /\ pc[c] = Idle
  /\ State(journal, j) = "CANCEL_REQUESTED" => end = "CANCELLED"
  /\ Put(c, Event("terminal", j, end, 0), Idle,
         {[call |-> "outcome", job |-> j, says |-> end]})

(* record_terminal, the hook of the local worker adapter. *)
RecordTerminal(c, j, end) ==
  /\ LockFree /\ pc[c] = Idle
  /\ State(journal, j) \in {"QUEUED", "CANCEL_REQUESTED"}
  /\ State(journal, j) = "CANCEL_REQUESTED" => end = "CANCELLED"
  /\ Put(c, Event("terminal", j, end, 0), Idle,
         {[call |-> "outcome", job |-> j, says |-> end]})

GetOutcome(c, j) ==
  /\ LockFree /\ pc[c] = Idle
  /\ State(journal, j) \in Terminal
  /\ Read(c, Idle, {[call |-> "outcome", job |-> j, says |-> State(journal, j)]})

(* observe: the events of the Job after `last', up to the fixed prefix, and a *)
(* cursor while they do not fit one page.                                     *)
Matching(j, last, through) ==
  { i \in DOMAIN journal : journal[i].job = j /\ i > last /\ i <= through }

FirstOf(events) ==
  { i \in events : Cardinality({ k \in events : k <= i }) <= Limit }

(* Mutant of Page: each page reads up to the newest event. *)
PageThroughLatest(c, j, last, through, got) ==
  LET found == Matching(j, last, Len(journal))
      page == FirstOf(found)
      all == got \cup page
  IN  IF page = found
      THEN Read(c, Idle, {[call |-> "observe", job |-> j, says |-> through, got |-> all]})
      ELSE Read(c, [at |-> "reading", job |-> j, through |-> through, got |-> all,
                    last |-> CHOOSE i \in page : \A k \in page : k <= i], NoAnswer)

Page(c, j, last, through, got) ==
  LET found == Matching(j, last, through)
      page == FirstOf(found)
      all == got \cup page
  IN  IF page = found
      THEN Read(c, Idle, {[call |-> "observe", job |-> j, says |-> through, got |-> all]})
      ELSE Read(c, [at |-> "reading", job |-> j, through |-> through, got |-> all,
                    last |-> CHOOSE i \in page : \A k \in page : k <= i], NoAnswer)

Observe(c, j) ==
  /\ LockFree /\ pc[c] = Idle /\ State(journal, j) # "NONE"
  /\ Page(c, j, 0, Len(journal), {})

ObserveNext(c) ==
  /\ LockFree /\ pc[c].at = "reading"
  /\ Page(c, pc[c].job, pc[c].last, pc[c].through, pc[c].got)

Tick ==
  /\ now' \in 0 .. MaxClock /\ (now' > now \/ (ClockStepsBack /\ now' < now))
  /\ UNCHANGED <<journal, torn, pc, answers, kills>>

Next ==
  \/ \E c \in Client, j \in Job :
       \/ \E q \in Request : Initialize(c, j, q)
       \/ Queue(c, j) \/ GetOutcome(c, j) \/ Observe(c, j)
       \/ \E k \in CancelKey : Cancel(c, j, k)
       \/ \E end \in Terminal : RecordTerminal(c, j, end)
  \/ \E c \in Client :
       Submit(c) \/ FinishCancel(c) \/ Killed(c) \/ ObserveNext(c)
  \/ Tick

Spec == Init /\ [][Next]_vars
-----------------------------------------------------------------------------
Returned(call, j) == { a \in answers : a.call = call /\ a.job = j }

(* The executor implements JobLifecycle: kills, retries and racing clients   *)
(* show a Job only the moves that the abstract specification allows.         *)
Jobs == INSTANCE JobLifecycle
          WITH Terminal <- Terminal, job <- [j \in Job |-> State(journal, j)]

ImplementsJobs == Jobs!Spec

(* A Start that returned has its submission in the journal, for the request  *)
(* it made: no two requests under one key are ever both answered.            *)
StartsAreKept ==
  \A j \in Job : \A a \in Returned("start", j) :
    \E i \in DOMAIN journal :
      EventsOf(journal, j, "submitted") = {i} /\ journal[i].says = a.says

(* A Cancel that returned on its first call leaves the Job at an end, and    *)
(* recorded under its key once; a kill between its two lines is the caller's *)
(* to notice, by the missing answer.                                         *)
CancelsSettle ==
  \A j \in Job : \A a \in Returned("cancel", j) :
    /\ State(journal, j) \in Terminal
    /\ \E i \in DOMAIN journal : Cancellations(journal, j, a.says) = {i}

(* All callers that ever learn the outcome of a Job learn the same one, and  *)
(* no result is reported for a Job with a cancellation requested before it.  *)
OutcomesAgree ==
  \A j \in Job : \A a, b \in Returned("outcome", j) : a.says = b.says

CancellationWins ==
  \A j \in Job : \A i \in EventsOf(journal, j, "cancellation_requested"),
                    k \in EventsOf(journal, j, "terminal") :
    i < k /\ journal[k].says = "CANCELLED"

(* A paged observation ends with each event of the Job up to its prefix      *)
(* exactly as if it had been read at once, whatever was appended meanwhile.  *)
PagesArePrefix ==
  \A j \in Job : \A a \in Returned("observe", j) :
    a.got = { i \in 1 .. a.says : journal[i].job = j }

=============================================================================
