----------------------------- MODULE HostTasks -----------------------------
(***************************************************************************)
(* Host Tasks: a Task Capsule pins a Capability contract and a Snapshot of *)
(* one Research Program; a Host works on it outside of the system; Athanor *)
(* accepts its result later, if the world is still the one pinned.  Code   *)
(* Reviews are worked on by such Tasks.                                    *)
(*                                                                         *)
(* `log' is what the Chronicle records of this: each append is judged and  *)
(* made under one lock, so it is one step where it reads nothing else      *)
(* (Chronicle.tla shows what kills leave of it).  The contracts are a file *)
(* that people edit, under a lock of its own that each reading takes anew. *)
(* A capsule is written in steps, a reading each: the Review's status, the *)
(* contract, the contract's Sigil, the events.  So is an acceptance, which *)
(* holds the Chronicle's lock but reads the contracts three times.         *)
(***************************************************************************)
EXTENDS Naturals, Sequences, FiniteSets

CONSTANTS
  Program, Review, Task,
  Capability,          \* of these, the ones named below have rules of their own
  Circle,              \* the tools, time and network that a caller asks for
  Contracts,           \* records [form, circles, approval]: see below
  Orders,              \* what Tasks are opened for: capability, Program, Review, Circle
  Edits,               \* what people make of a contract: capability, contract
  Default,             \* the registry that init writes
  NoReview,
  MaxEvents, MaxEdits,
  MaxChanges           \* of any one Program, Reviews apart

(* The form of a contract is its version and outputs, `circles' what it     *)
(* permits, `approval' whether a person must approve each Task.  A contract *)
(* stands for its own Sigil.                                                *)
ASSUME HostTasksAssumption ==
  /\ NoReview \notin Review /\ "none" \notin Program
  /\ Orders \subseteq [capability : Capability, program : Program,
                      review : Review \cup {NoReview}, circle : Circle]
  /\ Edits \subseteq [capability : Capability, contract : Contracts]
  /\ Default \in [Capability -> Contracts]
  /\ \A k \in Contracts : k.circles \subseteq Circle /\ k.approval \in BOOLEAN

VARIABLES
  log,                 \* the events of the Chronicle
  contract,            \* the Capability Registry
  capsules,            \* the Task Capsules, complete or being created
  judging,             \* the acceptance that holds the Chronicle's lock, if any
  held,                \* the contracts in the registry while a Task was judged
  edits

vars == <<log, contract, capsules, judging, held, edits>>

ReviewWork == {"bench.review.local", "bench.review.external"}
ReviewTasks == ReviewWork \cup {"bench.review.accept"}

Event(type, p, r, t, says) ==
  [type |-> type, program |-> p, review |-> r, task |-> t, says |-> says]
-----------------------------------------------------------------------------
(* The projection. *)

On(js, type, r) == { i \in DOMAIN js : js[i].type = type /\ js[i].review = r }
Of(js, type, t) == { i \in DOMAIN js : js[i].type = type /\ js[i].task = t }

Request(js, r) == js[CHOOSE i \in On(js, "requested", r) : TRUE]

ReviewStatus(js, r) ==
  IF On(js, "requested", r) = {} THEN "UNKNOWN"
  ELSE IF On(js, "accepted", r) # {} THEN "ACCEPTED"
  ELSE IF On(js, "completed", r) # {} THEN "COMPLETED"
  ELSE IF Request(js, r).says = "local" THEN "PREPARED"
  ELSE IF On(js, "approved", r) # {} THEN "APPROVED"
  ELSE "WAITING_FOR_DISCLOSURE_AUTHORIZATION"

(* Mutant of Inventory: the type of an object is missing from OBJECT_TYPES. *)
InventoryOfReviews(js, p) ==
  [ research |-> 0,
    reviews |-> [ r \in { q \in Review : On(js, "requested", q) # {} /\ Request(js, q).program = p }
                    |-> ReviewStatus(js, r) ] ]

(* SnapshotStore.inventory: the objects of a Program, with their content. *)
Inventory(js, p) ==
  [ research |-> Cardinality({ i \in DOMAIN js : js[i].type = "research" /\ js[i].program = p }),
    reviews |-> [ r \in { q \in Review : On(js, "requested", q) # {} /\ Request(js, q).program = p }
                    |-> ReviewStatus(js, r) ] ]

(* May a Task of capability cap work on review r? *)
Workable(js, cap, r) ==
  \/ cap = "bench.review.local" /\ ReviewStatus(js, r) = "PREPARED"
  \/ cap = "bench.review.external" /\ ReviewStatus(js, r) = "APPROVED"
  \/ cap = "bench.review.accept" /\ ReviewStatus(js, r) = "COMPLETED"
-----------------------------------------------------------------------------
None == [at |-> "none"]
Nobody == [at |-> "nobody"]

Init ==
  /\ log = << >>
  /\ contract = Default
  /\ capsules = [t \in Task |-> None]
  /\ judging = Nobody
  /\ held = [t \in Task |-> {}]
  /\ edits = 0

(* The append that ends a command and gives the lock back. *)
Append1(e) ==
  /\ Len(log) < MaxEvents
  /\ log' = Append(log, e)
  /\ judging' = Nobody
  /\ UNCHANGED <<contract, capsules, held, edits>>

(* A command that holds the lock for no longer than this step. *)
Record(e) == judging = Nobody /\ Append1(e)

(* Somebody edits the registry, whatever else is going on; what is missing  *)
(* from it is restored from the defaults on the next read.                  *)
EditContract(cap, k) ==
  /\ edits < MaxEdits /\ k # contract[cap]
  /\ contract' = [contract EXCEPT ![cap] = k]
  /\ held' = [t \in Task |->
                IF judging # Nobody /\ judging.task = t /\ capsules[t].capability = cap
                THEN held[t] \cup {k} ELSE held[t]]
  /\ edits' = edits + 1
  /\ UNCHANGED <<log, capsules, judging>>

(* Any other command that changes an object of the Program. *)
Research(p) ==
  /\ Inventory(log, p).research < MaxChanges
  /\ Record(Event("research", p, NoReview, "none", "none"))

(* Mutant of OpenTask: the status of the Review is left to the acceptance. *)
OpenTaskUnchecked(t, cap, p, r, circle) ==
  /\ capsules[t] = None
  /\ capsules' = [capsules EXCEPT ![t] =
       [at |-> "asked", capability |-> cap, program |-> p, review |-> r,
        circle |-> circle]]
  /\ UNCHANGED <<log, contract, judging, held, edits>>

(* Through the server a Task for a Review is bound to it and opened only    *)
(* when the Review is ready; through the command line no Task is bound.     *)
OpenTask(t, cap, p, r, circle) ==
  /\ capsules[t] = None
  /\ r # NoReview => judging = Nobody /\ cap \in ReviewTasks /\ Workable(log, cap, r)
  /\ capsules' = [capsules EXCEPT ![t] =
       [at |-> "asked", capability |-> cap, program |-> p, review |-> r,
        circle |-> circle]]
  /\ UNCHANGED <<log, contract, judging, held, edits>>

(* TaskService.create: the contract, its Sigil, the events and the Snapshot. *)
ReadContract(t) ==
  LET c == capsules[t] IN
  /\ c.at = "asked"
  /\ capsules' = [capsules EXCEPT ![t] =
       [at |-> "formed", capability |-> c.capability, program |-> c.program,
        review |-> c.review, circle |-> c.circle, form |-> contract[c.capability].form]]
  /\ UNCHANGED <<log, contract, judging, held, edits>>

ReadSigil(t) ==
  LET c == capsules[t] IN
  /\ c.at = "formed"
  /\ capsules' = [capsules EXCEPT ![t] =
       [at |-> "signed", capability |-> c.capability, program |-> c.program,
        review |-> c.review, circle |-> c.circle, form |-> c.form,
        contract |-> contract[c.capability]]]
  /\ UNCHANGED <<log, contract, judging, held, edits>>

PinTask(t) ==
  LET c == capsules[t] IN
  /\ c.at = "signed" /\ judging = Nobody
  /\ capsules' = [capsules EXCEPT ![t] =
       [at |-> "pinned", capability |-> c.capability, program |-> c.program,
        review |-> c.review, circle |-> c.circle, form |-> c.form,
        contract |-> c.contract,
        head |-> Len(log), snapshot |-> Inventory(log, c.program)]]
  /\ UNCHANGED <<log, contract, judging, held, edits>>

(* grant_approval compares the contract with the capsule before it takes    *)
(* the lock.  An edit may fall between the two, or the approver may have    *)
(* compared as soon as the Task was pinned: the comparison excludes nothing. *)
GrantApproval(t) ==
  /\ capsules[t].at = "pinned" /\ Of(log, "approval", t) = {}
  /\ Record(Event("approval", "none", NoReview, t, "none"))

(* accept_agent_result, which holds the Chronicle's lock from here on, until *)
(* it appends, refuses or is killed.  The documents that a result brings are *)
(* checked too, and one that is not its Task's or Review's is refused.       *)
BeginAcceptance(t) ==
  LET c == capsules[t] IN
  /\ judging = Nobody
  /\ c.at = "pinned" /\ Of(log, "result", t) = {}
  /\ c.contract = contract[c.capability]
  /\ c.head <= Len(log) /\ c.snapshot = Inventory(log, c.program)
  /\ judging' = [at |-> "compared", task |-> t]
  /\ held' = [held EXCEPT ![t] = {contract[c.capability]}]
  /\ UNCHANGED <<log, contract, capsules, edits>>

(* Ward.evaluate takes the rules by a second reading. *)
ReadRules(t) ==
  /\ judging.at = "compared" /\ judging.task = t
  /\ judging' = [at |-> "ruled", task |-> t, rules |-> contract[capsules[t].capability]]
  /\ UNCHANGED <<log, contract, capsules, held, edits>>

(* Mutant of Ward: the form that the capsule took from an earlier reading   *)
(* of the registry is not compared.                                         *)
WardOfSigil(t, rules) ==
  LET c == capsules[t] IN
  /\ c.contract = contract[c.capability]
  /\ c.circle \in rules.circles
  /\ rules.approval => Of(log, "approval", t) # {}

(* Ward.evaluate, when it says PASS: it compares the Sigil of a third        *)
(* reading, and all else with the rules of the second.                       *)
Ward(t, rules) ==
  LET c == capsules[t] IN
  /\ c.contract = contract[c.capability]
  /\ c.form = rules.form
  /\ c.circle \in rules.circles
  /\ rules.approval => Of(log, "approval", t) # {}

(* Mutant of AcceptResult: the Review is not looked at again. *)
AcceptResultOnceOpened(t, status) ==
  LET c == capsules[t] IN
  /\ judging.at = "ruled" /\ judging.task = t
  /\ Ward(t, judging.rules)
  /\ c.capability \in ReviewTasks => c.review # NoReview
  /\ Append1(Event("result", c.program, c.review, t, status))

AcceptResult(t, status) ==
  LET c == capsules[t] IN
  /\ judging.at = "ruled" /\ judging.task = t
  /\ Ward(t, judging.rules)
  /\ c.capability \in ReviewTasks =>
       c.review # NoReview /\ Workable(log, c.capability, c.review)
  /\ Append1(Event("result", c.program, c.review, t, status))

(* A refusal on a later reading, or a kill. *)
EndUnaccepted ==
  /\ judging # Nobody
  /\ judging' = Nobody
  /\ UNCHANGED <<log, contract, capsules, held, edits>>
-----------------------------------------------------------------------------
PrepareReview(r, p, kind) ==
  /\ On(log, "requested", r) = {}
  /\ Record(Event("requested", p, r, "none", kind))

ApproveReview(r) ==
  /\ ReviewStatus(log, r) = "WAITING_FOR_DISCLOSURE_AUTHORIZATION"
  /\ Record(Event("approved", Request(log, r).program, r, "none", "none"))

(* The result must be of a Task for this Review, in its Program. *)
RecordReview(r, t) ==
  /\ ReviewStatus(log, r) \in {"PREPARED", "APPROVED"}
  /\ capsules[t].at = "pinned"
  /\ capsules[t].capability = IF Request(log, r).says = "external"
                              THEN "bench.review.external" ELSE "bench.review.local"
  /\ \E i \in Of(log, "result", t) :
       /\ log[i].says = "COMPLETED" /\ log[i].review = r
       /\ log[i].program = Request(log, r).program
  /\ Record(Event("completed", Request(log, r).program, r, t, "none"))

AcceptReview(r) ==
  /\ ReviewStatus(log, r) = "COMPLETED"
  /\ Record(Event("accepted", Request(log, r).program, r, "none", "none"))

Next ==
  \/ \E x \in Edits : EditContract(x.capability, x.contract)
  \/ \E p \in Program : Research(p)
  \/ \E t \in Task :
       \/ \E o \in Orders : OpenTask(t, o.capability, o.program, o.review, o.circle)
       \/ ReadContract(t) \/ ReadSigil(t) \/ PinTask(t) \/ GrantApproval(t)
       \/ BeginAcceptance(t) \/ ReadRules(t)
       \/ \E status \in {"COMPLETED", "FAILED"} : AcceptResult(t, status)
       \/ \E r \in Review : RecordReview(r, t)
  \/ \E r \in Review :
       \/ \E p \in Program, kind \in {"local", "external"} : PrepareReview(r, p, kind)
       \/ ApproveReview(r) \/ AcceptReview(r)
  \/ EndUnaccepted

Spec == Init /\ [][Next]_vars
-----------------------------------------------------------------------------
Results == { i \in DOMAIN log : log[i].type = "result" }

(* Between the Snapshot a Task is based on and the acceptance of its result *)
(* nothing of its Program was added or changed: RFC-0002 on freshness.      *)
ResultsFresh ==
  \A i \in Results : LET c == capsules[log[i].task] IN
    \A k \in c.head + 1 .. i - 1 :
      log[k].program = c.program => log[k].type = "result"

(* Nobody was asked to work on an external Review before its disclosure was *)
(* authorized: the authorization lies before the Snapshot of every accepted *)
(* result, whichever Program the Task was opened in.                        *)
DisclosureFirst ==
  \A i \in Results : LET c == capsules[log[i].task] IN
    c.capability = "bench.review.external" =>
      \E k \in On(log, "approved", c.review) : k <= c.head

(* What was accepted kept, in every part, to one contract that the registry *)
(* held while it was judged, and was approved before if that contract asks  *)
(* for it; the contract that its Task pinned was among those held.  So      *)
(* unless the registry was edited during the acceptance itself, the result  *)
(* kept to the pinned contract, whatever was edited before.                 *)
ResultsPermitted ==
  \A i \in Results :
    LET t == log[i].task
        c == capsules[t]
    IN  /\ c.contract \in held[t]
        /\ \E k \in held[t] :
             /\ c.form = k.form
             /\ c.circle \in k.circles
             /\ k.approval => \E j \in Of(log, "approval", t) : j < i

(* The life of a Review: no work on it is accepted once it is completed, it *)
(* is completed by work accepted before, and no Task concerned with its     *)
(* acceptance is accepted before that or after the acceptance.              *)
ReviewsInOrder ==
  \A r \in Review :
    /\ \A i \in Results, k \in On(log, "completed", r) : log[i].review = r =>
         IF capsules[log[i].task].capability \in ReviewWork THEN i < k ELSE k < i
    /\ \A i \in Results, k \in On(log, "accepted", r) : log[i].review = r => i < k
    /\ \A k \in On(log, "completed", r) :
         \E i \in Results : i < k /\ log[i].task = log[k].task /\ log[i].review = r
=============================================================================
