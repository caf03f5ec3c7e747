-------------------------- MODULE HostTasksProofs --------------------------
(* Theorems about HostTasks, for any number of Programs, Reviews, Tasks,   *)
(* Capabilities, contracts and edits.                                      *)
EXTENDS HostTasks, FiniteSetTheorems, TLAPS

(* The events, and which result, completion or request they tell of. *)
Types == {"research", "approval", "result", "requested", "approved", "completed", "accepted"}
Says == {"none", "local", "external", "COMPLETED", "FAILED"}

Events ==
  [type : Types, program : Program \cup {"none"}, review : Review \cup {NoReview},
   task : Task \cup {"none"}, says : Says]

ResultOf(i) == capsules[log[i].task]

LogInv ==
  /\ log \in Seq(Events)
  /\ capsules = [t \in Task |-> capsules[t]]
  /\ contract = [cap \in Capability |-> contract[cap]]
  /\ held = [t \in Task |-> held[t]]
  /\ \A cap \in Capability : contract[cap] \in Contracts

(* A Task bound to a Review is one of the three Review Capabilities. *)
CapsuleInv ==
  \A t \in Task :
    /\ capsules[t].at \in {"none", "asked", "formed", "signed", "pinned"}
    /\ capsules[t].at # "none" =>
         /\ capsules[t].capability \in Capability
         /\ capsules[t].program \in Program
         /\ capsules[t].review \in Review \cup {NoReview}
         /\ capsules[t].review # NoReview => capsules[t].capability \in ReviewTasks

(* Whose result is in the log, and for which Review. *)
ResultInv ==
  \A i \in Results :
    /\ log[i].task \in Task
    /\ ResultOf(i).at = "pinned"
    /\ log[i].review = ResultOf(i).review
    /\ ResultOf(i).capability \in ReviewTasks => ResultOf(i).review # NoReview

(* A Task for an external Review was opened after its authorization. *)
DisclosureInv ==
  \A t \in Task :
    capsules[t].at # "none" /\ capsules[t].capability = "bench.review.external"
      /\ capsules[t].review # NoReview =>
      \E k \in On(log, "approved", capsules[t].review) :
        capsules[t].at = "pinned" => k <= capsules[t].head

(* An acceptance goes on with the log that it has judged the Snapshot by,   *)
(* and every contract that it has read was in the registry since it began.  *)
JudgingInv ==
  judging # Nobody =>
    LET t == judging.task
        c == capsules[t]
    IN  /\ t \in Task /\ c.at = "pinned"
        /\ \A i \in Results : log[i].task # t
        /\ c.snapshot = Inventory(log, c.program)
        /\ c.contract \in held[t] /\ contract[c.capability] \in held[t]
        /\ judging.at = "ruled" => judging.rules \in held[t]

TaskInv == LogInv /\ CapsuleInv /\ ResultInv /\ DisclosureInv /\ JudgingInv

LEMMA EventTyped ==
  ASSUME NEW type \in Types, NEW p \in Program \cup {"none"},
         NEW r \in Review \cup {NoReview}, NEW t \in Task \cup {"none"},
         NEW says \in Says
  PROVE  Event(type, p, r, t, says) \in Events
BY DEF Event, Events

(***************************************************************************)
(* What an appended event changes: nothing before it.                      *)
(***************************************************************************)
LEMMA AppendedLog ==
  ASSUME LogInv, NEW e \in Events, Append1(e)
  PROVE  /\ log' \in Seq(Events)
         /\ Len(log') = Len(log) + 1
         /\ DOMAIN log' = DOMAIN log \cup {Len(log) + 1}
         /\ Len(log) + 1 \notin DOMAIN log
         /\ \A i \in DOMAIN log : log'[i] = log[i]
         /\ log'[Len(log) + 1] = e
         /\ \A i \in DOMAIN log : i \in Nat /\ i <= Len(log)
         /\ judging' = Nobody /\ UNCHANGED <<contract, capsules, held, edits>>
BY DEF Append1, LogInv

LEMMA AppendedOn ==
  ASSUME LogInv, NEW e \in Events, Append1(e), NEW type, NEW r
  PROVE  On(log', type, r) =
           On(log, type, r) \cup
             IF e.type = type /\ e.review = r THEN {Len(log) + 1} ELSE {}
BY AppendedLog DEF On

(* An event that is no result keeps the invariant. *)
LEMMA OtherEventsKeep ==
  ASSUME TaskInv, NEW e \in Events, Append1(e), e.type # "result"
  PROVE  TaskInv'
<1>1. /\ log' \in Seq(Events) /\ judging' = Nobody /\ UNCHANGED <<contract, capsules, held>>
      /\ Results' = Results
      /\ \A i \in Results : log'[i] = log[i]
  BY AppendedLog DEF TaskInv, Results
<1>2. LogInv'
  BY <1>1 DEF TaskInv, LogInv
<1>3. CapsuleInv'
  BY <1>1 DEF TaskInv, CapsuleInv
<1>4. ResultInv'
  BY <1>1 DEF TaskInv, ResultInv, ResultOf
<1>5. DisclosureInv'
  BY <1>1, AppendedOn DEF TaskInv, DisclosureInv
<1>6. JudgingInv'
  BY <1>1 DEF JudgingInv
<1>. QED  BY <1>2, <1>3, <1>4, <1>5, <1>6 DEF TaskInv

(* What the status of a Review says of the log. *)
LEMMA StatusMeans ==
  ASSUME NEW js, NEW r
  PROVE  /\ ReviewStatus(js, r) \in {"PREPARED", "APPROVED"} =>
              On(js, "completed", r) = {} /\ On(js, "accepted", r) = {}
         /\ ReviewStatus(js, r) = "APPROVED" => On(js, "approved", r) # {}
         /\ ReviewStatus(js, r) = "COMPLETED" =>
              On(js, "completed", r) # {} /\ On(js, "accepted", r) = {}
BY DEF ReviewStatus

(***************************************************************************)
(* The steps, one lemma per kind.                                          *)
(***************************************************************************)
LEMMA RegistryKept ==
  ASSUME TaskInv, NEW cap \in Capability, NEW k \in Contracts, EditContract(cap, k)
  PROVE  TaskInv' /\ \A i \in Results : held'[log[i].task] = held[log[i].task]
<1>1. /\ UNCHANGED <<log, capsules, judging>>
      /\ contract' = [contract EXCEPT ![cap] = k]
      /\ held' = [t \in Task |->
                    IF judging # Nobody /\ judging.task = t /\ capsules[t].capability = cap
                    THEN held[t] \cup {k} ELSE held[t]]
  BY DEF EditContract
<1>2. LogInv'
  BY <1>1 DEF TaskInv, LogInv
<1>3. Results' = Results
  BY <1>1 DEF Results
<1>4. CapsuleInv' /\ ResultInv' /\ DisclosureInv'
  BY <1>1, <1>3 DEF TaskInv, CapsuleInv, ResultInv, ResultOf, DisclosureInv, On
<1>5. JudgingInv'
  <2>1. SUFFICES ASSUME judging # Nobody  PROVE  JudgingInv'
    BY <1>1 DEF JudgingInv
  <2>. DEFINE t == judging.task
              c == capsules[t]
  <2>2. /\ t \in Task /\ c.at = "pinned"
        /\ \A i \in Results : log[i].task # t
        /\ c.snapshot = Inventory(log, c.program)
        /\ c.contract \in held[t] /\ contract[c.capability] \in held[t]
        /\ judging.at = "ruled" => judging.rules \in held[t]
    BY <2>1 DEF TaskInv, JudgingInv
  <2>3. Inventory(log, c.program)' = Inventory(log, c.program)
    BY <1>1
  <2>4. held[t] \subseteq held'[t] /\ contract'[c.capability] \in held'[t]
    <3>1. held'[t] = IF c.capability = cap THEN held[t] \cup {k} ELSE held[t]
      BY <1>1, <2>1, <2>2
    <3>2. contract'[c.capability] = IF c.capability = cap THEN k ELSE contract[c.capability]
      BY <1>1, <2>2 DEF TaskInv, LogInv, CapsuleInv
    <3>. QED  BY <2>2, <3>1, <3>2
  <2>. QED  BY <1>1, <1>3, <2>2, <2>3, <2>4 DEF JudgingInv
<1>6. ASSUME NEW i \in Results  PROVE  held'[log[i].task] = held[log[i].task]
  <2>1. log[i].task \in Task /\ (judging # Nobody => judging.task # log[i].task)
    BY DEF TaskInv, ResultInv, JudgingInv
  <2>. QED  BY <1>1, <2>1
<1>. QED  BY <1>2, <1>4, <1>5, <1>6 DEF TaskInv

(* A step of the creation of a capsule that is not complete before it. *)
Writing(t, from, to) ==
  /\ UNCHANGED <<log, contract, judging, held>>
  /\ capsules[t].at = from /\ capsules'[t].at = to
  /\ \A u \in Task \ {t} : capsules'[u] = capsules[u]
  /\ capsules' = [u \in Task |-> capsules'[u]]

LEMMA WritingKept ==
  ASSUME TaskInv, NEW t \in Task, NEW from \in {"none", "asked", "formed", "signed"},
         NEW to, Writing(t, from, to)
  PROVE  /\ LogInv' /\ ResultInv' /\ JudgingInv'
         /\ \A i \in Results : log[i].task # t
<1>1. LogInv'
  BY DEF TaskInv, LogInv, Writing
<1>2. \A i \in Results : log[i].task # t
  BY DEF TaskInv, ResultInv, ResultOf, Writing
<1>3. Results' = Results
  BY DEF Results, Writing
<1>4. ResultInv'
  BY <1>2, <1>3 DEF TaskInv, ResultInv, ResultOf, Writing
<1>5. JudgingInv'
  <2>1. SUFFICES ASSUME judging # Nobody  PROVE  JudgingInv'
    BY DEF Writing, JudgingInv
  <2>2. judging.task \in Task \ {t}
    BY <2>1 DEF TaskInv, JudgingInv, Writing
  <2>3. capsules'[judging.task] = capsules[judging.task]
    BY <2>2 DEF Writing
  <2>4. \A p : Inventory(log', p) = Inventory(log, p)
    BY DEF Writing
  <2>. QED  BY <1>3, <2>1, <2>3, <2>4 DEF TaskInv, JudgingInv, Writing
<1>. QED  BY <1>1, <1>2, <1>4, <1>5

LEMMA OpeningKept ==
  ASSUME TaskInv, NEW t \in Task, NEW cap \in Capability, NEW p \in Program,
         NEW r \in Review \cup {NoReview}, NEW circle, OpenTask(t, cap, p, r, circle)
  PROVE  TaskInv' /\ \A i \in Results : log[i].task # t
<1>1. /\ Writing(t, "none", "asked")
      /\ capsules'[t].capability = cap
      /\ capsules'[t].program = p /\ capsules'[t].review = r
  <2>1. UNCHANGED <<log, contract, judging, held>> /\ capsules[t] = None
    BY DEF OpenTask
  <2>2. capsules[t].at = "none"
    BY <2>1 DEF None
  <2>3. capsules = [u \in Task |-> capsules[u]]
    BY DEF TaskInv, LogInv
  <2>4. capsules' = [capsules EXCEPT ![t] =
          [at |-> "asked", capability |-> cap, program |-> p, review |-> r,
           circle |-> circle]]
    BY DEF OpenTask
  <2>. QED  BY <2>1, <2>2, <2>3, <2>4 DEF Writing
<1>2. /\ LogInv' /\ ResultInv' /\ JudgingInv'
      /\ \A i \in Results : log[i].task # t
  BY <1>1, WritingKept
<1>3. r # NoReview => cap \in ReviewTasks
  BY DEF OpenTask
<1>4. CapsuleInv'
  BY <1>1, <1>3 DEF Writing, TaskInv, CapsuleInv
<1>6. cap = "bench.review.external" /\ r # NoReview => On(log, "approved", r) # {}
  BY StatusMeans DEF OpenTask, Workable
<1>7. DisclosureInv'
  BY <1>1, <1>6 DEF Writing, TaskInv, DisclosureInv, On
<1>. QED  BY <1>2, <1>4, <1>7 DEF TaskInv

LEMMA CreatingKept ==
  ASSUME TaskInv, NEW t \in Task, ReadContract(t) \/ ReadSigil(t) \/ PinTask(t)
  PROVE  /\ TaskInv'
         /\ \A i \in Results : log[i].task # t
         /\ UNCHANGED <<log, held>>
         /\ \A u \in Task \ {t} : capsules'[u] = capsules[u]
<1>1. \E from \in {"asked", "formed", "signed"}, to \in {"formed", "signed", "pinned"} :
        /\ Writing(t, from, to)
        /\ capsules'[t].capability = capsules[t].capability
        /\ capsules'[t].program = capsules[t].program
        /\ capsules'[t].review = capsules[t].review
        /\ to = "pinned" => capsules'[t].head = Len(log)
  <2>1. capsules = [u \in Task |-> capsules[u]]
    BY DEF TaskInv, LogInv
  <2>2. CASE ReadContract(t)
    <3>1. /\ Writing(t, "asked", "formed")
          /\ capsules'[t].capability = capsules[t].capability
          /\ capsules'[t].program = capsules[t].program
          /\ capsules'[t].review = capsules[t].review
      BY <2>1, <2>2 DEF ReadContract, Writing
    <3>. QED  BY <3>1
  <2>3. CASE ReadSigil(t)
    <3>1. /\ Writing(t, "formed", "signed")
          /\ capsules'[t].capability = capsules[t].capability
          /\ capsules'[t].program = capsules[t].program
          /\ capsules'[t].review = capsules[t].review
      BY <2>1, <2>3 DEF ReadSigil, Writing
    <3>. QED  BY <3>1
  <2>4. CASE PinTask(t)
    <3>1. /\ Writing(t, "signed", "pinned")
          /\ capsules'[t].capability = capsules[t].capability
          /\ capsules'[t].program = capsules[t].program
          /\ capsules'[t].review = capsules[t].review
          /\ capsules'[t].head = Len(log)
      BY <2>1, <2>4 DEF PinTask, Writing
    <3>. QED  BY <3>1
  <2>. QED  BY <2>2, <2>3, <2>4
<1>2. PICK from \in {"asked", "formed", "signed"}, to \in {"formed", "signed", "pinned"} :
        /\ Writing(t, from, to)
        /\ capsules'[t].capability = capsules[t].capability
        /\ capsules'[t].program = capsules[t].program
        /\ capsules'[t].review = capsules[t].review
        /\ to = "pinned" => capsules'[t].head = Len(log)
  BY <1>1
<1>3. /\ LogInv' /\ ResultInv' /\ JudgingInv'
      /\ \A i \in Results : log[i].task # t
  BY <1>2, WritingKept
<1>4. CapsuleInv'
  BY <1>2 DEF Writing, TaskInv, CapsuleInv
<1>5. \A r, k : k \in On(log, "approved", r) => k <= Len(log)
  BY DEF On, TaskInv, LogInv
<1>6. DisclosureInv'
  BY <1>2, <1>5 DEF Writing, TaskInv, DisclosureInv, On
<1>. QED  BY <1>2, <1>3, <1>4, <1>6 DEF TaskInv, Writing

(* The steps of an acceptance before its append, and those that end it. *)
Judge(t) == BeginAcceptance(t) \/ ReadRules(t)

LEMMA JudgingKept ==
  ASSUME TaskInv, EndUnaccepted \/ \E t \in Task : Judge(t)
  PROVE  /\ TaskInv' /\ UNCHANGED <<log, capsules>>
         /\ \A i \in Results : held'[log[i].task] = held[log[i].task]
<1>1. UNCHANGED <<log, contract, capsules>>
  BY DEF EndUnaccepted, Judge, BeginAcceptance, ReadRules
<1>2. Results' = Results /\ \A p : Inventory(log', p) = Inventory(log, p)
  BY <1>1 DEF Results
<1>3. CapsuleInv' /\ ResultInv' /\ DisclosureInv'
  BY <1>1, <1>2 DEF TaskInv, CapsuleInv, ResultInv, ResultOf, DisclosureInv, On
<1>4. ASSUME NEW t \in Task, BeginAcceptance(t)
      PROVE  LogInv' /\ JudgingInv' /\ \A i \in Results : held'[log[i].task] = held[log[i].task]
  <2>1. /\ capsules[t].at = "pinned" /\ Of(log, "result", t) = {}
        /\ capsules[t].contract = contract[capsules[t].capability]
        /\ capsules[t].snapshot = Inventory(log, capsules[t].program)
        /\ judging' = [at |-> "compared", task |-> t]
        /\ held' = [held EXCEPT ![t] = {contract[capsules[t].capability]}]
    BY <1>4 DEF BeginAcceptance
  <2>2. held = [u \in Task |-> held[u]]
    BY DEF TaskInv, LogInv
  <2>3. \A i \in Results : log[i].task \in Task \ {t}
    BY <2>1 DEF Of, Results, TaskInv, ResultInv
  <2>4. LogInv'
    BY <1>1, <2>1, <2>2 DEF TaskInv, LogInv
  <2>5. held'[t] = {contract[capsules[t].capability]}
    BY <2>1, <2>2
  <2>6. JudgingInv'
    BY <1>1, <1>2, <2>1, <2>3, <2>5 DEF JudgingInv
  <2>. QED  BY <2>1, <2>2, <2>3, <2>4, <2>6
<1>5. ASSUME NEW t \in Task, ReadRules(t)
      PROVE  LogInv' /\ JudgingInv' /\ UNCHANGED held
  <2>1. /\ judging.at = "compared" /\ judging.task = t /\ UNCHANGED held
        /\ judging' = [at |-> "ruled", task |-> t,
                       rules |-> contract[capsules[t].capability]]
    BY <1>5 DEF ReadRules
  <2>2. judging # Nobody
    BY <2>1 DEF Nobody
  <2>3. LogInv'
    BY <1>1, <2>1 DEF TaskInv, LogInv
  <2>4. JudgingInv'
    BY <1>1, <1>2, <2>1, <2>2 DEF TaskInv, JudgingInv
  <2>. QED  BY <2>1, <2>3, <2>4
<1>6. ASSUME EndUnaccepted  PROVE  LogInv' /\ JudgingInv' /\ UNCHANGED held
  BY <1>1, <1>6 DEF EndUnaccepted, TaskInv, LogInv, JudgingInv
<1>. QED  BY <1>1, <1>3, <1>4, <1>5, <1>6 DEF Judge, TaskInv

LEMMA AcceptingKept ==
  ASSUME TaskInv, NEW t \in Task, NEW status \in {"COMPLETED", "FAILED"}, AcceptResult(t, status)
  PROVE  /\ TaskInv'
         /\ LET e == Event("result", capsules[t].program, capsules[t].review, t, status)
            IN  e \in Events /\ Append1(e) /\ e.type = "result" /\ e.task = t
                /\ e.review = capsules[t].review
<1>. DEFINE e == Event("result", capsules[t].program, capsules[t].review, t, status)
<1>a. capsules[t].at = "pinned" /\ Append1(e)
  BY DEF AcceptResult, Nobody, TaskInv, JudgingInv
<1>b. /\ capsules[t].program \in Program
      /\ capsules[t].review \in Review \cup {NoReview}
  BY <1>a DEF TaskInv, CapsuleInv
<1>c. e \in Events
  BY <1>b, EventTyped DEF Types, Says
<1>d. e.type = "result" /\ e.task = t /\ e.review = capsules[t].review
  BY DEF Event
<1>1. /\ e \in Events /\ Append1(e) /\ e.type = "result" /\ e.task = t
      /\ e.review = capsules[t].review /\ capsules[t].at = "pinned"
  BY <1>a, <1>c, <1>d
<1>. HIDE DEF e
<1>2. /\ log' \in Seq(Events) /\ judging' = Nobody /\ UNCHANGED <<contract, capsules, held>>
      /\ Results' = Results \cup {Len(log) + 1}
      /\ \A i \in Results : log'[i] = log[i]
      /\ log'[Len(log) + 1] = e
  BY <1>1, AppendedLog DEF TaskInv, Results
<1>3. LogInv'
  BY <1>2 DEF TaskInv, LogInv
<1>4. CapsuleInv'
  BY <1>2 DEF TaskInv, CapsuleInv
<1>5. capsules[t].capability \in ReviewTasks => capsules[t].review # NoReview
  BY DEF AcceptResult
<1>6. ResultInv'
  BY <1>1, <1>2, <1>5 DEF TaskInv, ResultInv, ResultOf
<1>7. DisclosureInv'
  BY <1>1, <1>2, AppendedOn DEF TaskInv, DisclosureInv
<1>8. JudgingInv'
  BY <1>2 DEF JudgingInv
<1>. QED  BY <1>1, <1>3, <1>4, <1>6, <1>7, <1>8 DEF TaskInv, e

(***************************************************************************)
(* A step other than the acceptance of a result and what happens to        *)
(* capsules and registry appends some other event.                         *)
(***************************************************************************)
LEMMA RequestTyped ==
  ASSUME TaskInv, NEW r \in Review, ReviewStatus(log, r) # "UNKNOWN"
  PROVE  Request(log, r).program \in Program \cup {"none"}
<1>1. On(log, "requested", r) # {}
  BY DEF ReviewStatus
<1>2. \E i \in DOMAIN log : Request(log, r) = log[i]
  BY <1>1 DEF Request, On
<1>3. \A i \in DOMAIN log : log[i] \in Events
  BY DEF TaskInv, LogInv
<1>. QED  BY <1>2, <1>3 DEF Events

(* What the command that made an event has judged. *)
Judged(e) ==
  /\ e.type = "approval" => e.program = "none"
  /\ e.type = "requested" => e.review \in Review /\ On(log, "requested", e.review) = {}
  /\ e.type \in {"approved", "completed", "accepted"} =>
       e.review \in Review /\ e.program = Request(log, e.review).program
  /\ e.type = "approved" =>
       ReviewStatus(log, e.review) = "WAITING_FOR_DISCLOSURE_AUTHORIZATION"
  /\ e.type = "completed" => ReviewStatus(log, e.review) \in {"PREPARED", "APPROVED"}
  /\ e.type = "accepted" => ReviewStatus(log, e.review) = "COMPLETED"

OtherEvent(e) ==
  /\ Judged(e)
  /\ e \in Events /\ e.type # "result" /\ Append1(e)
  /\ e.type = "completed" => e.task \in Task /\ RecordReview(e.review, e.task)

OtherStep ==
  \/ \E p \in Program : Research(p)
  \/ \E t \in Task : GrantApproval(t) \/ \E r \in Review : RecordReview(r, t)
  \/ \E r \in Review :
       \/ \E p \in Program, kind \in {"local", "external"} : PrepareReview(r, p, kind)
       \/ ApproveReview(r) \/ AcceptReview(r)

LEMMA OtherStepsAppend ==
  ASSUME TaskInv, OtherStep
  PROVE  \E e : OtherEvent(e)
<1>1. ASSUME NEW p \in Program, Research(p)  PROVE  \E e : OtherEvent(e)
  <2>. DEFINE e == Event("research", p, NoReview, "none", "none")
  <2>1. e \in Events
    BY EventTyped DEF Types, Says
  <2>2. e.type = "research"
    BY DEF Event
  <2>4. Judged(e)
    BY <2>2 DEF Judged
  <2>3. Append1(e)
    BY <1>1 DEF Research, Record
  <2>. HIDE DEF e
  <2>. QED  BY <2>1, <2>2, <2>3, <2>4 DEF OtherEvent
<1>2. ASSUME NEW t \in Task, GrantApproval(t)  PROVE  \E e : OtherEvent(e)
  <2>. DEFINE e == Event("approval", "none", NoReview, t, "none")
  <2>1. e \in Events
    BY EventTyped DEF Types, Says
  <2>2. e.type = "approval" /\ e.program = "none"
    BY DEF Event
  <2>4. Judged(e)
    BY <2>2 DEF Judged
  <2>3. Append1(e)
    BY <1>2 DEF GrantApproval, Record
  <2>. HIDE DEF e
  <2>. QED  BY <2>1, <2>2, <2>3, <2>4 DEF OtherEvent
<1>3. ASSUME NEW r \in Review, NEW t \in Task, RecordReview(r, t)
      PROVE  \E e : OtherEvent(e)
  <2>. DEFINE e == Event("completed", Request(log, r).program, r, t, "none")
  <2>1. ReviewStatus(log, r) \in {"PREPARED", "APPROVED"}
    BY <1>3 DEF RecordReview
  <2>2. e \in Events
    BY <2>1, RequestTyped, EventTyped DEF Types, Says
  <2>3. /\ e.type = "completed" /\ e.review = r /\ e.task = t
        /\ e.program = Request(log, r).program
    BY DEF Event
  <2>5. Judged(e)
    BY <2>1, <2>3 DEF Judged
  <2>4. Append1(e)
    BY <1>3 DEF RecordReview, Record
  <2>. HIDE DEF e
  <2>. QED  BY <1>3, <2>2, <2>3, <2>4, <2>5 DEF OtherEvent
<1>4. ASSUME NEW r \in Review, NEW p \in Program, NEW kind \in {"local", "external"},
             PrepareReview(r, p, kind)
      PROVE  \E e : OtherEvent(e)
  <2>. DEFINE e == Event("requested", p, r, "none", kind)
  <2>1. e \in Events
    BY EventTyped DEF Types, Says
  <2>2. e.type = "requested" /\ e.review = r
    BY DEF Event
  <2>4. Judged(e)
    BY <1>4, <2>2 DEF Judged, PrepareReview
  <2>3. Append1(e)
    BY <1>4 DEF PrepareReview, Record
  <2>. HIDE DEF e
  <2>. QED  BY <2>1, <2>2, <2>3, <2>4 DEF OtherEvent
<1>5. ASSUME NEW r \in Review, ApproveReview(r)  PROVE  \E e : OtherEvent(e)
  <2>. DEFINE e == Event("approved", Request(log, r).program, r, "none", "none")
  <2>1. ReviewStatus(log, r) # "UNKNOWN"
    BY <1>5 DEF ApproveReview
  <2>2. e \in Events
    BY <2>1, RequestTyped, EventTyped DEF Types, Says
  <2>3. e.type = "approved" /\ e.review = r /\ e.program = Request(log, r).program
    BY DEF Event
  <2>5. Judged(e)
    BY <1>5, <2>3 DEF Judged, ApproveReview
  <2>4. Append1(e)
    BY <1>5 DEF ApproveReview, Record
  <2>. HIDE DEF e
  <2>. QED  BY <2>2, <2>3, <2>4, <2>5 DEF OtherEvent
<1>6. ASSUME NEW r \in Review, AcceptReview(r)  PROVE  \E e : OtherEvent(e)
  <2>. DEFINE e == Event("accepted", Request(log, r).program, r, "none", "none")
  <2>1. ReviewStatus(log, r) # "UNKNOWN"
    BY <1>6 DEF AcceptReview
  <2>2. e \in Events
    BY <2>1, RequestTyped, EventTyped DEF Types, Says
  <2>3. e.type = "accepted" /\ e.review = r /\ e.program = Request(log, r).program
    BY DEF Event
  <2>5. Judged(e)
    BY <1>6, <2>3 DEF Judged, AcceptReview
  <2>4. Append1(e)
    BY <1>6 DEF AcceptReview, Record
  <2>. HIDE DEF e
  <2>. QED  BY <2>2, <2>3, <2>4, <2>5 DEF OtherEvent
<1>. QED  BY <1>1, <1>2, <1>3, <1>4, <1>5, <1>6 DEF OtherStep

(* A quiet step appends nothing and leaves the capsules of results alone. *)
Quiet ==
  /\ UNCHANGED log
  /\ \A i \in Results : /\ capsules'[log[i].task] = capsules[log[i].task]
                        /\ held'[log[i].task] = held[log[i].task]

Accepting(e) ==
  \E t \in Task, status \in {"COMPLETED", "FAILED"} :
    /\ AcceptResult(t, status)
    /\ e \in Events /\ e.type = "result" /\ Append1(e)
    /\ e.task = t /\ e.review = capsules[t].review

LEMMA EveryStep ==
  ASSUME TaskInv, [Next]_vars
  PROVE  TaskInv' /\ (Quiet \/ (\E e : OtherEvent(e)) \/ (\E e : Accepting(e)))
<1>1. ASSUME NEW x \in Edits, EditContract(x.capability, x.contract)
      PROVE  TaskInv' /\ Quiet
  <2>1. x.capability \in Capability /\ x.contract \in Contracts
    BY HostTasksAssumption
  <2>. QED  BY <1>1, <2>1, RegistryKept DEF EditContract, Quiet
<1>2. ASSUME NEW t \in Task, NEW o \in Orders,
             OpenTask(t, o.capability, o.program, o.review, o.circle)
      PROVE  TaskInv' /\ Quiet
  <2>1. /\ o.capability \in Capability /\ o.program \in Program
        /\ o.review \in Review \cup {NoReview}
    BY HostTasksAssumption
  <2>2. TaskInv' /\ \A i \in Results : log[i].task # t
    BY <1>2, <2>1, OpeningKept
  <2>. QED  BY <1>2, <2>2 DEF OpenTask, Quiet, TaskInv, LogInv, ResultInv
<1>3. ASSUME NEW t \in Task, ReadContract(t) \/ ReadSigil(t) \/ PinTask(t)
      PROVE  TaskInv' /\ Quiet
  BY <1>3, CreatingKept DEF Quiet, TaskInv, ResultInv
<1>7. ASSUME EndUnaccepted \/ \E t \in Task : Judge(t)
      PROVE  TaskInv' /\ Quiet
  BY <1>7, JudgingKept DEF Quiet
<1>4. ASSUME OtherStep  PROVE  TaskInv' /\ \E e : OtherEvent(e)
  <2>1. PICK e : OtherEvent(e)
    BY <1>4, OtherStepsAppend
  <2>2. TaskInv'
    BY <2>1, OtherEventsKeep DEF OtherEvent
  <2>. QED  BY <2>1, <2>2
<1>5. ASSUME NEW t \in Task, NEW status \in {"COMPLETED", "FAILED"}, AcceptResult(t, status)
      PROVE  TaskInv' /\ \E e : Accepting(e)
  <2>. DEFINE e == Event("result", capsules[t].program, capsules[t].review, t, status)
  <2>1. /\ TaskInv' /\ e \in Events /\ Append1(e) /\ e.type = "result" /\ e.task = t
        /\ e.review = capsules[t].review
    BY <1>5, AcceptingKept
  <2>. HIDE DEF e
  <2>. QED  BY <1>5, <2>1 DEF Accepting
<1>6. CASE UNCHANGED vars
  BY <1>6
  DEF vars, TaskInv, LogInv, CapsuleInv, ResultInv, ResultOf, Results, DisclosureInv,
      JudgingInv, On, Quiet
<1>. QED  BY <1>1, <1>2, <1>3, <1>4, <1>5, <1>6, <1>7 DEF Next, OtherStep, Judge

LEMMA TasksStart == Init => TaskInv
BY HostTasksAssumption
DEF Init, None, TaskInv, LogInv, CapsuleInv, ResultInv, Results, DisclosureInv, JudgingInv

(* DisclosureFirst: nobody was asked to work on an external Review before  *)
(* its disclosure was authorized.                                          *)
THEOREM DisclosurePrecedesWork == Spec => []DisclosureFirst
<1>1. TaskInv /\ [Next]_vars => TaskInv'
  BY EveryStep
<1>2. TaskInv => DisclosureFirst
  BY DEF TaskInv, DisclosureInv, ResultInv, ResultOf, DisclosureFirst, Results,
         ReviewTasks, ReviewWork
<1>3. TaskInv /\ [Next]_vars => TaskInv'
  BY EveryStep
<1>. QED  BY TasksStart, <1>1, <1>2, <1>3, PTL DEF Spec

(***************************************************************************)
(* The other properties.                                                   *)
(***************************************************************************)
LEMMA LaterEvents ==
  ASSUME TaskInv, NEW e \in Events, Append1(e)
  PROVE  /\ UNCHANGED <<capsules, held>>
         /\ Results' = Results \cup (IF e.type = "result" THEN {Len(log) + 1} ELSE {})
         /\ \A i \in DOMAIN log : log'[i] = log[i] /\ i < Len(log) + 1
         /\ log'[Len(log) + 1] = e
         /\ \A type, t : Of(log, type, t) \subseteq Of(log', type, t)
         /\ Results \subseteq DOMAIN log
BY AppendedLog DEF TaskInv, Results, Of

(* ResultsPermitted: an accepted result kept to one contract, and its Task *)
(* had pinned one, of those that the registry held during the acceptance,  *)
(* however the registry was edited before that and in the course of it.    *)
THEOREM ResultsArePermitted == Spec => []ResultsPermitted
<1>1. Init => ResultsPermitted
  BY DEF Init, ResultsPermitted, Results
<1>2. ASSUME TaskInv, ResultsPermitted, [Next]_vars
      PROVE  ResultsPermitted'
  <2>1. Quiet \/ (\E e : OtherEvent(e)) \/ (\E e : Accepting(e))
    BY <1>2, EveryStep
  <2>2. CASE Quiet
    BY <1>2, <2>2 DEF Quiet, ResultsPermitted, Results, Of
  <2>3. CASE \E e : OtherEvent(e)
    BY <1>2, <2>3, LaterEvents DEF OtherEvent, ResultsPermitted
  <2>4. CASE \E e : Accepting(e)
    <3>1. PICK e : Accepting(e)
      BY <2>4
    <3>2. PICK t \in Task, status \in {"COMPLETED", "FAILED"} :
            /\ AcceptResult(t, status) /\ e \in Events /\ e.type = "result"
            /\ Append1(e) /\ e.task = t
      BY <3>1 DEF Accepting
    <3>3. /\ capsules[t].contract \in held[t] /\ judging.rules \in held[t]
          /\ capsules[t].form = judging.rules.form
          /\ capsules[t].circle \in judging.rules.circles
          /\ judging.rules.approval => Of(log, "approval", t) # {}
      BY <1>2, <3>2 DEF AcceptResult, Ward, Nobody, TaskInv, JudgingInv
    <3>4. \A k \in Of(log, "approval", t) : k \in DOMAIN log
      BY DEF Of
    <3>. QED  BY <1>2, <3>2, <3>3, <3>4, LaterEvents DEF ResultsPermitted
  <2>. QED  BY <2>1, <2>2, <2>3, <2>4
<1>3. TaskInv /\ [Next]_vars => TaskInv'
  BY EveryStep
<1>. QED  BY TasksStart, <1>1, <1>2, <1>3, PTL DEF Spec

(* A Task that is no work on its Review is accepted after the completion. *)
OrderInv ==
  /\ ReviewsInOrder
  /\ \A r \in Review, i \in Results :
       log[i].review = r /\ ResultOf(i).capability \notin ReviewWork =>
         On(log, "completed", r) # {}

(* ReviewsInOrder: work on a Review is accepted before its completion,     *)
(* which one of the results caused, and nothing after its acceptance.      *)
THEOREM ReviewsAreInOrder == Spec => []ReviewsInOrder
<1>1. Init => OrderInv
  BY DEF Init, OrderInv, ReviewsInOrder, Results, On
<1>2. ASSUME TaskInv, OrderInv, [Next]_vars
      PROVE  OrderInv'
  <2>1. Quiet \/ (\E e : OtherEvent(e)) \/ (\E e : Accepting(e))
    BY <1>2, EveryStep
  <2>2. CASE Quiet
    BY <1>2, <2>2 DEF Quiet, OrderInv, ReviewsInOrder, ResultOf, Results, On
  <2>3. CASE \E e : OtherEvent(e)
    <3>1. PICK e : OtherEvent(e)
      BY <2>3
    <3>2. \A type, r : On(log', type, r) = On(log, type, r) \cup
            IF e.type = type /\ e.review = r THEN {Len(log) + 1} ELSE {}
      BY <1>2, <3>1, AppendedOn DEF OtherEvent, TaskInv
    <3>3. /\ UNCHANGED capsules /\ Results' = Results /\ Results \subseteq DOMAIN log
          /\ \A i \in DOMAIN log : log'[i] = log[i] /\ i < Len(log) + 1
          /\ log'[Len(log) + 1] = e
      BY <1>2, <3>1, LaterEvents DEF OtherEvent
    <3>4. \A type, r : On(log, type, r) \subseteq DOMAIN log
      BY DEF On
    <3>5. e.type = "completed" =>
            /\ On(log, "completed", e.review) = {}
            /\ \E i \in Results : log[i].task = e.task /\ log[i].review = e.review
      BY <3>1, StatusMeans DEF OtherEvent, RecordReview, Of, Results
    <3>6. ReviewsInOrder'
      BY <1>2, <3>2, <3>3, <3>4, <3>5 DEF OrderInv, ReviewsInOrder, ResultOf
    <3>7. \A r \in Review, i \in Results :
            log'[i].review = r /\ ResultOf(i)'.capability \notin ReviewWork =>
              On(log', "completed", r) # {}
      BY <1>2, <3>2, <3>3 DEF OrderInv, ResultOf
    <3>. QED  BY <3>3, <3>6, <3>7 DEF OrderInv
  <2>4. CASE \E e : Accepting(e)
    <3>1. PICK e : Accepting(e)
      BY <2>4
    <3>2. PICK t \in Task, status \in {"COMPLETED", "FAILED"} :
            /\ AcceptResult(t, status) /\ e \in Events /\ e.type = "result"
            /\ Append1(e) /\ e.task = t /\ e.review = capsules[t].review
      BY <3>1 DEF Accepting
    <3>3. \A r : /\ On(log', "completed", r) = On(log, "completed", r)
                /\ On(log', "accepted", r) = On(log, "accepted", r)
      <4>1. \A type, r : On(log', type, r) = On(log, type, r) \cup
              IF e.type = type /\ e.review = r THEN {Len(log) + 1} ELSE {}
        BY <1>2, <3>2, AppendedOn DEF TaskInv
      <4>2. e.type # "completed" /\ e.type # "accepted"
        BY <3>2
      <4>3. \A r : /\ On(log', "completed", r) = On(log, "completed", r) \cup {}
                  /\ On(log', "accepted", r) = On(log, "accepted", r) \cup {}
        BY <4>1, <4>2, Zenon
      <4>. QED  BY <4>3
    <3>4. /\ UNCHANGED capsules /\ Results' = Results \cup {Len(log) + 1}
          /\ Results \subseteq DOMAIN log
          /\ \A i \in DOMAIN log : log'[i] = log[i] /\ i < Len(log) + 1
          /\ log'[Len(log) + 1] = e
      BY <1>2, <3>2, LaterEvents
    <3>5. \A type, r : On(log, type, r) \subseteq DOMAIN log
      BY DEF On
    <3>6. ASSUME NEW r \in Review, e.review = r
          PROVE  /\ On(log, "accepted", r) = {}
                 /\ IF capsules[t].capability \in ReviewWork
                      THEN On(log, "completed", r) = {}
                      ELSE On(log, "completed", r) # {}
      <4>1. capsules[t].review # NoReview
        BY <3>2, <3>6, HostTasksAssumption
      <4>2. capsules[t].capability \in ReviewTasks /\ capsules[t].at = "pinned"
        BY <1>2, <3>2, <4>1 DEF AcceptResult, Nobody, TaskInv, CapsuleInv, JudgingInv
      <4>3. Workable(log, capsules[t].capability, r)
        BY <3>2, <3>6, <4>2 DEF AcceptResult
      <4>. QED  BY <4>2, <4>3, StatusMeans DEF Workable, ReviewTasks, ReviewWork
    <3>7. ReviewsInOrder'
      BY <1>2, <3>2, <3>3, <3>4, <3>5, <3>6 DEF OrderInv, ReviewsInOrder
    <3>8. \A r \in Review, i \in Results' :
            log'[i].review = r /\ ResultOf(i)'.capability \notin ReviewWork =>
              On(log', "completed", r) # {}
      BY <1>2, <3>2, <3>3, <3>4, <3>6 DEF OrderInv, ResultOf
    <3>. QED  BY <3>7, <3>8 DEF OrderInv
  <2>. QED  BY <2>1, <2>2, <2>3, <2>4
<1>3. OrderInv => ReviewsInOrder
  BY DEF OrderInv
<1>4. TaskInv /\ [Next]_vars => TaskInv'
  BY EveryStep
<1>. QED  BY TasksStart, <1>1, <1>2, <1>3, <1>4, PTL DEF Spec

(***************************************************************************)
(* Freshness.  An inventory only ever moves on, so one that is equal to a  *)
(* Snapshot has not moved since.                                           *)
(***************************************************************************)
Rank(status) ==
  IF status = "ACCEPTED" THEN 3
  ELSE IF status = "COMPLETED" THEN 2
  ELSE IF status \in {"PREPARED", "APPROVED"} THEN 1
  ELSE 0

AtLeast(old, new) ==
  /\ old.research \in Nat /\ new.research \in Nat /\ old.research <= new.research
  /\ \A r \in DOMAIN old.reviews :
       r \in DOMAIN new.reviews /\ Rank(old.reviews[r]) <= Rank(new.reviews[r])

Moved(old, new) ==
  \/ old.research < new.research
  \/ \E r \in DOMAIN new.reviews :
       r \in DOMAIN old.reviews => Rank(old.reviews[r]) < Rank(new.reviews[r])

LEMMA RankIsNumber == \A status : Rank(status) \in Nat
BY DEF Rank

LEMMA MovesAddUp ==
  ASSUME NEW a, NEW b, NEW c, AtLeast(a, b), AtLeast(b, c)
  PROVE  /\ AtLeast(a, c)
         /\ Moved(a, b) \/ Moved(b, c) => Moved(a, c)
BY RankIsNumber DEF AtLeast, Moved

LEMMA UnmovedIsEqual == \A a : a.research \in Nat => ~Moved(a, a)
BY RankIsNumber DEF Moved

LEMMA LogIsFinite ==
  ASSUME LogInv, NEW S \in SUBSET DOMAIN log
  PROVE  IsFiniteSet(S) /\ Cardinality(S) \in Nat
<1>1. DOMAIN log = 1 .. Len(log) /\ Len(log) \in Nat
  BY DEF LogInv
<1>2. IsFiniteSet(DOMAIN log)
  BY <1>1, FS_Interval
<1>. QED  BY <1>2, FS_Subset, FS_CardinalityType

Changes(js, p) == { i \in DOMAIN js : js[i].type = "research" /\ js[i].program = p }
Known(js, p) ==
  { q \in Review : On(js, "requested", q) # {} /\ Request(js, q).program = p }

LEMMA InventoryParts ==
  ASSUME NEW js, NEW p
  PROVE  /\ Inventory(js, p).research = Cardinality(Changes(js, p))
         /\ DOMAIN Inventory(js, p).reviews = Known(js, p)
         /\ \A q \in Known(js, p) : Inventory(js, p).reviews[q] = ReviewStatus(js, q)
BY DEF Inventory, Changes, Known

LEMMA InventoryTyped ==
  ASSUME LogInv, NEW p
  PROVE  AtLeast(Inventory(log, p), Inventory(log, p))
<1>1. Inventory(log, p).research \in Nat
  <2>1. Changes(log, p) \in SUBSET DOMAIN log
    BY DEF Changes
  <2>2. Cardinality(Changes(log, p)) \in Nat
    BY <2>1, LogIsFinite
  <2>. QED  BY <2>2, InventoryParts
<1>. QED  BY <1>1, RankIsNumber DEF AtLeast

LEMMA ChangesGrow ==
  ASSUME LogInv, NEW e \in Events, Append1(e), NEW p
  PROVE  /\ Cardinality(Changes(log, p)) \in Nat
         /\ Cardinality(Changes(log', p)) =
              Cardinality(Changes(log, p)) +
                IF e.type = "research" /\ e.program = p THEN 1 ELSE 0
<1>1. IsFiniteSet(Changes(log, p)) /\ Cardinality(Changes(log, p)) \in Nat
  BY LogIsFinite DEF Changes
<1>2. Changes(log', p) = Changes(log, p) \cup
        IF e.type = "research" /\ e.program = p THEN {Len(log) + 1} ELSE {}
  BY AppendedLog DEF Changes
<1>3. Len(log) + 1 \notin Changes(log, p)
  BY AppendedLog DEF Changes
<1>4. CASE e.type = "research" /\ e.program = p
  <2>1. Changes(log', p) = Changes(log, p) \cup {Len(log) + 1}
    BY <1>2, <1>4
  <2>2. Cardinality(Changes(log, p) \cup {Len(log) + 1}) = Cardinality(Changes(log, p)) + 1
    BY <1>1, <1>3, FS_AddElement
  <2>. QED  BY <1>1, <1>4, <2>1, <2>2
<1>5. CASE ~(e.type = "research" /\ e.program = p)
  <2>1. Changes(log', p) = Changes(log, p)
    BY <1>2, <1>5
  <2>. QED  BY <1>1, <1>5, <2>1
<1>. QED  BY <1>4, <1>5

(* What an event does to a Review that is known, and to no other. *)
LEMMA ReviewMoves ==
  ASSUME LogInv, NEW e \in Events, Append1(e), Judged(e), NEW q \in Review,
         On(log, "requested", q) # {}
  PROVE  /\ On(log', "requested", q) # {}
         /\ Request(log', q) = Request(log, q)
         /\ Rank(ReviewStatus(log, q)) <= Rank(ReviewStatus(log', q))
         /\ e.review = q /\ e.type \in {"approved", "completed", "accepted"} =>
              Rank(ReviewStatus(log, q)) < Rank(ReviewStatus(log', q))
<1>1. \A type : On(log', type, q) = On(log, type, q) \cup
        IF e.type = type /\ e.review = q THEN {Len(log) + 1} ELSE {}
  BY AppendedOn
<1>2. On(log', "requested", q) = On(log, "requested", q)
  BY <1>1 DEF Judged
<1>3. \A i \in On(log, "requested", q) : log'[i] = log[i]
  BY AppendedLog DEF On
<1>4. Request(log', q) = Request(log, q)
  BY <1>2, <1>3 DEF Request
<1>5. \A type : On(log, type, q) \subseteq On(log', type, q)
  BY <1>1
<1>6. Rank(ReviewStatus(log, q)) <= Rank(ReviewStatus(log', q))
  BY <1>2, <1>4, <1>5 DEF ReviewStatus, Rank
<1>7. ASSUME e.review = q, e.type = "approved"
      PROVE  Rank(ReviewStatus(log, q)) < Rank(ReviewStatus(log', q))
  <2>1. On(log', "approved", q) # {}
    BY <1>1, <1>7
  <2>2. ReviewStatus(log, q) = "WAITING_FOR_DISCLOSURE_AUTHORIZATION"
    BY <1>7 DEF Judged
  <2>3. ReviewStatus(log', q) \in {"ACCEPTED", "COMPLETED", "PREPARED", "APPROVED"}
    BY <1>2, <2>1 DEF ReviewStatus
  <2>. QED  BY <2>2, <2>3 DEF Rank
<1>8. ASSUME e.review = q, e.type = "completed"
      PROVE  Rank(ReviewStatus(log, q)) < Rank(ReviewStatus(log', q))
  <2>1. On(log', "completed", q) # {}
    BY <1>1, <1>8
  <2>2. ReviewStatus(log, q) \in {"PREPARED", "APPROVED"}
    BY <1>8 DEF Judged
  <2>3. ReviewStatus(log', q) \in {"ACCEPTED", "COMPLETED"}
    BY <1>2, <2>1 DEF ReviewStatus
  <2>. QED  BY <2>2, <2>3 DEF Rank
<1>9. ASSUME e.review = q, e.type = "accepted"
      PROVE  Rank(ReviewStatus(log, q)) < Rank(ReviewStatus(log', q))
  <2>1. On(log', "accepted", q) # {}
    BY <1>1, <1>9
  <2>2. ReviewStatus(log, q) = "COMPLETED"
    BY <1>9 DEF Judged
  <2>3. ReviewStatus(log', q) = "ACCEPTED"
    BY <1>2, <2>1 DEF ReviewStatus
  <2>. QED  BY <2>2, <2>3 DEF Rank
<1>. QED  BY <1>2, <1>4, <1>6, <1>7, <1>8, <1>9

LEMMA InventoryMoves ==
  ASSUME LogInv, NEW e \in Events, Append1(e), Judged(e), NEW p \in Program
  PROVE  /\ AtLeast(Inventory(log, p), Inventory(log', p))
         /\ e.type # "result" /\ e.program = p =>
              Moved(Inventory(log, p), Inventory(log', p))
<1>. DEFINE old == Inventory(log, p)
            new == Inventory(log', p)
<1>1. /\ old.research = Cardinality(Changes(log, p))
      /\ new.research = Cardinality(Changes(log', p))
      /\ DOMAIN old.reviews = Known(log, p) /\ DOMAIN new.reviews = Known(log', p)
      /\ \A q \in Known(log, p) : old.reviews[q] = ReviewStatus(log, q)
      /\ \A q \in Known(log', p) : new.reviews[q] = ReviewStatus(log', q)
  BY InventoryParts
<1>2. /\ old.research \in Nat
      /\ new.research = old.research + IF e.type = "research" /\ e.program = p THEN 1 ELSE 0
  BY <1>1, ChangesGrow
<1>. HIDE DEF old, new
<1>3. \A q \in Known(log, p) :
        /\ q \in Known(log', p)
        /\ Rank(ReviewStatus(log, q)) <= Rank(ReviewStatus(log', q))
        /\ e.review = q /\ e.type \in {"approved", "completed", "accepted"} =>
             Rank(ReviewStatus(log, q)) < Rank(ReviewStatus(log', q))
  BY ReviewMoves DEF Known
<1>4. AtLeast(old, new)
  BY <1>1, <1>2, <1>3 DEF AtLeast
<1>5. CASE e.type = "research" /\ e.program = p
  BY <1>2, <1>4, <1>5 DEF Moved, old, new
<1>6. CASE e.type = "requested" /\ e.program = p
  <2>1. e.review \in Review /\ On(log, "requested", e.review) = {}
    BY <1>6 DEF Judged
  <2>2. On(log', "requested", e.review) = {Len(log) + 1}
    BY <1>6, <2>1, AppendedOn
  <2>3. Request(log', e.review) = e
    BY <2>2, AppendedLog DEF Request
  <2>4. e.review \in Known(log', p) /\ e.review \notin Known(log, p)
    BY <1>6, <2>1, <2>2, <2>3 DEF Known
  <2>. QED  BY <1>1, <1>4, <2>4 DEF Moved, old, new
<1>7. CASE e.type \in {"approved", "completed", "accepted"} /\ e.program = p
  <2>1. On(log, "requested", e.review) # {}
    BY <1>7 DEF Judged, ReviewStatus
  <2>2. e.review \in Known(log, p)
    BY <1>7, <2>1 DEF Judged, Known
  <2>. QED  BY <1>1, <1>3, <1>4, <1>7, <2>2 DEF Moved, old, new
<1>8. CASE e.type \in {"result", "approval"} \/ e.program # p
  BY <1>4, <1>8, HostTasksAssumption DEF Judged, old, new
<1>. QED  BY <1>5, <1>6, <1>7, <1>8 DEF Events, Types

(* Whatever was appended for a Program since a Snapshot moved its inventory. *)
FreshInv ==
  \A t \in Task : capsules[t].at = "pinned" =>
    /\ capsules[t].head \in Nat /\ capsules[t].head <= Len(log)
    /\ AtLeast(capsules[t].snapshot, Inventory(log, capsules[t].program))
    /\ (\E k \in DOMAIN log :
          k > capsules[t].head /\ log[k].program = capsules[t].program
            /\ log[k].type # "result")
         => Moved(capsules[t].snapshot, Inventory(log, capsules[t].program))

LEMMA AppendedFresh ==
  ASSUME TaskInv, FreshInv, NEW e \in Events, Append1(e), Judged(e)
  PROVE  FreshInv'
<1>. SUFFICES ASSUME NEW t \in Task, capsules[t].at = "pinned"
              PROVE  LET c == capsules[t]
                         now == Inventory(log', c.program)
                     IN  /\ c.head \in Nat /\ c.head <= Len(log')
                         /\ AtLeast(c.snapshot, now)
                         /\ (\E k \in DOMAIN log' :
                               k > c.head /\ log'[k].program = c.program
                                 /\ log'[k].type # "result")
                              => Moved(c.snapshot, now)
  <2>1. UNCHANGED capsules
    BY DEF Append1
  <2>. QED  BY <2>1 DEF FreshInv
<1>. DEFINE c == capsules[t]
            old == Inventory(log, c.program)
            now == Inventory(log', c.program)
<1>1. /\ c.head \in Nat /\ c.head <= Len(log) /\ AtLeast(c.snapshot, old)
      /\ (\E k \in DOMAIN log : k > c.head /\ log[k].program = c.program
                                  /\ log[k].type # "result")
           => Moved(c.snapshot, old)
  BY DEF FreshInv
<1>2. c.program \in Program
  BY DEF TaskInv, CapsuleInv
<1>3. /\ AtLeast(old, now)
      /\ e.type # "result" /\ e.program = c.program => Moved(old, now)
  BY <1>2, InventoryMoves DEF TaskInv
<1>. HIDE DEF old, now
<1>4. /\ AtLeast(c.snapshot, now)
      /\ Moved(c.snapshot, old) \/ Moved(old, now) => Moved(c.snapshot, now)
  BY <1>1, <1>3, MovesAddUp
<1>5. /\ DOMAIN log' = DOMAIN log \cup {Len(log) + 1} /\ Len(log') = Len(log) + 1
      /\ \A i \in DOMAIN log : log'[i] = log[i]
      /\ log'[Len(log) + 1] = e /\ Len(log) \in Nat
  <2>1. LogInv /\ Len(log) \in Nat
    BY DEF TaskInv, LogInv
  <2>. QED  BY <2>1, AppendedLog
<1>6. (\E k \in DOMAIN log' : k > c.head /\ log'[k].program = c.program
                                /\ log'[k].type # "result")
        => Moved(c.snapshot, now)
  BY <1>1, <1>3, <1>4, <1>5
<1>. QED  BY <1>1, <1>4, <1>5, <1>6 DEF now

LEMMA FreshKept ==
  ASSUME TaskInv, FreshInv, [Next]_vars
  PROVE  FreshInv'
<1>1. ASSUME OtherStep  PROVE  FreshInv'
  <2>1. PICK e : OtherEvent(e)
    BY <1>1, OtherStepsAppend
  <2>. QED  BY <2>1, AppendedFresh DEF OtherEvent
<1>2. ASSUME NEW t \in Task, NEW status \in {"COMPLETED", "FAILED"}, AcceptResult(t, status)
      PROVE  FreshInv'
  <2>. DEFINE e == Event("result", capsules[t].program, capsules[t].review, t, status)
  <2>1. e \in Events /\ Append1(e) /\ e.type = "result"
    BY <1>2, AcceptingKept
  <2>2. Judged(e)
    BY <2>1 DEF Judged
  <2>. HIDE DEF e
  <2>. QED  BY <2>1, <2>2, AppendedFresh
<1>3. ASSUME UNCHANGED <<log, capsules>>  PROVE  FreshInv'
  BY <1>3 DEF FreshInv
<1>4. ASSUME NEW t \in Task, UNCHANGED log, capsules'[t].at # "pinned",
             \A u \in Task \ {t} : capsules'[u] = capsules[u]
      PROVE  FreshInv'
  BY <1>4 DEF FreshInv
<1>7. ASSUME NEW t \in Task, NEW o \in Orders,
             OpenTask(t, o.capability, o.program, o.review, o.circle)
      PROVE  FreshInv'
  BY <1>4, <1>7 DEF OpenTask, TaskInv, LogInv
<1>8. ASSUME NEW t \in Task, ReadContract(t) \/ ReadSigil(t)  PROVE  FreshInv'
  BY <1>4, <1>8 DEF ReadContract, ReadSigil, TaskInv, LogInv
<1>5. ASSUME NEW t \in Task, PinTask(t)  PROVE  FreshInv'
  <2>1. /\ UNCHANGED log /\ capsules'[t].program = capsules[t].program
        /\ capsules'[t].head = Len(log)
        /\ capsules'[t].snapshot = Inventory(log, capsules[t].program)
        /\ \A u \in Task \ {t} : capsules'[u] = capsules[u]
    BY <1>5 DEF PinTask, TaskInv, LogInv
  <2>2. AtLeast(Inventory(log, capsules[t].program), Inventory(log, capsules[t].program))
    BY InventoryTyped DEF TaskInv
  <2>3. Len(log) \in Nat /\ \A k \in DOMAIN log : k <= Len(log)
    BY DEF TaskInv, LogInv
  <2>. QED  BY <2>1, <2>2, <2>3 DEF FreshInv
<1>6. UNCHANGED vars => UNCHANGED <<log, capsules>>
  BY DEF vars
<1>9. ASSUME NEW x \in Edits, EditContract(x.capability, x.contract)
      PROVE  UNCHANGED <<log, capsules>>
  BY <1>9 DEF EditContract
<1>10. ASSUME EndUnaccepted \/ \E t \in Task : Judge(t)
       PROVE  UNCHANGED <<log, capsules>>
  BY <1>10, JudgingKept
<1>. QED
  BY <1>1, <1>2, <1>3, <1>5, <1>6, <1>7, <1>8, <1>9, <1>10 DEF Next, OtherStep, Judge

(* ResultsFresh: between the Snapshot of a Task and the acceptance of its  *)
(* result nothing of its Program was added or changed.                     *)
THEOREM ResultsAreFresh == Spec => []ResultsFresh
<1>1. Init => FreshInv /\ ResultsFresh
  BY DEF Init, None, FreshInv, ResultsFresh, Results
<1>2. TaskInv /\ [Next]_vars => TaskInv'
  BY EveryStep
<1>3. TaskInv /\ FreshInv /\ [Next]_vars => FreshInv'
  BY FreshKept
<1>4. ASSUME TaskInv, FreshInv, ResultsFresh, [Next]_vars
      PROVE  ResultsFresh'
  <2>1. Quiet \/ (\E e : OtherEvent(e)) \/ (\E e : Accepting(e))
    BY <1>4, EveryStep
  <2>2. CASE Quiet
    BY <1>4, <2>2 DEF Quiet, ResultsFresh, Results
  <2>3. CASE \E e : OtherEvent(e)
    <3>1. PICK e : OtherEvent(e)
      BY <2>3
    <3>2. /\ UNCHANGED capsules /\ Results' = Results /\ Results \subseteq DOMAIN log
          /\ \A i \in DOMAIN log : log'[i] = log[i]
      BY <1>4, <3>1, LaterEvents DEF OtherEvent
    <3>3. \A t \in Task : capsules[t].at = "pinned" => capsules[t].head \in Nat
      BY <1>4 DEF FreshInv
    <3>4. \A i \in Results : ResultOf(i).head \in Nat
      BY <1>4, <3>3 DEF TaskInv, ResultInv, ResultOf
    <3>5. \A i \in Results, h \in Nat : \A k \in h + 1 .. i - 1 : k \in DOMAIN log
      BY <1>4, <3>2 DEF TaskInv, LogInv
    <3>. QED  BY <1>4, <3>2, <3>4, <3>5 DEF ResultsFresh, ResultOf
  <2>4. CASE \E e : Accepting(e)
    <3>1. PICK e : Accepting(e)
      BY <2>4
    <3>2. PICK t \in Task, status \in {"COMPLETED", "FAILED"} :
            /\ AcceptResult(t, status) /\ e \in Events /\ e.type = "result"
            /\ Append1(e) /\ e.task = t
      BY <3>1 DEF Accepting
    <3>3. /\ UNCHANGED capsules /\ Results' = Results \cup {Len(log) + 1}
          /\ Results \subseteq DOMAIN log /\ Len(log) \in Nat
          /\ \A i \in DOMAIN log : log'[i] = log[i]
          /\ log'[Len(log) + 1] = e
      BY <1>4, <3>2, LaterEvents DEF TaskInv, LogInv
    <3>4. /\ capsules[t].at = "pinned"
          /\ capsules[t].snapshot = Inventory(log, capsules[t].program)
      BY <1>4, <3>2 DEF AcceptResult, Nobody, TaskInv, JudgingInv
    <3>5. ~Moved(capsules[t].snapshot, Inventory(log, capsules[t].program))
      BY <1>4, <3>4, UnmovedIsEqual DEF FreshInv, AtLeast
    <3>6. \A k \in DOMAIN log :
            k > capsules[t].head /\ log[k].program = capsules[t].program =>
              log[k].type = "result"
      BY <1>4, <3>4, <3>5 DEF FreshInv
    <3>7. \A u \in Task : capsules[u].at = "pinned" => capsules[u].head \in Nat
      BY <1>4 DEF FreshInv
    <3>8. \A i \in Results : ResultOf(i).head \in Nat
      BY <1>4, <3>7 DEF TaskInv, ResultInv, ResultOf
    <3>9. \A i \in Results \cup {Len(log) + 1}, h \in Nat : \A k \in h + 1 .. i - 1 :
            k \in DOMAIN log /\ k > h
      BY <1>4, <3>3 DEF TaskInv, LogInv
    <3>. SUFFICES ASSUME NEW i \in Results',
                         NEW k \in capsules[log'[i].task].head + 1 .. i - 1,
                         log'[k].program = capsules[log'[i].task].program
                  PROVE  log'[k].type = "result"
      BY <3>3 DEF ResultsFresh
    <3>10. CASE i \in Results
      <4>1. log'[i] = log[i] /\ k \in DOMAIN log /\ log'[k] = log[k]
        BY <3>3, <3>8, <3>9, <3>10 DEF ResultOf
      <4>. QED  BY <1>4, <3>10, <4>1 DEF ResultsFresh
    <3>11. CASE i = Len(log) + 1
      <4>1. log'[i].task = t
        BY <3>2, <3>3, <3>11
      <4>2. k \in DOMAIN log /\ k > capsules[t].head
        BY <3>4, <3>7, <3>9, <3>11, <4>1
      <4>. QED  BY <3>3, <3>6, <4>1, <4>2
    <3>. QED  BY <3>3, <3>10, <3>11
  <2>. QED  BY <2>1, <2>2, <2>3, <2>4
<1>. QED  BY TasksStart, <1>1, <1>2, <1>3, <1>4, PTL DEF Spec
=============================================================================
