-------------------------- MODULE ExecutionProofs --------------------------
(***************************************************************************)
(* What the execution journal keeps for any number of clients, Jobs, keys  *)
(* and kills, and however the clock runs.                                  *)
(*                                                                         *)
(* The argument: whatever a client does, the journal stays as it is or     *)
(* grows by one event that the projector accepts.  So what is true of      *)
(* every history the projector accepts is true of the journal; and what an *)
(* answer says of a Job is of a kind that later events do not take back.   *)
(* What a client has read between two pages is such a thing as well.       *)
(***************************************************************************)
EXTENDS ExecutionJournal, FiniteSetTheorems, WellFoundedInduction, TLAPS

IsSequence(js) == js \in Seq({ js[i] : i \in DOMAIN js })

(* The events that hold the key of a cancellation. *)
Keyed(js, j) == EventsOf(js, j, "cancellation_requested")
                  \cup EventsOf(js, j, "cancellation_observed")

(* A history that the projector accepts, event by event. *)
Legal(js) ==
  /\ IsSequence(js)
  /\ \A j \in Job : State(js, j) # "NONE" => EventsOf(js, j, "submitted") # {}
  /\ \A i \in DOMAIN js : js[i].type = "terminal" => js[i].says \in Terminal
  /\ \A j \in Job : \A i, k \in EventsOf(js, j, "submitted") : i = k
  /\ \A j \in Job : \A i, k \in EventsOf(js, j, "terminal") : i = k
  /\ \A j \in Job : \A i, k \in Keyed(js, j) : js[i].says = js[k].says => i = k
  /\ \A j \in Job : \A i \in EventsOf(js, j, "cancellation_requested"),
                       k \in EventsOf(js, j, "terminal") :
       i < k /\ js[k].says = "CANCELLED"

(* What an answer says of the journal. *)
True(js, a) ==
  a.job \in Job =>
    /\ a.call = "start" =>
         \E i \in EventsOf(js, a.job, "submitted") : js[i].says = a.says
    /\ a.call = "cancel" =>
         State(js, a.job) \in Terminal /\ Cancellations(js, a.job, a.says) # {}
    /\ a.call = "outcome" =>
         State(js, a.job) \in Terminal /\ State(js, a.job) = a.says

(* A client between the two lines of a cancellation. *)
Cancelling(c) ==
  pc[c].at = "cancelling" =>
    /\ pc[c].job \in Job
    /\ State(journal, pc[c].job) = "CANCEL_REQUESTED"
    /\ Cancellations(journal, pc[c].job, pc[c].key) # {}
    /\ \A d \in Client : pc[d].at = "cancelling" => d = c

Clients ==
  /\ pc = [c \in Client |-> pc[c]]
  /\ \A c \in Client : pc[c].at = "starting" => pc[c].job \in Job
  /\ \A c \in Client : Cancelling(c)

IInv ==
  /\ Legal(journal)
  /\ Clients
  /\ \A a \in answers : True(journal, a)
-----------------------------------------------------------------------------
(* Histories.                                                              *)

LEMMA Appended ==
  ASSUME NEW js, IsSequence(js), NEW e
  PROVE  /\ IsSequence(Append(js, e))
         /\ Len(js) \in Nat
         /\ DOMAIN js = 1 .. Len(js) /\ DOMAIN Append(js, e) = 1 .. Len(js) + 1
         /\ \A i \in DOMAIN js : Append(js, e)[i] = js[i]
         /\ Append(js, e)[Len(js) + 1] = e
<1>. DEFINE S == { js[i] : i \in DOMAIN js }
            T == S \cup {e}
            r == Append(js, e)
<1>1. js \in Seq(S)
  BY DEF IsSequence
<1>2. Len(js) \in Nat /\ DOMAIN js = 1 .. Len(js)
  BY <1>1
<1>3. js \in Seq(T) /\ e \in T
  <2>1. \A i \in 1 .. Len(js) : js[i] \in T
    BY <1>2
  <2>. HIDE DEF T
  <2>2. e \in T
    BY DEF T
  <2>. QED
    BY <1>1, <1>2, <2>1, <2>2
<1>. HIDE DEF S, T
<1>4. /\ r \in Seq(T) /\ Len(r) = Len(js) + 1 /\ DOMAIN r = 1 .. Len(js) + 1
      /\ \A i \in 1 .. Len(js) : r[i] = js[i]
      /\ r[Len(js) + 1] = e
  BY <1>2, <1>3
<1>. HIDE DEF r
<1>5. r \in Seq({ r[i] : i \in DOMAIN r })
  <2>. DEFINE R == { r[i] : i \in DOMAIN r }
  <2>1. \A i \in 1 .. Len(r) : r[i] \in R
    BY <1>4
  <2>. HIDE DEF R
  <2>2. r \in Seq(R)
    BY <1>4, <2>1
  <2>. QED
    BY <2>2 DEF R
<1>. QED
  BY <1>2, <1>4, <1>5 DEF IsSequence, r

(* Of an appended event, what the other operators see. *)
LEMMA EventsAppended ==
  ASSUME NEW js, IsSequence(js), NEW e, NEW j, NEW type
  PROVE  /\ e.type = type /\ e.job = j =>
              EventsOf(Append(js, e), j, type) = EventsOf(js, j, type) \cup {Len(js) + 1}
         /\ e.type # type \/ e.job # j =>
              EventsOf(Append(js, e), j, type) = EventsOf(js, j, type)
<1>. DEFINE r == Append(js, e)
<1>1. /\ Len(js) \in Nat /\ DOMAIN js = 1 .. Len(js) /\ DOMAIN r = 1 .. Len(js) + 1
      /\ \A i \in DOMAIN js : r[i] = js[i]
      /\ r[Len(js) + 1] = e
  BY Appended
<1>. HIDE DEF r
<1>2. \A i : i \in DOMAIN r <=> i \in DOMAIN js \/ i = Len(js) + 1
  BY <1>1
<1>. QED
  BY <1>1, <1>2 DEF EventsOf, r

(* The state of a Job, from the events it has. *)
LEMMA StateOf ==
  ASSUME NEW js, Legal(js), NEW j \in Job
  PROVE  /\ State(js, j) \in Terminal <=> EventsOf(js, j, "terminal") # {}
         /\ \A i \in EventsOf(js, j, "terminal") : State(js, j) = js[i].says
         /\ EventsOf(js, j, "terminal") = {} =>
              /\ EventsOf(js, j, "cancellation_requested") # {} =>
                   State(js, j) = "CANCEL_REQUESTED"
              /\ EventsOf(js, j, "cancellation_requested") = {} =>
                   /\ EventsOf(js, j, "queued") # {} => State(js, j) = "QUEUED"
                   /\ EventsOf(js, j, "queued") = {} =>
                        State(js, j) = IF EventsOf(js, j, "submitted") # {}
                                       THEN "SUBMITTED" ELSE "NONE"
<1>1. Terminal \cap {"NONE", "SUBMITTED", "QUEUED", "CANCEL_REQUESTED"} = {}
  BY ExecutionAssumption DEF Terminal
<1>2. \A i \in EventsOf(js, j, "terminal") : js[i].says \in Terminal
  BY DEF Legal, EventsOf
<1>3. \A i, k \in EventsOf(js, j, "terminal") : i = k
  BY DEF Legal
<1>. QED
  BY <1>1, <1>2, <1>3 DEF State

LEMMA LegalKept ==
  ASSUME NEW js, Legal(js), NEW e, Accepts(js, e)
  PROVE  Legal(Append(js, e))
<1>. DEFINE r == Append(js, e)
            n == Len(js) + 1
<1>1. IsSequence(js)
  BY DEF Legal
<1>2. /\ IsSequence(r) /\ Len(js) \in Nat
      /\ DOMAIN js = 1 .. Len(js) /\ DOMAIN r = 1 .. n
      /\ \A i \in DOMAIN js : r[i] = js[i]
      /\ r[n] = e
  BY <1>1, Appended
<1>3. \A j, type :
        /\ e.type = type /\ e.job = j =>
             EventsOf(r, j, type) = EventsOf(js, j, type) \cup {n}
        /\ e.type # type \/ e.job # j => EventsOf(r, j, type) = EventsOf(js, j, type)
  BY <1>1, EventsAppended
<1>4. \A j, type : EventsOf(js, j, type) \subseteq 1 .. Len(js)
  BY <1>2 DEF EventsOf
<1>5. Accepts(js, e) /\ Legal(js)
  OBVIOUS
<1>. HIDE DEF r
<1>6. ASSUME NEW j \in Job, e.job = j
      PROVE  /\ e.type = "terminal" =>
                  /\ EventsOf(js, j, "terminal") = {}
                  /\ e.says \in Terminal
                  /\ EventsOf(js, j, "cancellation_requested") # {} => e.says = "CANCELLED"
             /\ e.type = "cancellation_requested" => EventsOf(js, j, "terminal") = {}
             /\ e.type = "submitted" => EventsOf(js, j, "submitted") = {}
             /\ e.type \in {"queued", "cancellation_requested", "cancellation_observed",
                            "terminal"} => EventsOf(js, j, "submitted") # {}
             /\ e.type \in {"cancellation_requested", "cancellation_observed"} =>
                  Cancellations(js, j, e.says) = {}
  <2>1. Terminal \cap {"NONE", "SUBMITTED", "QUEUED", "CANCEL_REQUESTED"} = {}
    BY ExecutionAssumption DEF Terminal
  <2>2. State(js, j) # "NONE" => EventsOf(js, j, "submitted") # {}
    BY DEF Legal
  <2>3. /\ State(js, j) \in Terminal <=> EventsOf(js, j, "terminal") # {}
        /\ EventsOf(js, j, "terminal") = {} =>
             /\ EventsOf(js, j, "cancellation_requested") # {} =>
                  State(js, j) = "CANCEL_REQUESTED"
             /\ EventsOf(js, j, "cancellation_requested") = {} =>
                  /\ EventsOf(js, j, "queued") # {} => State(js, j) = "QUEUED"
                  /\ EventsOf(js, j, "queued") = {} =>
                       State(js, j) = IF EventsOf(js, j, "submitted") # {}
                                      THEN "SUBMITTED" ELSE "NONE"
    BY StateOf
  <2>. QED
    BY <1>5, <1>6, <2>1, <2>2, <2>3 DEF Accepts
<1>7. \A j \in Job : State(r, j) # "NONE" => EventsOf(r, j, "submitted") # {}
  <2>. SUFFICES ASSUME NEW j \in Job, EventsOf(r, j, "submitted") = {}
                PROVE  State(r, j) = "NONE"
    OBVIOUS
  <2>1. EventsOf(js, j, "submitted") = {}
    BY <1>3
  <2>2. State(js, j) = "NONE"
    BY <1>5, <2>1 DEF Legal
  <2>3. /\ EventsOf(js, j, "terminal") = {} /\ EventsOf(js, j, "queued") = {}
        /\ EventsOf(js, j, "cancellation_requested") = {}
    BY <2>2, StateOf, ExecutionAssumption DEF Terminal
  <2>4. /\ EventsOf(r, j, "terminal") = {} /\ EventsOf(r, j, "queued") = {}
        /\ EventsOf(r, j, "cancellation_requested") = {}
    BY <1>3, <1>6, <2>1, <2>3
  <2>. QED
    BY <2>4 DEF State
<1>8. \A i \in DOMAIN r : r[i].type = "terminal" => r[i].says \in Terminal
  <2>1. e.type = "terminal" => e.says \in Terminal
    BY <1>5 DEF Accepts
  <2>. QED
    BY <1>2, <1>5, <2>1 DEF Legal
<1>9. \A j \in Job : \A i, k \in EventsOf(r, j, "submitted") : i = k
  BY <1>3, <1>5, <1>6 DEF Legal
<1>10. \A j \in Job : \A i, k \in EventsOf(r, j, "terminal") : i = k
  BY <1>3, <1>5, <1>6 DEF Legal
<1>11. \A j \in Job : \A i, k \in Keyed(r, j) : r[i].says = r[k].says => i = k
  <2>. SUFFICES ASSUME NEW j \in Job, NEW i \in Keyed(r, j), NEW k \in Keyed(r, j),
                       r[i].says = r[k].says
                PROVE  i = k
    OBVIOUS
  <2>1. CASE i \in Keyed(js, j) /\ k \in Keyed(js, j)
    <3>1. r[i] = js[i] /\ r[k] = js[k]
      BY <1>2, <1>4, <2>1 DEF Keyed
    <3>. QED
      BY <1>5, <2>1, <3>1 DEF Legal
  <2>2. CASE Keyed(r, j) # Keyed(js, j)
    <3>1. /\ e.job = j /\ e.type \in {"cancellation_requested", "cancellation_observed"}
          /\ Keyed(r, j) \subseteq Keyed(js, j) \cup {n}
      BY <1>3, <2>2 DEF Keyed
    <3>2. \A l \in Keyed(js, j) : js[l].says # e.says /\ r[l] = js[l]
      BY <1>2, <1>4, <1>6, <3>1 DEF Keyed, Cancellations
    <3>. QED
      BY <1>2, <1>5, <3>1, <3>2 DEF Legal
  <2>. QED
    BY <2>1, <2>2
<1>12. \A j \in Job : \A i \in EventsOf(r, j, "cancellation_requested"),
                        k \in EventsOf(r, j, "terminal") :
         i < k /\ r[k].says = "CANCELLED"
  <2>. SUFFICES ASSUME NEW j \in Job, NEW i \in EventsOf(r, j, "cancellation_requested"),
                       NEW k \in EventsOf(r, j, "terminal")
                PROVE  i < k /\ r[k].says = "CANCELLED"
    OBVIOUS
  <2>1. CASE EventsOf(r, j, "terminal") = EventsOf(js, j, "terminal")
    <3>1. EventsOf(r, j, "cancellation_requested") = EventsOf(js, j, "cancellation_requested")
      BY <1>3, <1>6, <2>1
    <3>2. r[k] = js[k]
      BY <1>2, <1>4, <2>1
    <3>. QED
      BY <1>5, <2>1, <3>1, <3>2 DEF Legal
  <2>2. CASE EventsOf(r, j, "terminal") # EventsOf(js, j, "terminal")
    <3>1. e.job = j /\ e.type = "terminal" /\ EventsOf(r, j, "terminal") = {n}
      BY <1>3, <1>6, <2>2
    <3>2. i \in EventsOf(js, j, "cancellation_requested") /\ i \in 1 .. Len(js)
      BY <1>3, <1>4, <3>1
    <3>. QED
      BY <1>2, <1>6, <3>1, <3>2
  <2>. QED
    BY <2>1, <2>2
<1>. QED
  BY <1>2, <1>7, <1>8, <1>9, <1>10, <1>11, <1>12 DEF Legal, r

(* The Jobs an accepted event is not for keep their state; its own Job's is *)
(* the one the event names.                                                 *)
LEMMA StateAfter ==
  ASSUME NEW js, Legal(js), NEW e, Accepts(js, e), Legal(Append(js, e)), NEW j \in Job
  PROVE  LET r == Append(js, e) IN
         /\ e.job # j => State(r, j) = State(js, j)
         /\ e.job = j =>
              /\ e.type \in {"epoch", "cancellation_observed"} => State(r, j) = State(js, j)
              /\ e.type = "submitted" => State(js, j) = "NONE" /\ State(r, j) = "SUBMITTED"
              /\ e.type = "queued" => State(js, j) = "SUBMITTED" /\ State(r, j) = "QUEUED"
              /\ e.type = "cancellation_requested" =>
                   /\ State(js, j) \in {"SUBMITTED", "QUEUED", "CANCEL_REQUESTED"}
                   /\ State(r, j) = "CANCEL_REQUESTED"
              /\ e.type = "terminal" =>
                   /\ State(js, j) \notin Terminal \cup {"NONE"}
                   /\ State(r, j) = e.says /\ e.says \in Terminal
<1>. DEFINE r == Append(js, e)
            Ev(h, type) == EventsOf(h, j, type)
<1>1. IsSequence(js)
  BY DEF Legal
<1>2. \A type : /\ e.type = type /\ e.job = j => Ev(r, type) = Ev(js, type) \cup {Len(js) + 1}
                /\ e.type # type \/ e.job # j => Ev(r, type) = Ev(js, type)
  BY <1>1, EventsAppended
<1>3. /\ r[Len(js) + 1] = e
      /\ \A i \in DOMAIN js : r[i] = js[i]
  BY <1>1, Appended
<1>4. \A type : Ev(js, type) \subseteq DOMAIN js
  BY DEF EventsOf
<1>5. /\ State(js, j) \in Terminal <=> Ev(js, "terminal") # {}
      /\ \A i \in Ev(js, "terminal") : State(js, j) = js[i].says
      /\ Ev(js, "terminal") = {} =>
           /\ Ev(js, "cancellation_requested") # {} => State(js, j) = "CANCEL_REQUESTED"
           /\ Ev(js, "cancellation_requested") = {} =>
                /\ Ev(js, "queued") # {} => State(js, j) = "QUEUED"
                /\ Ev(js, "queued") = {} =>
                     State(js, j) = IF Ev(js, "submitted") # {} THEN "SUBMITTED" ELSE "NONE"
  BY StateOf
<1>6. /\ State(r, j) \in Terminal <=> Ev(r, "terminal") # {}
      /\ \A i \in Ev(r, "terminal") : State(r, j) = r[i].says
      /\ Ev(r, "terminal") = {} =>
           /\ Ev(r, "cancellation_requested") # {} => State(r, j) = "CANCEL_REQUESTED"
           /\ Ev(r, "cancellation_requested") = {} =>
                /\ Ev(r, "queued") # {} => State(r, j) = "QUEUED"
                /\ Ev(r, "queued") = {} =>
                     State(r, j) = IF Ev(r, "submitted") # {} THEN "SUBMITTED" ELSE "NONE"
  BY StateOf
<1>7. Accepts(js, e)
  OBVIOUS
<1>8. Terminal \cap {"NONE", "SUBMITTED", "QUEUED", "CANCEL_REQUESTED"} = {}
  BY ExecutionAssumption DEF Terminal
<1>. HIDE DEF r, Ev
<1>9. ASSUME \A type \in {"submitted", "queued", "cancellation_requested", "terminal"} :
               Ev(r, type) = Ev(js, type)
      PROVE  State(r, j) = State(js, j)
  BY <1>3, <1>4, <1>5, <1>6, <1>9
<1>10. CASE e.job # j
  BY <1>2, <1>9, <1>10 DEF r
<1>11. CASE e.job = j
  <2>1. e.type \in {"epoch", "cancellation_observed"} => State(r, j) = State(js, j)
    BY <1>2, <1>9
  <2>2. e.type = "submitted" => State(js, j) = "NONE" /\ State(r, j) = "SUBMITTED"
    BY <1>2, <1>5, <1>6, <1>7, <1>8, <1>11 DEF Accepts
  <2>3. e.type = "queued" => State(js, j) = "SUBMITTED" /\ State(r, j) = "QUEUED"
    BY <1>2, <1>5, <1>6, <1>7, <1>8, <1>11 DEF Accepts
  <2>4. e.type = "cancellation_requested" =>
          /\ State(js, j) \in {"SUBMITTED", "QUEUED", "CANCEL_REQUESTED"}
          /\ State(r, j) = "CANCEL_REQUESTED"
    BY <1>2, <1>5, <1>6, <1>7, <1>8, <1>11 DEF Accepts
  <2>5. e.type = "terminal" =>
          /\ State(js, j) \notin Terminal \cup {"NONE"}
          /\ State(r, j) = e.says /\ e.says \in Terminal
    BY <1>2, <1>3, <1>5, <1>6, <1>7, <1>8, <1>11 DEF Accepts
  <2>. QED
    BY <1>11, <2>1, <2>2, <2>3, <2>4, <2>5 DEF r
<1>. QED
  BY <1>10, <1>11

LEMMA TrueKept ==
  ASSUME NEW js, Legal(js), NEW e, Accepts(js, e), NEW a, True(js, a)
  PROVE  True(Append(js, e), a)
<1>. DEFINE r == Append(js, e)
<1>. SUFFICES ASSUME a.job \in Job
              PROVE  True(r, a)
  BY DEF True
<1>1. Legal(r) /\ IsSequence(js)
  BY LegalKept DEF Legal
<1>2. State(js, a.job) \in Terminal => State(r, a.job) = State(js, a.job)
  <2>1. Terminal \cap {"NONE", "SUBMITTED", "QUEUED", "CANCEL_REQUESTED"} = {}
    BY ExecutionAssumption DEF Terminal
  <2>2. e.type \in {"epoch", "submitted", "queued", "cancellation_requested",
                   "cancellation_observed", "terminal"}
    BY DEF Accepts
  <2>. HIDE DEF r
  <2>. QED
    BY <1>1, <2>1, <2>2, StateAfter DEF r
<1>3. \A type : EventsOf(js, a.job, type) \subseteq EventsOf(r, a.job, type)
  BY <1>1, EventsAppended
<1>4. \A type : \A i \in EventsOf(js, a.job, type) : r[i] = js[i]
  BY <1>1, Appended DEF EventsOf
<1>. HIDE DEF r
<1>5. Cancellations(js, a.job, a.says) \subseteq Cancellations(r, a.job, a.says)
  BY <1>3, <1>4 DEF Cancellations
<1>. QED
  BY <1>2, <1>3, <1>4, <1>5 DEF True
-----------------------------------------------------------------------------
(* Steps.                                                                  *)

(* The journal stays, or grows by an accepted event; none of them ends a Job *)
(* that has not been queued, or cancelled.                                   *)
Adds(e) ==
  /\ Accepts(journal, e)
  /\ journal' = Append(journal, e)
  /\ e.type = "terminal" => State(journal, e.job) \in {"QUEUED", "CANCEL_REQUESTED"}

Grows == journal' = journal \/ \E e : Adds(e)

Answered == \A a \in answers' : a \in answers \/ True(journal', a)

LEMMA PutDoes ==
  ASSUME NEW c \in Client, NEW e, NEW next, NEW answer, Put(c, e, next, answer)
  PROVE  /\ Accepts(journal, e)
         /\ \/ /\ journal' = Append(journal, e)
               /\ answers' \subseteq answers \cup answer
               /\ pc' = [pc EXCEPT ![c] = next] \/ pc' = [pc EXCEPT ![c] = Idle]
            \/ /\ journal' = journal /\ answers' = answers
               /\ pc' = [pc EXCEPT ![c] = Idle]
BY DEF Put, Return

LEMMA ReadDoes ==
  ASSUME NEW c \in Client, NEW next, NEW answer, Read(c, next, answer)
  PROVE  /\ journal' = journal
         /\ answers' \subseteq answers \cup answer
         /\ pc' = [pc EXCEPT ![c] = next] \/ pc' = [pc EXCEPT ![c] = Idle]
BY DEF Read, Return

(* Nobody is cancelling after a step that leaves its client elsewhere. *)
LEMMA ClientMoves ==
  ASSUME Clients, NEW c \in Client, NEW next,
         \A d \in Client : pc[d].at = "cancelling" => d = c,
         next.at # "cancelling", next.at = "starting" => next.job \in Job,
         pc' = [pc EXCEPT ![c] = next] \/ pc' = [pc EXCEPT ![c] = Idle]
  PROVE  Clients'
<1>1. Idle.at = "idle"
  BY DEF Idle
<1>2. PICK n : /\ pc' = [pc EXCEPT ![c] = n]
               /\ n.at # "cancelling" /\ (n.at = "starting" => n.job \in Job)
  BY <1>1
<1>3. pc' = [d \in Client |-> IF d = c THEN n ELSE pc[d]]
  BY <1>2 DEF Clients
<1>4. \A d \in Client : pc'[d].at # "cancelling"
  BY <1>2, <1>3
<1>5. \A d \in Client : pc'[d].at = "starting" => pc'[d].job \in Job
  BY <1>2, <1>3 DEF Clients
<1>. QED
  BY <1>3, <1>4, <1>5 DEF Clients, Cancelling

LEMMA InitializeStep ==
  ASSUME IInv, NEW c \in Client, NEW j \in Job, NEW q \in Request, Initialize(c, j, q)
  PROVE  Grows /\ Answered /\ Clients'
<1>. DEFINE next == [at |-> "starting", job |-> j, request |-> q]
            e == Event("epoch", "none", "none", 0)
<1>1. LockFree /\ Clients
  BY DEF Initialize, IInv
<1>2. next.at = "starting" /\ next.job = j /\ e.type = "epoch"
  BY DEF Event
<1>3. Put(c, e, next, NoAnswer) \/ Read(c, next, NoAnswer)
  BY DEF Initialize
<1>. HIDE DEF next, e
<1>4. /\ pc' = [pc EXCEPT ![c] = next] \/ pc' = [pc EXCEPT ![c] = Idle]
      /\ answers' \subseteq answers
      /\ Grows
  BY <1>2, <1>3, PutDoes, ReadDoes DEF NoAnswer, Grows, Adds
<1>. QED
  BY <1>1, <1>2, <1>4, ClientMoves DEF LockFree, Answered

LEMMA SubmitStep ==
  ASSUME IInv, NEW c \in Client, Submit(c)
  PROVE  Grows /\ Answered /\ Clients'
<1>. DEFINE j == pc[c].job
            q == pc[c].request
            e == Event("submitted", j, q, 0)
            a == [call |-> "start", job |-> j, says |-> q]
<1>1. LockFree /\ Clients /\ Legal(journal) /\ j \in Job
  BY DEF Submit, IInv, Clients
<1>2. /\ e.type = "submitted" /\ e.job = j /\ e.says = q
      /\ a.call = "start" /\ a.job = j /\ a.says = q
      /\ Idle.at = "idle"
  BY DEF Event, Idle
<1>3. \/ Put(c, e, Idle, {a})
      \/ State(journal, j) # "NONE" /\ StartOf(journal, j) = q /\ Read(c, Idle, {a})
      \/ Read(c, Idle, NoAnswer)
  BY DEF Submit
<1>. HIDE DEF j, q, e, a
<1>4. CASE Put(c, e, Idle, {a})
  <2>1. Accepts(journal, e)
    BY <1>4, PutDoes
  <2>2. True(Append(journal, e), a)
    <3>1. IsSequence(journal)
      BY <1>1 DEF Legal
    <3>2. Append(journal, e)[Len(journal) + 1] = e
      BY <3>1, Appended
    <3>3. EventsOf(Append(journal, e), j, "submitted")
            = EventsOf(journal, j, "submitted") \cup {Len(journal) + 1}
      BY <1>2, <3>1, EventsAppended
    <3>. QED
      BY <1>2, <3>2, <3>3 DEF True
  <2>3. /\ \/ journal' = Append(journal, e) /\ answers' \subseteq answers \cup {a}
           \/ journal' = journal /\ answers' = answers
        /\ pc' = [pc EXCEPT ![c] = Idle]
    BY <1>4, PutDoes
  <2>4. Grows /\ Answered
    BY <1>2, <2>1, <2>2, <2>3 DEF Grows, Adds, Answered
  <2>. QED
    BY <1>1, <1>2, <2>3, <2>4, ClientMoves DEF LockFree
<1>5. CASE State(journal, j) # "NONE" /\ StartOf(journal, j) = q /\ Read(c, Idle, {a})
  <2>1. EventsOf(journal, j, "submitted") # {}
    BY <1>1, <1>5 DEF Legal
  <2>2. True(journal, a)
    BY <1>2, <1>5, <2>1 DEF True, StartOf
  <2>. QED
    BY <1>1, <1>2, <1>5, <2>2, ReadDoes, ClientMoves DEF Grows, Adds, Answered, LockFree
<1>6. CASE Read(c, Idle, NoAnswer)
  BY <1>1, <1>2, <1>6, ReadDoes, ClientMoves DEF Grows, Adds, Answered, LockFree, NoAnswer
<1>. QED
  BY <1>3, <1>4, <1>5, <1>6

LEMMA QueueStep ==
  ASSUME IInv, NEW c \in Client, NEW j \in Job, Queue(c, j)
  PROVE  Grows /\ Answered /\ Clients'
<1>1. LockFree /\ Clients /\ Put(c, Event("queued", j, "none", 0), Idle, NoAnswer)
  BY DEF Queue, IInv
<1>2. Event("queued", j, "none", 0).type = "queued" /\ Idle.at = "idle"
  BY DEF Event, Idle
<1>. QED
  BY <1>1, <1>2, PutDoes, ClientMoves DEF Grows, Adds, Answered, LockFree, NoAnswer

(* A terminal event, whoever writes it: the end it names is the Job's. *)
LEMMA EndStep ==
  ASSUME IInv, NEW c \in Client, NEW j \in Job, NEW end, NEW a,
         \A d \in Client : pc[d].at = "cancelling" => d = c,
         State(journal, j) \in {"QUEUED", "CANCEL_REQUESTED"},
         Put(c, Event("terminal", j, end, 0), Idle, {a}),
         a.job = j,
         \/ a.call = "outcome" /\ a.says = end
         \/ a.call = "cancel" /\ Cancellations(journal, j, a.says) # {}
  PROVE  Grows /\ Answered /\ Clients'
<1>. DEFINE e == Event("terminal", j, end, 0)
            r == Append(journal, e)
<1>1. e.type = "terminal" /\ e.job = j /\ e.says = end /\ Idle.at = "idle"
  BY DEF Event, Idle
<1>2. Clients /\ Legal(journal)
  BY DEF IInv
<1>. HIDE DEF e
<1>3. /\ Accepts(journal, e)
      /\ \/ /\ journal' = r /\ answers' \subseteq answers \cup {a}
         \/ journal' = journal /\ answers' = answers
      /\ pc' = [pc EXCEPT ![c] = Idle]
  BY PutDoes DEF e
<1>4. Legal(r)
  BY <1>2, <1>3, LegalKept
<1>5. State(r, j) = end /\ end \in Terminal
  BY <1>1, <1>2, <1>3, <1>4, StateAfter
<1>6. Cancellations(journal, j, a.says) \subseteq Cancellations(r, j, a.says)
  <2>1. IsSequence(journal)
    BY <1>2 DEF Legal
  <2>2. \A type : /\ EventsOf(journal, j, type) \subseteq EventsOf(r, j, type)
                  /\ \A i \in EventsOf(journal, j, type) : r[i] = journal[i]
    BY <2>1, Appended, EventsAppended DEF EventsOf
  <2>. QED
    BY <2>2 DEF Cancellations
<1>7. True(r, a)
  BY <1>5, <1>6 DEF True
<1>8. Grows /\ Answered
  BY <1>1, <1>3, <1>7 DEF Grows, Adds, Answered
<1>. QED
  BY <1>1, <1>2, <1>3, <1>8, ClientMoves

LEMMA FinishCancelStep ==
  ASSUME IInv, NEW c \in Client, FinishCancel(c)
  PROVE  Grows /\ Answered /\ Clients'
<1>. DEFINE a == [call |-> "cancel", job |-> pc[c].job, says |-> pc[c].key]
<1>1. /\ pc[c].at = "cancelling"
      /\ Put(c, Event("terminal", pc[c].job, "CANCELLED", 0), Idle, {a})
  BY DEF FinishCancel
<1>2. /\ pc[c].job \in Job /\ State(journal, pc[c].job) = "CANCEL_REQUESTED"
      /\ Cancellations(journal, pc[c].job, pc[c].key) # {}
      /\ \A d \in Client : pc[d].at = "cancelling" => d = c
  BY <1>1 DEF IInv, Clients, Cancelling
<1>3. a.call = "cancel" /\ a.job = pc[c].job /\ a.says = pc[c].key
  OBVIOUS
<1>. HIDE DEF a
<1>. QED
  BY <1>1, <1>2, <1>3, EndStep

LEMMA RecordTerminalStep ==
  ASSUME IInv, NEW c \in Client, NEW j \in Job, NEW end \in Terminal,
         RecordTerminal(c, j, end)
  PROVE  Grows /\ Answered /\ Clients'
<1>. DEFINE a == [call |-> "outcome", job |-> j, says |-> end]
<1>1. /\ LockFree /\ State(journal, j) \in {"QUEUED", "CANCEL_REQUESTED"}
      /\ Put(c, Event("terminal", j, end, 0), Idle, {a})
  BY DEF RecordTerminal
<1>2. a.call = "outcome" /\ a.job = j /\ a.says = end
  OBVIOUS
<1>. HIDE DEF a
<1>. QED
  BY <1>1, <1>2, EndStep DEF LockFree

LEMMA GetOutcomeStep ==
  ASSUME IInv, NEW c \in Client, NEW j \in Job, GetOutcome(c, j)
  PROVE  Grows /\ Answered /\ Clients'
<1>. DEFINE a == [call |-> "outcome", job |-> j, says |-> State(journal, j)]
<1>1. LockFree /\ State(journal, j) \in Terminal /\ Read(c, Idle, {a}) /\ Clients
  BY DEF GetOutcome, IInv
<1>2. True(journal, a)
  BY <1>1 DEF True
<1>3. Idle.at = "idle"
  BY DEF Idle
<1>. HIDE DEF a
<1>. QED
  BY <1>1, <1>2, <1>3, ReadDoes, ClientMoves DEF Grows, Adds, Answered, LockFree

LEMMA PageStep ==
  ASSUME IInv, NEW c \in Client, NEW j, NEW last, NEW through, NEW got, LockFree,
         Page(c, j, last, through, got)
  PROVE  Grows /\ Answered /\ Clients'
<1>. DEFINE page == FirstOf(Matching(j, last, through))
            a == [call |-> "observe", job |-> j, says |-> through, got |-> got \cup page]
            next == [at |-> "reading", job |-> j, through |-> through, got |-> got \cup page,
                     last |-> CHOOSE i \in page : \A k \in page : k <= i]
<1>1. Read(c, Idle, {a}) \/ Read(c, next, NoAnswer)
  BY DEF Page
<1>2. True(journal, a)
  BY DEF True
<1>3. Idle.at = "idle" /\ next.at = "reading" /\ Clients
  BY DEF Idle, IInv
<1>. HIDE DEF a, next
<1>. QED
  BY <1>1, <1>2, <1>3, ReadDoes, ClientMoves DEF Grows, Adds, Answered, LockFree, NoAnswer

LEMMA CancelStep ==
  ASSUME IInv, NEW c \in Client, NEW j \in Job, NEW k \in CancelKey, Cancel(c, j, k)
  PROVE  Grows /\ Answered /\ Clients'
<1>. DEFINE a == [call |-> "cancel", job |-> j, says |-> k]
            e(type) == Event(type, j, k, Revision(journal, j))
            next == [at |-> "cancelling", job |-> j, key |-> k]
<1>1. LockFree /\ Clients /\ Legal(journal) /\ IsSequence(journal)
  BY DEF Cancel, IInv, Legal
<1>2. /\ \A type : e(type).type = type /\ e(type).job = j /\ e(type).says = k
      /\ a.call = "cancel" /\ a.job = j /\ a.says = k
      /\ next.at = "cancelling" /\ next.job = j /\ next.key = k
      /\ Idle.at = "idle"
  BY DEF Event, Idle
<1>3. \/ Read(c, Idle, NoAnswer)
      \/ State(journal, j) \in Terminal /\ Put(c, e("cancellation_observed"), Idle, {a})
      \/ /\ State(journal, j) \notin Terminal
         /\ Put(c, e("cancellation_requested"), next, NoAnswer)
  BY DEF Cancel
<1>4. ASSUME NEW type \in {"cancellation_observed", "cancellation_requested"}
      PROVE  Cancellations(Append(journal, e(type)), j, k) # {}
  <2>. DEFINE v == e(type)
              n == Len(journal) + 1
  <2>1. v.type = type /\ v.job = j /\ v.says = k
    BY <1>2
  <2>. HIDE DEF v
  <2>2. Append(journal, v)[n] = v
    BY <1>1, Appended
  <2>3. n \in EventsOf(Append(journal, v), j, type)
    BY <1>1, <2>1, EventsAppended
  <2>4. n \in Cancellations(Append(journal, v), j, k)
    BY <2>1, <2>2, <2>3 DEF Cancellations
  <2>. QED
    BY <2>4 DEF v
<1>5. CASE Read(c, Idle, NoAnswer)
  BY <1>1, <1>2, <1>5, ReadDoes, ClientMoves DEF Grows, Adds, Answered, LockFree, NoAnswer
<1>6. CASE /\ State(journal, j) \in Terminal
           /\ Put(c, e("cancellation_observed"), Idle, {a})
  <2>. DEFINE v == e("cancellation_observed")
              r == Append(journal, v)
  <2>1. /\ v.type = "cancellation_observed" /\ v.job = j
        /\ Cancellations(r, j, k) # {}
    BY <1>2, <1>4
  <2>2. /\ Accepts(journal, v)
        /\ \/ journal' = r /\ answers' \subseteq answers \cup {a}
           \/ journal' = journal /\ answers' = answers
        /\ pc' = [pc EXCEPT ![c] = Idle]
    BY <1>6, PutDoes
  <2>. HIDE DEF v, a, e
  <2>3. State(r, j) = State(journal, j)
    BY <1>1, <2>1, <2>2, LegalKept, StateAfter
  <2>4. True(r, a)
    BY <1>2, <1>6, <2>1, <2>3 DEF True
  <2>5. Grows /\ Answered
    BY <2>1, <2>2, <2>4 DEF Grows, Adds, Answered
  <2>. QED
    BY <1>1, <1>2, <2>2, <2>5, ClientMoves DEF LockFree
<1>7. CASE /\ State(journal, j) \notin Terminal
           /\ Put(c, e("cancellation_requested"), next, NoAnswer)
  <2>. DEFINE v == e("cancellation_requested")
              r == Append(journal, v)
  <2>1. /\ v.type = "cancellation_requested" /\ v.job = j
        /\ Cancellations(r, j, k) # {}
    BY <1>2, <1>4
  <2>2. /\ Accepts(journal, v)
        /\ journal' = r \/ journal' = journal
        /\ answers' \subseteq answers
        /\ \/ journal' = r /\ pc' = [pc EXCEPT ![c] = next]
           \/ pc' = [pc EXCEPT ![c] = Idle]
    BY <1>7, PutDoes DEF NoAnswer
  <2>. HIDE DEF v, a, e, next
  <2>3. State(r, j) = "CANCEL_REQUESTED"
    BY <1>1, <2>1, <2>2, LegalKept, StateAfter
  <2>4. Grows /\ Answered
    BY <2>1, <2>2 DEF Grows, Adds, Answered
  <2>5. CASE journal' = r /\ pc' = [pc EXCEPT ![c] = next]
    <3>1. pc' = [d \in Client |-> IF d = c THEN next ELSE pc[d]]
      BY <1>1, <2>5 DEF Clients
    <3>2. \A d \in Client : pc'[d].at = "cancelling" => d = c
      BY <1>1, <3>1 DEF LockFree
    <3>3. \A d \in Client : pc'[d].at = "starting" => pc'[d].job \in Job
      BY <1>1, <1>2, <3>1 DEF Clients
    <3>4. \A d \in Client : Cancelling(d)'
      BY <1>2, <2>1, <2>3, <2>5, <3>1, <3>2 DEF Cancelling
    <3>. QED
      BY <2>4, <3>1, <3>3, <3>4 DEF Clients
  <2>6. CASE pc' = [pc EXCEPT ![c] = Idle]
    BY <1>1, <1>2, <2>4, <2>6, ClientMoves DEF LockFree
  <2>. QED
    BY <2>2, <2>5, <2>6
<1>. QED
  BY <1>3, <1>5, <1>6, <1>7

LEMMA KilledStep ==
  ASSUME IInv, NEW c \in Client, Killed(c)
  PROVE  Grows /\ Answered /\ Clients'
<1>1. /\ pc' = [d \in Client |-> IF d = c THEN Idle ELSE pc[d]]
      /\ journal' = journal /\ answers' = answers /\ Idle.at = "idle"
  BY DEF Killed, Idle, IInv, Clients
<1>2. \A d \in Client : Cancelling(d)'
  <2>. SUFFICES ASSUME NEW d \in Client, pc'[d].at = "cancelling"
                PROVE  /\ pc'[d].job \in Job
                       /\ State(journal', pc'[d].job) = "CANCEL_REQUESTED"
                       /\ Cancellations(journal', pc'[d].job, pc'[d].key) # {}
                       /\ \A b \in Client : pc'[b].at = "cancelling" => b = d
    BY DEF Cancelling
  <2>1. pc'[d] = pc[d] /\ pc[d].at = "cancelling"
    BY <1>1
  <2>2. \A b \in Client : pc'[b].at = "cancelling" => pc[b].at = "cancelling"
    BY <1>1
  <2>. QED
    BY <1>1, <2>1, <2>2 DEF IInv, Clients, Cancelling
<1>. QED
  BY <1>1, <1>2 DEF Grows, Adds, Answered, IInv, Clients

LEMMA EveryStep ==
  ASSUME IInv, [Next]_vars
  PROVE  Grows /\ Answered /\ Clients'
<1>1. ASSUME NEW c \in Client, NEW j \in Job, NEW q \in Request, Initialize(c, j, q)
      PROVE  Grows /\ Answered /\ Clients'
  BY <1>1, InitializeStep
<1>2. ASSUME NEW c \in Client, NEW j \in Job, Queue(c, j) \/ GetOutcome(c, j)
      PROVE  Grows /\ Answered /\ Clients'
  BY <1>2, QueueStep, GetOutcomeStep
<1>3. ASSUME NEW c \in Client, NEW j \in Job, Observe(c, j)
      PROVE  Grows /\ Answered /\ Clients'
  BY <1>3, PageStep DEF Observe
<1>4. ASSUME NEW c \in Client, NEW j \in Job, NEW k \in CancelKey, Cancel(c, j, k)
      PROVE  Grows /\ Answered /\ Clients'
  BY <1>4, CancelStep
<1>5. ASSUME NEW c \in Client, NEW j \in Job, NEW end \in Terminal, RecordTerminal(c, j, end)
      PROVE  Grows /\ Answered /\ Clients'
  BY <1>5, RecordTerminalStep
<1>6. ASSUME NEW c \in Client, Submit(c) \/ FinishCancel(c) \/ Killed(c)
      PROVE  Grows /\ Answered /\ Clients'
  BY <1>6, SubmitStep, FinishCancelStep, KilledStep
<1>7. ASSUME NEW c \in Client, ObserveNext(c)
      PROVE  Grows /\ Answered /\ Clients'
  BY <1>7, PageStep DEF ObserveNext
<1>8. ASSUME Tick \/ UNCHANGED vars
      PROVE  Grows /\ Answered /\ Clients'
  BY <1>8 DEF Tick, vars, Grows, Answered, IInv, Clients, Cancelling
<1>. QED
  BY <1>1, <1>2, <1>3, <1>4, <1>5, <1>6, <1>7, <1>8 DEF Next
-----------------------------------------------------------------------------
LEMMA Invariance == Spec => []IInv
<1>1. Init => IInv
  <2>. SUFFICES ASSUME Init PROVE IInv
    OBVIOUS
  <2>1. journal = << >> /\ answers = {} /\ pc = [c \in Client |-> Idle] /\ Idle.at = "idle"
    BY DEF Init, Idle
  <2>2. Legal(journal)
    <3>1. DOMAIN journal = {} /\ IsSequence(journal)
      BY <2>1 DEF IsSequence
    <3>2. \A j, type : EventsOf(journal, j, type) = {}
      BY <3>1 DEF EventsOf
    <3>. QED
      BY <3>1, <3>2 DEF Legal, Keyed, State
  <2>. QED
    BY <2>1, <2>2 DEF IInv, Clients, Cancelling
<1>2. IInv /\ [Next]_vars => IInv'
  <2>. SUFFICES ASSUME IInv, [Next]_vars PROVE IInv'
    OBVIOUS
  <2>1. Grows /\ Answered /\ Clients'
    BY EveryStep
  <2>2. Legal(journal) /\ \A a \in answers : True(journal, a)
    BY DEF IInv
  <2>3. Legal(journal') /\ \A a \in answers : True(journal', a)
    <3>1. CASE journal' = journal
      BY <2>2, <3>1
    <3>2. CASE \E e : Adds(e)
      <4>1. PICK e : Adds(e)
        BY <3>2
      <4>2. Legal(Append(journal, e)) /\ \A a \in answers : True(Append(journal, e), a)
        BY <2>2, <4>1, LegalKept, TrueKept DEF Adds
      <4>. QED
        BY <4>1, <4>2 DEF Adds
    <3>. QED
      BY <2>1, <3>1, <3>2 DEF Grows
  <2>. QED
    BY <2>1, <2>3 DEF IInv, Answered
<1>. QED
  BY <1>1, <1>2, PTL DEF Spec

(* Of any two requests under one Start key, made by any clients and retried  *)
(* across any kills, at most one is ever answered, and its submission is in  *)
(* the journal once.                                                         *)
THEOREM StartsKept == Spec => []StartsAreKept
<1>1. IInv => StartsAreKept
  BY DEF IInv, Legal, True, StartsAreKept, Returned, EventsOf
<1>. QED
  BY <1>1, Invariance, PTL

(* A cancellation that was answered when its key was new has left its Job at *)
(* an end, and its key in the journal exactly once.                          *)
THEOREM CancelsSettled == Spec => []CancelsSettle
<1>1. IInv => CancelsSettle
  <2>. SUFFICES ASSUME IInv, NEW j \in Job, NEW a \in Returned("cancel", j)
                PROVE  /\ State(journal, j) \in Terminal
                       /\ \E i \in DOMAIN journal : Cancellations(journal, j, a.says) = {i}
    BY DEF CancelsSettle
  <2>1. State(journal, j) \in Terminal /\ Cancellations(journal, j, a.says) # {}
    BY DEF IInv, True, Returned
  <2>2. /\ Cancellations(journal, j, a.says) \subseteq DOMAIN journal
        /\ \A i, k \in Cancellations(journal, j, a.says) : i = k
    BY DEF IInv, Legal, Keyed, Cancellations, EventsOf
  <2>. QED
    BY <2>1, <2>2
<1>. QED
  BY <1>1, Invariance, PTL

(* Everybody who is ever told the outcome of a Job is told the same one. *)
THEOREM OutcomesAgreed == Spec => []OutcomesAgree
<1>1. IInv => OutcomesAgree
  BY DEF IInv, True, OutcomesAgree, Returned
<1>. QED
  BY <1>1, Invariance, PTL

(* No worker's result follows a cancellation in the journal. *)
THEOREM CancellationsWin == Spec => []CancellationWins
<1>1. IInv => CancellationWins
  BY DEF IInv, Legal, CancellationWins
<1>. QED
  BY <1>1, Invariance, PTL

(* The journal, its projector and its clients, kills included, implement the *)
(* abstract life of a Job.                                                   *)
THEOREM JobsImplemented == Spec => ImplementsJobs
<1>. DEFINE m == [j \in Job |-> State(journal, j)]
<1>1. Init => Jobs!Init
  BY DEF Init, Jobs!Init, State, EventsOf
<1>2. IInv /\ [Next]_vars => [Jobs!Next]_[j \in Job |-> State(journal, j)]
  <2>. SUFFICES ASSUME IInv, [Next]_vars, journal' # journal
                PROVE  Jobs!Next \/ m' = m
    OBVIOUS
  <2>1. Grows
    BY EveryStep
  <2>2. PICK e : Adds(e)
    BY <2>1 DEF Grows
  <2>. DEFINE r == Append(journal, e)
              s(j) == State(journal, j)
              t(j) == State(r, j)
  <2>3. m = [j \in Job |-> s(j)] /\ m' = [j \in Job |-> t(j)]
    BY <2>2 DEF Adds
  <2>4. \A j \in Job :
          /\ e.job # j => t(j) = s(j)
          /\ e.job = j =>
               /\ e.type \in {"epoch", "cancellation_observed"} => t(j) = s(j)
               /\ e.type = "submitted" => s(j) = "NONE" /\ t(j) = "SUBMITTED"
               /\ e.type = "queued" => s(j) = "SUBMITTED" /\ t(j) = "QUEUED"
               /\ e.type = "cancellation_requested" =>
                    /\ s(j) \in {"SUBMITTED", "QUEUED", "CANCEL_REQUESTED"}
                    /\ t(j) = "CANCEL_REQUESTED"
               /\ e.type = "terminal" => t(j) = e.says /\ e.says \in Terminal
    <3>1. Legal(journal) /\ Legal(r)
      BY <2>2, LegalKept DEF IInv, Adds
    <3>. HIDE DEF r
    <3>. QED
      BY <2>2, <3>1, StateAfter DEF r, Adds
  <2>5. /\ e.type \in {"epoch", "submitted", "queued", "cancellation_requested",
                       "cancellation_observed", "terminal"}
        /\ e.type = "terminal" /\ s(e.job) = "CANCEL_REQUESTED" => e.says = "CANCELLED"
    BY <2>2 DEF Accepts, Adds
  <2>6. e.type = "terminal" => s(e.job) \in {"QUEUED", "CANCEL_REQUESTED"}
    BY <2>2 DEF Adds
  <2>. HIDE DEF s, t, m
  <2>7. CASE e.job \notin Job
    BY <2>3, <2>4, <2>7
  <2>8. CASE e.job \in Job
    <3>. DEFINE j == e.job
    <3>1. m' = [m EXCEPT ![j] = t(j)] /\ m[j] = s(j)
      BY <2>3, <2>4, <2>8
    <3>2. \/ m' = m
          \/ m[j] \in {"NONE"} /\ m' = [m EXCEPT ![j] = "SUBMITTED"]
          \/ m[j] \in {"SUBMITTED"} /\ m' = [m EXCEPT ![j] = "QUEUED"]
          \/ m[j] \in {"SUBMITTED", "QUEUED"} /\ m' = [m EXCEPT ![j] = "CANCEL_REQUESTED"]
          \/ m[j] \in {"CANCEL_REQUESTED"} /\ m' = [m EXCEPT ![j] = "CANCELLED"]
          \/ \E end \in Terminal : m[j] \in {"QUEUED"} /\ m' = [m EXCEPT ![j] = end]
      <4>1. CASE t(j) = s(j)
        BY <2>3, <2>8, <3>1, <4>1
      <4>2. CASE t(j) # s(j)
        BY <2>4, <2>5, <2>6, <2>8, <3>1, <4>2
      <4>. QED
        BY <4>1, <4>2
    <3>. QED
      BY <2>8, <3>2 DEF m, Jobs!Next, Jobs!Move, Jobs!Submit, Jobs!Queue,
                        Jobs!RequestCancellation, Jobs!Cancelled, Jobs!Finish
  <2>. QED
    BY <2>7, <2>8
<1>. QED
  BY <1>1, <1>2, Invariance, PTL DEF Spec, ImplementsJobs, Jobs!Spec
-----------------------------------------------------------------------------
(* Pages.                                                                  *)

(* What a client that is between two pages has read, and what an answer    *)
(* made of pages says, of the history js: js[1 .. n] in full, whatever the *)
(* sizes of the pages were.                                                *)
OfJob(js, j, n) == { i \in 1 .. n : js[i].job = j }

SoFar(js, p) ==
  p.at = "reading" =>
    /\ p.through \in 0 .. Len(js) /\ p.last \in 0 .. p.through
    /\ p.got = OfJob(js, p.job, p.last)

Complete(js, a) ==
  a.call = "observe" => a.says \in 0 .. Len(js) /\ a.got = OfJob(js, a.job, a.says)

PageInv ==
  /\ \A c \in Client : SoFar(journal, pc[c])
  /\ \A a \in answers : Complete(journal, a)

(* A step that does so keeps PageInv. *)
PagesRight ==
  /\ \A d \in Client : pc'[d] = pc[d] \/ SoFar(journal', pc'[d])
  /\ \A a \in answers' : a \in answers \/ Complete(journal', a)

Below == { p \in Nat \X Nat : p[1] < p[2] }

(* Each set of numbers that has one has a least one. *)
LEMMA Least ==
  ASSUME NEW T, T \subseteq Nat, T # {}
  PROVE  \E m \in T : \A k \in T : m <= k
<1>1. IsWellFoundedOn(Below, Nat)
  BY NatLessThanWellFounded DEF OpToRel, Below
<1>2. \A x, y \in Nat : x < y => <<x, y>> \in Below
  BY DEF Below
<1>3. PICK m \in T : \A k \in T : <<k, m>> \notin Below
  BY <1>1, WFMin
<1>4. ASSUME NEW k \in T
      PROVE  m <= k
  <2>1. m \in Nat /\ k \in Nat
    OBVIOUS
  <2>2. ~(k < m)
    BY <1>2, <1>3, <2>1
  <2>. QED
    BY <2>1, <2>2
<1>. QED
  BY <1>4

(* And, when they are bounded, a greatest one. *)
LEMMA Greatest ==
  ASSUME NEW n \in Nat, NEW T, T \subseteq 1 .. n, T # {}
  PROVE  \E m \in T : \A k \in T : k <= m
<1>. DEFINE R == { n - k : k \in T }
<1>1. R \subseteq Nat /\ R # {}
  <2>1. \A k \in T : n - k \in Nat
    OBVIOUS
  <2>. QED
    BY <2>1
<1>. HIDE DEF R
<1>2. PICK l \in R : \A k \in R : l <= k
  BY <1>1, Least
<1>3. PICK m \in T : l = n - m
  BY DEF R
<1>4. \A k \in T : n - k \in R
  BY DEF R
<1>5. ASSUME NEW k \in T
      PROVE  k <= m
  <2>1. n - m <= n - k /\ m \in 1 .. n /\ k \in 1 .. n
    BY <1>2, <1>3, <1>4
  <2>. QED
    BY <2>1
<1>. QED
  BY <1>5

LastOf(page) == CHOOSE i \in page : \A k \in page : k <= i

(* The first events are those up to one of them, the last of the page. *)
LEMMA FirstOfFacts ==
  ASSUME NEW n \in Nat, NEW events, events \subseteq 1 .. n, FirstOf(events) # events
  PROVE  /\ LastOf(FirstOf(events)) \in events
         /\ FirstOf(events) = { i \in events : i <= LastOf(FirstOf(events)) }
<1>. DEFINE upTo(i) == { k \in events : k <= i }
            page == FirstOf(events)
            l == LastOf(page)
<1>1. page = { i \in events : Cardinality(upTo(i)) <= Limit }
  BY DEF FirstOf
<1>2. \A i : /\ upTo(i) \subseteq events /\ IsFiniteSet(upTo(i))
             /\ Cardinality(upTo(i)) \in Nat
  <2>1. IsFiniteSet(1 .. n)
    BY FS_Interval
  <2>2. IsFiniteSet(events)
    BY <2>1, FS_Subset
  <2>3. \A i : upTo(i) \subseteq events
    OBVIOUS
  <2>. HIDE DEF upTo
  <2>. QED
    BY <2>2, <2>3, FS_Subset, FS_CardinalityType
<1>3. \A i, k \in events : i <= k => Cardinality(upTo(i)) <= Cardinality(upTo(k))
  <2>. SUFFICES ASSUME NEW i \in events, NEW k \in events, i <= k
                PROVE  Cardinality(upTo(i)) <= Cardinality(upTo(k))
    OBVIOUS
  <2>1. \A x \in events : x \in Nat
    OBVIOUS
  <2>2. \A x \in events : x <= i => x <= k
    BY <2>1
  <2>3. upTo(i) \subseteq upTo(k)
    BY <2>2
  <2>. HIDE DEF upTo
  <2>. QED
    BY <1>2, <2>3, FS_Subset
<1>4. page # {}
  <2>1. events # {} /\ events \subseteq Nat
    BY <1>1
  <2>2. PICK m \in events : \A k \in events : m <= k
    BY <2>1, Least
  <2>3. upTo(m) = {m}
    <3>1. \A k \in events : k \in Nat /\ m \in Nat
      BY <2>1
    <3>2. \A k \in events : k <= m <=> k = m
      BY <2>2, <3>1
    <3>. QED
      BY <3>2
  <2>4. Cardinality(upTo(m)) = 1
    BY <2>3, FS_Singleton
  <2>. HIDE DEF upTo, page
  <2>5. m \in page
    BY <1>1, <2>4, ExecutionAssumption
  <2>. QED
    BY <2>5
<1>. HIDE DEF page
<1>5. page \subseteq 1 .. n
  BY <1>1
<1>6. \E m \in page : \A k \in page : k <= m
  BY <1>4, <1>5, Greatest
<1>7. l \in page /\ \A k \in page : k <= l
  BY <1>6 DEF LastOf
<1>. HIDE DEF l
<1>8. \A i \in events : i <= l => i \in page
  <2>. SUFFICES ASSUME NEW i \in events, i <= l
                PROVE  i \in page
    OBVIOUS
  <2>1. l \in events /\ Cardinality(upTo(l)) <= Limit
    BY <1>1, <1>7
  <2>. HIDE DEF upTo
  <2>2. /\ Cardinality(upTo(i)) <= Cardinality(upTo(l))
        /\ Cardinality(upTo(i)) \in Nat /\ Cardinality(upTo(l)) \in Nat
    BY <1>2, <1>3, <2>1
  <2>. QED
    BY <1>1, <2>1, <2>2, ExecutionAssumption
<1>9. l \in events /\ page = { i \in events : i <= l }
  BY <1>1, <1>7, <1>8
<1>. QED
  BY <1>9 DEF l, page

(* A page goes on where the last one ended and leaves nothing out. *)
LEMMA PageContinues ==
  ASSUME IInv, NEW j, NEW through \in 0 .. Len(journal), NEW last \in 0 .. through
  PROVE  LET found == Matching(j, last, through)
             page == FirstOf(found)
             all == OfJob(journal, j, last) \cup page
             l == LastOf(page)
         IN  /\ page = found => all = OfJob(journal, j, through)
             /\ page # found => l \in 0 .. through /\ all = OfJob(journal, j, l)
<1>. DEFINE found == Matching(j, last, through)
            page == FirstOf(found)
            all == OfJob(journal, j, last) \cup page
            l == LastOf(page)
<1>1. IsSequence(journal)
  BY DEF IInv, Legal
<1>2. Len(journal) \in Nat /\ DOMAIN journal = 1 .. Len(journal)
  BY <1>1, Appended
<1>3. \A i : i \in found <=> i \in 1 .. through /\ journal[i].job = j /\ i > last
  BY <1>2 DEF Matching
<1>4. through \in Nat /\ last \in Nat /\ last <= through
  BY <1>2
<1>. HIDE DEF found
<1>5. page = found => all = OfJob(journal, j, through)
  BY <1>3, <1>4 DEF OfJob
<1>6. ASSUME page # found
      PROVE  l \in 0 .. through /\ all = OfJob(journal, j, l)
  <2>1. found \subseteq 1 .. through
    BY <1>3
  <2>2. l \in found /\ page = { i \in found : i <= l }
    <3>1. FirstOf(found) # found /\ through \in Nat
      BY <1>4, <1>6
    <3>. QED
      BY <2>1, <3>1, FirstOfFacts
  <2>. HIDE DEF page, l
  <2>3. l \in 1 .. through /\ l > last
    BY <1>3, <2>2
  <2>4. \A i : i \in page <=> i \in 1 .. l /\ journal[i].job = j /\ i > last
    BY <1>3, <1>4, <2>2, <2>3
  <2>5. all = OfJob(journal, j, l)
    BY <1>4, <2>3, <2>4 DEF OfJob
  <2>. QED
    BY <1>4, <2>3, <2>5
<1>. QED
  BY <1>5, <1>6 DEF found, page, all, l

(* So the next page of an observation, or its last, is right. *)
LEMMA PageRight ==
  ASSUME IInv, NEW c \in Client, NEW j, NEW through \in 0 .. Len(journal),
         NEW last \in 0 .. through,
         Page(c, j, last, through, OfJob(journal, j, last))
  PROVE  PagesRight
<1>. DEFINE found == Matching(j, last, through)
            page == FirstOf(found)
            all == OfJob(journal, j, last) \cup page
            l == LastOf(page)
            a == [call |-> "observe", job |-> j, says |-> through, got |-> all]
            next == [at |-> "reading", job |-> j, through |-> through, got |-> all,
                     last |-> l]
<1>1. \/ page = found /\ Read(c, Idle, {a})
      \/ page # found /\ Read(c, next, NoAnswer)
  BY DEF Page, LastOf
<1>2. /\ page = found => all = OfJob(journal, j, through)
      /\ page # found => l \in 0 .. through /\ all = OfJob(journal, j, l)
  BY PageContinues
<1>3. /\ a.job = j /\ a.says = through /\ a.got = all
      /\ next.job = j /\ next.through = through /\ next.got = all /\ next.last = l
      /\ Idle.at = "idle"
  BY DEF Idle
<1>. HIDE DEF a, next, all, l, page, found
<1>4. CASE page = found /\ Read(c, Idle, {a})
  <2>1. Complete(journal, a)
    BY <1>2, <1>3, <1>4 DEF Complete
  <2>2. /\ journal' = journal /\ answers' \subseteq answers \cup {a}
        /\ pc' = [d \in Client |-> IF d = c THEN Idle ELSE pc[d]]
    BY <1>4, ReadDoes DEF IInv, Clients
  <2>. QED
    BY <1>3, <2>1, <2>2 DEF PagesRight, SoFar
<1>5. CASE page # found /\ Read(c, next, NoAnswer)
  <2>1. SoFar(journal, next)
    BY <1>2, <1>3, <1>5 DEF SoFar
  <2>2. /\ journal' = journal /\ answers' \subseteq answers
        /\ \/ pc' = [d \in Client |-> IF d = c THEN next ELSE pc[d]]
           \/ pc' = [d \in Client |-> IF d = c THEN Idle ELSE pc[d]]
    BY <1>5, ReadDoes DEF IInv, Clients, NoAnswer
  <2>. QED
    BY <1>3, <2>1, <2>2 DEF PagesRight, SoFar
<1>. QED
  BY <1>1, <1>4, <1>5

(* The other calls neither begin to read nor answer with events. *)
LEMMA OtherCalls ==
  ASSUME IInv, NEW c \in Client, NEW next, NEW answer,
         next.at # "reading", \A a \in answer : a.call # "observe",
         (\E e : Put(c, e, next, answer)) \/ Read(c, next, answer)
  PROVE  PagesRight
<1>1. Idle.at = "idle"
  BY DEF Idle
<1>2. /\ answers' \subseteq answers \cup answer
      /\ pc' = [pc EXCEPT ![c] = next] \/ pc' = [pc EXCEPT ![c] = Idle]
  BY PutDoes, ReadDoes
<1>3. \/ pc' = [d \in Client |-> IF d = c THEN next ELSE pc[d]]
      \/ pc' = [d \in Client |-> IF d = c THEN Idle ELSE pc[d]]
  BY <1>2 DEF IInv, Clients
<1>. QED
  BY <1>1, <1>2, <1>3 DEF PagesRight, SoFar, Complete

(* An answer withheld is no observation. *)
LEMMA Nobody == \A a \in NoAnswer : a.call # "observe"
BY DEF NoAnswer

(* Every step leaves observations, begun and ended, right. *)
LEMMA EveryPageRight ==
  ASSUME IInv, PageInv, [Next]_vars
  PROVE  PagesRight
<1>. DEFINE says(call, j, x) == [call |-> call, job |-> j, says |-> x]
<1>1. /\ \A call, j, x : says(call, j, x).call = call
      /\ Idle.at = "idle"
  BY DEF Idle
<1>2. ASSUME NEW c \in Client, NEW j \in Job, NEW q \in Request, Initialize(c, j, q)
      PROVE  PagesRight
  <2>. DEFINE next == [at |-> "starting", job |-> j, request |-> q]
  <2>1. next.at = "starting"
    OBVIOUS
  <2>2. (\E e : Put(c, e, next, NoAnswer)) \/ Read(c, next, NoAnswer)
    BY <1>2 DEF Initialize
  <2>. HIDE DEF next
  <2>. QED
    BY <2>1, <2>2, Nobody, OtherCalls
<1>3. ASSUME NEW c \in Client, NEW j \in Job, Queue(c, j)
      PROVE  PagesRight
  <2>1. \E e : Put(c, e, Idle, NoAnswer)
    BY <1>3 DEF Queue
  <2>. QED
    BY <1>1, <2>1, Nobody, OtherCalls
<1>4. ASSUME NEW c \in Client, NEW j \in Job, GetOutcome(c, j)
      PROVE  PagesRight
  <2>. DEFINE a == says("outcome", j, State(journal, j))
  <2>1. Read(c, Idle, {a}) /\ a.call = "outcome"
    BY <1>4 DEF GetOutcome
  <2>. HIDE DEF says
  <2>. QED
    BY <1>1, <2>1, OtherCalls
<1>5. ASSUME NEW c \in Client, NEW j \in Job, Observe(c, j)
      PROVE  PagesRight
  <2>1. IsSequence(journal)
    BY DEF IInv, Legal
  <2>2. Len(journal) \in 0 .. Len(journal) /\ 0 \in 0 .. Len(journal)
    BY <2>1, Appended
  <2>3. OfJob(journal, j, 0) = {}
    BY DEF OfJob
  <2>4. Page(c, j, 0, Len(journal), OfJob(journal, j, 0))
    BY <1>5, <2>3 DEF Observe
  <2>. QED
    BY <2>2, <2>4, PageRight
<1>6. ASSUME NEW c \in Client, NEW j \in Job, NEW k \in CancelKey, Cancel(c, j, k)
      PROVE  PagesRight
  <2>. DEFINE a == says("cancel", j, k)
              next == [at |-> "cancelling", job |-> j, key |-> k]
  <2>1. next.at = "cancelling" /\ a.call = "cancel"
    OBVIOUS
  <2>2. \/ Read(c, Idle, NoAnswer)
        \/ \E e : Put(c, e, Idle, {a})
        \/ \E e : Put(c, e, next, NoAnswer)
    BY <1>6 DEF Cancel
  <2>. HIDE DEF says, next, a
  <2>3. \A b \in {a} : b.call # "observe"
    BY <2>1
  <2>. QED
    BY <1>1, <2>1, <2>2, <2>3, Nobody, OtherCalls
<1>7. ASSUME NEW c \in Client, NEW j \in Job, NEW end \in Terminal, RecordTerminal(c, j, end)
      PROVE  PagesRight
  <2>. DEFINE a == says("outcome", j, end)
  <2>1. (\E e : Put(c, e, Idle, {a})) /\ a.call = "outcome"
    BY <1>7 DEF RecordTerminal
  <2>. HIDE DEF says
  <2>. QED
    BY <1>1, <2>1, OtherCalls
<1>8. ASSUME NEW c \in Client, Submit(c)
      PROVE  PagesRight
  <2>. DEFINE a == says("start", pc[c].job, pc[c].request)
  <2>1. a.call = "start"
    OBVIOUS
  <2>2. \/ \E e : Put(c, e, Idle, {a})
        \/ Read(c, Idle, {a})
        \/ Read(c, Idle, NoAnswer)
    BY <1>8 DEF Submit
  <2>. HIDE DEF says, a
  <2>3. \A b \in {a} : b.call # "observe"
    BY <2>1
  <2>. QED
    BY <1>1, <2>2, <2>3, Nobody, OtherCalls
<1>9. ASSUME NEW c \in Client, FinishCancel(c)
      PROVE  PagesRight
  <2>. DEFINE a == says("cancel", pc[c].job, pc[c].key)
  <2>1. (\E e : Put(c, e, Idle, {a})) /\ a.call = "cancel"
    BY <1>9 DEF FinishCancel
  <2>. HIDE DEF says
  <2>. QED
    BY <1>1, <2>1, OtherCalls
<1>10. ASSUME NEW c \in Client, Killed(c)
       PROVE  PagesRight
  <2>1. /\ pc' = [d \in Client |-> IF d = c THEN Idle ELSE pc[d]]
        /\ journal' = journal /\ answers' = answers
    BY <1>10 DEF Killed, IInv, Clients
  <2>. QED
    BY <1>1, <2>1 DEF PagesRight, SoFar
<1>11. ASSUME NEW c \in Client, ObserveNext(c)
       PROVE  PagesRight
  <2>. DEFINE p == pc[c]
  <2>1. p.at = "reading" /\ Page(c, p.job, p.last, p.through, p.got)
    BY <1>11 DEF ObserveNext
  <2>2. /\ p.through \in 0 .. Len(journal) /\ p.last \in 0 .. p.through
        /\ p.got = OfJob(journal, p.job, p.last)
    BY <2>1 DEF PageInv, SoFar
  <2>. HIDE DEF p
  <2>. QED
    BY <2>1, <2>2, PageRight
<1>12. ASSUME Tick \/ UNCHANGED vars
       PROVE  PagesRight
  BY <1>12 DEF Tick, vars, PagesRight
<1>. QED
  BY <1>2, <1>3, <1>4, <1>5, <1>6, <1>7, <1>8, <1>9, <1>10, <1>11, <1>12 DEF Next

(* A longer journal takes back nothing that was read of it. *)
LEMMA PagesKept ==
  ASSUME NEW js, IsSequence(js), NEW e
  PROVE  LET r == Append(js, e) IN
         /\ \A p : SoFar(js, p) => SoFar(r, p)
         /\ \A a : Complete(js, a) => Complete(r, a)
<1>. DEFINE r == Append(js, e)
<1>1. /\ Len(js) \in Nat /\ DOMAIN js = 1 .. Len(js) /\ DOMAIN r = 1 .. Len(js) + 1
      /\ \A i \in DOMAIN js : r[i] = js[i]
      /\ IsSequence(r)
  BY Appended
<1>. HIDE DEF r
<1>2. Len(r) \in Nat /\ DOMAIN r = 1 .. Len(r)
  BY <1>1, Appended
<1>3. Len(r) = Len(js) + 1
  BY <1>1, <1>2
<1>4. \A j : \A n \in 0 .. Len(js) : OfJob(r, j, n) = OfJob(js, j, n)
  <2>. SUFFICES ASSUME NEW j, NEW n \in 0 .. Len(js)
                PROVE  OfJob(r, j, n) = OfJob(js, j, n)
    OBVIOUS
  <2>1. \A i \in 1 .. n : r[i] = js[i]
    BY <1>1
  <2>. QED
    BY <2>1 DEF OfJob
<1>5. ASSUME NEW p, SoFar(js, p)
      PROVE  SoFar(r, p)
  BY <1>1, <1>3, <1>4, <1>5 DEF SoFar
<1>6. ASSUME NEW a, Complete(js, a)
      PROVE  Complete(r, a)
  BY <1>1, <1>3, <1>4, <1>6 DEF Complete
<1>. QED
  BY <1>5, <1>6 DEF r

(* An observation that was read page by page, with any page size, is what  *)
(* one read of the journal's prefix would have returned, though other      *)
(* clients append, cancel and are killed between any two of its pages.     *)
THEOREM PagesPrefixed == Spec => []PagesArePrefix
<1>1. Init => PageInv
  BY DEF Init, Idle, PageInv, SoFar
<1>2. IInv /\ PageInv /\ [Next]_vars => PageInv'
  <2>. SUFFICES ASSUME IInv, PageInv, [Next]_vars
                PROVE  PageInv'
    OBVIOUS
  <2>1. PagesRight /\ Grows
    BY EveryPageRight, EveryStep
  <2>2. /\ \A p : SoFar(journal, p) => SoFar(journal', p)
        /\ \A a : Complete(journal, a) => Complete(journal', a)
    <3>1. IsSequence(journal)
      BY DEF IInv, Legal
    <3>2. ASSUME NEW e, Adds(e)
          PROVE  /\ \A p : SoFar(journal, p) => SoFar(journal', p)
                 /\ \A a : Complete(journal, a) => Complete(journal', a)
      BY <3>1, <3>2, PagesKept DEF Adds
    <3>. QED
      BY <2>1, <3>2 DEF Grows
  <2>. QED
    BY <2>1, <2>2 DEF PageInv, PagesRight
<1>3. PageInv => PagesArePrefix
  BY DEF PageInv, Complete, OfJob, PagesArePrefix, Returned
<1>. QED
  BY <1>1, <1>2, <1>3, Invariance, PTL DEF Spec
=============================================================================
