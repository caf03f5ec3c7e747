---------------------------- MODULE StudyProofs ----------------------------
(***************************************************************************)
(* Proofs about Study, for any number of Programs, Protocols, Workings and *)
(* records.                                                                *)
(*                                                                         *)
(* A projection s is one table per kind of object, and a step makes n of   *)
(* it.  Extends(s, n) says what no step does: no object goes away, no      *)
(* reference in it changes, no status falls back.  The invariant says what *)
(* the rows of the tables owe to one another; a row that was in order      *)
(* stays so in whatever extends the projection, so each step answers for   *)
(* its new rows alone.                                                     *)
(***************************************************************************)
EXTENDS Study, FiniteSetTheorems, TLAPS

Names == Tables \cup {"programs"}
Projection(s) == s = [t \in Names |-> s[t]]

ExperimentStatus == {"PLANNED", "IMPLEMENTED", "PILOT_RUNNING", "PILOT_COMPLETED",
                     "FORMAL_RUNNING", "COMPLETED", "CANCELLED"}

HypothesisRow == [program : Program, status : {"PROPOSED", "ACTIVE"} \cup Verdicts]
ProtocolRow == [program : Program, hypotheses : SUBSET Hypothesis,
                mode : {"confirmatory", "exploratory"}, spec : Registration \cup {NoSpec},
                status : {"DRAFT", "FROZEN"}, deviations : SUBSET Deviation]
WorkingRow == [program : Program, protocol : Protocol, stage : DOMAIN StageRank]
ExperimentRow == [program : Program, protocol : Protocol,
                  working : ({"WK"} \X Nat) \cup {NoWorking},
                  status : ExperimentStatus, piloted : BOOLEAN]
IssueRow == [program : Program, severity : {"LOW", "CRITICAL"},
             status : {"OPEN", "RESOLVED"}]

(* The tables whose rows are updated, row by row.                          *)
Typed(s) ==
  /\ Projection(s)
  /\ s.programs \in [Program -> DOMAIN Rank]
  /\ s.hypotheses \in [Hypothesis -> HypothesisRow]
  /\ s.protocols \in [DOMAIN s.protocols -> ProtocolRow]
  /\ s.workings \in [DOMAIN s.workings -> WorkingRow]
  /\ s.experiments \in [DOMAIN s.experiments -> ExperimentRow]
  /\ s.issues \in [DOMAIN s.issues -> IssueRow]

(* The ids of each table, and those the Athanor generates: one after       *)
(* another, so that the next one is new.                                   *)
Tag(t) == IF t = "workings" THEN "WK" ELSE IF t = "bundles" THEN "RB"
          ELSE IF t = "assessments" THEN "AS" ELSE "DE"
Numbered == {"workings", "bundles", "assessments", "decisions"}
Kind(t) == IF t \in Numbered THEN {Tag(t)} \X Nat ELSE NamedIds[t]

FirstIds(tag, k) == { <<tag, i>> : i \in 1..k }

Identified(s) ==
  /\ \A t \in Names : DOMAIN s[t] \subseteq Kind(t)
  /\ \A t \in Numbered : \E k \in Nat : DOMAIN s[t] = FirstIds(Tag(t), k)

(* What a row owes to the rows that it names.                              *)
Sealed(s, x) == /\ x.protocol \in DOMAIN s.protocols
                /\ s.protocols[x.protocol].status = "FROZEN"
                /\ s.protocols[x.protocol].program = x.program

ProtocolOk(s, x) == \A h \in x.hypotheses : s.hypotheses[h].program = x.program

WorkingOk(s, x) == Sealed(s, x)

ExperimentOk(s, x) ==
  /\ Sealed(s, x)
  /\ x.working # NoWorking =>
       /\ x.working \in DOMAIN s.workings
       /\ s.workings[x.working].program = x.program
       /\ s.workings[x.working].protocol = x.protocol

BundleOk(s, x) ==
  /\ Sealed(s, x)
  /\ s.protocols[x.protocol].spec # NoSpec
  /\ x.comparisons # {}
  /\ \A e \in x.comparisons :
       e \in DOMAIN s.experiments /\ s.experiments[e].protocol = x.protocol

AssessmentOk(s, x) ==
  /\ x.bundle \in DOMAIN s.bundles
  /\ s.bundles[x.bundle].program = x.program
  /\ s.bundles[x.bundle].protocol = x.protocol

DecisionOk(s, x) ==
  /\ x.assessed # {}
  /\ \A a \in x.assessed :
       a \in DOMAIN s.assessments /\ s.assessments[a].program = x.program

ArtifactOk(s, x) == x.program \in Program /\ Belongs(s, x.producer, x.program, Tables)

RowsOk(s) ==
  /\ \A x \in DOMAIN s.protocols : ProtocolOk(s, s.protocols[x])
  /\ \A x \in DOMAIN s.workings : WorkingOk(s, s.workings[x])
  /\ \A x \in DOMAIN s.experiments : ExperimentOk(s, s.experiments[x])
  /\ \A x \in DOMAIN s.bundles : BundleOk(s, s.bundles[x])
  /\ \A x \in DOMAIN s.assessments : AssessmentOk(s, s.assessments[x])
  /\ \A x \in DOMAIN s.decisions : DecisionOk(s, s.decisions[x])
  /\ \A x \in DOMAIN s.artifacts : ArtifactOk(s, s.artifacts[x])

(* The Pilot of an Experiment, the verdict on a Hypothesis and the closing *)
(* of a Program, in the records that they rest on.                         *)
PilotBacked(s, e) ==
  LET spec == s.protocols[s.experiments[e].protocol].spec
  IN  /\ spec # NoSpec /\ spec.pilots # {}
      /\ \A r \in spec.pilots : r \in DOMAIN s.runs /\ s.runs[r].experiment = e

VerdictBacked(s, h) ==
  \E a \in DOMAIN s.assessments :
    /\ h \in s.protocols[s.assessments[a].protocol].hypotheses
    /\ h \in DOMAIN s.assessments[a].findings
    /\ s.assessments[a].findings[h] = s.hypotheses[h].status

ClosingBacked(s, pg) == \E d \in DOMAIN s.decisions : s.decisions[d].program = pg

Backed(s) ==
  /\ \A e \in DOMAIN s.experiments : s.experiments[e].piloted => PilotBacked(s, e)
  /\ \A h \in Hypothesis : s.hypotheses[h].status \in Verdicts => VerdictBacked(s, h)
  /\ \A pg \in Program : s.programs[pg] = "CLOSED" => ClosingBacked(s, pg)

(* What lets a Working w leave a stage, and the status its Program has     *)
(* reached by then.                                                        *)
Produced(s, producer) ==
  IF producer \in DOMAIN s.workings THEN {producer}
  ELSE IF producer \in DOMAIN s.experiments THEN {s.experiments[producer].working}
  ELSE {}

Owned(s, w) == { b \in DOMAIN s.bundles : BundleWorkings(s, b) = {w} }
JudgedFor(s, w) == { a \in DOMAIN s.assessments : s.assessments[a].bundle \in Owned(s, w) }

Evidence(s, stage, w) ==
  /\ stage = "IMPLEMENTATION" =>
       \E f \in DOMAIN s.artifacts : /\ s.artifacts[f].kind = "implementation"
                                     /\ Produced(s, s.artifacts[f].producer) = {w}
  /\ stage = "PILOT" =>
       \E e \in DOMAIN s.experiments : s.experiments[e].working = w /\ s.experiments[e].piloted
  /\ stage = "ANALYSIS" => Owned(s, w) # {}
  /\ stage = "REVIEW" => JudgedFor(s, w) # {}
  /\ stage = "DECISION" =>
       \E d \in DOMAIN s.decisions : s.decisions[d].assessed \subseteq JudgedFor(s, w)

Due(stage) == IF stage = "IMPLEMENTATION" THEN Rank["IMPLEMENTED"]
              ELSE IF stage = "PILOT" THEN Rank["PILOTED"]
              ELSE IF stage = "ANALYSIS" THEN Rank["RESULT_READY"]
              ELSE IF stage = "REVIEW" THEN Rank["EVALUATED"] ELSE 0

Reached(s, stage, pg) == Rank[s.programs[pg]] >= Due(stage)

LeftStages(s) ==
  \A w \in DOMAIN s.workings : \A stage \in DOMAIN NextStage :
    StageRank[s.workings[w].stage] > StageRank[stage] =>
      Evidence(s, stage, w) /\ Reached(s, stage, s.workings[w].program)

Good(s) == Typed(s) /\ Identified(s) /\ RowsOk(s) /\ Backed(s) /\ LeftStages(s)

(* The ledger only adds.                                                   *)
Lasting == {"runs", "bundles", "assessments", "decisions", "artifacts",
            "deviations", "reproductions"}

Extends(s, n) ==
  /\ \A t \in Tables : DOMAIN s[t] \subseteq DOMAIN n[t]
  /\ \A t \in Tables : \A x \in DOMAIN s[t] : n[t][x].program = s[t][x].program
  /\ \A t \in Lasting : \A x \in DOMAIN s[t] : n[t][x] = s[t][x]
  /\ \A x \in DOMAIN s.protocols :
       /\ n.protocols[x].hypotheses = s.protocols[x].hypotheses
       /\ n.protocols[x].spec = s.protocols[x].spec
       /\ s.protocols[x].status = "FROZEN" => n.protocols[x].status = "FROZEN"
  /\ \A x \in DOMAIN s.workings :
       /\ n.workings[x].protocol = s.workings[x].protocol
       /\ StageRank[n.workings[x].stage] >= StageRank[s.workings[x].stage]
  /\ \A x \in DOMAIN s.experiments :
       /\ n.experiments[x].protocol = s.experiments[x].protocol
       /\ n.experiments[x].working = s.experiments[x].working
       /\ s.experiments[x].piloted => n.experiments[x].piloted
  /\ \A pg \in Program : Rank[n.programs[pg]] >= Rank[s.programs[pg]]
-----------------------------------------------------------------------------
(* The constants that orders are read from.                                *)
LEMMA StageFacts ==
  /\ DOMAIN NextStage = {"IMPLEMENTATION", "PILOT", "ANALYSIS", "REVIEW", "DECISION"}
  /\ DOMAIN StageRank = DOMAIN NextStage \cup {"COMPLETED"}
  /\ \A stage \in DOMAIN StageRank : StageRank[stage] \in Nat
  /\ \A stage \in DOMAIN NextStage :
       /\ NextStage[stage] \in DOMAIN StageRank
       /\ StageRank[NextStage[stage]] = StageRank[stage] + 1
  /\ \A x, y \in DOMAIN StageRank : StageRank[x] = StageRank[y] => x = y
  /\ StageRank["IMPLEMENTATION"] = 0
  BY DEF NextStage, StageRank

(* The statuses of a Program and the order of those that stages wait for.  *)
LEMMA RankFacts ==
  /\ DOMAIN Rank = {"RQ_FROZEN", "DESIGN_FROZEN", "IMPLEMENTED", "PILOTED", "RUNNING",
                    "RESULT_READY", "EVALUATED", "CLOSED"}
  /\ \A x \in DOMAIN Rank : Rank[x] \in Nat
  /\ Rank["IMPLEMENTED"] = 6 /\ Rank["PILOTED"] = 7 /\ Rank["RESULT_READY"] = 9
  /\ Rank["EVALUATED"] = 10 /\ Rank["CLOSED"] = 11
  BY DEF Rank

(* The rank a Program must have reached for a Working to leave a stage.    *)
LEMMA DueFacts ==
  /\ \A stage \in DOMAIN NextStage : Due(stage) \in Nat
  /\ Due("IMPLEMENTATION") = 6 /\ Due("PILOT") = 7 /\ Due("ANALYSIS") = 9
  /\ Due("REVIEW") = 10 /\ Due("DECISION") = 0
  BY RankFacts DEF Due

(* No id is of two kinds.                                                  *)
LEMMA KindsDisjoint ==
  ASSUME NEW t \in Names, NEW u \in Names, t # u, NEW id \in Kind(t)
  PROVE  id \notin Kind(u)
<1> DEFINE Plain == Names \ Numbered
<1>0. /\ Plain = DOMAIN NamedIds /\ Numbered \subseteq Names
      /\ t \in Plain \/ t \in Numbered
      /\ u \in Plain \/ u \in Numbered
  BY DEF NamedIds, Names, Tables, Numbered
<1>1. \A v \in Numbered : Kind(v) = {Tag(v)} \X Nat
  BY DEF Kind
<1>2. \A v \in Plain : Kind(v) = NamedIds[v]
  BY DEF Kind
<1>3. \A v \in Numbered : Tag(v) \in {"WK", "RB", "AS", "DE"}
  BY DEF Tag, Numbered
<1>4. \A v \in Numbered : Kind(v) \subseteq Generated
  BY <1>1, <1>3 DEF Generated
<1>5. CASE t \in Numbered /\ u \in Numbered
  <2>1. Tag(t) # Tag(u)
    BY <1>5 DEF Tag, Numbered
  <2> QED
    BY <1>1, <1>5, <2>1
<1>6. CASE t \in Plain /\ u \in Plain
  BY <1>0, <1>2, <1>6, IdAssumption
<1>7. CASE t \in Numbered /\ u \in Plain
  BY <1>0, <1>2, <1>4, <1>7, IdAssumption
<1>8. CASE t \in Plain /\ u \in Numbered
  BY <1>0, <1>2, <1>4, <1>8, IdAssumption
<1> QED
  BY <1>0, <1>5, <1>6, <1>7, <1>8

(* NextNumber counts: the ids given out so far are numbered from 1.        *)
LEMMA CountIds ==
  ASSUME NEW tag, NEW k \in Nat
  PROVE  Cardinality(FirstIds(tag, k)) = k
<1> DEFINE f == [i \in 1..k |-> <<tag, i>>]
<1>1. DOMAIN f = 1..k /\ \A i \in 1..k : f[i] = <<tag, i>>
  OBVIOUS
<1>2. f \in [1..k -> FirstIds(tag, k)]
  BY DEF FirstIds
<1> HIDE DEF f
<1>3. \A i, j \in 1..k : f[i] = f[j] => i = j
  BY <1>1
<1>4. \A id \in FirstIds(tag, k) : \E i \in 1..k : f[i] = id
  BY <1>1 DEF FirstIds
<1>5. f \in Bijection(1..k, FirstIds(tag, k))
  BY <1>2, <1>3, <1>4 DEF Bijection, Injection, Surjection, IsInjective
<1> QED
  BY <1>5, FS_CountingElements DEF ExistsBijection

(* A table numbered without gaps yields a number it does not have yet.     *)
LEMMA NextIsFresh ==
  ASSUME NEW table, NEW tag, NEW k \in Nat, DOMAIN table = FirstIds(tag, k)
  PROVE  /\ NextNumber(table) = k + 1
         /\ <<tag, NextNumber(table)>> \notin DOMAIN table
         /\ DOMAIN table \cup {<<tag, NextNumber(table)>>} = FirstIds(tag, k + 1)
<1>1. NextNumber(table) = k + 1
  BY CountIds DEF NextNumber
<1>2. <<tag, k + 1>> \notin FirstIds(tag, k)
  BY DEF FirstIds
<1>3. 1..(k + 1) = (1..k) \cup {k + 1}
  OBVIOUS
<1>4. FirstIds(tag, k) \cup {<<tag, k + 1>>} = FirstIds(tag, k + 1)
  BY <1>3 DEF FirstIds
<1> QED
  BY <1>1, <1>2, <1>4

(* What an update of a table makes of it.                                  *)
LEMMA PutTyped ==
  ASSUME NEW table, NEW id, NEW Rows, table \in [DOMAIN table -> Rows], NEW row \in Rows
  PROVE  Put(table, id, row) \in [DOMAIN Put(table, id, row) -> Rows]
  BY DEF Put

(* _advance_program touches the Programs alone and never lowers one.       *)
LEMMA AdvanceFacts ==
  ASSUME NEW s, Projection(s), s.programs \in [Program -> DOMAIN Rank],
         NEW pg \in Program, NEW status \in DOMAIN Rank
  PROVE  LET n == Advance(s, pg, status)
         IN  /\ Projection(n)
             /\ \A t \in Tables : n[t] = s[t]
             /\ n.programs \in [Program -> DOMAIN Rank]
             /\ \A q \in Program : n.programs[q] # s.programs[q]
                                    => q = pg /\ n.programs[q] = status
             /\ \A q \in Program : Rank[n.programs[q]] >= Rank[s.programs[q]]
             /\ Rank[n.programs[pg]] >= Rank[status]
<1>1. CASE Rank[status] > Rank[s.programs[pg]]
  <2> DEFINE n == [s EXCEPT !.programs[pg] = status]
  <2>1. Advance(s, pg, status) = n
    BY <1>1 DEF Advance
  <2>2. n.programs = [s.programs EXCEPT ![pg] = status] /\ Projection(n)
    BY DEF Projection, Names, Tables
  <2>3. \A t \in Tables : n[t] = s[t]
    BY DEF Projection, Names, Tables
  <2> HIDE DEF n
  <2>4. \A q \in Program : Rank[n.programs[q]] >= Rank[s.programs[q]]
    BY <1>1, <2>2, RankFacts
  <2> QED
    BY <2>1, <2>2, <2>3, <2>4, RankFacts
<1>2. CASE ~(Rank[status] > Rank[s.programs[pg]])
  <2>1. Advance(s, pg, status) = s
    BY <1>2 DEF Advance
  <2> QED
    BY <1>2, <2>1, RankFacts
<1> QED
  BY <1>1, <1>2

(* _advance_workings_for_event touches the stage of one Working.           *)
LEMMA CreditFacts ==
  ASSUME NEW s, Typed(s), NEW stage \in DOMAIN NextStage, NEW targets, NEW pg, NEW pts
  PROVE  LET n == Credit(s, stage, targets, pg, pts)
         IN  /\ Projection(n)
             /\ \A t \in Names \ {"workings"} : n[t] = s[t]
             /\ DOMAIN n.workings = DOMAIN s.workings
             /\ n.workings \in [DOMAIN n.workings -> WorkingRow]
             /\ \A w \in DOMAIN s.workings :
                  /\ n.workings[w].program = s.workings[w].program
                  /\ n.workings[w].protocol = s.workings[w].protocol
                  /\ \/ n.workings[w].stage = s.workings[w].stage
                     \/ /\ targets = {w} /\ s.workings[w].stage = stage
                        /\ s.workings[w].program = pg
                        /\ n.workings[w].stage = NextStage[stage]
<1> DEFINE due(w) == /\ targets = {w} /\ s.workings[w].stage = stage
                     /\ s.workings[w].program = pg /\ s.workings[w].protocol \in pts
           moved(w) == [s.workings[w] EXCEPT !.stage = NextStage[stage]]
           table == [w \in DOMAIN s.workings |-> IF due(w) THEN moved(w) ELSE s.workings[w]]
           n == [s EXCEPT !.workings = table]
<1>1. Credit(s, stage, targets, pg, pts) = n
  BY Zenon DEF Credit
<1>2. n.workings = table /\ Projection(n) /\ \A t \in Names \ {"workings"} : n[t] = s[t]
  BY DEF Typed, Projection, Names, Tables
<1>3. ASSUME NEW w \in DOMAIN s.workings
      PROVE  /\ s.workings[w] \in WorkingRow
             /\ moved(w) \in WorkingRow
             /\ moved(w).program = s.workings[w].program
             /\ moved(w).protocol = s.workings[w].protocol
             /\ moved(w).stage = NextStage[stage]
  <2>1. s.workings[w] \in WorkingRow
    BY DEF Typed
  <2>2. NextStage[stage] \in DOMAIN StageRank
    BY StageFacts
  <2> QED
    BY <2>1, <2>2 DEF WorkingRow
<1> HIDE DEF moved
<1>4. table \in [DOMAIN table -> WorkingRow]
  BY <1>3
<1>5. DOMAIN table = DOMAIN s.workings
  OBVIOUS
<1>6. \A w \in DOMAIN s.workings : table[w] = IF due(w) THEN moved(w) ELSE s.workings[w]
  OBVIOUS
<1> HIDE DEF n, table
<1> QED
  BY <1>1, <1>2, <1>3, <1>4, <1>5, <1>6

-----------------------------------------------------------------------------
(* What is in order stays in order when the ledger grows.                  *)

(* A State extends itself.                                                 *)
LEMMA ExtendsItself ==
  ASSUME NEW s, Typed(s)
  PROVE  Extends(s, s)
<1>1. \A x \in DOMAIN s.workings : StageRank[s.workings[x].stage] \in Nat
  BY StageFacts DEF Typed, WorkingRow
<1>2. \A pg \in Program : Rank[s.programs[pg]] \in Nat
  BY RankFacts DEF Typed
<1> QED
  BY <1>1, <1>2 DEF Extends

(* Extension is transitive.                                                *)
LEMMA ExtendsFurther ==
  ASSUME NEW s, NEW m, NEW n, Typed(s), Typed(m), Typed(n), Extends(s, m), Extends(m, n)
  PROVE  Extends(s, n)
<1>1. /\ \A t \in Tables : DOMAIN s[t] \subseteq DOMAIN n[t]
      /\ \A t \in Tables : \A x \in DOMAIN s[t] : n[t][x].program = s[t][x].program
  BY DEF Extends
<1>2. \A t \in Lasting : \A x \in DOMAIN s[t] : n[t][x] = s[t][x]
  BY DEF Extends, Lasting, Tables
<1>3. /\ DOMAIN s.protocols \subseteq DOMAIN m.protocols
      /\ DOMAIN s.workings \subseteq DOMAIN m.workings
      /\ DOMAIN s.experiments \subseteq DOMAIN m.experiments
  BY DEF Extends, Tables
<1>4. \A x \in DOMAIN s.workings :
        /\ StageRank[s.workings[x].stage] \in Nat
        /\ StageRank[m.workings[x].stage] \in Nat
        /\ StageRank[n.workings[x].stage] \in Nat
  <2>1. DOMAIN m.workings \subseteq DOMAIN n.workings
    BY DEF Extends, Tables
  <2> QED
    BY <1>3, <2>1, StageFacts DEF Typed, WorkingRow
<1>5. \A pg \in Program : /\ Rank[s.programs[pg]] \in Nat /\ Rank[m.programs[pg]] \in Nat
                         /\ Rank[n.programs[pg]] \in Nat
  BY RankFacts DEF Typed
<1>6. \A pg \in Program : Rank[n.programs[pg]] >= Rank[s.programs[pg]]
  BY <1>5 DEF Extends
<1>7. \A x \in DOMAIN s.workings :
        /\ n.workings[x].protocol = s.workings[x].protocol
        /\ StageRank[n.workings[x].stage] >= StageRank[s.workings[x].stage]
  BY <1>3, <1>4 DEF Extends
<1>8. \A x \in DOMAIN s.protocols :
        /\ n.protocols[x].hypotheses = s.protocols[x].hypotheses
        /\ n.protocols[x].spec = s.protocols[x].spec
        /\ s.protocols[x].status = "FROZEN" => n.protocols[x].status = "FROZEN"
  BY <1>3 DEF Extends
<1>9. \A x \in DOMAIN s.experiments :
        /\ n.experiments[x].protocol = s.experiments[x].protocol
        /\ n.experiments[x].working = s.experiments[x].working
        /\ s.experiments[x].piloted => n.experiments[x].piloted
  BY <1>3 DEF Extends
<1> QED
  BY <1>1, <1>2, <1>6, <1>7, <1>8, <1>9 DEF Extends

(* The rows of s, seen from n.                                             *)
LEMMA RowsKept ==
  ASSUME NEW s, NEW n, Typed(s), Extends(s, n), RowsOk(s)
  PROVE  /\ \A x \in DOMAIN s.protocols : ProtocolOk(n, n.protocols[x])
         /\ \A x \in DOMAIN s.workings : WorkingOk(n, n.workings[x])
         /\ \A x \in DOMAIN s.experiments : ExperimentOk(n, n.experiments[x])
         /\ \A x \in DOMAIN s.bundles : BundleOk(n, n.bundles[x])
         /\ \A x \in DOMAIN s.assessments : AssessmentOk(n, n.assessments[x])
         /\ \A x \in DOMAIN s.decisions : DecisionOk(n, n.decisions[x])
         /\ \A x \in DOMAIN s.artifacts : ArtifactOk(n, n.artifacts[x])
<1>1. /\ DOMAIN s.protocols \subseteq DOMAIN n.protocols
      /\ DOMAIN s.workings \subseteq DOMAIN n.workings
      /\ DOMAIN s.experiments \subseteq DOMAIN n.experiments
      /\ DOMAIN s.bundles \subseteq DOMAIN n.bundles
      /\ DOMAIN s.assessments \subseteq DOMAIN n.assessments
  BY DEF Extends, Tables
<1>2. /\ \A x \in DOMAIN s.protocols : n.protocols[x].program = s.protocols[x].program
      /\ \A x \in DOMAIN s.workings : n.workings[x].program = s.workings[x].program
      /\ \A x \in DOMAIN s.experiments : n.experiments[x].program = s.experiments[x].program
      /\ \A x \in DOMAIN s.hypotheses : n.hypotheses[x].program = s.hypotheses[x].program
  BY DEF Extends, Tables
<1>3. /\ \A x \in DOMAIN s.bundles : n.bundles[x] = s.bundles[x]
      /\ \A x \in DOMAIN s.assessments : n.assessments[x] = s.assessments[x]
      /\ \A x \in DOMAIN s.decisions : n.decisions[x] = s.decisions[x]
      /\ \A x \in DOMAIN s.artifacts : n.artifacts[x] = s.artifacts[x]
  BY DEF Extends, Lasting
<1>4. ASSUME NEW x, NEW y, Sealed(s, x), y.protocol = x.protocol, y.program = x.program
      PROVE  Sealed(n, y)
  BY <1>1, <1>2, <1>4 DEF Sealed, Extends
<1>5. \A x \in DOMAIN s.protocols : ProtocolOk(n, n.protocols[x])
  <2>1. \A x \in DOMAIN s.protocols : s.protocols[x].hypotheses \subseteq DOMAIN s.hypotheses
    BY DEF Typed, ProtocolRow
  <2> QED
    BY <1>2, <2>1 DEF RowsOk, ProtocolOk, Extends
<1>6. \A x \in DOMAIN s.workings : WorkingOk(n, n.workings[x])
  BY <1>2, <1>4 DEF RowsOk, WorkingOk, Extends
<1>7. \A x \in DOMAIN s.experiments : ExperimentOk(n, n.experiments[x])
  <2> SUFFICES ASSUME NEW x \in DOMAIN s.experiments PROVE ExperimentOk(n, n.experiments[x])
    OBVIOUS
  <2>1. ExperimentOk(s, s.experiments[x])
    BY DEF RowsOk
  <2>2. /\ n.experiments[x].protocol = s.experiments[x].protocol
        /\ n.experiments[x].working = s.experiments[x].working
        /\ n.experiments[x].program = s.experiments[x].program
    BY <1>2 DEF Extends
  <2>3. Sealed(n, n.experiments[x])
    BY <1>4, <2>1, <2>2 DEF ExperimentOk
  <2> QED
    BY <1>1, <1>2, <2>1, <2>2, <2>3 DEF ExperimentOk, Extends
<1>8. \A x \in DOMAIN s.bundles : BundleOk(n, n.bundles[x])
  <2> SUFFICES ASSUME NEW x \in DOMAIN s.bundles PROVE BundleOk(n, s.bundles[x])
    BY <1>3
  <2>1. BundleOk(s, s.bundles[x])
    BY DEF RowsOk
  <2>2. Sealed(n, s.bundles[x]) /\ s.bundles[x].protocol \in DOMAIN s.protocols
    BY <1>4, <2>1 DEF BundleOk, Sealed
  <2> QED
    BY <1>1, <2>1, <2>2 DEF BundleOk, Extends
<1>9. \A x \in DOMAIN s.assessments : AssessmentOk(n, n.assessments[x])
  BY <1>1, <1>3 DEF RowsOk, AssessmentOk
<1>10. \A x \in DOMAIN s.decisions : DecisionOk(n, n.decisions[x])
  BY <1>1, <1>3 DEF RowsOk, DecisionOk
<1>11. \A x \in DOMAIN s.artifacts : ArtifactOk(n, n.artifacts[x])
  BY <1>3 DEF RowsOk, ArtifactOk, Belongs, Extends
<1> QED
  BY <1>5, <1>6, <1>7, <1>8, <1>9, <1>10, <1>11

(* A Result Bundle compares Experiments of the same Workings, an Artifact  *)
(* has the same Working as its producer.                                   *)
LEMMA BundleWorkingsKept ==
  ASSUME NEW s, NEW n, Extends(s, n), RowsOk(s), NEW b \in DOMAIN s.bundles
  PROVE  BundleWorkings(n, b) = BundleWorkings(s, b)
<1>1. n.bundles[b] = s.bundles[b]
  BY DEF Extends, Lasting
<1>2. \A e \in s.bundles[b].comparisons : e \in DOMAIN s.experiments
  BY DEF RowsOk, BundleOk
<1>3. \A e \in s.bundles[b].comparisons : n.experiments[e].working = s.experiments[e].working
  BY <1>2 DEF Extends
<1> QED
  BY <1>1, <1>3 DEF BundleWorkings

(* What one Working alone produced, later States credit to it alone.       *)
LEMMA ProducedKept ==
  ASSUME NEW s, NEW n, Extends(s, n), Identified(s), Identified(n), NEW producer, NEW w,
         Produced(s, producer) = {w}
  PROVE  Produced(n, producer) = {w}
<1>1. /\ DOMAIN s.workings \subseteq DOMAIN n.workings
      /\ DOMAIN s.experiments \subseteq DOMAIN n.experiments
  BY DEF Extends, Tables
<1>2. CASE producer \in DOMAIN s.workings
  BY <1>1, <1>2 DEF Produced
<1>3. CASE producer \notin DOMAIN s.workings
  <2>1. producer \in DOMAIN s.experiments /\ s.experiments[producer].working = w
    BY <1>3 DEF Produced
  <2>2. producer \in Kind("experiments")
    BY <2>1 DEF Identified, Names, Tables
  <2>3. producer \notin DOMAIN n.workings
    BY <2>2, KindsDisjoint DEF Identified, Names, Tables
  <2>4. n.experiments[producer].working = w /\ producer \in DOMAIN n.experiments
    BY <1>1, <2>1 DEF Extends
  <2> QED
    BY <2>3, <2>4 DEF Produced
<1> QED
  BY <1>2, <1>3

(* A Working keeps its Bundles and their Assessments.                      *)
LEMMA OwnedKept ==
  ASSUME NEW s, NEW n, Extends(s, n), RowsOk(s), NEW w
  PROVE  Owned(s, w) \subseteq Owned(n, w) /\ JudgedFor(s, w) \subseteq JudgedFor(n, w)
<1>1. /\ DOMAIN s.bundles \subseteq DOMAIN n.bundles
      /\ DOMAIN s.assessments \subseteq DOMAIN n.assessments
      /\ \A a \in DOMAIN s.assessments : n.assessments[a] = s.assessments[a]
  BY DEF Extends, Tables, Lasting
<1>2. Owned(s, w) \subseteq Owned(n, w)
  BY <1>1, BundleWorkingsKept DEF Owned
<1> QED
  BY <1>1, <1>2 DEF JudgedFor

(* Evidence for leaving a stage is never lost.                             *)
LEMMA EvidenceKept ==
  ASSUME NEW s, NEW n, Extends(s, n), Identified(s), Identified(n), RowsOk(s),
         NEW stage, NEW w, Evidence(s, stage, w)
  PROVE  Evidence(n, stage, w)
<1>1. /\ DOMAIN s.artifacts \subseteq DOMAIN n.artifacts
      /\ \A f \in DOMAIN s.artifacts : n.artifacts[f] = s.artifacts[f]
      /\ DOMAIN s.decisions \subseteq DOMAIN n.decisions
      /\ \A d \in DOMAIN s.decisions : n.decisions[d] = s.decisions[d]
      /\ DOMAIN s.experiments \subseteq DOMAIN n.experiments
  BY DEF Extends, Tables, Lasting
<1>2. ASSUME stage = "IMPLEMENTATION"
      PROVE  \E f \in DOMAIN n.artifacts : /\ n.artifacts[f].kind = "implementation"
                                           /\ Produced(n, n.artifacts[f].producer) = {w}
  <2>1. PICK f \in DOMAIN s.artifacts : /\ s.artifacts[f].kind = "implementation"
                                        /\ Produced(s, s.artifacts[f].producer) = {w}
    BY <1>2 DEF Evidence
  <2>2. Produced(n, s.artifacts[f].producer) = {w}
    BY <2>1, ProducedKept
  <2> QED
    BY <1>1, <2>1, <2>2
<1>3. stage = "PILOT" =>
        \E e \in DOMAIN n.experiments : n.experiments[e].working = w /\ n.experiments[e].piloted
  BY <1>1 DEF Evidence, Extends
<1>4. /\ stage = "ANALYSIS" => Owned(n, w) # {}
      /\ stage = "REVIEW" => JudgedFor(n, w) # {}
      /\ stage = "DECISION" =>
           \E d \in DOMAIN n.decisions : n.decisions[d].assessed \subseteq JudgedFor(n, w)
  BY <1>1, OwnedKept DEF Evidence
<1> QED
  BY <1>2, <1>3, <1>4 DEF Evidence

(* A Program that reached a stage's status has reached it for good.        *)
LEMMA ReachedKept ==
  ASSUME NEW s, NEW n, Typed(s), Typed(n), Extends(s, n), NEW stage \in DOMAIN NextStage,
         NEW pg \in Program, Reached(s, stage, pg)
  PROVE  Reached(n, stage, pg)
<1>1. Rank[s.programs[pg]] \in Nat /\ Rank[n.programs[pg]] \in Nat /\ Due(stage) \in Nat
  BY RankFacts, DueFacts DEF Typed
<1> QED
  BY <1>1 DEF Reached, Extends

-----------------------------------------------------------------------------
(* What a step that grows s to n has to answer for.                        *)

NewRowsOk(s, n) ==
  /\ \A x \in DOMAIN n.protocols \ DOMAIN s.protocols : ProtocolOk(n, n.protocols[x])
  /\ \A x \in DOMAIN n.workings \ DOMAIN s.workings : WorkingOk(n, n.workings[x])
  /\ \A x \in DOMAIN n.experiments \ DOMAIN s.experiments : ExperimentOk(n, n.experiments[x])
  /\ \A x \in DOMAIN n.bundles \ DOMAIN s.bundles : BundleOk(n, n.bundles[x])
  /\ \A x \in DOMAIN n.assessments \ DOMAIN s.assessments : AssessmentOk(n, n.assessments[x])
  /\ \A x \in DOMAIN n.decisions \ DOMAIN s.decisions : DecisionOk(n, n.decisions[x])
  /\ \A x \in DOMAIN n.artifacts \ DOMAIN s.artifacts : ArtifactOk(n, n.artifacts[x])

NewClaimsBacked(s, n) ==
  /\ \A e \in DOMAIN n.experiments : n.experiments[e].piloted =>
       (e \in DOMAIN s.experiments /\ s.experiments[e].piloted) \/ PilotBacked(n, e)
  /\ \A h \in Hypothesis : n.hypotheses[h].status \in Verdicts =>
       n.hypotheses[h].status = s.hypotheses[h].status \/ VerdictBacked(n, h)
  /\ \A pg \in Program : n.programs[pg] = "CLOSED" =>
       s.programs[pg] = "CLOSED" \/ ClosingBacked(n, pg)

StagesStay(s, n) ==
  \A w \in DOMAIN n.workings :
    \/ w \in DOMAIN s.workings /\ n.workings[w].stage = s.workings[w].stage
    \/ n.workings[w].stage = "IMPLEMENTATION"

Better(s, n) == Good(n) /\ Extends(s, n)

(* A step that backs its new claims keeps the old ones backed.             *)
LEMMA BackedKept ==
  ASSUME NEW s, NEW n, Typed(s), Extends(s, n), RowsOk(s), Backed(s), NewClaimsBacked(s, n)
  PROVE  Backed(n)
<1>1. ASSUME NEW e \in DOMAIN s.experiments, PilotBacked(s, e) PROVE PilotBacked(n, e)
  <2>1. n.experiments[e].protocol = s.experiments[e].protocol
    BY DEF Extends
  <2>2. s.experiments[e].protocol \in DOMAIN s.protocols
    BY DEF RowsOk, ExperimentOk, Sealed
  <2>3. n.protocols[n.experiments[e].protocol].spec = s.protocols[s.experiments[e].protocol].spec
    BY <2>1, <2>2 DEF Extends
  <2>4. \A r \in DOMAIN s.runs : r \in DOMAIN n.runs /\ n.runs[r] = s.runs[r]
    BY DEF Extends, Tables, Lasting
  <2> QED
    BY <1>1, <2>3, <2>4 DEF PilotBacked
<1>2. ASSUME NEW h \in Hypothesis, VerdictBacked(s, h),
             n.hypotheses[h].status = s.hypotheses[h].status
      PROVE  VerdictBacked(n, h)
  <2>1. PICK a \in DOMAIN s.assessments :
          /\ h \in s.protocols[s.assessments[a].protocol].hypotheses
          /\ h \in DOMAIN s.assessments[a].findings
          /\ s.assessments[a].findings[h] = s.hypotheses[h].status
    BY <1>2 DEF VerdictBacked
  <2>2. a \in DOMAIN n.assessments /\ n.assessments[a] = s.assessments[a]
    BY DEF Extends, Tables, Lasting
  <2>3. s.assessments[a].protocol \in DOMAIN s.protocols
    BY DEF RowsOk, AssessmentOk, BundleOk, Sealed
  <2>4. n.protocols[s.assessments[a].protocol].hypotheses
          = s.protocols[s.assessments[a].protocol].hypotheses
    BY <2>3 DEF Extends
  <2> QED
    BY <1>2, <2>1, <2>2, <2>4 DEF VerdictBacked
<1>3. ASSUME NEW pg \in Program, ClosingBacked(s, pg) PROVE ClosingBacked(n, pg)
  <2>1. \A d \in DOMAIN s.decisions : d \in DOMAIN n.decisions /\ n.decisions[d] = s.decisions[d]
    BY DEF Extends, Tables, Lasting
  <2> QED
    BY <1>3, <2>1 DEF ClosingBacked
<1>4. \A e \in DOMAIN n.experiments : n.experiments[e].piloted => PilotBacked(n, e)
  BY <1>1 DEF Backed, NewClaimsBacked
<1>5. \A h \in Hypothesis : n.hypotheses[h].status \in Verdicts => VerdictBacked(n, h)
  BY <1>2 DEF Backed, NewClaimsBacked
<1>6. \A pg \in Program : n.programs[pg] = "CLOSED" => ClosingBacked(n, pg)
  BY <1>3 DEF Backed, NewClaimsBacked
<1> QED
  BY <1>4, <1>5, <1>6 DEF Backed

(* A step whose new rows are right keeps all rows right.                   *)
LEMMA RowsExtended ==
  ASSUME NEW s, NEW n, Typed(s), Extends(s, n), RowsOk(s), NewRowsOk(s, n)
  PROVE  RowsOk(n)
  BY RowsKept DEF RowsOk, NewRowsOk

(* A step that moves no Working leaves each with its evidence.             *)
LEMMA StagesKept ==
  ASSUME NEW s, NEW n, Good(s), Typed(n), Identified(n), Extends(s, n), StagesStay(s, n)
  PROVE  LeftStages(n)
<1> SUFFICES ASSUME NEW w \in DOMAIN n.workings, NEW stage \in DOMAIN NextStage,
                    StageRank[n.workings[w].stage] > StageRank[stage]
             PROVE  Evidence(n, stage, w) /\ Reached(n, stage, n.workings[w].program)
  BY DEF LeftStages
<1>1. StageRank[stage] \in Nat /\ StageRank["IMPLEMENTATION"] = 0
  BY StageFacts
<1>2. w \in DOMAIN s.workings /\ n.workings[w].stage = s.workings[w].stage
  BY <1>1 DEF StagesStay
<1>3. Evidence(s, stage, w) /\ Reached(s, stage, s.workings[w].program)
  BY <1>2 DEF Good, LeftStages
<1>4. n.workings[w].program = s.workings[w].program /\ s.workings[w].program \in Program
  BY <1>2 DEF Extends, Tables, Good, Typed, WorkingRow
<1>5. Evidence(n, stage, w)
  BY <1>3, EvidenceKept DEF Good
<1>6. Reached(n, stage, n.workings[w].program)
  BY <1>3, <1>4, ReachedKept DEF Good
<1> QED
  BY <1>5, <1>6

(* A step that answers for its additions keeps the invariant.              *)
LEMMA Growth ==
  ASSUME NEW s, NEW n, Good(s), Typed(n), Identified(n), Extends(s, n),
         NewRowsOk(s, n), NewClaimsBacked(s, n), StagesStay(s, n)
  PROVE  Better(s, n)
  BY BackedKept, RowsExtended, StagesKept DEF Good, Better

(* Two good updates of one command make a good one.                        *)
LEMMA BetterFurther ==
  ASSUME NEW s, NEW m, NEW n, Good(s), Better(s, m), Better(m, n)
  PROVE  Better(s, n)
  BY ExtendsFurther DEF Good, Better

(* Updates that add no object: the fields that may change.                 *)
LEMMA FieldsChange ==
  ASSUME NEW s, NEW n, Good(s), Typed(n), Extends(s, n), NewClaimsBacked(s, n),
         \A t \in Tables : DOMAIN n[t] = DOMAIN s[t],
         n.workings = s.workings
  PROVE  Better(s, n)
<1>1. /\ DOMAIN n.protocols = DOMAIN s.protocols
      /\ DOMAIN n.experiments = DOMAIN s.experiments
      /\ DOMAIN n.bundles = DOMAIN s.bundles
      /\ DOMAIN n.assessments = DOMAIN s.assessments
      /\ DOMAIN n.decisions = DOMAIN s.decisions
      /\ DOMAIN n.artifacts = DOMAIN s.artifacts
  BY DEF Tables
<1>2. NewRowsOk(s, n)
  BY <1>1 DEF NewRowsOk
<1>3. StagesStay(s, n)
  BY DEF StagesStay
<1>4. \A t \in Names : DOMAIN n[t] = DOMAIN s[t]
  <2>1. DOMAIN n["programs"] = DOMAIN s["programs"]
    BY DEF Typed, Good
  <2> QED
    BY <2>1 DEF Names
<1>5. Identified(n)
  <2>1. \A t \in Names : DOMAIN n[t] \subseteq Kind(t)
    BY <1>4 DEF Good, Identified
  <2>2. Numbered \subseteq Names
    BY DEF Numbered, Names, Tables
  <2> QED
    BY <1>4, <2>1, <2>2 DEF Good, Identified
<1> QED
  BY <1>2, <1>3, <1>5, Growth

(* One new object, in the table t.                                         *)
RowFor(t, s, row) ==
  /\ t = "protocols" => row \in ProtocolRow /\ ProtocolOk(s, row)
  /\ t = "workings" => row \in WorkingRow /\ WorkingOk(s, row) /\ row.stage = "IMPLEMENTATION"
  /\ t = "experiments" => row \in ExperimentRow /\ ExperimentOk(s, row) /\ row.piloted = FALSE
  /\ t = "bundles" => BundleOk(s, row)
  /\ t = "assessments" => AssessmentOk(s, row)
  /\ t = "decisions" => DecisionOk(s, row)
  /\ t = "artifacts" => ArtifactOk(s, row)
  /\ t = "issues" => row \in IssueRow

IdFor(t, s, id) ==
  IF t \in Numbered THEN id = <<Tag(t), NextNumber(s[t])>>
  ELSE id \in Kind(t) /\ id \notin DOMAIN s[t]

(* A row under a fresh id replaces none.                                   *)
LEMMA NewId ==
  ASSUME NEW s, NEW n, Identified(s), NEW t \in Tables, NEW id, IdFor(t, s, id), NEW row,
         n[t] = Put(s[t], id, row), \A u \in Names \ {t} : n[u] = s[u]
  PROVE  id \notin DOMAIN s[t] /\ Identified(n)
<1>1. DOMAIN n[t] = DOMAIN s[t] \cup {id}
  BY DEF Put
<1>2. ASSUME NEW u \in Names \ {t}
      PROVE  /\ DOMAIN n[u] \subseteq Kind(u)
             /\ u \in Numbered => \E k \in Nat : DOMAIN n[u] = FirstIds(Tag(u), k)
  <2>1. n[u] = s[u] /\ u \in Names
    OBVIOUS
  <2>2. DOMAIN s[u] \subseteq Kind(u)
    BY DEF Identified
  <2>3. u \in Numbered => \E k \in Nat : DOMAIN s[u] = FirstIds(Tag(u), k)
    BY DEF Identified
  <2> QED
    BY <2>1, <2>2, <2>3
<1>3. CASE t \notin Numbered
  <2>1. id \in Kind(t) /\ id \notin DOMAIN s[t]
    BY <1>3 DEF IdFor
  <2>2. DOMAIN n[t] \subseteq Kind(t)
    BY <1>1, <2>1 DEF Identified, Names
  <2> QED
    BY <1>2, <1>3, <2>1, <2>2 DEF Identified, Names, Tables, Numbered
<1>4. CASE t \in Numbered
  <2>1. PICK k \in Nat : DOMAIN s[t] = FirstIds(Tag(t), k)
    BY <1>4 DEF Identified
  <2>2. id = <<Tag(t), NextNumber(s[t])>>
    BY <1>4 DEF IdFor
  <2>3. /\ NextNumber(s[t]) = k + 1 /\ id \notin DOMAIN s[t]
        /\ DOMAIN n[t] = FirstIds(Tag(t), k + 1)
    BY <1>1, <2>1, <2>2, NextIsFresh
  <2>4. DOMAIN n[t] \subseteq Kind(t)
    BY <1>4, <2>3 DEF FirstIds, Kind
  <2> QED
    BY <1>2, <2>3, <2>4 DEF Identified, Names, Tables, Numbered
<1> QED
  BY <1>3, <1>4

(* One new row that is right for its table makes a good update.            *)
LEMMA NewRow ==
  ASSUME NEW s, NEW n, Good(s), NEW t \in Tables \ {"hypotheses"}, NEW id, IdFor(t, s, id),
         NEW row, RowFor(t, s, row), Projection(n),
         n[t] = Put(s[t], id, row), \A u \in Names \ {t} : n[u] = s[u]
  PROVE  Better(s, n)
<1>1. id \notin DOMAIN s[t] /\ Identified(n)
  BY NewId DEF Good
<1>2. /\ DOMAIN n[t] = DOMAIN s[t] \cup {id} /\ n[t][id] = row
      /\ \A x \in DOMAIN s[t] : n[t][x] = s[t][x]
  BY <1>1 DEF Put
<1>3. \A u \in Names \ {t} : DOMAIN n[u] = DOMAIN s[u]
  OBVIOUS
<1>4. Extends(s, s)
  BY ExtendsItself DEF Good
<1>5. \A u \in Tables : /\ DOMAIN s[u] \subseteq DOMAIN n[u]
                        /\ \A x \in DOMAIN s[u] : n[u][x] = s[u][x]
  BY <1>2 DEF Names
<1>6. /\ \A x \in DOMAIN s.protocols : n.protocols[x] = s.protocols[x]
      /\ \A x \in DOMAIN s.workings : n.workings[x] = s.workings[x]
      /\ \A x \in DOMAIN s.experiments : n.experiments[x] = s.experiments[x]
      /\ n.programs = s.programs /\ n.hypotheses = s.hypotheses
  <2>1. n["programs"] = s["programs"] /\ n["hypotheses"] = s["hypotheses"]
    BY DEF Names, Tables
  <2> QED
    BY <1>5, <2>1 DEF Tables
<1>7. Extends(s, n)
  <2>1. \A u \in Lasting : \A x \in DOMAIN s[u] : n[u][x] = s[u][x]
    BY <1>5 DEF Lasting, Tables
  <2> QED
    BY <1>4, <1>5, <1>6, <2>1 DEF Extends
<1>8. Typed(n)
  <2>1. n.protocols \in [DOMAIN n.protocols -> ProtocolRow]
    <3>1. CASE t = "protocols"
      <4>1. n.protocols = Put(s.protocols, id, row)
        BY <3>1
      <4>2. s.protocols \in [DOMAIN s.protocols -> ProtocolRow] /\ row \in ProtocolRow
        BY <3>1 DEF Good, Typed, RowFor
      <4> QED
        BY <4>1, <4>2, PutTyped
    <3>2. CASE t # "protocols"
      BY <3>2 DEF Good, Typed, Names, Tables
    <3> QED
      BY <3>1, <3>2
  <2>2. n.workings \in [DOMAIN n.workings -> WorkingRow]
    <3>1. CASE t = "workings"
      <4>1. n.workings = Put(s.workings, id, row)
        BY <3>1
      <4>2. s.workings \in [DOMAIN s.workings -> WorkingRow] /\ row \in WorkingRow
        BY <3>1 DEF Good, Typed, RowFor
      <4> QED
        BY <4>1, <4>2, PutTyped
    <3>2. CASE t # "workings"
      BY <3>2 DEF Good, Typed, Names, Tables
    <3> QED
      BY <3>1, <3>2
  <2>3. n.experiments \in [DOMAIN n.experiments -> ExperimentRow]
    <3>1. CASE t = "experiments"
      <4>1. n.experiments = Put(s.experiments, id, row)
        BY <3>1
      <4>2. s.experiments \in [DOMAIN s.experiments -> ExperimentRow] /\ row \in ExperimentRow
        BY <3>1 DEF Good, Typed, RowFor
      <4> QED
        BY <4>1, <4>2, PutTyped
    <3>2. CASE t # "experiments"
      BY <3>2 DEF Good, Typed, Names, Tables
    <3> QED
      BY <3>1, <3>2
  <2>4. n.issues \in [DOMAIN n.issues -> IssueRow]
    <3>1. CASE t = "issues"
      <4>1. n.issues = Put(s.issues, id, row)
        BY <3>1
      <4>2. s.issues \in [DOMAIN s.issues -> IssueRow] /\ row \in IssueRow
        BY <3>1 DEF Good, Typed, RowFor
      <4> QED
        BY <4>1, <4>2, PutTyped
    <3>2. CASE t # "issues"
      BY <3>2 DEF Good, Typed, Names, Tables
    <3> QED
      BY <3>1, <3>2
  <2> QED
    BY <1>6, <2>1, <2>2, <2>3, <2>4 DEF Good, Typed
<1>9. \A u \in Tables \ {t} : DOMAIN n[u] \ DOMAIN s[u] = {}
  BY <1>3 DEF Names
<1>10. DOMAIN n[t] \ DOMAIN s[t] = {id}
  BY <1>1, <1>2
<1>11. NewRowsOk(s, n)
  <2>1. ASSUME NEW x \in DOMAIN n.protocols \ DOMAIN s.protocols
        PROVE  ProtocolOk(n, n.protocols[x])
    <3>1. t = "protocols" /\ x = id
      BY <1>9, <1>10, <2>1 DEF Tables
    <3> QED
      BY <1>2, <1>6, <3>1 DEF RowFor, ProtocolOk
  <2>2. ASSUME NEW x \in DOMAIN n.workings \ DOMAIN s.workings
        PROVE  WorkingOk(n, n.workings[x])
    <3>1. t = "workings" /\ x = id
      BY <1>9, <1>10, <2>2 DEF Tables
    <3> QED
      BY <1>2, <3>1 DEF RowFor, WorkingOk, Sealed, Names, Tables
  <2>3. ASSUME NEW x \in DOMAIN n.experiments \ DOMAIN s.experiments
        PROVE  ExperimentOk(n, n.experiments[x])
    <3>1. t = "experiments" /\ x = id
      BY <1>9, <1>10, <2>3 DEF Tables
    <3>2. n.protocols = s.protocols /\ n.workings = s.workings
      BY <3>1 DEF Names, Tables
    <3> QED
      BY <1>2, <3>1, <3>2 DEF RowFor, ExperimentOk, Sealed
  <2>4. ASSUME NEW x \in DOMAIN n.bundles \ DOMAIN s.bundles
        PROVE  BundleOk(n, n.bundles[x])
    <3>1. t = "bundles" /\ x = id
      BY <1>9, <1>10, <2>4 DEF Tables
    <3>2. n.protocols = s.protocols /\ n.experiments = s.experiments
      BY <3>1 DEF Names, Tables
    <3> QED
      BY <1>2, <3>1, <3>2 DEF RowFor, BundleOk, Sealed
  <2>5. ASSUME NEW x \in DOMAIN n.assessments \ DOMAIN s.assessments
        PROVE  AssessmentOk(n, n.assessments[x])
    <3>1. t = "assessments" /\ x = id
      BY <1>9, <1>10, <2>5 DEF Tables
    <3>2. n.bundles = s.bundles
      BY <3>1 DEF Names, Tables
    <3> QED
      BY <1>2, <3>1, <3>2 DEF RowFor, AssessmentOk
  <2>6. ASSUME NEW x \in DOMAIN n.decisions \ DOMAIN s.decisions
        PROVE  DecisionOk(n, n.decisions[x])
    <3>1. t = "decisions" /\ x = id
      BY <1>9, <1>10, <2>6 DEF Tables
    <3>2. n.assessments = s.assessments
      BY <3>1 DEF Names, Tables
    <3> QED
      BY <1>2, <3>1, <3>2 DEF RowFor, DecisionOk
  <2>7. ASSUME NEW x \in DOMAIN n.artifacts \ DOMAIN s.artifacts
        PROVE  ArtifactOk(n, n.artifacts[x])
    <3>1. t = "artifacts" /\ x = id
      BY <1>9, <1>10, <2>7 DEF Tables
    <3>2. ArtifactOk(s, row) /\ n.artifacts[x] = row
      BY <1>2, <3>1 DEF RowFor
    <3> QED
      BY <1>5, <3>2 DEF ArtifactOk, Belongs
  <2> QED
    BY <2>1, <2>2, <2>3, <2>4, <2>5, <2>6, <2>7 DEF NewRowsOk
<1>12. NewClaimsBacked(s, n)
  <2>1. ASSUME NEW e \in DOMAIN n.experiments, n.experiments[e].piloted
        PROVE  e \in DOMAIN s.experiments /\ s.experiments[e].piloted
    <3>1. CASE e \in DOMAIN s.experiments
      BY <1>6, <2>1, <3>1
    <3>2. CASE e \notin DOMAIN s.experiments
      <4>1. t = "experiments" /\ e = id
        BY <1>9, <1>10, <2>1, <3>2 DEF Tables
      <4> QED
        BY <1>2, <2>1, <4>1 DEF RowFor
    <3> QED
      BY <3>1, <3>2
  <2> QED
    BY <1>6, <2>1 DEF NewClaimsBacked
<1>13. StagesStay(s, n)
  <2> SUFFICES ASSUME NEW w \in DOMAIN n.workings
               PROVE  \/ w \in DOMAIN s.workings /\ n.workings[w].stage = s.workings[w].stage
                      \/ n.workings[w].stage = "IMPLEMENTATION"
    BY DEF StagesStay
  <2>1. CASE w \in DOMAIN s.workings
    BY <1>6, <2>1
  <2>2. CASE w \notin DOMAIN s.workings
    <3>1. t = "workings" /\ w = id
      BY <1>9, <1>10, <2>2 DEF Tables
    <3> QED
      BY <1>2, <3>1 DEF RowFor
  <2> QED
    BY <2>1, <2>2
<1> QED
  BY <1>1, <1>7, <1>8, <1>11, <1>12, <1>13, Growth

(* A Program is raised.                                                    *)
LEMMA Raised ==
  ASSUME NEW s, Good(s), NEW pg \in Program, NEW status \in DOMAIN Rank, status # "CLOSED"
  PROVE  LET n == Advance(s, pg, status)
         IN  /\ Better(s, n)
             /\ \A t \in Tables : n[t] = s[t]
             /\ Rank[n.programs[pg]] >= Rank[status]
<1> DEFINE n == Advance(s, pg, status)
<1>1. /\ Projection(n)
      /\ \A t \in Tables : n[t] = s[t]
      /\ n.programs \in [Program -> DOMAIN Rank]
      /\ \A q \in Program : n.programs[q] # s.programs[q] => n.programs[q] = status
      /\ \A q \in Program : Rank[n.programs[q]] >= Rank[s.programs[q]]
      /\ Rank[n.programs[pg]] >= Rank[status]
  BY AdvanceFacts DEF Good, Typed
<1> HIDE DEF n
<1>2. /\ n.hypotheses = s.hypotheses /\ n.protocols = s.protocols
      /\ n.workings = s.workings /\ n.experiments = s.experiments /\ n.issues = s.issues
  BY <1>1 DEF Tables
<1>3. Typed(n)
  BY <1>1, <1>2 DEF Good, Typed
<1>4. Extends(s, n)
  <2>1. Extends(s, s)
    BY ExtendsItself DEF Good
  <2>2. Lasting \subseteq Tables
    BY DEF Lasting, Tables
  <2> QED
    BY <1>1, <1>2, <2>1, <2>2 DEF Extends
<1>5. NewClaimsBacked(s, n)
  BY <1>1, <1>2 DEF NewClaimsBacked
<1>6. Better(s, n)
  BY <1>1, <1>2, <1>3, <1>4, <1>5, FieldsChange
<1> QED
  BY <1>1, <1>6 DEF n

(* A Working leaves its stage on the evidence for it.                      *)
LEMMA Credited ==
  ASSUME NEW s, Good(s), NEW stage \in DOMAIN NextStage, NEW targets,
         NEW pg \in Program, NEW pts,
         Reached(s, stage, pg),
         \A w \in DOMAIN s.workings : targets = {w} => Evidence(s, stage, w)
  PROVE  Better(s, Credit(s, stage, targets, pg, pts))
<1> DEFINE n == Credit(s, stage, targets, pg, pts)
<1>1. /\ Projection(n)
      /\ \A t \in Names \ {"workings"} : n[t] = s[t]
      /\ DOMAIN n.workings = DOMAIN s.workings
      /\ n.workings \in [DOMAIN n.workings -> WorkingRow]
      /\ \A w \in DOMAIN s.workings :
           /\ n.workings[w].program = s.workings[w].program
           /\ n.workings[w].protocol = s.workings[w].protocol
           /\ \/ n.workings[w].stage = s.workings[w].stage
              \/ /\ targets = {w} /\ s.workings[w].stage = stage
                 /\ s.workings[w].program = pg
                 /\ n.workings[w].stage = NextStage[stage]
  BY CreditFacts DEF Good
<1> HIDE DEF n
<1>2. /\ n.hypotheses = s.hypotheses /\ n.protocols = s.protocols
      /\ n.experiments = s.experiments /\ n.issues = s.issues /\ n.programs = s.programs
  BY <1>1 DEF Names, Tables
<1>3. Typed(n)
  BY <1>1, <1>2 DEF Good, Typed
<1>4. \A t \in Names : DOMAIN n[t] = DOMAIN s[t]
  BY <1>1
<1>5. Identified(n)
  <2>1. Numbered \subseteq Names
    BY DEF Numbered, Names, Tables
  <2> QED
    BY <1>4, <2>1 DEF Good, Identified
<1>6. \A w \in DOMAIN s.workings :
        /\ StageRank[s.workings[w].stage] \in Nat
        /\ StageRank[n.workings[w].stage] >= StageRank[s.workings[w].stage]
  BY <1>1, StageFacts DEF Good, Typed, WorkingRow
<1>7. Extends(s, n)
  <2>1. Extends(s, s)
    BY ExtendsItself DEF Good
  <2>2. Lasting \subseteq Names \ {"workings"} /\ Tables \subseteq Names
    BY DEF Lasting, Names, Tables
  <2>3. \A t \in Tables : \A x \in DOMAIN s[t] : n[t][x].program = s[t][x].program
    <3> SUFFICES ASSUME NEW t \in Tables, NEW x \in DOMAIN s[t]
                 PROVE  n[t][x].program = s[t][x].program
      OBVIOUS
    <3>1. CASE t = "workings"
      BY <1>1, <3>1
    <3>2. CASE t # "workings"
      BY <1>1, <2>2, <3>2
    <3> QED
      BY <3>1, <3>2
  <2>4. \A t \in Lasting : n[t] = s[t]
    BY <1>1, <2>2
  <2> QED
    BY <1>1, <1>2, <1>4, <1>6, <2>1, <2>2, <2>3, <2>4 DEF Extends
<1>8. RowsOk(n)
  <2>1. NewRowsOk(s, n)
    BY <1>4 DEF NewRowsOk, Names, Tables
  <2> QED
    BY <1>7, <2>1, RowsExtended DEF Good
<1>9. Backed(n)
  BY <1>2, <1>7, BackedKept DEF Good, NewClaimsBacked
<1>10. LeftStages(n)
  <2> SUFFICES ASSUME NEW w \in DOMAIN n.workings, NEW at \in DOMAIN NextStage,
                      StageRank[n.workings[w].stage] > StageRank[at]
               PROVE  Evidence(n, at, w) /\ Reached(n, at, n.workings[w].program)
    BY DEF LeftStages
  <2>1. /\ w \in DOMAIN s.workings /\ s.workings[w].program \in Program
        /\ s.workings[w].stage \in DOMAIN StageRank
        /\ n.workings[w].program = s.workings[w].program
    BY <1>1 DEF Good, Typed, WorkingRow
  <2>2. Evidence(s, at, w) /\ Reached(s, at, s.workings[w].program)
    <3>1. CASE n.workings[w].stage = s.workings[w].stage
      BY <2>1, <3>1 DEF Good, LeftStages
    <3>2. CASE /\ targets = {w} /\ s.workings[w].stage = stage /\ s.workings[w].program = pg
               /\ n.workings[w].stage = NextStage[stage]
      <4>1. StageRank[stage] + 1 > StageRank[at]
        BY <3>2, StageFacts
      <4>2. StageRank[stage] > StageRank[at] \/ stage = at
        BY <4>1, StageFacts
      <4> QED
        BY <2>1, <3>2, <4>2 DEF Good, LeftStages
    <3> QED
      BY <1>1, <2>1, <3>1, <3>2
  <2>3. Evidence(n, at, w)
    BY <1>5, <1>7, <2>2, EvidenceKept DEF Good
  <2>4. Reached(n, at, n.workings[w].program)
    BY <1>3, <1>7, <2>1, <2>2, ReachedKept DEF Good
  <2> QED
    BY <2>3, <2>4
<1>11. Better(s, n)
  BY <1>3, <1>5, <1>7, <1>8, <1>9, <1>10 DEF Better, Good
<1> QED
  BY <1>11 DEF n

-----------------------------------------------------------------------------
(* The commands.                                                           *)

(* Which ids each table holds.                                             *)
LEMMA KindFacts ==
  /\ Kind("hypotheses") = Hypothesis /\ Kind("protocols") = Protocol
  /\ Kind("experiments") = Experiment /\ Kind("runs") = Run
  /\ Kind("artifacts") = Artifact /\ Kind("issues") = Issue
  /\ Kind("deviations") = Deviation /\ Kind("reproductions") = Reproduction
  /\ Kind("programs") = Program
  /\ Kind("workings") = {"WK"} \X Nat
  BY DEF Kind, NamedIds, Numbered, Tag

(* One lemma for each command, from here on: it makes a good update.       *)
LEMMA DraftBetter ==
  ASSUME Good(st), NEW draft \in Drafts, DraftProtocol(draft)
  PROVE  Better(st, st')
<1> DEFINE row == [program |-> draft.program, hypotheses |-> draft.hypotheses,
                   mode |-> draft.mode, spec |-> draft.spec,
                   status |-> "DRAFT", deviations |-> {}]
<1>1. /\ st' = [st EXCEPT !.protocols = Put(st.protocols, draft.id, row)]
      /\ draft.id \notin DOMAIN st.protocols
      /\ \A h \in draft.hypotheses : st.hypotheses[h].program = draft.program
  BY DEF DraftProtocol, Commit
<1>2. row \in ProtocolRow
  BY DraftAssumption DEF ProtocolRow
<1>3. ProtocolOk(st, row)
  BY <1>1 DEF ProtocolOk
<1> HIDE DEF row
<1>4. /\ Projection(st') /\ st'["protocols"] = Put(st["protocols"], draft.id, row)
      /\ \A u \in Names \ {"protocols"} : st'[u] = st[u]
  BY <1>1 DEF Good, Typed, Projection, Names, Tables
<1>5. IdFor("protocols", st, draft.id)
  BY <1>1, KindFacts, DraftAssumption DEF IdFor, Numbered
<1>6. RowFor("protocols", st, row)
  BY <1>2, <1>3 DEF RowFor
<1>7. "protocols" \in Tables \ {"hypotheses"}
  BY DEF Tables
<1> QED
  BY <1>4, <1>5, <1>6, <1>7, NewRow

(* A change of a Protocol that is not of what it registers.                *)
LEMMA ProtocolChange ==
  ASSUME NEW s, Good(s), NEW pt, NEW row, pt \in DOMAIN s.protocols => row \in ProtocolRow,
         pt \in DOMAIN s.protocols =>
           /\ row.program = s.protocols[pt].program
           /\ row.hypotheses = s.protocols[pt].hypotheses
           /\ row.spec = s.protocols[pt].spec
           /\ s.protocols[pt].status = "FROZEN" => row.status = "FROZEN"
  PROVE  Better(s, [s EXCEPT !.protocols = [s.protocols EXCEPT ![pt] = row]])
<1> DEFINE n == [s EXCEPT !.protocols = [s.protocols EXCEPT ![pt] = row]]
<1>1. /\ Projection(n) /\ n.protocols = [s.protocols EXCEPT ![pt] = row]
      /\ \A u \in Names \ {"protocols"} : n[u] = s[u]
  BY DEF Good, Typed, Projection, Names, Tables
<1> HIDE DEF n
<1>2. /\ n.hypotheses = s.hypotheses /\ n.workings = s.workings /\ n.issues = s.issues
      /\ n.experiments = s.experiments /\ n.programs = s.programs
  BY <1>1 DEF Names, Tables
<1>3. DOMAIN n.protocols = DOMAIN s.protocols
  BY <1>1
<1>4. n.protocols \in [DOMAIN n.protocols -> ProtocolRow]
  BY <1>1 DEF Good, Typed
<1>5. Typed(n)
  BY <1>1, <1>2, <1>4 DEF Good, Typed
<1>6. Extends(s, n)
  <2>1. Extends(s, s)
    BY ExtendsItself DEF Good
  <2>2. \A x \in DOMAIN s.protocols :
          /\ n.protocols[x].program = s.protocols[x].program
          /\ n.protocols[x].hypotheses = s.protocols[x].hypotheses
          /\ n.protocols[x].spec = s.protocols[x].spec
          /\ s.protocols[x].status = "FROZEN" => n.protocols[x].status = "FROZEN"
    BY <1>1
  <2>3. \A t \in Tables \ {"protocols"} : n[t] = s[t]
    BY <1>1 DEF Names
  <2>4. Lasting \subseteq Tables \ {"protocols"}
    BY DEF Lasting, Tables
  <2>5. \A t \in Tables : /\ DOMAIN s[t] \subseteq DOMAIN n[t]
                         /\ \A x \in DOMAIN s[t] : n[t][x].program = s[t][x].program
    <3> SUFFICES ASSUME NEW t \in Tables
                 PROVE  /\ DOMAIN s[t] \subseteq DOMAIN n[t]
                        /\ \A x \in DOMAIN s[t] : n[t][x].program = s[t][x].program
      OBVIOUS
    <3>1. CASE t = "protocols"
      BY <1>3, <2>2, <3>1
    <3>2. CASE t # "protocols"
      BY <2>3, <3>2
    <3> QED
      BY <3>1, <3>2
  <2>6. \A t \in Lasting : n[t] = s[t]
    BY <2>3, <2>4
  <2> QED
    BY <1>2, <2>1, <2>2, <2>5, <2>6 DEF Extends
<1>7. NewClaimsBacked(s, n)
  BY <1>2 DEF NewClaimsBacked
<1>8. \A t \in Tables : DOMAIN n[t] = DOMAIN s[t]
  BY <1>1, <1>3 DEF Names
<1> QED
  BY <1>2, <1>5, <1>6, <1>7, <1>8, FieldsChange DEF n

LEMMA SealBetter ==
  ASSUME Good(st), NEW pt \in Protocol, SealProtocol(pt)
  PROVE  Better(st, st')
<1> DEFINE row == [st.protocols[pt] EXCEPT !.status = "FROZEN"]
           n == [st EXCEPT !.protocols = [st.protocols EXCEPT ![pt] = row]]
<1>1. /\ pt \in DOMAIN st.protocols
      /\ st' = Advance(n, st.protocols[pt].program, "DESIGN_FROZEN")
  BY DEF SealProtocol, Commit
<1>2. st.protocols[pt] \in ProtocolRow
  BY <1>1 DEF Good, Typed
<1>3. /\ row \in ProtocolRow
      /\ row.program = st.protocols[pt].program
      /\ row.hypotheses = st.protocols[pt].hypotheses
      /\ row.spec = st.protocols[pt].spec
      /\ row.status = "FROZEN"
  BY <1>2 DEF ProtocolRow
<1> HIDE DEF row
<1>4. Better(st, n)
  BY <1>3, ProtocolChange
<1> HIDE DEF n
<1>5. st.protocols[pt].program \in Program
  BY <1>2 DEF ProtocolRow
<1>6. Better(n, st')
  BY <1>1, <1>4, <1>5, Raised, RankFacts DEF Better
<1> QED
  BY <1>4, <1>6, BetterFurther

LEMMA WorkingBetter ==
  ASSUME Good(st), NEW pt \in Protocol, CreateWorking(pt)
  PROVE  Better(st, st')
<1> DEFINE id == <<"WK", NextNumber(st.workings)>>
           row == [program |-> st.protocols[pt].program, protocol |-> pt,
                   stage |-> "IMPLEMENTATION"]
<1>1. /\ st' = [st EXCEPT !.workings = Put(st.workings, id, row)]
      /\ pt \in DOMAIN st.protocols /\ st.protocols[pt].status = "FROZEN"
  BY DEF CreateWorking, Commit, Frozen
<1>2. st.protocols[pt] \in ProtocolRow
  BY <1>1 DEF Good, Typed
<1>3. row \in WorkingRow /\ row.stage = "IMPLEMENTATION"
  BY <1>2, StageFacts DEF WorkingRow, ProtocolRow
<1>4. WorkingOk(st, row)
  BY <1>1 DEF WorkingOk, Sealed
<1>5. IdFor("workings", st, id)
  BY DEF IdFor, Numbered, Tag
<1> HIDE DEF row, id
<1>6. /\ Projection(st') /\ st'["workings"] = Put(st["workings"], id, row)
      /\ \A u \in Names \ {"workings"} : st'[u] = st[u]
  BY <1>1 DEF Good, Typed, Projection, Names, Tables
<1>7. RowFor("workings", st, row)
  BY <1>3, <1>4 DEF RowFor
<1>8. "workings" \in Tables \ {"hypotheses"}
  BY DEF Tables
<1> QED
  BY <1>5, <1>6, <1>7, <1>8, NewRow

(* A change of the status of some Hypotheses.                              *)
LEMMA HypothesisChange ==
  ASSUME NEW s, Good(s), NEW n, NEW table, table \in [Hypothesis -> HypothesisRow],
         n = [s EXCEPT !.hypotheses = table],
         \A h \in Hypothesis :
           /\ table[h].program = s.hypotheses[h].program
           /\ table[h].status \in Verdicts =>
                \/ table[h].status = s.hypotheses[h].status
                \/ \E a \in DOMAIN s.assessments :
                     /\ h \in s.protocols[s.assessments[a].protocol].hypotheses
                     /\ h \in DOMAIN s.assessments[a].findings
                     /\ s.assessments[a].findings[h] = table[h].status
  PROVE  Better(s, n)
<1>1. /\ Projection(n) /\ n.hypotheses = table
      /\ \A u \in Names \ {"hypotheses"} : n[u] = s[u]
  BY DEF Good, Typed, Projection, Names, Tables
<1>2. /\ n.protocols = s.protocols /\ n.workings = s.workings /\ n.issues = s.issues
      /\ n.experiments = s.experiments /\ n.programs = s.programs
      /\ n.assessments = s.assessments
  BY <1>1 DEF Names, Tables
<1>3. DOMAIN n.hypotheses = Hypothesis /\ DOMAIN s.hypotheses = Hypothesis
  BY <1>1 DEF Good, Typed
<1>4. Typed(n)
  BY <1>1, <1>2 DEF Good, Typed
<1>5. \A t \in Tables \ {"hypotheses"} : n[t] = s[t]
  BY <1>1 DEF Names
<1>6. Extends(s, n)
  <2>1. Extends(s, s)
    BY ExtendsItself DEF Good
  <2>2. \A t \in Tables : /\ DOMAIN s[t] \subseteq DOMAIN n[t]
                         /\ \A x \in DOMAIN s[t] : n[t][x].program = s[t][x].program
    <3> SUFFICES ASSUME NEW t \in Tables
                 PROVE  /\ DOMAIN s[t] \subseteq DOMAIN n[t]
                        /\ \A x \in DOMAIN s[t] : n[t][x].program = s[t][x].program
      OBVIOUS
    <3>1. CASE t = "hypotheses"
      BY <1>1, <1>3, <3>1
    <3>2. CASE t # "hypotheses"
      BY <1>5, <3>2
    <3> QED
      BY <3>1, <3>2
  <2>3. \A t \in Lasting : n[t] = s[t]
    BY <1>5 DEF Lasting, Tables
  <2> QED
    BY <1>2, <2>1, <2>2, <2>3 DEF Extends
<1>7. NewClaimsBacked(s, n)
  BY <1>1, <1>2 DEF NewClaimsBacked, VerdictBacked
<1>8. \A t \in Tables : DOMAIN n[t] = DOMAIN s[t]
  BY <1>3, <1>5
<1> QED
  BY <1>2, <1>4, <1>6, <1>7, <1>8, FieldsChange

LEMMA PlanBetter ==
  ASSUME Good(st), NEW e \in Experiment, NEW pt \in Protocol,
         NEW asked \in DOMAIN st.workings \cup {NoWorking}, NEW hyps,
         PlanExperiment(e, pt, hyps, asked)
  PROVE  Better(st, st')
<1>1. PICK w \in WorkingFor(pt, asked) :
        st' = [st EXCEPT
         !.experiments = Put(st.experiments, e,
            [program |-> st.protocols[pt].program, protocol |-> pt, working |-> w,
             status |-> "PLANNED", piloted |-> FALSE]),
         !.hypotheses = [h \in DOMAIN @ |-> IF h \in hyps
                           THEN [@[h] EXCEPT !.status = "ACTIVE"] ELSE @[h]]]
  BY DEF PlanExperiment, Commit
<1> DEFINE row == [program |-> st.protocols[pt].program, protocol |-> pt, working |-> w,
                   status |-> "PLANNED", piloted |-> FALSE]
           m == [st EXCEPT !.experiments = Put(st.experiments, e, row)]
           table == [h \in DOMAIN m.hypotheses |-> IF h \in hyps
                      THEN [m.hypotheses[h] EXCEPT !.status = "ACTIVE"] ELSE m.hypotheses[h]]
<1>2. st' = [m EXCEPT !.hypotheses = table]
  BY <1>1
<1>3. /\ pt \in DOMAIN st.protocols /\ st.protocols[pt].status = "FROZEN"
      /\ e \notin DOMAIN st.experiments
  BY DEF PlanExperiment, Frozen
<1>4. w = NoWorking \/ w \in MatchingWorkings(pt)
  BY DEF WorkingFor
<1>5. w # NoWorking =>
        /\ w \in DOMAIN st.workings /\ st.workings[w].protocol = pt
        /\ st.workings[w].program = st.protocols[pt].program /\ w \in {"WK"} \X Nat
  <2>1. w # NoWorking => w \in DOMAIN st.workings /\ st.workings[w].protocol = pt
    BY <1>4 DEF MatchingWorkings
  <2>2. DOMAIN st.workings \subseteq {"WK"} \X Nat
    BY KindFacts DEF Good, Identified, Names, Tables
  <2>3. \A x \in DOMAIN st.workings : WorkingOk(st, st.workings[x])
    BY DEF Good, RowsOk
  <2> QED
    BY <2>1, <2>2, <2>3 DEF WorkingOk, Sealed
<1>6. st.protocols[pt] \in ProtocolRow
  BY <1>3 DEF Good, Typed
<1>7. /\ row \in ExperimentRow /\ row.piloted = FALSE /\ row.protocol = pt
      /\ row.program = st.protocols[pt].program /\ row.working = w
  <2>1. \A v \in BOOLEAN : [program |-> st.protocols[pt].program, protocol |-> pt,
                             working |-> w, status |-> "PLANNED", piloted |-> v]
                              \in ExperimentRow
    BY <1>5, <1>6 DEF ExperimentRow, ProtocolRow, ExperimentStatus
  <2> QED
    BY <2>1
<1> HIDE DEF row
<1>8. ExperimentOk(st, row)
  BY <1>3, <1>5, <1>7 DEF ExperimentOk, Sealed
<1>9. /\ Projection(m) /\ m["experiments"] = Put(st["experiments"], e, row)
      /\ \A u \in Names \ {"experiments"} : m[u] = st[u]
  BY DEF Good, Typed, Projection, Names, Tables
<1> HIDE DEF m
<1>10. Better(st, m)
  <2>1. IdFor("experiments", st, e)
    BY <1>3, KindFacts DEF IdFor, Numbered
  <2>2. RowFor("experiments", st, row)
    BY <1>7, <1>8 DEF RowFor
  <2>3. "experiments" \in Tables \ {"hypotheses"}
    BY DEF Tables
  <2> QED
    BY <1>9, <2>1, <2>2, <2>3, NewRow
<1>11. \A h \in Hypothesis :
         /\ m.hypotheses[h] \in HypothesisRow
         /\ [m.hypotheses[h] EXCEPT !.status = "ACTIVE"] \in HypothesisRow
         /\ [m.hypotheses[h] EXCEPT !.status = "ACTIVE"].program = m.hypotheses[h].program
         /\ [m.hypotheses[h] EXCEPT !.status = "ACTIVE"].status \notin Verdicts
  BY <1>10 DEF Better, Good, Typed, HypothesisRow, Verdicts
<1>12. DOMAIN m.hypotheses = Hypothesis
  BY <1>10 DEF Better, Good, Typed
<1>13. /\ table \in [Hypothesis -> HypothesisRow]
       /\ \A h \in Hypothesis : /\ table[h].program = m.hypotheses[h].program
                                /\ table[h].status \in Verdicts =>
                                     table[h].status = m.hypotheses[h].status
  BY <1>11, <1>12
<1> HIDE DEF table
<1>14. Better(m, st')
  BY <1>2, <1>10, <1>13, HypothesisChange DEF Better
<1> QED
  BY <1>10, <1>14, BetterFurther

(* A Pilot rests on its Protocol and on Runs, whatever else changes.       *)
LEMMA SamePilot ==
  ASSUME NEW s, NEW n, NEW e, n.protocols = s.protocols, n.runs = s.runs,
         n.experiments[e].protocol = s.experiments[e].protocol, PilotBacked(s, e)
  PROVE  PilotBacked(n, e)
  BY DEF PilotBacked

(* A change of the status of an Experiment e, or of its Pilot.             *)
LEMMA ExperimentChange ==
  ASSUME NEW s, Good(s), NEW e \in DOMAIN s.experiments, NEW n, NEW row \in ExperimentRow,
         Projection(n), n.experiments = [s.experiments EXCEPT ![e] = row],
         \A u \in Names \ {"experiments"} : n[u] = s[u],
         row.program = s.experiments[e].program, row.protocol = s.experiments[e].protocol,
         row.working = s.experiments[e].working,
         s.experiments[e].piloted => row.piloted,
         row.piloted => s.experiments[e].piloted \/ PilotBacked(s, e)
  PROVE  Better(s, n)
<1>1. /\ n.protocols = s.protocols /\ n.workings = s.workings /\ n.issues = s.issues
      /\ n.hypotheses = s.hypotheses /\ n.programs = s.programs /\ n.runs = s.runs
  BY DEF Names, Tables
<1>2. DOMAIN n.experiments = DOMAIN s.experiments
  OBVIOUS
<1>3. \A x \in DOMAIN s.experiments : n.experiments[x] = IF x = e THEN row ELSE s.experiments[x]
  OBVIOUS
<1>4. Typed(n)
  <2>1. n.experiments \in [DOMAIN n.experiments -> ExperimentRow]
    BY DEF Good, Typed
  <2> QED
    BY <1>1, <2>1 DEF Good, Typed
<1>5. \A t \in Tables \ {"experiments"} : n[t] = s[t]
  BY DEF Names
<1>6. Extends(s, n)
  <2>1. Extends(s, s)
    BY ExtendsItself DEF Good
  <2>2. \A x \in DOMAIN s.experiments :
          /\ n.experiments[x].program = s.experiments[x].program
          /\ n.experiments[x].protocol = s.experiments[x].protocol
          /\ n.experiments[x].working = s.experiments[x].working
          /\ s.experiments[x].piloted => n.experiments[x].piloted
    BY <1>3
  <2>3. \A t \in Tables : /\ DOMAIN s[t] \subseteq DOMAIN n[t]
                         /\ \A x \in DOMAIN s[t] : n[t][x].program = s[t][x].program
    <3> SUFFICES ASSUME NEW t \in Tables
                 PROVE  /\ DOMAIN s[t] \subseteq DOMAIN n[t]
                        /\ \A x \in DOMAIN s[t] : n[t][x].program = s[t][x].program
      OBVIOUS
    <3>1. CASE t = "experiments"
      BY <1>2, <2>2, <3>1
    <3>2. CASE t # "experiments"
      BY <1>5, <3>2
    <3> QED
      BY <3>1, <3>2
  <2>4. \A t \in Lasting : n[t] = s[t]
    BY <1>5 DEF Lasting, Tables
  <2> QED
    BY <1>1, <2>1, <2>2, <2>3, <2>4 DEF Extends
<1>7. NewClaimsBacked(s, n)
  <2>1. PilotBacked(s, e) => PilotBacked(n, e)
    <3>1. n.experiments[e].protocol = s.experiments[e].protocol
      BY <1>3
    <3> QED
      BY <1>1, <3>1, SamePilot
  <2>2. ASSUME NEW x \in DOMAIN n.experiments, n.experiments[x].piloted
        PROVE  (x \in DOMAIN s.experiments /\ s.experiments[x].piloted) \/ PilotBacked(n, x)
    <3>1. CASE x = e
      BY <1>3, <2>1, <2>2, <3>1
    <3>2. CASE x # e
      BY <1>3, <2>2, <3>2
    <3> QED
      BY <3>1, <3>2
  <2> QED
    BY <1>1, <2>2 DEF NewClaimsBacked
<1>8. \A t \in Tables : DOMAIN n[t] = DOMAIN s[t]
  BY <1>2, <1>5
<1> QED
  BY <1>1, <1>4, <1>6, <1>7, <1>8, FieldsChange

(* The statuses of an Experiment and the Program statuses they bring.      *)
LEMMA StatusFacts ==
  /\ \A x \in DOMAIN NextStatus : NextStatus[x] \in ExperimentStatus
  /\ DOMAIN ExperimentAdvances = {"IMPLEMENTED", "PILOT_COMPLETED", "FORMAL_RUNNING"}
  /\ \A x \in DOMAIN ExperimentAdvances :
       ExperimentAdvances[x] \in {"IMPLEMENTED", "PILOTED", "RUNNING"}
  /\ ExperimentAdvances["PILOT_COMPLETED"] = "PILOTED"
  BY DEF NextStatus, ExperimentStatus, ExperimentAdvances

(* _validate_pilot_completion is what a completed Pilot rests on.          *)
LEMMA PilotCompleteBacks ==
  ASSUME NEW s, NEW e, PilotComplete(s, e)
  PROVE  PilotBacked(s, e)
  BY DEF PilotComplete, PilotBacked

LEMMA TransitionBetter ==
  ASSUME Good(st), NEW e \in Experiment, TransitionExperiment(e)
  PROVE  Better(st, st')
<1> DEFINE x == st.experiments[e]
           to == NextStatus[x.status]
           m == [st EXCEPT !.experiments[e].status = to]
           moved == [st EXCEPT !.experiments[e].status = to,
                               !.experiments[e].piloted = @ \/ to = "PILOT_COMPLETED"]
           raised == IF to \in DOMAIN ExperimentAdvances
                     THEN Advance(moved, x.program, ExperimentAdvances[to]) ELSE moved
<1>1. /\ e \in DOMAIN st.experiments /\ x.status \in DOMAIN NextStatus
      /\ to = "PILOT_COMPLETED" => PilotComplete(st, e)
      /\ st' = IF to = "PILOT_COMPLETED"
               THEN Credit(raised, "PILOT", {x.working}, x.program, {x.protocol})
               ELSE raised
  BY DEF TransitionExperiment, Commit
<1>2. x \in ExperimentRow /\ to \in ExperimentStatus
  BY <1>1, StatusFacts DEF Good, Typed
<1> DEFINE row(v) == [[x EXCEPT !.status = to] EXCEPT !.piloted = v]
           piloted == x.piloted \/ to = "PILOT_COMPLETED"
<1>3. \A v \in BOOLEAN : /\ row(v) \in ExperimentRow /\ row(v).piloted = v
                         /\ row(v).program = x.program /\ row(v).protocol = x.protocol
                         /\ row(v).working = x.working
  BY <1>2 DEF ExperimentRow
<1>4. piloted \in BOOLEAN
  BY <1>2 DEF ExperimentRow
<1>5. /\ Projection(moved)
      /\ moved.experiments = [st.experiments EXCEPT ![e] = row(piloted)]
      /\ \A u \in Names \ {"experiments"} : moved[u] = st[u]
  <2>1. /\ Projection(m) /\ m.experiments = [st.experiments EXCEPT ![e] = [x EXCEPT !.status = to]]
        /\ \A u \in Names \ {"experiments"} : m[u] = st[u]
    BY DEF Good, Typed, Projection, Names, Tables
  <2>2. m.experiments[e] = [x EXCEPT !.status = to] /\ m.experiments[e].piloted = x.piloted
    BY <1>1, <1>2, <2>1 DEF ExperimentRow
  <2>3. moved = [m EXCEPT !.experiments = [m.experiments EXCEPT ![e] =
                   [m.experiments[e] EXCEPT !.piloted =
                      m.experiments[e].piloted \/ to = "PILOT_COMPLETED"]]]
    OBVIOUS
  <2> HIDE DEF m, moved, to, x
  <2>4. /\ Projection(moved)
        /\ moved.experiments = [m.experiments EXCEPT ![e] = row(piloted)]
        /\ \A u \in Names \ {"experiments"} : moved[u] = m[u]
    BY <2>1, <2>2, <2>3 DEF Projection, Names, Tables
  <2>5. [m.experiments EXCEPT ![e] = row(piloted)] = [st.experiments EXCEPT ![e] = row(piloted)]
    BY <2>1
  <2> QED
    BY <2>1, <2>4, <2>5
<1> HIDE DEF row, moved
<1>6. Better(st, moved)
  <2>1. x.piloted => row(piloted).piloted
    BY <1>3, <1>4
  <2>2. row(piloted).piloted => x.piloted \/ PilotBacked(st, e)
    BY <1>1, <1>3, <1>4, PilotCompleteBacks
  <2>3. /\ row(piloted) \in ExperimentRow
        /\ row(piloted).program = x.program /\ row(piloted).protocol = x.protocol
        /\ row(piloted).working = x.working
    BY <1>3, <1>4
  <2> DEFINE new == row(piloted)
  <2> HIDE DEF new, piloted
  <2>4. /\ new \in ExperimentRow
        /\ new.program = st.experiments[e].program
        /\ new.protocol = st.experiments[e].protocol
        /\ new.working = st.experiments[e].working
        /\ st.experiments[e].piloted => new.piloted
        /\ new.piloted => st.experiments[e].piloted \/ PilotBacked(st, e)
        /\ moved.experiments = [st.experiments EXCEPT ![e] = new]
    BY <1>5, <2>1, <2>2, <2>3 DEF new
  <2> HIDE DEF x
  <2> QED
    BY <1>1, <1>5, <2>4, ExperimentChange
<1>7. x.program \in Program
  BY <1>2 DEF ExperimentRow
<1>8. Better(moved, raised) /\ raised.experiments = moved.experiments
      /\ (to = "PILOT_COMPLETED" => Reached(raised, "PILOT", x.program))
  <2>1. CASE to \in DOMAIN ExperimentAdvances
    <3>1. ExperimentAdvances[to] \in DOMAIN Rank /\ ExperimentAdvances[to] # "CLOSED"
      BY <2>1, StatusFacts, RankFacts
    <3>2. raised = Advance(moved, x.program, ExperimentAdvances[to])
      BY <2>1
    <3> HIDE DEF raised, x, to
    <3>3. /\ Better(moved, raised) /\ \A t \in Tables : raised[t] = moved[t]
          /\ Rank[raised.programs[x.program]] >= Rank[ExperimentAdvances[to]]
      BY <1>6, <1>7, <3>1, <3>2, Raised DEF Better
    <3>4. raised.experiments = moved.experiments
      BY <3>3 DEF Tables
    <3>5. to = "PILOT_COMPLETED" => Reached(raised, "PILOT", x.program)
      BY <3>3, StatusFacts, RankFacts, DueFacts DEF Reached
    <3> QED
      BY <3>3, <3>4, <3>5
  <2>2. CASE to \notin DOMAIN ExperimentAdvances
    <3>1. raised = moved /\ to # "PILOT_COMPLETED"
      BY <2>2, StatusFacts
    <3> QED
      BY <1>6, <3>1, ExtendsItself DEF Better, Good
  <2> QED
    BY <2>1, <2>2
<1> HIDE DEF raised
<1>9. Better(raised, st')
  <2>1. CASE to = "PILOT_COMPLETED"
    <3>1. raised.experiments[e].working = x.working /\ raised.experiments[e].piloted
          /\ e \in DOMAIN raised.experiments
      BY <1>1, <1>3, <1>4, <1>5, <1>8, <2>1
    <3>2. \A w \in DOMAIN raised.workings : {x.working} = {w} => Evidence(raised, "PILOT", w)
      BY <3>1 DEF Evidence
    <3>3. "PILOT" \in DOMAIN NextStage
      BY StageFacts
    <3> HIDE DEF x, to
    <3> QED
      BY <1>1, <1>7, <1>8, <2>1, <3>2, <3>3, Credited DEF Better
  <2>2. CASE to # "PILOT_COMPLETED"
    BY <1>1, <1>8, <2>2, ExtendsItself DEF Better, Good
  <2> QED
    BY <2>1, <2>2
<1> QED
  BY <1>6, <1>8, <1>9, BetterFurther

LEMMA CancelBetter ==
  ASSUME Good(st), NEW e \in Experiment, CancelExperiment(e)
  PROVE  Better(st, st')
<1> DEFINE row == [st.experiments[e] EXCEPT !.status = "CANCELLED"]
           n == [st EXCEPT !.experiments = [st.experiments EXCEPT ![e] = row]]
<1>1. e \in DOMAIN st.experiments /\ st' = n
  BY DEF CancelExperiment, Commit
<1>2. st.experiments[e] \in ExperimentRow
  BY <1>1 DEF Good, Typed
<1>3. /\ row \in ExperimentRow /\ row.piloted = st.experiments[e].piloted
      /\ row.program = st.experiments[e].program
      /\ row.protocol = st.experiments[e].protocol
      /\ row.working = st.experiments[e].working
  BY <1>2 DEF ExperimentRow, ExperimentStatus
<1> HIDE DEF row
<1>4. /\ Projection(n) /\ n.experiments = [st.experiments EXCEPT ![e] = row]
      /\ \A u \in Names \ {"experiments"} : n[u] = st[u]
  BY DEF Good, Typed, Projection, Names, Tables
<1> HIDE DEF n
<1>5. /\ st.experiments[e].piloted => row.piloted
      /\ row.piloted => st.experiments[e].piloted \/ PilotBacked(st, e)
  BY <1>3
<1>6. Better(st, n)
  BY <1>1, <1>3, <1>4, <1>5, ExperimentChange
<1> QED
  BY <1>1, <1>6

LEMMA RunBetter ==
  ASSUME Good(st), NEW r \in Run, NEW e \in Experiment, NEW said, RecordRun(r, e, said)
  PROVE  Better(st, st')
<1> DEFINE x == st.experiments[e]
           row == [program |-> x.program, protocol |-> x.protocol, experiment |-> e,
                   arm |-> said.arm, phase |-> said.phase, included |-> said.included]
           n == [st EXCEPT !.runs = Put(st.runs, r, row)]
<1>1. /\ e \in DOMAIN st.experiments /\ r \notin DOMAIN st.runs
      /\ st' = IF said.phase = "PILOT" THEN n ELSE Advance(n, x.program, "RUNNING")
  BY DEF RecordRun, Commit
<1>2. x.program \in Program
  BY <1>1 DEF Good, Typed, ExperimentRow
<1> HIDE DEF row
<1>3. /\ Projection(n) /\ n["runs"] = Put(st["runs"], r, row)
      /\ \A u \in Names \ {"runs"} : n[u] = st[u]
  BY DEF Good, Typed, Projection, Names, Tables
<1> HIDE DEF n
<1>4. Better(st, n)
  <2>1. IdFor("runs", st, r)
    BY <1>1, KindFacts DEF IdFor, Numbered
  <2>2. RowFor("runs", st, row)
    BY DEF RowFor
  <2>3. "runs" \in Tables \ {"hypotheses"}
    BY DEF Tables
  <2> QED
    BY <1>3, <2>1, <2>2, <2>3, NewRow
<1>5. CASE said.phase = "PILOT"
  BY <1>1, <1>4, <1>5
<1>6. CASE said.phase # "PILOT"
  <2>1. Better(n, Advance(n, x.program, "RUNNING"))
    BY <1>2, <1>4, Raised, RankFacts DEF Better
  <2> QED
    BY <1>1, <1>4, <1>6, <2>1, BetterFurther
<1> QED
  BY <1>5, <1>6

LEMMA AnalysisBetter ==
  ASSUME Good(st), NEW pt \in Protocol, ComputeAnalysis(pt)
  PROVE  Better(st, st')
<1> DEFINE p == st.protocols[pt]
           b == <<"RB", NextNumber(st.bundles)>>
           row == [program |-> p.program, protocol |-> pt, comparisons |-> p.spec.comparisons]
           n == [st EXCEPT !.bundles = Put(st.bundles, b, row)]
           made == Advance(n, p.program, "RESULT_READY")
<1>1. /\ pt \in DOMAIN st.protocols /\ p.spec # NoSpec
      /\ \A e \in p.spec.comparisons :
           e \in DOMAIN st.experiments /\ st.experiments[e].protocol = pt
      /\ st' = Credit(made, "ANALYSIS", BundleWorkings(made, b), p.program, {pt})
  BY DEF ComputeAnalysis, Commit, Drafted
<1>2. p \in ProtocolRow
  BY <1>1 DEF Good, Typed
<1>3. p.program \in Program /\ p.spec.comparisons # {}
  BY <1>1, <1>2 DEF ProtocolRow, Registration
<1>4. BundleOk(st, row)
  <2>1. PICK e \in p.spec.comparisons : TRUE
    BY <1>3
  <2>2. Sealed(st, st.experiments[e]) /\ st.experiments[e].protocol = pt
    BY <1>1, <2>1 DEF Good, RowsOk, ExperimentOk
  <2>3. Sealed(st, row)
    BY <2>2 DEF Sealed
  <2> QED
    BY <1>1, <1>3, <2>3 DEF BundleOk
<1>5. IdFor("bundles", st, b)
  BY DEF IdFor, Numbered, Tag
<1> HIDE DEF row, b
<1>6. /\ Projection(n) /\ n["bundles"] = Put(st["bundles"], b, row)
      /\ \A u \in Names \ {"bundles"} : n[u] = st[u]
  BY DEF Good, Typed, Projection, Names, Tables
<1> HIDE DEF n
<1>7. Better(st, n)
  <2>1. RowFor("bundles", st, row)
    BY <1>4 DEF RowFor
  <2>2. "bundles" \in Tables \ {"hypotheses"}
    BY DEF Tables
  <2> QED
    BY <1>5, <1>6, <2>1, <2>2, NewRow
<1> HIDE DEF p
<1>8. /\ Better(n, made) /\ \A t \in Tables : made[t] = n[t]
      /\ Rank[made.programs[p.program]] >= Rank["RESULT_READY"]
  <2>1. Good(n) /\ p.program \in Program /\ "RESULT_READY" \in DOMAIN Rank
    BY <1>3, <1>7, RankFacts DEF Better
  <2> QED
    BY <2>1, Raised
<1> HIDE DEF made
<1>9. Better(made, st')
  <2>1. b \in DOMAIN made.bundles
    BY <1>6, <1>8 DEF Put, Tables
  <2>2. \A w \in DOMAIN made.workings :
          BundleWorkings(made, b) = {w} => Evidence(made, "ANALYSIS", w)
    BY <2>1 DEF Evidence, Owned
  <2>3. Reached(made, "ANALYSIS", p.program)
    BY <1>8, RankFacts, DueFacts DEF Reached
  <2>4. "ANALYSIS" \in DOMAIN NextStage
    BY StageFacts
  <2> QED
    BY <1>1, <1>3, <1>8, <2>2, <2>3, <2>4, Credited DEF Better
<1> QED
  BY <1>7, <1>8, <1>9, BetterFurther

LEMMA ReviewBetter ==
  ASSUME Good(st), NEW b \in DOMAIN st.bundles, NEW hyps, NEW findings \in [hyps -> Verdicts],
         ReviewResult(b, findings)
  PROVE  Better(st, st')
<1> DEFINE bundle == st.bundles[b]
           p == st.protocols[bundle.protocol]
           a == <<"AS", NextNumber(st.assessments)>>
           row == [program |-> bundle.program, protocol |-> bundle.protocol,
                   bundle |-> b, findings |-> findings]
           m == [st EXCEPT !.assessments = Put(st.assessments, a, row)]
           table == [h \in DOMAIN m.hypotheses |-> IF h \in DOMAIN findings
                       THEN [m.hypotheses[h] EXCEPT !.status = findings[h]]
                       ELSE m.hypotheses[h]]
           n == [m EXCEPT !.hypotheses = table]
           made == Advance(n, bundle.program, "EVALUATED")
           targets == BundleWorkings(st, b)
<1>1. /\ DOMAIN findings \subseteq p.hypotheses
      /\ st' = Credit(made, "REVIEW", targets, bundle.program, {bundle.protocol})
  BY DEF ReviewResult, Commit
<1>2. /\ Sealed(st, bundle) /\ bundle.protocol \in DOMAIN st.protocols
      /\ p \in ProtocolRow /\ p.program = bundle.program
  BY DEF Good, Typed, RowsOk, BundleOk, Sealed
<1>3. bundle.program \in Program /\ p.hypotheses \subseteq Hypothesis
  BY <1>2 DEF ProtocolRow
<1>4. AssessmentOk(st, row)
  BY DEF AssessmentOk
<1>5. IdFor("assessments", st, a)
  BY DEF IdFor, Numbered, Tag
<1>6. row.findings = findings /\ row.protocol = bundle.protocol /\ row.bundle = b
  OBVIOUS
<1> HIDE DEF row, a
<1>7. /\ Projection(m) /\ m["assessments"] = Put(st["assessments"], a, row)
      /\ \A u \in Names \ {"assessments"} : m[u] = st[u]
  BY DEF Good, Typed, Projection, Names, Tables
<1> HIDE DEF m
<1>8. Better(st, m)
  <2>1. RowFor("assessments", st, row)
    BY <1>4 DEF RowFor
  <2>2. "assessments" \in Tables \ {"hypotheses"}
    BY DEF Tables
  <2> QED
    BY <1>5, <1>7, <2>1, <2>2, NewRow
<1>9. /\ a \in DOMAIN m.assessments /\ m.assessments[a] = row
      /\ m.protocols = st.protocols /\ m.bundles = st.bundles
      /\ m.experiments = st.experiments
  BY <1>7 DEF Put, Names, Tables
<1>10. \A h \in DOMAIN findings : findings[h] \in Verdicts
  OBVIOUS
<1>11. \A h \in Hypothesis : \A v \in Verdicts :
         /\ m.hypotheses[h] \in HypothesisRow
         /\ [m.hypotheses[h] EXCEPT !.status = v] \in HypothesisRow
         /\ [m.hypotheses[h] EXCEPT !.status = v].program = m.hypotheses[h].program
         /\ [m.hypotheses[h] EXCEPT !.status = v].status = v
  BY <1>8 DEF Better, Good, Typed, HypothesisRow
<1>12. DOMAIN m.hypotheses = Hypothesis
  BY <1>8 DEF Better, Good, Typed
<1>13. /\ table = [h \in Hypothesis |-> table[h]]
       /\ \A h \in Hypothesis :
            table[h] = IF h \in DOMAIN findings
                       THEN [m.hypotheses[h] EXCEPT !.status = findings[h]]
                       ELSE m.hypotheses[h]
  BY <1>12
<1> HIDE DEF table
<1>14. ASSUME NEW h \in Hypothesis
       PROVE  /\ table[h] \in HypothesisRow
              /\ table[h].program = m.hypotheses[h].program
              /\ \/ table[h].status = m.hypotheses[h].status
                 \/ h \in DOMAIN findings /\ table[h].status = findings[h]
  <2>1. CASE h \in DOMAIN findings
    <3>1. findings[h] \in Verdicts
      BY <1>10, <2>1
    <3> DEFINE new == [m.hypotheses[h] EXCEPT !.status = findings[h]]
    <3>2. /\ new \in HypothesisRow /\ new.program = m.hypotheses[h].program
          /\ new.status = findings[h]
      BY <1>11, <3>1
    <3>3. table[h] = new
      BY <1>13, <2>1
    <3> HIDE DEF new
    <3> QED
      BY <2>1, <3>2, <3>3
  <2>2. CASE h \notin DOMAIN findings
    BY <1>11, <1>13, <2>2 DEF Verdicts
  <2> QED
    BY <2>1, <2>2
<1>15. table \in [Hypothesis -> HypothesisRow]
  <2>1. [h \in Hypothesis |-> table[h]] \in [Hypothesis -> HypothesisRow]
    BY <1>14
  <2> QED
    BY <1>13, <2>1
<1>16. ASSUME NEW h \in Hypothesis, h \in DOMAIN findings, table[h].status = findings[h]
       PROVE  \E x \in DOMAIN m.assessments :
                /\ h \in m.protocols[m.assessments[x].protocol].hypotheses
                /\ h \in DOMAIN m.assessments[x].findings
                /\ m.assessments[x].findings[h] = table[h].status
  <2>1. h \in m.protocols[m.assessments[a].protocol].hypotheses
    BY <1>1, <1>6, <1>9, <1>16
  <2> QED
    BY <1>6, <1>9, <1>16, <2>1
<1>17. Better(m, n)
  <2>1. n = [m EXCEPT !.hypotheses = table]
    OBVIOUS
  <2> HIDE DEF n
  <2>2. Good(m)
    BY <1>8 DEF Better
  <2>3. \A h \in Hypothesis :
           /\ table[h].program = m.hypotheses[h].program
           /\ table[h].status \in Verdicts =>
                \/ table[h].status = m.hypotheses[h].status
                \/ \E x \in DOMAIN m.assessments :
                     /\ h \in m.protocols[m.assessments[x].protocol].hypotheses
                     /\ h \in DOMAIN m.assessments[x].findings
                     /\ m.assessments[x].findings[h] = table[h].status
    BY <1>14, <1>16
  <2> QED
    BY <1>15, <2>1, <2>2, <2>3, HypothesisChange
<1>18. /\ n.assessments = m.assessments /\ n.bundles = m.bundles
       /\ n.experiments = m.experiments
  BY <1>7 DEF Projection, Names, Tables
<1> HIDE DEF n
<1>19. /\ Better(n, made) /\ \A t \in Tables : made[t] = n[t]
       /\ Rank[made.programs[bundle.program]] >= Rank["EVALUATED"]
  <2>1. Good(n) /\ bundle.program \in Program /\ "EVALUATED" \in DOMAIN Rank
    BY <1>3, <1>17, RankFacts DEF Better
  <2> HIDE DEF bundle
  <2> QED
    BY <2>1, Raised
<1> HIDE DEF made
<1>20. /\ made.assessments = m.assessments /\ made.bundles = st.bundles
       /\ made.experiments = st.experiments
  BY <1>9, <1>18, <1>19 DEF Tables
<1>21. BundleWorkings(made, b) = targets
  BY <1>20 DEF BundleWorkings
<1> HIDE DEF targets
<1>22. \A w \in DOMAIN made.workings : targets = {w} => Evidence(made, "REVIEW", w)
  <2> SUFFICES ASSUME NEW w \in DOMAIN made.workings, targets = {w}
               PROVE  Evidence(made, "REVIEW", w)
    OBVIOUS
  <2>1. b \in Owned(made, w)
    BY <1>20, <1>21 DEF Owned
  <2>2. a \in JudgedFor(made, w)
    BY <1>6, <1>9, <1>20, <2>1 DEF JudgedFor
  <2> QED
    BY <2>2 DEF Evidence
<1> HIDE DEF bundle
<1>23. Better(made, st')
  <2>1. Reached(made, "REVIEW", bundle.program)
    BY <1>19, RankFacts, DueFacts DEF Reached
  <2>2. "REVIEW" \in DOMAIN NextStage
    BY StageFacts
  <2> QED
    BY <1>1, <1>3, <1>19, <1>22, <2>1, <2>2, Credited DEF Better
<1> QED
  BY <1>8, <1>17, <1>19, <1>23, BetterFurther

LEMMA DecisionBetter ==
  ASSUME Good(st), NEW pg \in Program, NEW outcome, NEW assessed \in SUBSET DOMAIN st.assessments,
         SealDecision(pg, outcome, assessed)
  PROVE  Better(st, st')
<1> DEFINE open == { i \in DOMAIN st.issues :
                       st.issues[i].program = pg /\ st.issues[i].status = "OPEN" }
           d == <<"DE", NextNumber(st.decisions)>>
           row == [program |-> pg, outcome |-> outcome, assessed |-> assessed, issues |-> open]
           n == [st EXCEPT !.decisions = Put(st.decisions, d, row)]
           targets == DecisionWorkings(st, assessed)
           pts == { st.assessments[a].protocol : a \in assessed }
<1>1. /\ assessed # {} /\ \A a \in assessed : st.assessments[a].program = pg
      /\ st' = Credit(n, "DECISION", targets, pg, pts)
  BY DEF SealDecision, Commit
<1>2. DecisionOk(st, row)
  BY <1>1 DEF DecisionOk
<1>3. IdFor("decisions", st, d)
  BY DEF IdFor, Numbered, Tag
<1>4. row.assessed = assessed
  OBVIOUS
<1> HIDE DEF row, d, pts
<1>5. /\ Projection(n) /\ n["decisions"] = Put(st["decisions"], d, row)
      /\ \A u \in Names \ {"decisions"} : n[u] = st[u]
  BY DEF Good, Typed, Projection, Names, Tables
<1> HIDE DEF n
<1>6. Better(st, n)
  <2>1. RowFor("decisions", st, row)
    BY <1>2 DEF RowFor
  <2>2. "decisions" \in Tables \ {"hypotheses"}
    BY DEF Tables
  <2> QED
    BY <1>3, <1>5, <2>1, <2>2, NewRow
<1>7. /\ d \in DOMAIN n.decisions /\ n.decisions[d] = row
      /\ n.assessments = st.assessments /\ n.bundles = st.bundles
      /\ n.experiments = st.experiments
  BY <1>5 DEF Put, Names, Tables
<1>8. ASSUME NEW w, targets = {w}
      PROVE  assessed \subseteq JudgedFor(n, w)
  <2> SUFFICES ASSUME NEW a \in assessed
               PROVE  a \in JudgedFor(n, w)
    OBVIOUS
  <2>1. st.assessments[a].bundle \in DOMAIN st.bundles
    BY DEF Good, RowsOk, AssessmentOk
  <2>2. BundleWorkings(st, st.assessments[a].bundle) \subseteq {w}
    BY <1>8 DEF DecisionWorkings
  <2>3. st.bundles[st.assessments[a].bundle].comparisons # {}
    BY <2>1 DEF Good, RowsOk, BundleOk
  <2>4. BundleWorkings(st, st.assessments[a].bundle) = {w}
    BY <2>2, <2>3 DEF BundleWorkings
  <2>5. BundleWorkings(n, st.assessments[a].bundle) = {w}
    BY <1>7, <2>4 DEF BundleWorkings
  <2> QED
    BY <1>7, <2>1, <2>5 DEF JudgedFor, Owned
<1> HIDE DEF targets
<1>9. \A w \in DOMAIN n.workings : targets = {w} => Evidence(n, "DECISION", w)
  BY <1>4, <1>7, <1>8 DEF Evidence
<1>10. Better(n, st')
  <2>1. Rank[n.programs[pg]] \in Nat
    BY <1>6, RankFacts DEF Better, Good, Typed
  <2>2. Reached(n, "DECISION", pg)
    BY <2>1, DueFacts DEF Reached
  <2>3. "DECISION" \in DOMAIN NextStage
    BY StageFacts
  <2> QED
    BY <1>1, <1>6, <1>9, <2>2, <2>3, Credited DEF Better
<1> QED
  BY <1>6, <1>10, BetterFurther

LEMMA CloseBetter ==
  ASSUME Good(st), NEW pg \in Program, CloseProgram(pg)
  PROVE  Better(st, st')
<1> DEFINE n == [st EXCEPT !.programs[pg] = "CLOSED"]
<1>1. /\ st' = n /\ st.programs[pg] = "EVALUATED" /\ ClosingBacked(st, pg)
  BY DEF CloseProgram, Commit, ClosingBacked
<1>2. /\ Projection(n) /\ n.programs = [st.programs EXCEPT ![pg] = "CLOSED"]
      /\ \A t \in Tables : n[t] = st[t]
  BY DEF Good, Typed, Projection, Names, Tables
<1> HIDE DEF n
<1>3. /\ n.hypotheses = st.hypotheses /\ n.protocols = st.protocols
      /\ n.workings = st.workings /\ n.experiments = st.experiments /\ n.issues = st.issues
      /\ n.decisions = st.decisions
  BY <1>2 DEF Tables
<1>4. Typed(n)
  BY <1>2, <1>3, RankFacts DEF Good, Typed
<1>5. \A q \in Program : Rank[n.programs[q]] >= Rank[st.programs[q]]
  <2>1. st.programs \in [Program -> DOMAIN Rank]
    BY DEF Good, Typed
  <2> QED
    BY <1>1, <1>2, <2>1, RankFacts
<1>6. Extends(st, n)
  <2>1. Extends(st, st)
    BY ExtendsItself DEF Good
  <2>2. Lasting \subseteq Tables
    BY DEF Lasting, Tables
  <2> QED
    BY <1>2, <1>3, <1>5, <2>1, <2>2 DEF Extends
<1>7. NewClaimsBacked(st, n)
  BY <1>1, <1>2, <1>3 DEF NewClaimsBacked, ClosingBacked, Good, Typed
<1>8. Better(st, n)
  BY <1>2, <1>3, <1>4, <1>6, <1>7, FieldsChange
<1> QED
  BY <1>1, <1>8

(* A step that leaves the projection alone.                                *)
LEMMA BetterItself ==
  ASSUME NEW s, Good(s)
  PROVE  Better(s, s)
  BY ExtendsItself DEF Better, Good

LEMMA ArtifactBetter ==
  ASSUME Good(st), NEW a \in Artifact, NEW pg \in Program, NEW kind, NEW producer,
         RegisterArtifact(a, pg, kind, producer)
  PROVE  Better(st, st')
<1> DEFINE row == [program |-> pg, kind |-> kind, producer |-> producer]
           made == [st EXCEPT !.artifacts = Put(st.artifacts, a, row)]
           raised == Advance(made, pg, "IMPLEMENTED")
           targets == ProducerWorkings(producer)
           pts == { st[t][producer].protocol :
                      t \in { t \in {"workings", "experiments"} : producer \in DOMAIN st[t] } }
           credited == Credit(raised, "IMPLEMENTATION", targets, pg, pts)
<1>1. /\ a \notin DOMAIN st.artifacts /\ Belongs(st, producer, pg, Tables)
      /\ st' = (IF kind = "implementation" THEN credited ELSE made) \/ st' = st
  BY DEF RegisterArtifact, CommitReferring, Commit, CommandTables
<1>2. ArtifactOk(st, row)
  BY <1>1 DEF ArtifactOk
<1>3. row.kind = kind /\ row.producer = producer
  OBVIOUS
<1> HIDE DEF row, pts
<1>4. /\ Projection(made) /\ made["artifacts"] = Put(st["artifacts"], a, row)
      /\ \A u \in Names \ {"artifacts"} : made[u] = st[u]
  BY DEF Good, Typed, Projection, Names, Tables
<1> HIDE DEF made
<1>5. Better(st, made)
  <2>1. IdFor("artifacts", st, a)
    BY <1>1, KindFacts DEF IdFor, Numbered
  <2>2. RowFor("artifacts", st, row)
    BY <1>2 DEF RowFor
  <2>3. "artifacts" \in Tables \ {"hypotheses"}
    BY DEF Tables
  <2> QED
    BY <1>4, <2>1, <2>2, <2>3, NewRow
<1>6. /\ Better(made, raised) /\ \A t \in Tables : raised[t] = made[t]
      /\ Rank[raised.programs[pg]] >= Rank["IMPLEMENTED"]
  <2>1. Good(made) /\ "IMPLEMENTED" \in DOMAIN Rank
    BY <1>5, RankFacts DEF Better
  <2> QED
    BY <2>1, Raised
<1> HIDE DEF raised
<1>7. /\ a \in DOMAIN raised.artifacts /\ raised.artifacts[a] = row
      /\ raised.workings = st.workings /\ raised.experiments = st.experiments
  BY <1>4, <1>6 DEF Put, Names, Tables
<1>8. targets = Produced(raised, producer)
  BY <1>7 DEF ProducerWorkings, Produced
<1> HIDE DEF targets
<1>9. CASE st' = credited /\ kind = "implementation"
  <2>1. \A w \in DOMAIN raised.workings : targets = {w} => Evidence(raised, "IMPLEMENTATION", w)
    BY <1>3, <1>7, <1>8, <1>9 DEF Evidence
  <2>2. Reached(raised, "IMPLEMENTATION", pg)
    BY <1>6, RankFacts, DueFacts DEF Reached
  <2>3. "IMPLEMENTATION" \in DOMAIN NextStage
    BY StageFacts
  <2>4. Better(raised, credited)
    BY <1>6, <2>1, <2>2, <2>3, Credited DEF Better
  <2> HIDE DEF credited
  <2> QED
    BY <1>5, <1>6, <1>9, <2>4, BetterFurther
<1>10. CASE st' = made
  BY <1>5, <1>10
<1>11. CASE st' = st
  BY <1>11, BetterItself
<1> QED
  BY <1>1, <1>9, <1>10, <1>11

LEMMA IssueBetter ==
  ASSUME Good(st), NEW i \in Issue, NEW pg \in Program, NEW subjects,
         NEW severity \in {"LOW", "CRITICAL"}, OpenIssue(i, pg, subjects, severity)
  PROVE  Better(st, st')
<1> DEFINE row == [program |-> pg, severity |-> severity, status |-> "OPEN"]
           n == [st EXCEPT !.issues = Put(st.issues, i, row)]
<1>1. i \notin DOMAIN st.issues /\ (st' = n \/ st' = st)
  BY DEF OpenIssue, CommitReferring, Commit
<1>2. row \in IssueRow
  BY DEF IssueRow
<1> HIDE DEF row
<1>3. /\ Projection(n) /\ n["issues"] = Put(st["issues"], i, row)
      /\ \A u \in Names \ {"issues"} : n[u] = st[u]
  BY DEF Good, Typed, Projection, Names, Tables
<1> HIDE DEF n
<1>4. Better(st, n)
  <2>1. IdFor("issues", st, i)
    BY <1>1, KindFacts DEF IdFor, Numbered
  <2>2. RowFor("issues", st, row)
    BY <1>2 DEF RowFor
  <2>3. "issues" \in Tables \ {"hypotheses"}
    BY DEF Tables
  <2> QED
    BY <1>3, <2>1, <2>2, <2>3, NewRow
<1> QED
  BY <1>1, <1>4, BetterItself

LEMMA ResolveBetter ==
  ASSUME Good(st), NEW i \in Issue, ResolveIssue(i)
  PROVE  Better(st, st')
<1> DEFINE row == [st.issues[i] EXCEPT !.status = "RESOLVED"]
           n == [st EXCEPT !.issues = [st.issues EXCEPT ![i] = row]]
<1>1. i \in DOMAIN st.issues /\ st' = n
  BY DEF ResolveIssue, Commit
<1>2. st.issues[i] \in IssueRow
  BY <1>1 DEF Good, Typed
<1>3. row \in IssueRow /\ row.program = st.issues[i].program
  BY <1>2 DEF IssueRow
<1> HIDE DEF row
<1>4. /\ Projection(n) /\ n.issues = [st.issues EXCEPT ![i] = row]
      /\ \A u \in Names \ {"issues"} : n[u] = st[u]
  BY DEF Good, Typed, Projection, Names, Tables
<1> HIDE DEF n
<1>5. /\ n.hypotheses = st.hypotheses /\ n.protocols = st.protocols
      /\ n.workings = st.workings /\ n.experiments = st.experiments
      /\ n.programs = st.programs
  BY <1>4 DEF Names, Tables
<1>6. /\ DOMAIN n.issues = DOMAIN st.issues
      /\ \A x \in DOMAIN st.issues : n.issues[x] = IF x = i THEN row ELSE st.issues[x]
  BY <1>4
<1>7. Typed(n)
  <2>1. st.issues \in [DOMAIN st.issues -> IssueRow]
    BY DEF Good, Typed
  <2>2. n.issues \in [DOMAIN n.issues -> IssueRow]
    BY <1>3, <1>4, <2>1
  <2> QED
    BY <1>4, <1>5, <2>2 DEF Good, Typed
<1>8. \A t \in Tables \ {"issues"} : n[t] = st[t]
  BY <1>4 DEF Names
<1>9. Extends(st, n)
  <2>1. Extends(st, st)
    BY ExtendsItself DEF Good
  <2>2. \A t \in Tables : /\ DOMAIN st[t] \subseteq DOMAIN n[t]
                         /\ \A x \in DOMAIN st[t] : n[t][x].program = st[t][x].program
    <3> SUFFICES ASSUME NEW t \in Tables
                 PROVE  /\ DOMAIN st[t] \subseteq DOMAIN n[t]
                        /\ \A x \in DOMAIN st[t] : n[t][x].program = st[t][x].program
      OBVIOUS
    <3>1. CASE t = "issues"
      BY <1>3, <1>6, <3>1
    <3>2. CASE t # "issues"
      BY <1>8, <3>2
    <3> QED
      BY <3>1, <3>2
  <2>3. \A t \in Lasting : n[t] = st[t]
    BY <1>8 DEF Lasting, Tables
  <2> QED
    BY <1>5, <2>1, <2>2, <2>3 DEF Extends
<1>10. NewClaimsBacked(st, n)
  BY <1>5 DEF NewClaimsBacked
<1>11. \A t \in Tables : DOMAIN n[t] = DOMAIN st[t]
  BY <1>6, <1>8
<1>12. Better(st, n)
  BY <1>5, <1>7, <1>9, <1>10, <1>11, FieldsChange
<1> QED
  BY <1>1, <1>12

LEMMA DeviationBetter ==
  ASSUME Good(st), NEW d \in Deviation, NEW pt \in Protocol, NEW affected,
         RecordDeviation(d, pt, affected)
  PROVE  Better(st, st')
<1> DEFINE row == [program |-> st.protocols[pt].program, protocol |-> pt]
           m == [st EXCEPT !.deviations = Put(st.deviations, d, row)]
           new == [m.protocols[drafted] EXCEPT !.deviations = @ \cup {d}]
           n == [m EXCEPT !.protocols = [m.protocols EXCEPT ![drafted] = new]]
<1>1. /\ d \notin DOMAIN st.deviations
      /\ \/ st' = [st EXCEPT
               !.deviations = Put(@, d, [program |-> st.protocols[pt].program, protocol |-> pt]),
               !.protocols[drafted].deviations = @ \cup {d}]
         \/ st' = st
  BY DEF RecordDeviation, CommitReferring, Commit
<1>2. st' = n \/ st' = st
  BY <1>1
<1> HIDE DEF row
<1>3. /\ Projection(m) /\ m["deviations"] = Put(st["deviations"], d, row)
      /\ \A u \in Names \ {"deviations"} : m[u] = st[u]
  BY DEF Good, Typed, Projection, Names, Tables
<1> HIDE DEF m
<1>4. Better(st, m)
  <2>1. IdFor("deviations", st, d)
    BY <1>1, KindFacts DEF IdFor, Numbered
  <2>2. RowFor("deviations", st, row)
    BY DEF RowFor
  <2>3. "deviations" \in Tables \ {"hypotheses"}
    BY DEF Tables
  <2> QED
    BY <1>3, <2>1, <2>2, <2>3, NewRow
<1>5. Better(m, n)
  <2>1. ASSUME drafted \in DOMAIN m.protocols
        PROVE  /\ new \in ProtocolRow
               /\ new.program = m.protocols[drafted].program
               /\ new.hypotheses = m.protocols[drafted].hypotheses
               /\ new.spec = m.protocols[drafted].spec
               /\ new.status = m.protocols[drafted].status
    <3>1. m.protocols[drafted] \in ProtocolRow
      BY <1>4, <2>1 DEF Better, Good, Typed
    <3> QED
      BY <3>1 DEF ProtocolRow
  <2>2. Good(m)
    BY <1>4 DEF Better
  <2> HIDE DEF new
  <2> QED
    BY <2>1, <2>2, ProtocolChange
<1> HIDE DEF n
<1>6. Better(st, n)
  BY <1>4, <1>5, BetterFurther
<1> QED
  BY <1>2, <1>6, BetterItself

LEMMA ReproductionBetter ==
  ASSUME Good(st), NEW x \in Reproduction, NEW pg \in Program, NEW runs, NEW b,
         NEW artifacts, NEW a, RecordReproduction(x, pg, runs, b, artifacts, a)
  PROVE  Better(st, st')
<1> DEFINE row == [program |-> pg, runs |-> runs, bundle |-> b, artifacts |-> artifacts,
                   assessment |-> a]
           n == [st EXCEPT !.reproductions = Put(st.reproductions, x, row)]
<1>1. x \notin DOMAIN st.reproductions /\ st' = n
  BY DEF RecordReproduction, Commit
<1> HIDE DEF row
<1>2. /\ Projection(n) /\ n["reproductions"] = Put(st["reproductions"], x, row)
      /\ \A u \in Names \ {"reproductions"} : n[u] = st[u]
  BY DEF Good, Typed, Projection, Names, Tables
<1> HIDE DEF n
<1>3. Better(st, n)
  <2>1. IdFor("reproductions", st, x)
    BY <1>1, KindFacts DEF IdFor, Numbered
  <2>2. RowFor("reproductions", st, row)
    BY DEF RowFor
  <2>3. "reproductions" \in Tables \ {"hypotheses"}
    BY DEF Tables
  <2> QED
    BY <1>2, <2>1, <2>2, <2>3, NewRow
<1> QED
  BY <1>1, <1>3

-----------------------------------------------------------------------------
(* The Programs stand at RQ_FROZEN with their Hypotheses and nothing else. *)
LEMMA InitGood == Init => Good(st)
<1> SUFFICES ASSUME Init PROVE Good(st)
  OBVIOUS
<1>1. /\ Projection(st)
      /\ st.programs = [p \in Program |-> "RQ_FROZEN"]
      /\ st.hypotheses = [h \in Hypothesis |-> [program |-> HomeOf[h], status |-> "PROPOSED"]]
      /\ \A t \in Tables \ {"hypotheses"} : DOMAIN st[t] = {}
  <2>1. Projection(st)
    BY DEF Init, Projection, Names
  <2>2. st["programs"] = [p \in Program |-> "RQ_FROZEN"]
    BY DEF Init, Tables
  <2>3. st["hypotheses"] = [h \in Hypothesis |-> [program |-> HomeOf[h], status |-> "PROPOSED"]]
    BY DEF Init, Tables
  <2>4. \A t \in Tables \ {"hypotheses"} : st[t] = << >>
    BY DEF Init, Tables
  <2> QED
    BY <2>1, <2>2, <2>3, <2>4
<1>2. /\ DOMAIN st.protocols = {} /\ DOMAIN st.workings = {} /\ DOMAIN st.experiments = {}
      /\ DOMAIN st.bundles = {} /\ DOMAIN st.assessments = {} /\ DOMAIN st.decisions = {}
      /\ DOMAIN st.artifacts = {} /\ DOMAIN st.issues = {}
  BY <1>1 DEF Tables
<1>3. /\ st.protocols \in [DOMAIN st.protocols -> ProtocolRow]
      /\ st.workings \in [DOMAIN st.workings -> WorkingRow]
      /\ st.experiments \in [DOMAIN st.experiments -> ExperimentRow]
      /\ st.issues \in [DOMAIN st.issues -> IssueRow]
  <2>1. \A t \in Tables \ {"hypotheses"} : st[t] = << >>
    BY DEF Init, Tables
  <2>2. \A Row : << >> \in [{} -> Row]
    OBVIOUS
  <2> QED
    BY <1>2, <2>1, <2>2 DEF Tables
<1>4. Typed(st)
  BY <1>1, <1>3, RankFacts, DraftAssumption DEF Typed, HypothesisRow
<1>5. Identified(st)
  <2>1. \A t \in Names : DOMAIN st[t] \subseteq Kind(t)
    BY <1>1, KindFacts DEF Names
  <2>2. \A t \in Numbered : DOMAIN st[t] = FirstIds(Tag(t), 0)
    BY <1>1 DEF Numbered, Tables, FirstIds
  <2> QED
    BY <2>1, <2>2 DEF Identified
<1>6. RowsOk(st)
  BY <1>2 DEF RowsOk
<1>7. Backed(st)
  BY <1>1, <1>2 DEF Backed, Verdicts
<1>8. LeftStages(st)
  BY <1>2 DEF LeftStages
<1> QED
  BY <1>4, <1>5, <1>6, <1>7, <1>8 DEF Good

(* Every step makes a good update of a good State.                         *)
LEMMA NextBetter ==
  ASSUME Good(st), [Next]_vars
  PROVE  Better(st, st')
<1>1. ASSUME NEW draft \in Drafts, DraftProtocol(draft) PROVE Better(st, st')
  BY <1>1, DraftBetter
<1>2. ASSUME NEW pt \in Protocol, SealProtocol(pt) \/ CreateWorking(pt) \/ ComputeAnalysis(pt)
      PROVE  Better(st, st')
  BY <1>2, SealBetter, WorkingBetter, AnalysisBetter
<1>3. ASSUME NEW e \in Experiment, NEW pt \in Protocol,
             NEW asked \in DOMAIN st.workings \cup {NoWorking},
             NEW hyps \in {{}} \cup { {h} : h \in Hypothesis },
             PlanExperiment(e, pt, hyps, asked)
      PROVE  Better(st, st')
  BY <1>3, PlanBetter
<1>4. ASSUME NEW e \in Experiment, TransitionExperiment(e) \/ CancelExperiment(e)
      PROVE  Better(st, st')
  BY <1>4, TransitionBetter, CancelBetter
<1>5. ASSUME NEW r \in Run, NEW e \in Experiment, NEW said \in Recordings,
             RecordRun(r, e, said)
      PROVE  Better(st, st')
  BY <1>5, RunBetter
<1>6. ASSUME NEW b \in DOMAIN st.bundles, NEW hyps \in SUBSET Hypothesis,
             NEW findings \in [hyps -> Verdicts], ReviewResult(b, findings)
      PROVE  Better(st, st')
  BY <1>6, ReviewBetter
<1>7. ASSUME NEW pg \in Program, NEW outcome \in Outcomes,
             NEW assessed \in SUBSET DOMAIN st.assessments,
             SealDecision(pg, outcome, assessed)
      PROVE  Better(st, st')
  BY <1>7, DecisionBetter
<1>8. ASSUME NEW pg \in Program, CloseProgram(pg) PROVE Better(st, st')
  BY <1>8, CloseBetter
<1>9. ASSUME NEW a \in Artifact, NEW pg \in Program, NEW kind \in Kinds,
             NEW producer \in Objects(st), RegisterArtifact(a, pg, kind, producer)
      PROVE  Better(st, st')
  BY <1>9, ArtifactBetter
<1>10. ASSUME NEW i \in Issue, NEW pg \in Program, NEW o \in Objects(st),
              NEW severity \in {"LOW", "CRITICAL"}, OpenIssue(i, pg, {o}, severity)
       PROVE  Better(st, st')
  BY <1>10, IssueBetter
<1>11. ASSUME NEW i \in Issue, ResolveIssue(i) PROVE Better(st, st')
  BY <1>11, ResolveBetter
<1>12. ASSUME NEW d \in Deviation, NEW pt \in Protocol,
              NEW affected \in {{}} \cup { {o} : o \in Objects(st) },
              RecordDeviation(d, pt, affected)
       PROVE  Better(st, st')
  BY <1>12, DeviationBetter
<1>13. ASSUME NEW x \in Reproduction, NEW pg \in Program, NEW runs \in SUBSET DOMAIN st.runs,
              NEW b \in DOMAIN st.bundles, NEW artifacts \in SUBSET DOMAIN st.artifacts,
              NEW a \in DOMAIN st.assessments,
              RecordReproduction(x, pg, runs, b, artifacts, a)
       PROVE  Better(st, st')
  BY <1>13, ReproductionBetter
<1>14. ASSUME UNCHANGED vars PROVE Better(st, st')
  BY <1>14, BetterItself DEF vars
<1> QED
  BY <1>1, <1>2, <1>3, <1>4, <1>5, <1>6, <1>7, <1>8, <1>9, <1>10, <1>11, <1>12, <1>13, <1>14
     DEF Next

(* The inductive invariant: every projection of the ledger is in order,    *)
(* whatever the number of Programs, Workings and records.                  *)
THEOREM StudyInvariant == Spec => []Good(st)
<1>1. Init => Good(st)
  BY InitGood
<1>2. Good(st) /\ [Next]_vars => Good(st)'
  BY NextBetter DEF Better
<1> QED
  BY <1>1, <1>2, PTL DEF Spec

(* The ledger only adds: no accepted command, and no replay of its event,  *)
(* loses an object, redirects one of its references, lowers a Program or a *)
(* Working, thaws a Protocol or takes a completed Pilot back.              *)
THEOREM LedgerOnlyAdds == Spec => [][Extends(st, st')]_vars
<1>1. Init => Good(st)
  BY InitGood
<1>2. Good(st) /\ [Next]_vars => Good(st)' /\ Extends(st, st')
  BY NextBetter DEF Better
<1> QED
  BY <1>1, <1>2, PTL DEF Spec
-----------------------------------------------------------------------------
(* What the invariant says of a single projection.                         *)
LEMMA GoodJustifies == Good(st) => WorkingsJustified
<1> SUFFICES ASSUME Good(st), NEW w \in DOMAIN st.workings
             PROVE  LET at == StageRank[st.workings[w].stage]
                        owned == { b \in DOMAIN st.bundles : BundleWorkings(st, b) = {w} }
                        judged == { a \in DOMAIN st.assessments :
                                      st.assessments[a].bundle \in owned }
                    IN  /\ at > 0 => \E f \in DOMAIN st.artifacts :
                             /\ st.artifacts[f].kind = "implementation"
                             /\ ProducerWorkings(st.artifacts[f].producer) = {w}
                        /\ at > 1 => \E e \in DOMAIN st.experiments :
                             st.experiments[e].working = w /\ st.experiments[e].piloted
                        /\ at > 2 => owned # {}
                        /\ at > 3 => judged # {}
                        /\ at > 4 => \E d \in DOMAIN st.decisions :
                             st.decisions[d].assessed \subseteq judged
  BY DEF WorkingsJustified
<1> DEFINE at == StageRank[st.workings[w].stage]
<1>1. ASSUME NEW stage \in DOMAIN NextStage, at > StageRank[stage]
      PROVE  Evidence(st, stage, w)
  BY <1>1 DEF Good, LeftStages
<1>2. /\ StageRank["IMPLEMENTATION"] = 0 /\ StageRank["PILOT"] = 1
      /\ StageRank["ANALYSIS"] = 2 /\ StageRank["REVIEW"] = 3 /\ StageRank["DECISION"] = 4
  BY DEF StageRank
<1> HIDE DEF at
<1>3. /\ at > 0 => Evidence(st, "IMPLEMENTATION", w)
      /\ at > 1 => Evidence(st, "PILOT", w)
      /\ at > 2 => Evidence(st, "ANALYSIS", w)
      /\ at > 3 => Evidence(st, "REVIEW", w)
      /\ at > 4 => Evidence(st, "DECISION", w)
  BY <1>1, <1>2, StageFacts
<1>4. \A producer : ProducerWorkings(producer) = Produced(st, producer)
  BY DEF ProducerWorkings, Produced
<1> QED
  BY <1>3, <1>4 DEF Evidence, Owned, JudgedFor, at

(* What a good State says of its Workings and their Programs.              *)
LEMMA GoodKeepsUp == Good(st) => ProgramKeepsUp
<1> SUFFICES ASSUME Good(st), NEW w \in DOMAIN st.workings
             PROVE  LET at == StageRank[st.workings[w].stage]
                        reached == Rank[st.programs[st.workings[w].program]]
                    IN  /\ at > 0 => reached >= Rank["IMPLEMENTED"]
                        /\ at > 1 => reached >= Rank["PILOTED"]
                        /\ at > 2 => reached >= Rank["RESULT_READY"]
                        /\ at > 3 => reached >= Rank["EVALUATED"]
  BY DEF ProgramKeepsUp
<1> DEFINE at == StageRank[st.workings[w].stage]
           reached == Rank[st.programs[st.workings[w].program]]
<1>1. ASSUME NEW stage \in DOMAIN NextStage, at > StageRank[stage]
      PROVE  reached >= Due(stage)
  BY <1>1 DEF Good, LeftStages, Reached
<1>2. /\ StageRank["IMPLEMENTATION"] = 0 /\ StageRank["PILOT"] = 1
      /\ StageRank["ANALYSIS"] = 2 /\ StageRank["REVIEW"] = 3
  BY DEF StageRank
<1> HIDE DEF at, reached
<1>3. /\ at > 0 => reached >= Rank["IMPLEMENTED"]
      /\ at > 1 => reached >= Rank["PILOTED"]
      /\ at > 2 => reached >= Rank["RESULT_READY"]
      /\ at > 3 => reached >= Rank["EVALUATED"]
  BY <1>1, <1>2, StageFacts DEF Due
<1> QED
  BY <1>3 DEF at, reached

(* A Pilot Run is of one Experiment, so that no two share their Pilot.     *)
LEMMA GoodPilots == Good(st) => OnePilotPerProtocol
<1> SUFFICES ASSUME Good(st), NEW e \in DOMAIN st.experiments, NEW f \in DOMAIN st.experiments,
                    st.experiments[e].piloted, st.experiments[f].piloted,
                    st.experiments[e].protocol = st.experiments[f].protocol
             PROVE  e = f
  BY DEF OnePilotPerProtocol
<1>1. PilotBacked(st, e) /\ PilotBacked(st, f)
  BY DEF Good, Backed
<1> DEFINE pilots == st.protocols[st.experiments[e].protocol].spec.pilots
<1>2. pilots # {} /\ \A r \in pilots : st.runs[r].experiment = e /\ st.runs[r].experiment = f
  BY <1>1 DEF PilotBacked
<1> HIDE DEF pilots
<1> QED
  BY <1>2

(* What a good State says of the references between its rows.              *)
LEMMA GoodLineage == Good(st) => LineageInProgram
<1> SUFFICES ASSUME Good(st) PROVE LineageInProgram
  OBVIOUS
<1>1. \A pt \in DOMAIN st.protocols, h \in Hypothesis :
        h \in st.protocols[pt].hypotheses
          => st.hypotheses[h].program = st.protocols[pt].program
  BY DEF Good, RowsOk, ProtocolOk
<1>2. ASSUME NEW e \in DOMAIN st.experiments
      PROVE  LET x == st.experiments[e] IN
             /\ x.program = st.protocols[x.protocol].program
             /\ x.working # NoWorking =>
                  /\ st.workings[x.working].program = x.program
                  /\ st.workings[x.working].protocol = x.protocol
  <2>1. ExperimentOk(st, st.experiments[e])
    BY DEF Good, RowsOk
  <2> QED
    BY <2>1 DEF ExperimentOk, Sealed
<1>3. ASSUME NEW d \in DOMAIN st.decisions, NEW a \in st.decisions[d].assessed,
             NEW e \in st.bundles[st.assessments[a].bundle].comparisons
      PROVE  st.experiments[e].program = st.decisions[d].program
  <2>1. a \in DOMAIN st.assessments /\ st.assessments[a].program = st.decisions[d].program
    BY DEF Good, RowsOk, DecisionOk
  <2> DEFINE b == st.assessments[a].bundle
  <2>2. b \in DOMAIN st.bundles /\ st.bundles[b].program = st.assessments[a].program
    BY <2>1 DEF Good, RowsOk, AssessmentOk
  <2> HIDE DEF b
  <2>3. BundleOk(st, st.bundles[b])
    BY <2>2 DEF Good, RowsOk
  <2>4. /\ st.protocols[st.bundles[b].protocol].program = st.bundles[b].program
        /\ e \in st.bundles[b].comparisons =>
             /\ e \in DOMAIN st.experiments
             /\ st.experiments[e].protocol = st.bundles[b].protocol
    BY <2>3 DEF BundleOk, Sealed
  <2>5. e \in DOMAIN st.experiments /\ st.experiments[e].protocol = st.bundles[b].protocol
    BY <2>4 DEF b
  <2>6. st.experiments[e].program = st.protocols[st.experiments[e].protocol].program
    BY <1>2, <2>5
  <2> QED
    BY <2>1, <2>2, <2>4, <2>5, <2>6
<1>4. ASSUME NEW f \in DOMAIN st.artifacts, NEW t \in Tables,
             st.artifacts[f].producer \in DOMAIN st[t]
      PROVE  st[t][st.artifacts[f].producer].program = st.artifacts[f].program
  <2> DEFINE id == st.artifacts[f].producer
             pg == st.artifacts[f].program
  <2>1. pg \in Program /\ Belongs(st, id, pg, Tables)
    BY DEF Good, RowsOk, ArtifactOk
  <2> HIDE DEF id, pg
  <2>2. t \in Names /\ t # "programs" /\ "programs" \in Names /\ Tables \subseteq Names
    BY DEF Names, Tables
  <2>3. id \in Kind(t)
    BY <1>4, <2>2 DEF Good, Identified, id
  <2>4. id # pg
    BY <2>1, <2>2, <2>3, KindFacts, KindsDisjoint
  <2>5. PICK u \in Tables : id \in DOMAIN st[u] /\ st[u][id].program = pg
    BY <2>1, <2>4 DEF Belongs
  <2>6. id \in Kind(u)
    BY <2>2, <2>5 DEF Good, Identified
  <2>7. u = t
    BY <2>2, <2>3, <2>6, KindsDisjoint
  <2> QED
    BY <2>5, <2>7 DEF id, pg
<1> QED
  BY <1>1, <1>2, <1>3, <1>4 DEF LineageInProgram

(* A Working past a stage has the evidence for it: an implementation       *)
(* Artifact, a completed Pilot, a Result Bundle of its Experiments alone,  *)
(* an Assessment of one, a Decision on such Assessments alone.             *)
THEOREM WorkingsAlwaysJustified == Spec => []WorkingsJustified
  BY StudyInvariant, GoodJustifies, PTL

(* A Working is never ahead of its Program, however the commands of other  *)
(* Workings of the Program interleave with its own.                        *)
THEOREM ProgramAlwaysKeepsUp == Spec => []ProgramKeepsUp
  BY StudyInvariant, GoodKeepsUp, PTL

(* RFC-0005: the Pilot Runs that a Protocol registers complete the Pilot   *)
(* of one Experiment of it, cancelled or not.                              *)
THEOREM OnePilotAlways == Spec => []OnePilotPerProtocol
  BY StudyInvariant, GoodPilots, PTL

(* RFC-0006: a Result Bundle comes from a sealed Protocol that registered  *)
(* the analysis, although compute_analysis tests no Protocol status.       *)
THEOREM AnalysisAlwaysSealed == Spec => []AnalysisIsSealed
<1>1. Good(st) => AnalysisIsSealed
  BY DEF Good, RowsOk, BundleOk, Sealed, AnalysisIsSealed
<1> QED
  BY <1>1, StudyInvariant, PTL

(* A confirmed or refuted Hypothesis has an Assessment that says so, of a  *)
(* Protocol that registered it.                                            *)
THEOREM VerdictsAlwaysAssessed == Spec => []VerdictsAssessed
<1>1. Good(st) => VerdictsAssessed
  BY DEF Good, Backed, VerdictBacked, VerdictsAssessed
<1> QED
  BY <1>1, StudyInvariant, PTL

(* No reference leaves its Program, along any chain from a Decision to the *)
(* Experiments behind it or from an Artifact to its producer.              *)
THEOREM LineageStaysInProgram == Spec => []LineageInProgram
  BY StudyInvariant, GoodLineage, PTL

-----------------------------------------------------------------------------
(* What the records of a Program have earned it.                           *)
Earning == {"protocols", "artifacts", "experiments", "runs", "bundles", "assessments"}

(* What a step owes: a Program with a new record that earns it a status    *)
(* reaches that status, and no Program reaches a result or an evaluation   *)
(* without one.                                                            *)
NewlyEarned(s, n) ==
  /\ \A pg \in Program, status \in DOMAIN Rank :
       Earned(n, pg, status) => \/ Earned(s, pg, status)
                                \/ Rank[n.programs[pg]] >= Rank[status]
  /\ \A pg \in Program, status \in {"RESULT_READY", "EVALUATED"} :
       Rank[n.programs[pg]] >= Rank[status] => \/ Rank[s.programs[pg]] >= Rank[status]
                                               \/ Earned(n, pg, status)

AllEarned(s) == \A pg \in Program : StatusEarned(s, pg)

(* A result and an evaluation last: their records do.                      *)
LEMMA EarnedLasts ==
  ASSUME NEW s, NEW n, Extends(s, n), NEW pg, NEW status \in {"RESULT_READY", "EVALUATED"},
         Earned(s, pg, status)
  PROVE  Earned(n, pg, status)
<1>1. /\ \A x \in DOMAIN s.bundles : x \in DOMAIN n.bundles /\ n.bundles[x] = s.bundles[x]
      /\ \A x \in DOMAIN s.assessments :
           x \in DOMAIN n.assessments /\ n.assessments[x] = s.assessments[x]
  BY DEF Extends, Tables, Lasting
<1> QED
  BY <1>1 DEF Earned

(* A step that pays what it owes leaves every Program at what it earned.   *)
LEMMA EarnedKept ==
  ASSUME NEW s, NEW n, Good(s), Better(s, n), AllEarned(s), NewlyEarned(s, n)
  PROVE  AllEarned(n)
<1> SUFFICES ASSUME NEW pg \in Program
             PROVE  StatusEarned(n, pg)
  BY DEF AllEarned
<1>1. /\ Rank[s.programs[pg]] \in Nat /\ Rank[n.programs[pg]] \in Nat
      /\ Rank[n.programs[pg]] >= Rank[s.programs[pg]]
  BY RankFacts DEF Better, Extends, Good, Typed
<1>2. StatusEarned(s, pg)
  BY DEF AllEarned
<1>3. ASSUME NEW status \in DOMAIN Rank, Earned(n, pg, status)
      PROVE  Rank[n.programs[pg]] >= Rank[status]
  <2>1. CASE Earned(s, pg, status)
    <3>1. Rank[s.programs[pg]] >= Rank[status]
      BY <1>2, <2>1 DEF StatusEarned
    <3> QED
      BY <1>1, <3>1, RankFacts
  <2>2. CASE ~Earned(s, pg, status)
    BY <1>3, <2>2 DEF NewlyEarned
  <2> QED
    BY <2>1, <2>2
<1>4. ASSUME NEW status \in {"RESULT_READY", "EVALUATED"},
             Rank[n.programs[pg]] >= Rank[status]
      PROVE  Earned(n, pg, status)
  <2>1. CASE Rank[s.programs[pg]] >= Rank[status]
    <3>1. Earned(s, pg, status)
      BY <1>2, <2>1 DEF StatusEarned
    <3> QED
      BY <3>1, EarnedLasts DEF Better
  <2>2. CASE ~(Rank[s.programs[pg]] >= Rank[status])
    BY <1>4, <2>2 DEF NewlyEarned
  <2> QED
    BY <2>1, <2>2
<1>5. ASSUME n.programs[pg] = "CLOSED"
      PROVE  \E d \in DOMAIN n.decisions :
               /\ n.decisions[d].program = pg /\ n.decisions[d].assessed # {}
               /\ \A a \in n.decisions[d].assessed : n.assessments[a].program = pg
  <2>1. PICK d \in DOMAIN n.decisions : n.decisions[d].program = pg
    BY <1>5 DEF Better, Good, Backed, ClosingBacked
  <2>2. DecisionOk(n, n.decisions[d])
    BY <2>1 DEF Better, Good, RowsOk
  <2> QED
    BY <2>1, <2>2 DEF DecisionOk
<1> QED
  BY <1>3, <1>4, <1>5 DEF StatusEarned

(* A step that makes no record that earns a status and moves no Program.   *)
LEMMA StayEarns ==
  ASSUME NEW s, NEW n, n.programs = s.programs,
         \A pg \in Program, status \in DOMAIN Rank : Earned(n, pg, status) => Earned(s, pg, status)
  PROVE  NewlyEarned(s, n)
  BY DEF NewlyEarned

LEMMA SameEarns ==
  ASSUME NEW s, NEW n, \A t \in Earning \cup {"programs"} : n[t] = s[t]
  PROVE  NewlyEarned(s, n)
<1>1. /\ n.programs = s.programs /\ n.protocols = s.protocols
      /\ n.artifacts = s.artifacts /\ n.experiments = s.experiments
      /\ n.runs = s.runs /\ n.bundles = s.bundles /\ n.assessments = s.assessments
  BY DEF Earning
<1>2. \A pg \in Program, status \in DOMAIN Rank : Earned(n, pg, status) => Earned(s, pg, status)
  BY <1>1 DEF Earned
<1> QED
  BY <1>1, <1>2, StayEarns

(* A step that makes a record that earns one Program one status.           *)
RaisedTo(s, n, pg, to) ==
  /\ s.programs \in [Program -> DOMAIN Rank] /\ n.programs \in [Program -> DOMAIN Rank]
  /\ \A q \in Program : n.programs[q] # s.programs[q] => q = pg /\ n.programs[q] = to
  /\ Rank[n.programs[pg]] >= Rank[to]
  /\ \A q \in Program, status \in DOMAIN Rank :
       Earned(n, q, status) => Earned(s, q, status) \/ (q = pg /\ status = to)
  /\ \A status \in {"RESULT_READY", "EVALUATED"} :
       Rank[to] >= Rank[status] => Earned(n, pg, status)

LEMMA RaiseEarns ==
  ASSUME NEW s, NEW n, NEW pg \in Program, NEW to \in DOMAIN Rank, RaisedTo(s, n, pg, to)
  PROVE  NewlyEarned(s, n)
<1>1. ASSUME NEW q \in Program, NEW status \in {"RESULT_READY", "EVALUATED"},
             Rank[n.programs[q]] >= Rank[status]
      PROVE  Rank[s.programs[q]] >= Rank[status] \/ Earned(n, q, status)
  <2>1. CASE n.programs[q] = s.programs[q]
    BY <1>1, <2>1
  <2>2. CASE n.programs[q] # s.programs[q]
    BY <1>1, <2>2 DEF RaisedTo
  <2> QED
    BY <2>1, <2>2
<1> QED
  BY <1>1 DEF NewlyEarned, RaisedTo

(* _advance_program and _advance_workings_for_event after a new record:    *)
(* the tables that earn a status are those the record was put in.          *)
LEMMA CreditTables ==
  ASSUME NEW s, Projection(s), NEW stage, NEW targets, NEW pg, NEW pts
  PROVE  LET n == Credit(s, stage, targets, pg, pts)
         IN  \A t \in Names \ {"workings"} : n[t] = s[t]
  BY DEF Credit, Projection, Names, Tables

(* One lemma for each command that touches such a table: it pays what it   *)
(* owes.                                                                   *)
LEMMA DraftEarns ==
  ASSUME Good(st), NEW draft \in Drafts, DraftProtocol(draft)
  PROVE  NewlyEarned(st, st')
<1> DEFINE row == [program |-> draft.program, hypotheses |-> draft.hypotheses,
                   mode |-> draft.mode, spec |-> draft.spec,
                   status |-> "DRAFT", deviations |-> {}]
<1>1. st' = [st EXCEPT !.protocols = Put(st.protocols, draft.id, row)]
  BY DEF DraftProtocol, Commit
<1>2. row.status = "DRAFT"
  OBVIOUS
<1> HIDE DEF row
<1>3. /\ st'.programs = st.programs /\ st'.artifacts = st.artifacts
      /\ st'.experiments = st.experiments /\ st'.runs = st.runs
      /\ st'.bundles = st.bundles /\ st'.assessments = st.assessments
      /\ st'.protocols = Put(st.protocols, draft.id, row)
  BY <1>1 DEF Good, Typed, Projection, Names, Tables
<1>4. \A x \in DOMAIN st'.protocols : st'.protocols[x].status = "FROZEN" =>
        x \in DOMAIN st.protocols /\ st'.protocols[x] = st.protocols[x]
  BY <1>2, <1>3 DEF Put
<1>5. \A pg \in Program, status \in DOMAIN Rank :
        Earned(st', pg, status) => Earned(st, pg, status)
  BY <1>3, <1>4 DEF Earned
<1> QED
  BY <1>3, <1>5, StayEarns

LEMMA SealEarns ==
  ASSUME Good(st), NEW pt \in Protocol, SealProtocol(pt)
  PROVE  NewlyEarned(st, st')
<1> DEFINE row == [st.protocols[pt] EXCEPT !.status = "FROZEN"]
           n == [st EXCEPT !.protocols = [st.protocols EXCEPT ![pt] = row]]
           pg == st.protocols[pt].program
<1>1. pt \in DOMAIN st.protocols /\ st' = Advance(n, pg, "DESIGN_FROZEN")
  BY DEF SealProtocol, Commit
<1>2. st.protocols[pt] \in ProtocolRow
  BY <1>1 DEF Good, Typed
<1>3. row.program = pg /\ pg \in Program
  BY <1>2 DEF ProtocolRow
<1> HIDE DEF row
<1>4. /\ Projection(n) /\ n.protocols = [st.protocols EXCEPT ![pt] = row]
      /\ \A t \in Names \ {"protocols"} : n[t] = st[t]
  BY DEF Good, Typed, Projection, Names, Tables
<1>5. n.programs = st.programs /\ st.programs \in [Program -> DOMAIN Rank]
  BY <1>4 DEF Names, Good, Typed
<1> HIDE DEF n, pg
<1>6. /\ \A t \in Tables : st'[t] = n[t]
      /\ st'.programs \in [Program -> DOMAIN Rank]
      /\ \A q \in Program : st'.programs[q] # n.programs[q]
                              => q = pg /\ st'.programs[q] = "DESIGN_FROZEN"
      /\ Rank[st'.programs[pg]] >= Rank["DESIGN_FROZEN"]
  BY <1>1, <1>3, <1>4, <1>5, AdvanceFacts, RankFacts
<1>7. /\ st'.artifacts = st.artifacts /\ st'.experiments = st.experiments
      /\ st'.runs = st.runs /\ st'.bundles = st.bundles
      /\ st'.assessments = st.assessments
      /\ st'.protocols = [st.protocols EXCEPT ![pt] = row]
  BY <1>4, <1>6 DEF Names, Tables
<1>8. \A x \in DOMAIN st'.protocols : x \in DOMAIN st.protocols /\
        (st'.protocols[x] = st.protocols[x] \/ st'.protocols[x].program = pg)
  BY <1>3, <1>7
<1>9. \A q \in Program, status \in DOMAIN Rank :
        Earned(st', q, status) => Earned(st, q, status) \/ (q = pg /\ status = "DESIGN_FROZEN")
  BY <1>7, <1>8 DEF Earned
<1>10. "DESIGN_FROZEN" \in DOMAIN Rank /\ Rank["DESIGN_FROZEN"] = 5
  BY DEF Rank
<1>11. RaisedTo(st, st', pg, "DESIGN_FROZEN")
  BY <1>3, <1>5, <1>6, <1>9, <1>10, RankFacts DEF RaisedTo
<1> QED
  BY <1>3, <1>5, <1>6, <1>9, <1>10, <1>11, RaiseEarns, RankFacts

LEMMA PlanEarns ==
  ASSUME Good(st), NEW e \in Experiment, NEW pt \in Protocol, NEW asked, NEW hyps,
         PlanExperiment(e, pt, hyps, asked)
  PROVE  NewlyEarned(st, st')
<1>1. PICK w, table :
        st' = [st EXCEPT
         !.experiments = Put(st.experiments, e,
            [program |-> st.protocols[pt].program, protocol |-> pt, working |-> w,
             status |-> "PLANNED", piloted |-> FALSE]),
         !.hypotheses = table]
  BY Zenon DEF PlanExperiment, Commit
<1> DEFINE row == [program |-> st.protocols[pt].program, protocol |-> pt, working |-> w,
                   status |-> "PLANNED", piloted |-> FALSE]
<1>2. row.piloted = FALSE /\ st' = [st EXCEPT !.experiments = Put(st.experiments, e, row),
                                              !.hypotheses = table]
  BY <1>1
<1> HIDE DEF row
<1>3. /\ st'.programs = st.programs /\ st'.artifacts = st.artifacts
      /\ st'.protocols = st.protocols /\ st'.runs = st.runs
      /\ st'.bundles = st.bundles /\ st'.assessments = st.assessments
      /\ st'.experiments = Put(st.experiments, e, row)
  BY <1>2 DEF Good, Typed, Projection, Names, Tables
<1>4. \A x \in DOMAIN st'.experiments : st'.experiments[x].piloted =>
        x \in DOMAIN st.experiments /\ st'.experiments[x] = st.experiments[x]
  BY <1>2, <1>3 DEF Put
<1>5. \A pg \in Program, status \in DOMAIN Rank :
        Earned(st', pg, status) => Earned(st, pg, status)
  BY <1>3, <1>4 DEF Earned
<1> QED
  BY <1>3, <1>5, StayEarns

LEMMA CancelEarns ==
  ASSUME Good(st), NEW e \in Experiment, CancelExperiment(e)
  PROVE  NewlyEarned(st, st')
<1> DEFINE row == [st.experiments[e] EXCEPT !.status = "CANCELLED"]
<1>1. /\ e \in DOMAIN st.experiments
      /\ st' = [st EXCEPT !.experiments = [st.experiments EXCEPT ![e] = row]]
  BY DEF CancelExperiment, Commit
<1>2. st.experiments[e] \in ExperimentRow
  BY <1>1 DEF Good, Typed
<1>3. row.piloted = st.experiments[e].piloted /\ row.program = st.experiments[e].program
  BY <1>2 DEF ExperimentRow
<1> HIDE DEF row
<1>4. /\ st'.programs = st.programs /\ st'.artifacts = st.artifacts
      /\ st'.protocols = st.protocols /\ st'.runs = st.runs
      /\ st'.bundles = st.bundles /\ st'.assessments = st.assessments
      /\ st'.experiments = [st.experiments EXCEPT ![e] = row]
  BY <1>1 DEF Good, Typed, Projection, Names, Tables
<1>5. \A x \in DOMAIN st'.experiments :
        /\ x \in DOMAIN st.experiments
        /\ st'.experiments[x].piloted = st.experiments[x].piloted
        /\ st'.experiments[x].program = st.experiments[x].program
  BY <1>3, <1>4
<1>6. \A pg \in Program, status \in DOMAIN Rank :
        Earned(st', pg, status) => Earned(st, pg, status)
  BY <1>4, <1>5 DEF Earned
<1> QED
  BY <1>4, <1>6, StayEarns

LEMMA TransitionEarns ==
  ASSUME Good(st), NEW e \in Experiment, TransitionExperiment(e)
  PROVE  NewlyEarned(st, st')
<1> DEFINE x == st.experiments[e]
           to == NextStatus[x.status]
           moved == [st EXCEPT !.experiments[e].status = to,
                               !.experiments[e].piloted = @ \/ to = "PILOT_COMPLETED"]
           raised == IF to \in DOMAIN ExperimentAdvances
                     THEN Advance(moved, x.program, ExperimentAdvances[to]) ELSE moved
<1>1. /\ e \in DOMAIN st.experiments /\ x.status \in DOMAIN NextStatus
      /\ st' = IF to = "PILOT_COMPLETED"
               THEN Credit(raised, "PILOT", {x.working}, x.program, {x.protocol})
               ELSE raised
  BY DEF TransitionExperiment, Commit
<1>2. x \in ExperimentRow
  BY <1>1 DEF Good, Typed
<1>3. x.program \in Program
  BY <1>2 DEF ExperimentRow
<1>4. /\ Projection(moved) /\ DOMAIN moved.experiments = DOMAIN st.experiments
      /\ \A t \in Names \ {"experiments"} : moved[t] = st[t]
      /\ \A y \in DOMAIN st.experiments \ {e} : moved.experiments[y] = st.experiments[y]
      /\ moved.experiments[e].program = x.program
      /\ moved.experiments[e].piloted = (x.piloted \/ to = "PILOT_COMPLETED")
  <2> DEFINE new == [[x EXCEPT !.status = to] EXCEPT
                       !.piloted = x.piloted \/ to = "PILOT_COMPLETED"]
             m == [st EXCEPT !.experiments[e].status = to]
  <2>1. /\ Projection(m) /\ m.experiments = [st.experiments EXCEPT ![e] = [x EXCEPT !.status = to]]
        /\ \A u \in Names \ {"experiments"} : m[u] = st[u]
    BY DEF Good, Typed, Projection, Names, Tables
  <2>2. m.experiments[e] = [x EXCEPT !.status = to] /\ m.experiments[e].piloted = x.piloted
    BY <1>1, <1>2, <2>1 DEF ExperimentRow
  <2>3. moved = [m EXCEPT !.experiments = [m.experiments EXCEPT ![e] =
                   [m.experiments[e] EXCEPT !.piloted =
                      m.experiments[e].piloted \/ to = "PILOT_COMPLETED"]]]
    OBVIOUS
  <2>4. new.program = x.program /\ new.piloted = (x.piloted \/ to = "PILOT_COMPLETED")
    BY <1>2 DEF ExperimentRow
  <2> HIDE DEF m, moved
  <2>5. /\ Projection(moved)
        /\ moved.experiments = [m.experiments EXCEPT ![e] = new]
        /\ \A u \in Names \ {"experiments"} : moved[u] = m[u]
    BY <2>1, <2>2, <2>3 DEF Projection, Names, Tables
  <2> HIDE DEF new, to, x
  <2>6. moved.experiments = [st.experiments EXCEPT ![e] = new]
    BY <2>1, <2>5
  <2> QED
    BY <1>1, <2>1, <2>4, <2>5, <2>6
<1> HIDE DEF moved
<1>5. moved.programs = st.programs /\ st.programs \in [Program -> DOMAIN Rank]
  BY <1>4 DEF Names, Good, Typed
<1> DEFINE gain == IF to \in DOMAIN ExperimentAdvances THEN ExperimentAdvances[to] ELSE "RQ_FROZEN"
<1>6. /\ gain \in {"RQ_FROZEN", "IMPLEMENTED", "PILOTED", "RUNNING"}
      /\ to = "PILOT_COMPLETED" => gain = "PILOTED"
  BY StatusFacts
<1>7. /\ Projection(raised) /\ \A t \in Tables : raised[t] = moved[t]
      /\ raised.programs \in [Program -> DOMAIN Rank]
      /\ \A q \in Program : raised.programs[q] # st.programs[q]
                              => q = x.program /\ raised.programs[q] = gain
      /\ Rank[raised.programs[x.program]] >= Rank[gain]
  <2>1. CASE to \in DOMAIN ExperimentAdvances
    <3>1. raised = Advance(moved, x.program, gain)
      BY <2>1
    <3>2. gain \in DOMAIN Rank
      BY <1>6, RankFacts
    <3> HIDE DEF raised, x, to, gain
    <3> QED
      BY <1>3, <1>4, <1>5, <3>1, <3>2, AdvanceFacts
  <2>2. CASE to \notin DOMAIN ExperimentAdvances
    <3>1. raised = moved /\ gain = "RQ_FROZEN"
      BY <2>2
    <3>2. \A status \in DOMAIN Rank : Rank[status] >= Rank["RQ_FROZEN"]
      BY DEF Rank
    <3> QED
      BY <1>3, <1>4, <1>5, <3>1, <3>2
  <2> QED
    BY <2>1, <2>2
<1> HIDE DEF raised, gain
<1>8. \A t \in Names \ {"workings"} : st'[t] = raised[t]
  BY <1>1, <1>7, CreditTables
<1>9. /\ st'.artifacts = st.artifacts /\ st'.protocols = st.protocols
      /\ st'.runs = st.runs /\ st'.bundles = st.bundles
      /\ st'.assessments = st.assessments
      /\ st'.experiments = moved.experiments /\ st'.programs = raised.programs
  BY <1>4, <1>7, <1>8 DEF Names, Tables
<1> HIDE DEF x, to
<1>10. \A y \in DOMAIN st'.experiments :
         /\ y \in DOMAIN st.experiments
         /\ \/ st'.experiments[y] = st.experiments[y]
            \/ /\ y = e /\ st'.experiments[y].program = x.program
               /\ st'.experiments[y].piloted => to = "PILOT_COMPLETED" \/ x.piloted
  BY <1>4, <1>9
<1>11. \A q \in Program, status \in DOMAIN Rank :
         Earned(st', q, status) => Earned(st, q, status) \/ (q = x.program /\ status = gain)
  <2> SUFFICES ASSUME NEW q \in Program, NEW status \in DOMAIN Rank,
                      Earned(st', q, status), ~Earned(st, q, status)
               PROVE  q = x.program /\ status = gain
    OBVIOUS
  <2>1. status = "PILOTED" /\ \E y \in DOMAIN st'.experiments :
          st'.experiments[y].program = q /\ st'.experiments[y].piloted
    BY <1>9 DEF Earned
  <2>2. PICK y \in DOMAIN st'.experiments :
          st'.experiments[y].program = q /\ st'.experiments[y].piloted
    BY <2>1
  <2>3. ~(st.experiments[y].program = q /\ st.experiments[y].piloted)
    BY <1>10, <2>1 DEF Earned
  <2>4. /\ y = e /\ q = x.program /\ (to = "PILOT_COMPLETED" \/ x.piloted)
    BY <1>10, <2>2, <2>3
  <2>5. to = "PILOT_COMPLETED"
    BY <2>3, <2>4 DEF x
  <2> QED
    BY <1>6, <2>1, <2>4, <2>5
<1>12. gain \in DOMAIN Rank /\ ~(Rank[gain] >= Rank["RESULT_READY"])
       /\ ~(Rank[gain] >= Rank["EVALUATED"])
  BY <1>6 DEF Rank
<1>13. /\ st'.programs \in [Program -> DOMAIN Rank]
       /\ \A q \in Program : st'.programs[q] # st.programs[q]
                               => q = x.program /\ st'.programs[q] = gain
       /\ Rank[st'.programs[x.program]] >= Rank[gain]
  BY <1>7, <1>9
<1>14. RaisedTo(st, st', x.program, gain)
  BY <1>3, <1>5, <1>11, <1>12, <1>13 DEF RaisedTo
<1> QED
  BY <1>3, <1>5, <1>11, <1>12, <1>13, <1>14, RaiseEarns

LEMMA RunEarns ==
  ASSUME Good(st), NEW r \in Run, NEW e \in Experiment, NEW said, RecordRun(r, e, said)
  PROVE  NewlyEarned(st, st')
<1> DEFINE x == st.experiments[e]
           row == [program |-> x.program, protocol |-> x.protocol, experiment |-> e,
                   arm |-> said.arm, phase |-> said.phase, included |-> said.included]
           n == [st EXCEPT !.runs = Put(st.runs, r, row)]
<1>1. /\ e \in DOMAIN st.experiments
      /\ st' = IF said.phase = "PILOT" THEN n ELSE Advance(n, x.program, "RUNNING")
  BY DEF RecordRun, Commit
<1>2. x.program \in Program
  BY <1>1 DEF Good, Typed, ExperimentRow
<1>3. row.phase = said.phase /\ row.program = x.program
  OBVIOUS
<1> HIDE DEF row, x
<1>4. /\ Projection(n) /\ n.runs = Put(st.runs, r, row)
      /\ \A t \in Names \ {"runs"} : n[t] = st[t]
  BY DEF Good, Typed, Projection, Names, Tables
<1> HIDE DEF n
<1>5. n.programs = st.programs /\ st.programs \in [Program -> DOMAIN Rank]
  BY <1>4 DEF Names, Good, Typed
<1>6. /\ n.artifacts = st.artifacts /\ n.protocols = st.protocols
      /\ n.experiments = st.experiments /\ n.bundles = st.bundles
      /\ n.assessments = st.assessments
  BY <1>4 DEF Names, Tables
<1>7. \A y \in DOMAIN n.runs : \/ y \in DOMAIN st.runs /\ n.runs[y] = st.runs[y]
                               \/ n.runs[y] = row
  BY <1>4 DEF Put
<1>8. CASE said.phase = "PILOT"
  <2>1. \A q \in Program, status \in DOMAIN Rank : Earned(st', q, status) => Earned(st, q, status)
    BY <1>1, <1>3, <1>6, <1>7, <1>8 DEF Earned
  <2> QED
    BY <1>1, <1>5, <1>8, <2>1, StayEarns
<1>9. CASE said.phase # "PILOT"
  <2>1. /\ \A t \in Tables : st'[t] = n[t]
        /\ st'.programs \in [Program -> DOMAIN Rank]
        /\ \A q \in Program : st'.programs[q] # n.programs[q]
                                => q = x.program /\ st'.programs[q] = "RUNNING"
        /\ Rank[st'.programs[x.program]] >= Rank["RUNNING"]
    BY <1>1, <1>2, <1>4, <1>5, <1>9, AdvanceFacts, RankFacts
  <2>2. /\ st'.artifacts = n.artifacts /\ st'.protocols = n.protocols
        /\ st'.experiments = n.experiments /\ st'.bundles = n.bundles
        /\ st'.assessments = n.assessments /\ st'.runs = n.runs
    BY <2>1 DEF Tables
  <2>3. \A q \in Program, status \in DOMAIN Rank :
          Earned(st', q, status) => Earned(st, q, status) \/ (q = x.program /\ status = "RUNNING")
    BY <1>3, <1>6, <1>7, <2>2 DEF Earned
  <2>4. "RUNNING" \in DOMAIN Rank /\ Rank["RUNNING"] = 8
    BY DEF Rank
  <2>5. RaisedTo(st, st', x.program, "RUNNING")
    BY <1>2, <1>5, <2>1, <2>3, <2>4, RankFacts DEF RaisedTo
  <2> QED
    BY <1>2, <1>5, <2>1, <2>3, <2>4, <2>5, RaiseEarns, RankFacts
<1> QED
  BY <1>8, <1>9

LEMMA AnalysisEarns ==
  ASSUME Good(st), NEW pt \in Protocol, ComputeAnalysis(pt)
  PROVE  NewlyEarned(st, st')
<1> DEFINE p == st.protocols[pt]
           b == <<"RB", NextNumber(st.bundles)>>
           row == [program |-> p.program, protocol |-> pt, comparisons |-> p.spec.comparisons]
           n == [st EXCEPT !.bundles = Put(st.bundles, b, row)]
           made == Advance(n, p.program, "RESULT_READY")
<1>1. /\ pt \in DOMAIN st.protocols
      /\ st' = Credit(made, "ANALYSIS", BundleWorkings(made, b), p.program, {pt})
  BY DEF ComputeAnalysis, Commit, Drafted
<1>2. p \in ProtocolRow
  BY <1>1 DEF Good, Typed
<1>3. p.program \in Program /\ row.program = p.program
  BY <1>2 DEF ProtocolRow
<1> HIDE DEF row, b, p
<1>4. /\ Projection(n) /\ n.bundles = Put(st.bundles, b, row)
      /\ \A t \in Names \ {"bundles"} : n[t] = st[t]
  BY DEF Good, Typed, Projection, Names, Tables
<1> HIDE DEF n
<1>5. n.programs = st.programs /\ st.programs \in [Program -> DOMAIN Rank]
  BY <1>4 DEF Names, Good, Typed
<1>6. /\ Projection(made) /\ \A t \in Tables : made[t] = n[t]
      /\ made.programs \in [Program -> DOMAIN Rank]
      /\ \A q \in Program : made.programs[q] # n.programs[q]
                              => q = p.program /\ made.programs[q] = "RESULT_READY"
      /\ Rank[made.programs[p.program]] >= Rank["RESULT_READY"]
  BY <1>3, <1>4, <1>5, AdvanceFacts, RankFacts
<1> HIDE DEF made
<1>7. \A t \in Names \ {"workings"} : st'[t] = made[t]
  BY <1>1, <1>6, CreditTables
<1>8. /\ st'.artifacts = st.artifacts /\ st'.protocols = st.protocols
      /\ st'.experiments = st.experiments /\ st'.runs = st.runs
      /\ st'.assessments = st.assessments /\ st'.programs = made.programs
      /\ st'.bundles = Put(st.bundles, b, row)
  BY <1>4, <1>6, <1>7 DEF Names, Tables
<1>9. /\ b \in DOMAIN st'.bundles /\ st'.bundles[b] = row
      /\ \A y \in DOMAIN st'.bundles : \/ y \in DOMAIN st.bundles /\ st'.bundles[y] = st.bundles[y]
                                       \/ st'.bundles[y] = row
  BY <1>8 DEF Put
<1>10. \A q \in Program, status \in DOMAIN Rank :
         Earned(st', q, status)
           => Earned(st, q, status) \/ (q = p.program /\ status = "RESULT_READY")
  BY <1>3, <1>8, <1>9 DEF Earned
<1>11. Earned(st', p.program, "RESULT_READY")
  BY <1>3, <1>9 DEF Earned
<1>12. "RESULT_READY" \in DOMAIN Rank /\ ~(Rank["RESULT_READY"] >= Rank["EVALUATED"])
  BY DEF Rank
<1>13. /\ st'.programs \in [Program -> DOMAIN Rank]
       /\ \A q \in Program : st'.programs[q] # st.programs[q]
                               => q = p.program /\ st'.programs[q] = "RESULT_READY"
       /\ Rank[st'.programs[p.program]] >= Rank["RESULT_READY"]
  BY <1>5, <1>6, <1>8
<1>14. RaisedTo(st, st', p.program, "RESULT_READY")
  BY <1>3, <1>5, <1>10, <1>11, <1>12, <1>13 DEF RaisedTo
<1> QED
  BY <1>3, <1>5, <1>10, <1>11, <1>12, <1>13, <1>14, RaiseEarns

LEMMA ReviewEarns ==
  ASSUME Good(st), NEW b \in DOMAIN st.bundles, NEW findings, ReviewResult(b, findings)
  PROVE  NewlyEarned(st, st')
<1>1. PICK table, targets :
        LET bundle == st.bundles[b]
            row == [program |-> bundle.program, protocol |-> bundle.protocol,
                    bundle |-> b, findings |-> findings]
            n == [st EXCEPT !.assessments = Put(st.assessments,
                                                <<"AS", NextNumber(st.assessments)>>, row),
                            !.hypotheses = table]
        IN  st' = Credit(Advance(n, bundle.program, "EVALUATED"), "REVIEW", targets,
                         bundle.program, {bundle.protocol})
  BY Zenon DEF ReviewResult, Commit
<1> DEFINE bundle == st.bundles[b]
           a == <<"AS", NextNumber(st.assessments)>>
           row == [program |-> bundle.program, protocol |-> bundle.protocol,
                   bundle |-> b, findings |-> findings]
           n == [st EXCEPT !.assessments = Put(st.assessments, a, row), !.hypotheses = table]
           made == Advance(n, bundle.program, "EVALUATED")
<1>2. st' = Credit(made, "REVIEW", targets, bundle.program, {bundle.protocol})
  BY <1>1
<1>3. bundle.program \in Program /\ row.program = bundle.program
  BY DEF Good, Typed, RowsOk, BundleOk, Sealed, ProtocolRow
<1> HIDE DEF row, a
<1>4. /\ Projection(n) /\ n.assessments = Put(st.assessments, a, row)
      /\ \A t \in Names \ {"assessments", "hypotheses"} : n[t] = st[t]
  BY DEF Good, Typed, Projection, Names, Tables
<1> HIDE DEF n
<1>5. n.programs = st.programs /\ st.programs \in [Program -> DOMAIN Rank]
  BY <1>4 DEF Names, Good, Typed
<1>6. /\ Projection(made) /\ \A t \in Tables : made[t] = n[t]
      /\ made.programs \in [Program -> DOMAIN Rank]
      /\ \A q \in Program : made.programs[q] # n.programs[q]
                              => q = bundle.program /\ made.programs[q] = "EVALUATED"
      /\ Rank[made.programs[bundle.program]] >= Rank["EVALUATED"]
  <2> HIDE DEF bundle
  <2> QED
    BY <1>3, <1>4, <1>5, AdvanceFacts, RankFacts
<1> HIDE DEF made
<1>7. \A t \in Names \ {"workings"} : st'[t] = made[t]
  BY <1>2, <1>6, CreditTables
<1>8. /\ st'.artifacts = st.artifacts /\ st'.protocols = st.protocols
      /\ st'.experiments = st.experiments /\ st'.runs = st.runs
      /\ st'.bundles = st.bundles /\ st'.programs = made.programs
      /\ st'.assessments = Put(st.assessments, a, row)
  BY <1>4, <1>6, <1>7 DEF Names, Tables
<1>9. /\ a \in DOMAIN st'.assessments /\ st'.assessments[a] = row
      /\ \A y \in DOMAIN st'.assessments :
           \/ y \in DOMAIN st.assessments /\ st'.assessments[y] = st.assessments[y]
           \/ st'.assessments[y] = row
  BY <1>8 DEF Put
<1>10. Earned(st', bundle.program, "RESULT_READY")
  BY <1>8 DEF Earned
<1>11. Earned(st', bundle.program, "EVALUATED")
  BY <1>3, <1>9 DEF Earned
<1> HIDE DEF bundle
<1>12. \A q \in Program, status \in DOMAIN Rank :
         Earned(st', q, status)
           => Earned(st, q, status) \/ (q = bundle.program /\ status = "EVALUATED")
  BY <1>3, <1>8, <1>9 DEF Earned
<1>13. /\ st'.programs \in [Program -> DOMAIN Rank]
       /\ \A q \in Program : st'.programs[q] # st.programs[q]
                               => q = bundle.program /\ st'.programs[q] = "EVALUATED"
       /\ Rank[st'.programs[bundle.program]] >= Rank["EVALUATED"]
  BY <1>5, <1>6, <1>8
<1>14. \A status \in {"RESULT_READY", "EVALUATED"} :
         Rank["EVALUATED"] >= Rank[status] => Earned(st', bundle.program, status)
  BY <1>10, <1>11
<1> DEFINE pg == bundle.program
<1> HIDE DEF pg
<1>15. pg = bundle.program /\ "EVALUATED" \in DOMAIN Rank
  BY RankFacts DEF pg
<1>16. RaisedTo(st, st', bundle.program, "EVALUATED")
  BY <1>3, <1>5, <1>12, <1>13, <1>14, <1>15 DEF RaisedTo
<1> QED
  BY <1>3, <1>5, <1>12, <1>13, <1>14, <1>15, <1>16, RaiseEarns

LEMMA CloseEarns ==
  ASSUME Good(st), NEW pg \in Program, CloseProgram(pg)
  PROVE  NewlyEarned(st, st')
<1>1. st' = [st EXCEPT !.programs[pg] = "CLOSED"] /\ st.programs[pg] = "EVALUATED"
  BY DEF CloseProgram, Commit
<1>2. /\ st'.programs = [st.programs EXCEPT ![pg] = "CLOSED"]
      /\ st'.artifacts = st.artifacts /\ st'.protocols = st.protocols
      /\ st'.experiments = st.experiments /\ st'.runs = st.runs
      /\ st'.bundles = st.bundles /\ st'.assessments = st.assessments
  BY <1>1 DEF Good, Typed, Projection, Names, Tables
<1>3. \A q \in Program, status \in DOMAIN Rank : Earned(st', q, status) => Earned(st, q, status)
  BY <1>2 DEF Earned
<1>4. /\ \A status \in {"RESULT_READY", "EVALUATED"} : Rank["EVALUATED"] >= Rank[status]
      /\ st.programs \in [Program -> DOMAIN Rank]
  BY RankFacts DEF Good, Typed
<1> QED
  BY <1>1, <1>2, <1>3, <1>4 DEF NewlyEarned

LEMMA ArtifactEarns ==
  ASSUME Good(st), NEW a \in Artifact, NEW pg \in Program, NEW kind, NEW producer,
         RegisterArtifact(a, pg, kind, producer)
  PROVE  NewlyEarned(st, st')
<1> DEFINE row == [program |-> pg, kind |-> kind, producer |-> producer]
           made == [st EXCEPT !.artifacts = Put(st.artifacts, a, row)]
           raised == Advance(made, pg, "IMPLEMENTED")
<1>1. PICK targets, pts :
        st' \in {IF kind = "implementation"
                 THEN Credit(raised, "IMPLEMENTATION", targets, pg, pts) ELSE made, st}
  BY Zenon DEF RegisterArtifact, CommitReferring, Commit
<1>2. row.kind = kind /\ row.program = pg
  OBVIOUS
<1> HIDE DEF row
<1>3. /\ Projection(made) /\ made.artifacts = Put(st.artifacts, a, row)
      /\ \A t \in Names \ {"artifacts"} : made[t] = st[t]
  BY DEF Good, Typed, Projection, Names, Tables
<1> HIDE DEF made
<1>4. made.programs = st.programs /\ st.programs \in [Program -> DOMAIN Rank]
  BY <1>3 DEF Names, Good, Typed
<1>5. /\ made.experiments = st.experiments /\ made.protocols = st.protocols
      /\ made.runs = st.runs /\ made.bundles = st.bundles
      /\ made.assessments = st.assessments
  BY <1>3 DEF Names, Tables
<1>6. \A y \in DOMAIN made.artifacts :
        \/ y \in DOMAIN st.artifacts /\ made.artifacts[y] = st.artifacts[y]
        \/ made.artifacts[y] = row
  BY <1>3 DEF Put
<1>7. CASE st' = st
  BY <1>7, SameEarns
<1>8. CASE st' = made /\ kind # "implementation"
  <2>1. \A q \in Program, status \in DOMAIN Rank : Earned(st', q, status) => Earned(st, q, status)
    BY <1>2, <1>5, <1>6, <1>8 DEF Earned
  <2> QED
    BY <1>4, <1>8, <2>1, StayEarns
<1>9. CASE st' = Credit(raised, "IMPLEMENTATION", targets, pg, pts) /\ kind = "implementation"
  <2>1. /\ Projection(raised) /\ \A t \in Tables : raised[t] = made[t]
        /\ raised.programs \in [Program -> DOMAIN Rank]
        /\ \A q \in Program : raised.programs[q] # made.programs[q]
                                => q = pg /\ raised.programs[q] = "IMPLEMENTED"
        /\ Rank[raised.programs[pg]] >= Rank["IMPLEMENTED"]
    BY <1>3, <1>4, AdvanceFacts, RankFacts
  <2> HIDE DEF raised
  <2>2. \A t \in Names \ {"workings"} : st'[t] = raised[t]
    BY <1>9, <2>1, CreditTables
  <2>3. /\ st'.artifacts = made.artifacts /\ st'.protocols = made.protocols
        /\ st'.experiments = made.experiments /\ st'.runs = made.runs
        /\ st'.bundles = made.bundles /\ st'.assessments = made.assessments
        /\ st'.programs = raised.programs
    BY <2>1, <2>2 DEF Names, Tables
  <2>4. \A q \in Program, status \in DOMAIN Rank :
          Earned(st', q, status) => Earned(st, q, status) \/ (q = pg /\ status = "IMPLEMENTED")
    BY <1>2, <1>5, <1>6, <2>3 DEF Earned
  <2>5. /\ "IMPLEMENTED" \in DOMAIN Rank /\ ~(Rank["IMPLEMENTED"] >= Rank["RESULT_READY"])
        /\ ~(Rank["IMPLEMENTED"] >= Rank["EVALUATED"])
    BY RankFacts
  <2>6. /\ st'.programs \in [Program -> DOMAIN Rank]
        /\ \A q \in Program : st'.programs[q] # st.programs[q]
                                => q = pg /\ st'.programs[q] = "IMPLEMENTED"
        /\ Rank[st'.programs[pg]] >= Rank["IMPLEMENTED"]
    BY <1>4, <2>1, <2>3
  <2>7. \A status \in {"RESULT_READY", "EVALUATED"} :
          Rank["IMPLEMENTED"] >= Rank[status] => Earned(st', pg, status)
    BY <2>5
  <2>8. "IMPLEMENTED" \in DOMAIN Rank
    BY <2>5
  <2>9. RaisedTo(st, st', pg, "IMPLEMENTED")
    BY <1>4, <2>4, <2>6, <2>7, <2>8 DEF RaisedTo
  <2> QED
    BY <1>4, <2>4, <2>6, <2>7, <2>8, <2>9, RaiseEarns
<1> QED
  BY <1>1, <1>7, <1>8, <1>9

LEMMA DeviationEarns ==
  ASSUME Good(st), NEW d \in Deviation, NEW pt \in Protocol, NEW affected,
         RecordDeviation(d, pt, affected)
  PROVE  NewlyEarned(st, st')
<1> DEFINE row == [program |-> st.protocols[pt].program, protocol |-> pt]
           m == [st EXCEPT !.deviations = Put(st.deviations, d, row)]
           new == [m.protocols[drafted] EXCEPT !.deviations = @ \cup {d}]
           n == [m EXCEPT !.protocols = [m.protocols EXCEPT ![drafted] = new]]
<1>1. st' = n \/ st' = st
  BY DEF RecordDeviation, CommitReferring, Commit
<1> HIDE DEF row
<1>2. Projection(m) /\ \A t \in Names \ {"deviations"} : m[t] = st[t]
  BY DEF Good, Typed, Projection, Names, Tables
<1>3. m.protocols = st.protocols
  BY <1>2 DEF Names, Tables
<1> HIDE DEF m
<1>4. drafted \in DOMAIN st.protocols =>
        new.program = st.protocols[drafted].program /\ new.status = st.protocols[drafted].status
  BY <1>3 DEF Good, Typed, ProtocolRow
<1> HIDE DEF new
<1>5. /\ n.protocols = [st.protocols EXCEPT ![drafted] = new]
      /\ \A t \in Names \ {"deviations", "protocols"} : n[t] = st[t]
  BY <1>2, <1>3 DEF Projection, Names, Tables
<1> HIDE DEF n
<1>6. /\ n.programs = st.programs /\ n.artifacts = st.artifacts
      /\ n.experiments = st.experiments /\ n.runs = st.runs
      /\ n.bundles = st.bundles /\ n.assessments = st.assessments
  BY <1>5 DEF Names, Tables
<1>7. \A y \in DOMAIN n.protocols :
        /\ y \in DOMAIN st.protocols
        /\ n.protocols[y].status = st.protocols[y].status
        /\ n.protocols[y].program = st.protocols[y].program
  BY <1>4, <1>5
<1>8. \A q \in Program, status \in DOMAIN Rank : Earned(n, q, status) => Earned(st, q, status)
  BY <1>6, <1>7 DEF Earned
<1>9. NewlyEarned(st, n)
  BY <1>6, <1>8, StayEarns
<1> QED
  BY <1>1, <1>9, SameEarns

(* The commands that make records of other kinds owe nothing.              *)
LEMMA DecisionEarns ==
  ASSUME Good(st), NEW pg \in Program, NEW outcome, NEW assessed,
         SealDecision(pg, outcome, assessed)
  PROVE  NewlyEarned(st, st')
<1>1. PICK table, targets, pts :
        st' = Credit([st EXCEPT !.decisions = table], "DECISION", targets, pg, pts)
  BY Zenon DEF SealDecision, Commit
<1> DEFINE n == [st EXCEPT !.decisions = table]
<1>2. Projection(n) /\ \A t \in Names \ {"decisions"} : n[t] = st[t]
  BY DEF Good, Typed, Projection, Names, Tables
<1> HIDE DEF n
<1>3. \A t \in Names \ {"workings"} : st'[t] = n[t]
  BY <1>1, <1>2, CreditTables DEF n
<1>4. \A t \in Earning \cup {"programs"} : st'[t] = st[t]
  BY <1>2, <1>3 DEF Earning, Names, Tables
<1> QED
  BY <1>4, SameEarns

LEMMA OthersEarn ==
  ASSUME Good(st),
         \/ \E table : st' = [st EXCEPT !.workings = table]
         \/ \E table : st' = [st EXCEPT !.issues = table]
         \/ \E table : st' = [st EXCEPT !.reproductions = table]
         \/ st' = st
  PROVE  NewlyEarned(st, st')
<1>1. \A t \in Earning \cup {"programs"} : st'[t] = st[t]
  BY DEF Good, Typed, Projection, Names, Tables, Earning
<1> QED
  BY <1>1, SameEarns

(* Whatever the step, it pays what it owes.                                *)
LEMMA NextEarns ==
  ASSUME Good(st), [Next]_vars
  PROVE  NewlyEarned(st, st')
<1>1. ASSUME NEW draft \in Drafts, DraftProtocol(draft) PROVE NewlyEarned(st, st')
  BY <1>1, DraftEarns
<1>2. ASSUME NEW pt \in Protocol, SealProtocol(pt) \/ CreateWorking(pt) \/ ComputeAnalysis(pt)
      PROVE  NewlyEarned(st, st')
  <2>1. CASE CreateWorking(pt)
    BY <2>1, OthersEarn DEF CreateWorking, Commit
  <2> QED
    BY <1>2, <2>1, SealEarns, AnalysisEarns
<1>3. ASSUME NEW e \in Experiment, NEW pt \in Protocol,
             NEW asked \in DOMAIN st.workings \cup {NoWorking},
             NEW hyps \in {{}} \cup { {h} : h \in Hypothesis },
             PlanExperiment(e, pt, hyps, asked)
      PROVE  NewlyEarned(st, st')
  BY <1>3, PlanEarns
<1>4. ASSUME NEW e \in Experiment, TransitionExperiment(e) \/ CancelExperiment(e)
      PROVE  NewlyEarned(st, st')
  BY <1>4, TransitionEarns, CancelEarns
<1>5. ASSUME NEW r \in Run, NEW e \in Experiment, NEW said \in Recordings,
             RecordRun(r, e, said)
      PROVE  NewlyEarned(st, st')
  BY <1>5, RunEarns
<1>6. ASSUME NEW b \in DOMAIN st.bundles, NEW hyps \in SUBSET Hypothesis,
             NEW findings \in [hyps -> Verdicts], ReviewResult(b, findings)
      PROVE  NewlyEarned(st, st')
  BY <1>6, ReviewEarns
<1>7. ASSUME NEW pg \in Program, NEW outcome \in Outcomes,
             NEW assessed \in SUBSET DOMAIN st.assessments,
             SealDecision(pg, outcome, assessed)
      PROVE  NewlyEarned(st, st')
  BY <1>7, DecisionEarns
<1>8. ASSUME NEW pg \in Program, CloseProgram(pg) PROVE NewlyEarned(st, st')
  BY <1>8, CloseEarns
<1>9. ASSUME NEW a \in Artifact, NEW pg \in Program, NEW kind \in Kinds,
             NEW producer \in Objects(st), RegisterArtifact(a, pg, kind, producer)
      PROVE  NewlyEarned(st, st')
  BY <1>9, ArtifactEarns
<1>10. ASSUME NEW i \in Issue, NEW pg \in Program, NEW o \in Objects(st),
              NEW severity \in {"LOW", "CRITICAL"}, OpenIssue(i, pg, {o}, severity)
       PROVE  NewlyEarned(st, st')
  BY <1>10, OthersEarn DEF OpenIssue, CommitReferring, Commit
<1>11. ASSUME NEW i \in Issue, ResolveIssue(i) PROVE NewlyEarned(st, st')
  BY <1>11, OthersEarn DEF ResolveIssue, Commit
<1>12. ASSUME NEW d \in Deviation, NEW pt \in Protocol,
              NEW affected \in {{}} \cup { {o} : o \in Objects(st) },
              RecordDeviation(d, pt, affected)
       PROVE  NewlyEarned(st, st')
  BY <1>12, DeviationEarns
<1>13. ASSUME NEW x \in Reproduction, NEW pg \in Program, NEW runs \in SUBSET DOMAIN st.runs,
              NEW b \in DOMAIN st.bundles, NEW artifacts \in SUBSET DOMAIN st.artifacts,
              NEW a \in DOMAIN st.assessments,
              RecordReproduction(x, pg, runs, b, artifacts, a)
       PROVE  NewlyEarned(st, st')
  BY <1>13, OthersEarn DEF RecordReproduction, Commit
<1>14. ASSUME UNCHANGED vars PROVE NewlyEarned(st, st')
  BY <1>14, OthersEarn DEF vars
<1> QED
  BY <1>1, <1>2, <1>3, <1>4, <1>5, <1>6, <1>7, <1>8, <1>9, <1>10, <1>11, <1>12, <1>13, <1>14
     DEF Next

(* Nothing is earned before the first Protocol is drafted.                 *)
LEMMA InitEarned == Init => AllEarned(st)
<1> SUFFICES ASSUME Init
             PROVE  AllEarned(st)
  OBVIOUS
<1>1. /\ st.programs = [p \in Program |-> "RQ_FROZEN"]
      /\ st.protocols = << >> /\ st.artifacts = << >> /\ st.experiments = << >>
      /\ st.runs = << >> /\ st.bundles = << >> /\ st.assessments = << >>
  BY DEF Init, Tables
<1>2. \A pg \in Program, status \in DOMAIN Rank : ~Earned(st, pg, status)
  BY <1>1 DEF Earned
<1>3. /\ ~(Rank["RQ_FROZEN"] >= Rank["RESULT_READY"])
      /\ ~(Rank["RQ_FROZEN"] >= Rank["EVALUATED"])
  BY DEF Rank
<1>4. \A pg \in Program : st.programs[pg] = "RQ_FROZEN"
  BY <1>1
<1> QED
  BY <1>2, <1>3, <1>4 DEF AllEarned, StatusEarned

(* A Program has the status that its records earned it, whichever command  *)
(* came last: late work on a CLOSED Program neither reopens nor lowers it, *)
(* and a Program is CLOSED on a Decision over Assessments of its own only. *)
THEOREM StatusAlwaysEarned == Spec => StatusStaysEarned
<1> DEFINE Inv == Good(st) /\ AllEarned(st)
<1>1. Init => Inv
  BY InitGood, InitEarned
<1>2. Inv /\ [Next]_vars => Inv'
  <2> SUFFICES ASSUME Inv, [Next]_vars
               PROVE  Inv'
    OBVIOUS
  <2>1. Better(st, st') /\ NewlyEarned(st, st')
    BY NextBetter, NextEarns
  <2>2. Good(st') /\ AllEarned(st')
    BY <2>1, EarnedKept DEF Better
  <2> QED
    BY <2>2
<1>3. Inv /\ [Next]_vars =>
        [\A pg \in Program : /\ StatusEarned(st', pg)
                             /\ Rank[st'.programs[pg]] >= Rank[st.programs[pg]]]_vars
  <2> SUFFICES ASSUME Inv, [Next]_vars, NEW pg \in Program
               PROVE  /\ StatusEarned(st', pg)
                      /\ Rank[st'.programs[pg]] >= Rank[st.programs[pg]]
    OBVIOUS
  <2>1. Better(st, st') /\ NewlyEarned(st, st')
    BY NextBetter, NextEarns
  <2>2. AllEarned(st')
    BY <2>1, EarnedKept
  <2> QED
    BY <2>1, <2>2 DEF Better, Extends, AllEarned
<1> QED
  BY <1>1, <1>2, <1>3, PTL DEF Spec, StatusStaysEarned

=============================================================================
