------------------------------- MODULE Study -------------------------------
(***************************************************************************)
(* The scientific lifecycle that the Athanor kernel keeps in the           *)
(* Chronicle: Protocols, Workings, Experiments, Runs, Result Bundles,      *)
(* Assessments, Decisions and the integrity records.                       *)
(*                                                                         *)
(* A command builds one event from the projection of the ledger, checking  *)
(* its own guards, and the Chronicle appends it; the projection of the     *)
(* longer ledger is then what the projector makes of that event, which it  *)
(* checks again and finishes by advancing at most one Working.  `st' is    *)
(* that projection, one table per kind of object.  An action is one        *)
(* accepted command; a refused command changes nothing.  The projector's   *)
(* checks that repeat the builder's on the same projection are not written *)
(* twice: the one that differs, over the objects a record refers to, is.   *)
(***************************************************************************)
EXTENDS Naturals, FiniteSets

CONSTANTS
  Program, Hypothesis, Protocol, Experiment, Run,   \* caller-chosen ids
  Artifact, Issue, Deviation, Reproduction,
  HomeOf,           \* the Program of each Hypothesis, created before the study
  Drafts,           \* what drafts say: id, Program, Hypotheses, mode, spec
  Recordings,       \* what a Run says: arm, phase, whether it is included
  NoSpec, NoWorking, NoArm,
  Outcomes,         \* the Decision outcomes that callers use
  Kinds,            \* the kinds of Artifact that they register
  MaxWorkings, MaxBundles, MaxAssessments, MaxDecisions,
  MaxRecords        \* bound on Artifacts, Issues, Deviations, Reproductions

(* Every kind of id has a prefix of its own (RP-, HY-, PT-, EX-, RUN-, ...),  *)
(* those the Athanor generates too; a registered analysis compares something. *)
Generated == {"WK", "RB", "AS", "DE"} \X Nat
NamedIds == [programs |-> Program, hypotheses |-> Hypothesis, protocols |-> Protocol,
             experiments |-> Experiment, runs |-> Run, artifacts |-> Artifact,
             issues |-> Issue, deviations |-> Deviation, reproductions |-> Reproduction]
Registration == { r \in [comparisons : SUBSET Experiment, pilots : SUBSET Run] :
                    r.comparisons # {} }

ASSUME IdAssumption ==
  /\ \A t, u \in DOMAIN NamedIds : t # u => NamedIds[t] \cap NamedIds[u] = {}
  /\ \A t \in DOMAIN NamedIds : NamedIds[t] \cap Generated = {}
  /\ NoWorking \notin Generated

ASSUME DraftAssumption ==
  /\ HomeOf \in [Hypothesis -> Program]
  /\ \A draft \in Drafts :
       /\ draft.id \in Protocol /\ draft.program \in Program
       /\ draft.hypotheses \subseteq Hypothesis
       /\ draft.mode \in {"confirmatory", "exploratory"}
       /\ draft.spec # NoSpec => draft.spec \in Registration

VARIABLES
  st,               \* the projection: one table per collection
  drafted,          \* `protocol', the local the projector leaves at the last draft
  replays           \* FALSE once the projector rejects the ledger

vars == <<st, drafted, replays>>

Arms == {"control", "treatment"}
Verdicts == {"SUPPORTED", "NOT_SUPPORTED"}

(* PROGRAM_STATUS_ORDER, from the stage at which a Protocol can be drafted. *)
Rank == [RQ_FROZEN |-> 4, DESIGN_FROZEN |-> 5, IMPLEMENTED |-> 6, PILOTED |-> 7,
         RUNNING |-> 8, RESULT_READY |-> 9, EVALUATED |-> 10, CLOSED |-> 11]

(* The stages of computational-study@0.2.1, in order. *)
NextStage == [IMPLEMENTATION |-> "PILOT", PILOT |-> "ANALYSIS",
              ANALYSIS |-> "REVIEW", REVIEW |-> "DECISION",
              DECISION |-> "COMPLETED"]
StageRank == [IMPLEMENTATION |-> 0, PILOT |-> 1, ANALYSIS |-> 2,
              REVIEW |-> 3, DECISION |-> 4, COMPLETED |-> 5]

Tables == {"protocols", "hypotheses", "workings", "experiments", "runs",
           "bundles", "assessments", "decisions", "artifacts", "issues",
           "deviations", "reproductions"}
-----------------------------------------------------------------------------
(* Reading and extending a projection.                                     *)

Put(table, id, record) ==
  [x \in DOMAIN table \cup {id} |-> IF x = id THEN record ELSE table[x]]

(* The number in a generated id WK-, RB-, AS- or DE-.                        *)
NextNumber(table) == Cardinality(DOMAIN table) + 1

(* Mutant of Belongs: the owner's Program is not compared. *)
BelongsAnywhere(s, id, pg, tables) ==
  id = pg \/ \E t \in tables : id \in DOMAIN s[t]

(* _state_object_program_id and _object_program_id: id names the Program    *)
(* itself or an object of it, in one of the tables that are looked up.      *)
Belongs(s, id, pg, tables) ==
  \/ id = pg
  \/ \E t \in tables : id \in DOMAIN s[t] /\ s[t][id].program = pg

(* A command looks a reference up in all of PROGRAM_OBJECT_COLLECTIONS; the  *)
(* projector's lists stop short of the Reproduction Records.                 *)
CommandTables == Tables
ProjectorTables == Tables \ {"reproductions"}

Objects(s) == Program \cup UNION { DOMAIN s[t] : t \in Tables }

(* Mutant of Advance: later work reopens a Program that is CLOSED. *)
AdvanceReopening(s, pg, status) ==
  IF s.programs[pg] = "CLOSED" \/ Rank[status] > Rank[s.programs[pg]]
  THEN [s EXCEPT !.programs[pg] = status] ELSE s

(* Mutant of Advance: a status may also fall. *)
AdvanceAnyway(s, pg, status) == [s EXCEPT !.programs[pg] = status]

(* _advance_program: a Program's status is only raised. *)
Advance(s, pg, status) ==
  IF Rank[status] > Rank[s.programs[pg]]
  THEN [s EXCEPT !.programs[pg] = status] ELSE s

(* Mutant of PilotComplete: the Runs may be another Experiment's. *)
PilotCompleteForAnyExperiment(s, e) ==
  LET spec == s.protocols[s.experiments[e].protocol].spec
  IN  /\ spec # NoSpec
      /\ spec.pilots # {}
      /\ spec.pilots \subseteq DOMAIN s.runs
      /\ \A r \in spec.pilots : s.runs[r].phase = "PILOT"
      /\ e \in spec.comparisons =>
           Arms \subseteq { s.runs[r].arm : r \in spec.pilots }

(* _validate_pilot_completion: the Pilot Runs the Protocol registered are   *)
(* all recorded, as Pilot Runs of this Experiment, and cover its arms.      *)
PilotComplete(s, e) ==
  LET spec == s.protocols[s.experiments[e].protocol].spec
  IN  /\ spec # NoSpec
      /\ spec.pilots # {}
      /\ spec.pilots \subseteq DOMAIN s.runs
      /\ \A r \in spec.pilots : s.runs[r].experiment = e /\ s.runs[r].phase = "PILOT"
      /\ e \in spec.comparisons =>
           Arms \subseteq { s.runs[r].arm : r \in spec.pilots }

(* The Workings of the Experiments that a Result Bundle compares.  NoWorking *)
(* among them is incomplete lineage, which is no single Working's either.    *)
BundleWorkings(s, b) == { s.experiments[e].working : e \in s.bundles[b].comparisons }

DecisionWorkings(s, assessed) ==
  UNION { BundleWorkings(s, s.assessments[a].bundle) : a \in assessed }

(* Mutant of Credit: the stage before is not required. *)
CreditAtAnyStage(s, stage, targets, pg, pts) ==
  [s EXCEPT !.workings =
     [w \in DOMAIN @ |->
        IF targets = {w} /\ @[w].stage # "COMPLETED"
        THEN [@[w] EXCEPT !.stage = NextStage[@]] ELSE @[w]]]

(* _advance_workings_for_event: an event that exits `stage' moves the one   *)
(* Working its lineage names, when that Working is at the stage and is of   *)
(* the event's Program and of one of its Protocols.                         *)
Credit(s, stage, targets, pg, pts) ==
  [s EXCEPT !.workings =
     [w \in DOMAIN @ |->
        IF /\ targets = {w}
           /\ @[w].stage = stage
           /\ @[w].program = pg /\ @[w].protocol \in pts
        THEN [@[w] EXCEPT !.stage = NextStage[stage]] ELSE @[w]]]

(* The ledger, which projects so far, takes the event: its projection is s. *)
Commit(s) == replays /\ st' = s /\ UNCHANGED replays

(* An event whose references the projector refuses stays in the ledger, and *)
(* every later projection raises.                                           *)
CommitReferring(s, ids, pg) ==
  IF \A id \in ids : Belongs(st, id, pg, ProjectorTables)
  THEN Commit(s)
  ELSE replays /\ replays' = FALSE /\ UNCHANGED st

RoomForRecord ==
  Cardinality(DOMAIN st.artifacts) + Cardinality(DOMAIN st.issues)
    + Cardinality(DOMAIN st.deviations) + Cardinality(DOMAIN st.reproductions)
  < MaxRecords
-----------------------------------------------------------------------------
(* The Programs stand at RQ_FROZEN with their Hypotheses registered; the     *)
(* commands that lead there touch no table of this module but hypotheses.    *)
Init ==
  /\ st = [t \in Tables \cup {"programs"} |->
             CASE t = "programs" -> [p \in Program |-> "RQ_FROZEN"]
               [] t = "hypotheses" -> [h \in Hypothesis |->
                                         [program |-> HomeOf[h], status |-> "PROPOSED"]]
               [] OTHER -> << >>]
  /\ drafted = NoSpec
  /\ replays = TRUE

DraftProtocol(draft) ==
  /\ draft.id \notin DOMAIN st.protocols
  /\ draft.mode = "confirmatory" => draft.hypotheses # {}
  /\ \A h \in draft.hypotheses : st.hypotheses[h].program = draft.program
  /\ Commit([st EXCEPT !.protocols = Put(@, draft.id,
       [program |-> draft.program, hypotheses |-> draft.hypotheses,
        mode |-> draft.mode, spec |-> draft.spec,
        status |-> "DRAFT", deviations |-> {}])])
  /\ drafted' = draft.id

SealProtocol(pt) ==
  /\ pt \in DOMAIN st.protocols /\ st.protocols[pt].status = "DRAFT"
  /\ Commit(Advance([st EXCEPT !.protocols[pt].status = "FROZEN"],
                    st.protocols[pt].program, "DESIGN_FROZEN"))
  /\ UNCHANGED drafted

(* Mutant of Frozen: the seal is not required. *)
Drafted(pt) == pt \in DOMAIN st.protocols

Frozen(pt) == pt \in DOMAIN st.protocols /\ st.protocols[pt].status = "FROZEN"

CreateWorking(pt) ==
  /\ Cardinality(DOMAIN st.workings) < MaxWorkings
  /\ Frozen(pt)
  /\ Commit([st EXCEPT !.workings = Put(@, <<"WK", NextNumber(@)>>,
       [program |-> st.protocols[pt].program, protocol |-> pt,
        stage |-> "IMPLEMENTATION"])])
  /\ UNCHANGED drafted

MatchingWorkings(pt) ==
  { w \in DOMAIN st.workings :
      st.workings[w].protocol = pt /\ st.workings[w].stage # "COMPLETED" }

(* create_experiment: a Working asked for must match; when none is, the one  *)
(* that matches is taken and the choice among several is refused.            *)
WorkingFor(pt, asked) ==
  IF asked # NoWorking THEN {asked} \cap MatchingWorkings(pt)
  ELSE IF MatchingWorkings(pt) = {} THEN {NoWorking}
  ELSE IF Cardinality(MatchingWorkings(pt)) = 1 THEN MatchingWorkings(pt)
  ELSE {}

(* hyps holds the registered Hypothesis under test, if the command names one. *)
PlanExperiment(e, pt, hyps, asked) ==
  /\ Frozen(pt)
  /\ e \notin DOMAIN st.experiments
  /\ hyps \subseteq st.protocols[pt].hypotheses
  /\ \E w \in WorkingFor(pt, asked) :
       Commit([st EXCEPT
         !.experiments = Put(@, e,
            [program |-> st.protocols[pt].program, protocol |-> pt, working |-> w,
             status |-> "PLANNED", piloted |-> FALSE]),
         !.hypotheses = [h \in DOMAIN @ |-> IF h \in hyps
                           THEN [@[h] EXCEPT !.status = "ACTIVE"] ELSE @[h]]])
  /\ UNCHANGED drafted

(* transition_experiment.  `piloted' stands for PILOT_COMPLETED in the       *)
(* Experiment's history, which a cancellation keeps.                         *)
NextStatus == [PLANNED |-> "IMPLEMENTED", IMPLEMENTED |-> "PILOT_RUNNING",
               PILOT_RUNNING |-> "PILOT_COMPLETED",
               PILOT_COMPLETED |-> "FORMAL_RUNNING", FORMAL_RUNNING |-> "COMPLETED"]

ExperimentAdvances == [IMPLEMENTED |-> "IMPLEMENTED", PILOT_COMPLETED |-> "PILOTED",
                       FORMAL_RUNNING |-> "RUNNING"]

TransitionExperiment(e) ==
  /\ e \in DOMAIN st.experiments /\ st.experiments[e].status \in DOMAIN NextStatus
  /\ LET x == st.experiments[e]
         to == NextStatus[x.status]
         moved == [st EXCEPT !.experiments[e].status = to,
                             !.experiments[e].piloted = @ \/ to = "PILOT_COMPLETED"]
         raised == IF to \in DOMAIN ExperimentAdvances
                   THEN Advance(moved, x.program, ExperimentAdvances[to]) ELSE moved
     IN  /\ to = "PILOT_COMPLETED" => PilotComplete(st, e)
         /\ Commit(IF to = "PILOT_COMPLETED"
                   THEN Credit(raised, "PILOT", {x.working}, x.program, {x.protocol})
                   ELSE raised)
  /\ UNCHANGED drafted

CancelExperiment(e) ==
  /\ e \in DOMAIN st.experiments /\ st.experiments[e].status \in DOMAIN NextStatus
  /\ Commit([st EXCEPT !.experiments[e].status = "CANCELLED"])
  /\ UNCHANGED drafted

(* record_run takes a Run of an Experiment in any status.  `included' stands *)
(* for a COMPLETED Run that enters the analysis.                             *)
RecordRun(r, e, said) ==
  /\ e \in DOMAIN st.experiments /\ r \notin DOMAIN st.runs
  /\ LET x == st.experiments[e]
         recorded == [st EXCEPT !.runs = Put(@, r,
                        [program |-> x.program, protocol |-> x.protocol,
                         experiment |-> e, arm |-> said.arm, phase |-> said.phase,
                         included |-> said.included])]
     IN  /\ st.protocols[x.protocol].spec # NoSpec => said.arm # NoArm
         /\ Commit(IF said.phase = "PILOT" THEN recorded
                   ELSE Advance(recorded, x.program, "RUNNING"))
  /\ UNCHANGED drafted

(* compute_analysis and build_result_bundle: every registered comparison has *)
(* an Experiment of the Protocol and an included Run in each arm.            *)
ComputeAnalysis(pt) ==
  /\ Cardinality(DOMAIN st.bundles) < MaxBundles
  /\ Drafted(pt) /\ st.protocols[pt].spec # NoSpec
  /\ LET p == st.protocols[pt]
         b == <<"RB", NextNumber(st.bundles)>>
         made == Advance([st EXCEPT !.bundles = Put(@, b,
                            [program |-> p.program, protocol |-> pt,
                             comparisons |-> p.spec.comparisons])],
                         p.program, "RESULT_READY")
     IN  /\ \A e \in p.spec.comparisons :
              /\ e \in DOMAIN st.experiments /\ st.experiments[e].protocol = pt
              /\ \A arm \in Arms : \E r \in DOMAIN st.runs :
                   /\ st.runs[r].experiment = e /\ st.runs[r].arm = arm
                   /\ st.runs[r].included
         /\ Commit(Credit(made, "ANALYSIS", BundleWorkings(made, b), p.program, {pt}))
  /\ UNCHANGED drafted

(* Mutant of ReviewResult: the Protocol's Hypotheses are not compared. *)
ReviewOfAnyHypothesis(b, findings) ==
  /\ Cardinality(DOMAIN st.assessments) < MaxAssessments
  /\ b \in DOMAIN st.bundles
  /\ LET bundle == st.bundles[b]
         p == st.protocols[bundle.protocol]
         reviewed == [st EXCEPT
            !.assessments = Put(@, <<"AS", NextNumber(@)>>,
               [program |-> bundle.program, protocol |-> bundle.protocol,
                bundle |-> b, findings |-> findings]),
            !.hypotheses = [h \in DOMAIN @ |-> IF h \in DOMAIN findings
                              THEN [@[h] EXCEPT !.status = findings[h]] ELSE @[h]]]
     IN  /\ p.mode = "confirmatory" => DOMAIN findings # {}
         /\ Commit(Credit(Advance(reviewed, bundle.program, "EVALUATED"), "REVIEW",
                          BundleWorkings(st, b), bundle.program, {bundle.protocol}))
  /\ UNCHANGED drafted

(* findings gives a verdict on some of the Protocol's Hypotheses. *)
ReviewResult(b, findings) ==
  /\ Cardinality(DOMAIN st.assessments) < MaxAssessments
  /\ b \in DOMAIN st.bundles
  /\ LET bundle == st.bundles[b]
         p == st.protocols[bundle.protocol]
         reviewed == [st EXCEPT
            !.assessments = Put(@, <<"AS", NextNumber(@)>>,
               [program |-> bundle.program, protocol |-> bundle.protocol,
                bundle |-> b, findings |-> findings]),
            !.hypotheses = [h \in DOMAIN @ |-> IF h \in DOMAIN findings
                              THEN [@[h] EXCEPT !.status = findings[h]] ELSE @[h]]]
     IN  /\ p.mode = "confirmatory" => DOMAIN findings # {}
         /\ DOMAIN findings \subseteq p.hypotheses
         /\ Commit(Credit(Advance(reviewed, bundle.program, "EVALUATED"), "REVIEW",
                          BundleWorkings(st, b), bundle.program, {bundle.protocol}))
  /\ UNCHANGED drafted

(* The local argument checks of REPAIR and PIVOT tell no states apart. *)
SealDecision(pg, outcome, assessed) ==
  /\ Cardinality(DOMAIN st.decisions) < MaxDecisions
  /\ assessed # {} /\ \A a \in assessed : st.assessments[a].program = pg
  /\ outcome = "REVIEW_REQUIRED" => Cardinality(assessed) >= 2
  /\ LET open == { i \in DOMAIN st.issues :
                     st.issues[i].program = pg /\ st.issues[i].status = "OPEN" }
         sealed == [st EXCEPT !.decisions = Put(@, <<"DE", NextNumber(@)>>,
                      [program |-> pg, outcome |-> outcome, assessed |-> assessed,
                       issues |-> open])]
     IN  /\ outcome = "CONTINUE" => \A i \in open : st.issues[i].severity # "CRITICAL"
         /\ Commit(Credit(sealed, "DECISION", DecisionWorkings(st, assessed), pg,
                          { st.assessments[a].protocol : a \in assessed }))
  /\ UNCHANGED drafted

CloseProgram(pg) ==
  /\ st.programs[pg] = "EVALUATED"
  /\ \E d \in DOMAIN st.decisions : st.decisions[d].program = pg
  /\ Commit([st EXCEPT !.programs[pg] = "CLOSED"])
  /\ UNCHANGED drafted

(* The Working an Artifact's producer is, or is an Experiment of. *)
ProducerWorkings(producer) ==
  IF producer \in DOMAIN st.workings THEN {producer}
  ELSE IF producer \in DOMAIN st.experiments THEN {st.experiments[producer].working}
  ELSE {}

(* The inputs of an Artifact are checked as its producer is, and are left out. *)
RegisterArtifact(a, pg, kind, producer) ==
  /\ RoomForRecord
  /\ a \notin DOMAIN st.artifacts
  /\ Belongs(st, producer, pg, CommandTables)
  /\ LET made == [st EXCEPT !.artifacts = Put(@, a,
                    [program |-> pg, kind |-> kind, producer |-> producer])]
         credited == Credit(Advance(made, pg, "IMPLEMENTED"), "IMPLEMENTATION",
                            ProducerWorkings(producer), pg,
                            { st[t][producer].protocol :
                                t \in { t \in {"workings", "experiments"} :
                                        producer \in DOMAIN st[t] } })
     IN  CommitReferring(IF kind = "implementation" THEN credited ELSE made,
                         {producer}, pg)
  /\ UNCHANGED drafted

OpenIssue(i, pg, subjects, severity) ==
  /\ RoomForRecord
  /\ i \notin DOMAIN st.issues
  /\ subjects # {} /\ \A o \in subjects : Belongs(st, o, pg, CommandTables)
  /\ CommitReferring([st EXCEPT !.issues = Put(@, i,
                        [program |-> pg, severity |-> severity, status |-> "OPEN"])],
                     subjects, pg)
  /\ UNCHANGED drafted

ResolveIssue(i) ==
  /\ i \in DOMAIN st.issues /\ st.issues[i].status = "OPEN"
  /\ Commit([st EXCEPT !.issues[i].status = "RESOLVED"])
  /\ UNCHANGED drafted

(* The event names pt, but the projector appends the Deviation to `protocol', *)
(* the record that its last protocol.drafted branch assigned.                 *)
RecordDeviation(d, pt, affected) ==
  /\ RoomForRecord
  /\ d \notin DOMAIN st.deviations
  /\ Frozen(pt)
  /\ \A o \in affected : Belongs(st, o, st.protocols[pt].program, CommandTables)
  /\ CommitReferring([st EXCEPT
        !.deviations = Put(@, d, [program |-> st.protocols[pt].program, protocol |-> pt]),
        !.protocols[drafted].deviations = @ \cup {d}],
      affected, st.protocols[pt].program)
  /\ UNCHANGED drafted

(* pg is the Program of the Evidence that is said to be reproduced. *)
RecordReproduction(x, pg, runs, b, artifacts, a) ==
  /\ RoomForRecord
  /\ x \notin DOMAIN st.reproductions
  /\ runs # {} /\ artifacts # {}
  /\ \A r \in runs : st.runs[r].program = pg
  /\ \A f \in artifacts : st.artifacts[f].program = pg
  /\ st.bundles[b].program = pg /\ st.assessments[a].program = pg
  /\ Commit([st EXCEPT !.reproductions = Put(@, x,
       [program |-> pg, runs |-> runs, bundle |-> b, artifacts |-> artifacts,
        assessment |-> a])])
  /\ UNCHANGED drafted
-----------------------------------------------------------------------------
Next ==
  \/ \E draft \in Drafts : DraftProtocol(draft)
  \/ \E pt \in Protocol : SealProtocol(pt) \/ CreateWorking(pt) \/ ComputeAnalysis(pt)
  \/ \E e \in Experiment, pt \in Protocol, asked \in DOMAIN st.workings \cup {NoWorking},
        hyps \in {{}} \cup { {h} : h \in Hypothesis } :
       PlanExperiment(e, pt, hyps, asked)
  \/ \E e \in Experiment : TransitionExperiment(e) \/ CancelExperiment(e)
  \/ \E r \in Run, e \in Experiment, said \in Recordings : RecordRun(r, e, said)
  \/ \E b \in DOMAIN st.bundles, hyps \in SUBSET Hypothesis :
       \E findings \in [hyps -> Verdicts] : ReviewResult(b, findings)
  \/ \E pg \in Program, outcome \in Outcomes,
        assessed \in SUBSET DOMAIN st.assessments : SealDecision(pg, outcome, assessed)
  \/ \E pg \in Program : CloseProgram(pg)
  \/ \E a \in Artifact, pg \in Program, kind \in Kinds,
        producer \in Objects(st) : RegisterArtifact(a, pg, kind, producer)
  \/ \E i \in Issue, pg \in Program, o \in Objects(st), severity \in {"LOW", "CRITICAL"} :
       OpenIssue(i, pg, {o}, severity)
  \/ \E i \in Issue : ResolveIssue(i)
  \/ \E d \in Deviation, pt \in Protocol,
        affected \in {{}} \cup { {o} : o \in Objects(st) } :
       RecordDeviation(d, pt, affected)
  \/ \E x \in Reproduction, pg \in Program, runs \in SUBSET DOMAIN st.runs,
        b \in DOMAIN st.bundles, artifacts \in SUBSET DOMAIN st.artifacts,
        a \in DOMAIN st.assessments : RecordReproduction(x, pg, runs, b, artifacts, a)

Spec == Init /\ [][Next]_vars
-----------------------------------------------------------------------------
(* What a reader of the ledger may infer from a Working's stage: an          *)
(* implementation Artifact produced in it, then an Experiment of it whose    *)
(* Pilot completed, a Result Bundle of its Experiments alone, an Assessment  *)
(* of such a Bundle, and a Decision on such Assessments alone.               *)
WorkingsJustified ==
  \A w \in DOMAIN st.workings :
    LET at == StageRank[st.workings[w].stage]
        owned == { b \in DOMAIN st.bundles : BundleWorkings(st, b) = {w} }
        judged == { a \in DOMAIN st.assessments : st.assessments[a].bundle \in owned }
    IN  /\ at > 0 => \E f \in DOMAIN st.artifacts :
                       /\ st.artifacts[f].kind = "implementation"
                       /\ ProducerWorkings(st.artifacts[f].producer) = {w}
        /\ at > 1 => \E e \in DOMAIN st.experiments :
                       st.experiments[e].working = w /\ st.experiments[e].piloted
        /\ at > 2 => owned # {}
        /\ at > 3 => judged # {}
        /\ at > 4 => \E d \in DOMAIN st.decisions :
                       st.decisions[d].assessed \subseteq judged

(* A Working is never ahead of its Program: each stage it has left has also  *)
(* raised the Program to the matching status, whatever other Workings did.   *)
ProgramKeepsUp ==
  \A w \in DOMAIN st.workings :
    LET at == StageRank[st.workings[w].stage]
        reached == Rank[st.programs[st.workings[w].program]]
    IN  /\ at > 0 => reached >= Rank["IMPLEMENTED"]
        /\ at > 1 => reached >= Rank["PILOTED"]
        /\ at > 2 => reached >= Rank["RESULT_READY"]
        /\ at > 3 => reached >= Rank["EVALUATED"]

(* RFC-0005: one flat list of Pilot Runs supports one Pilot Experiment.  Two  *)
(* Experiments of a Protocol never both complete their Pilot, even if the    *)
(* first is cancelled afterwards.                                            *)
OnePilotPerProtocol ==
  \A e, f \in { x \in DOMAIN st.experiments : st.experiments[x].piloted } :
    st.experiments[e].protocol = st.experiments[f].protocol => e = f

(* RFC-0006: an analysis comes from a sealed Protocol that registered it.    *)
(* compute_analysis tests no Protocol status: the Experiments must bear it.  *)
AnalysisIsSealed ==
  \A b \in DOMAIN st.bundles :
    LET p == st.protocols[st.bundles[b].protocol]
    IN  p.status = "FROZEN" /\ p.spec # NoSpec

(* A reference never leaves its Program, also along several references: from *)
(* a Decision to the Runs behind it and to the Working that took the credit. *)
LineageInProgram ==
  /\ \A pt \in DOMAIN st.protocols, h \in Hypothesis :
       h \in st.protocols[pt].hypotheses
         => st.hypotheses[h].program = st.protocols[pt].program
  /\ \A e \in DOMAIN st.experiments :
       LET x == st.experiments[e] IN
       /\ x.program = st.protocols[x.protocol].program
       /\ x.working # NoWorking =>
            /\ st.workings[x.working].program = x.program
            /\ st.workings[x.working].protocol = x.protocol
  /\ \A d \in DOMAIN st.decisions : \A a \in st.decisions[d].assessed :
       LET bundle == st.bundles[st.assessments[a].bundle]
       IN  \A e \in bundle.comparisons :
             st.experiments[e].program = st.decisions[d].program
  /\ \A f \in DOMAIN st.artifacts, t \in Tables :
       LET x == st.artifacts[f] IN
       x.producer \in DOMAIN st[t] => st[t][x.producer].program = x.program

(* A confirmed or refuted Hypothesis has been judged: some Assessment of a   *)
(* Protocol that registered it gave that verdict.                            *)
VerdictsAssessed ==
  \A h \in Hypothesis :
    st.hypotheses[h].status \in Verdicts =>
      \E a \in DOMAIN st.assessments :
        /\ h \in st.protocols[st.assessments[a].protocol].hypotheses
        /\ h \in DOMAIN st.assessments[a].findings
        /\ st.assessments[a].findings[h] = st.hypotheses[h].status

(* The records of pg that earn it a status, in whatever order they are made. *)
(* An Experiment's formal start earns RUNNING too, but leaves no record that *)
(* a cancellation keeps.                                                     *)
Earned(s, pg, status) ==
  \/ /\ status = "DESIGN_FROZEN"
     /\ \E x \in DOMAIN s.protocols :
          s.protocols[x].program = pg /\ s.protocols[x].status = "FROZEN"
  \/ /\ status = "IMPLEMENTED"
     /\ \E x \in DOMAIN s.artifacts :
          s.artifacts[x].program = pg /\ s.artifacts[x].kind = "implementation"
  \/ /\ status = "PILOTED"
     /\ \E x \in DOMAIN s.experiments :
          s.experiments[x].program = pg /\ s.experiments[x].piloted
  \/ /\ status = "RUNNING"
     /\ \E x \in DOMAIN s.runs : s.runs[x].program = pg /\ s.runs[x].phase # "PILOT"
  \/ /\ status = "RESULT_READY"
     /\ \E x \in DOMAIN s.bundles : s.bundles[x].program = pg
  \/ /\ status = "EVALUATED"
     /\ \E x \in DOMAIN s.assessments : s.assessments[x].program = pg

(* The statuses that records have earned, whichever came last; a result or   *)
(* an evaluation of its own; CLOSED on a Decision over Assessments of its    *)
(* own alone.                                                                *)
StatusEarned(s, pg) ==
  LET at == Rank[s.programs[pg]]
  IN  /\ \A status \in DOMAIN Rank : Earned(s, pg, status) => at >= Rank[status]
      /\ \A status \in {"RESULT_READY", "EVALUATED"} :
           at >= Rank[status] => Earned(s, pg, status)
      /\ s.programs[pg] = "CLOSED" =>
           \E d \in DOMAIN s.decisions :
             /\ s.decisions[d].program = pg /\ s.decisions[d].assessed # {}
             /\ \A a \in s.decisions[d].assessed : s.assessments[a].program = pg

(* Commands stay accepted in every status of a Program.  Each leaves it at   *)
(* the status that the records of the Program have earned by then, and none  *)
(* lowers it or reopens it once it is CLOSED.                                *)
StatusStaysEarned ==
  [][\A pg \in Program : /\ StatusEarned(st', pg)
                         /\ Rank[st'.programs[pg]] >= Rank[st.programs[pg]]]_vars

(* Every event a command appends is one that replay accepts: RFC-0003 has    *)
(* the gates checked before the append and again during replay.              *)
LedgerReplays == replays
=============================================================================
