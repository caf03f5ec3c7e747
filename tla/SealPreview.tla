----------------------------- MODULE SealPreview -----------------------------
(***************************************************************************)
(* Sealing through the MCP server (mcp/runtime.py): a human confirms a     *)
(* preview before a Research Question, a Protocol or a Decision is sealed. *)
(*                                                                         *)
(* A preview is dry-run on an unlocked copy of the project and bound to    *)
(* the head the Chronicle has afterwards.  A commit runs under commit.lock,*)
(* which only commits take: it looks for a record under its idempotency    *)
(* key, compares the head, seals in a Chronicle transaction of its own,    *)
(* and writes the record.  The command line and the other tools keep       *)
(* appending to the Chronicle meanwhile, under the Chronicle's lock alone. *)
(* A server may be killed between any two of these steps.                  *)
(*                                                                         *)
(* A Chronicle transaction is one step here; Chronicle.tla opens it.       *)
(***************************************************************************)
EXTENDS Naturals, Sequences

CONSTANTS
  Session,       \* MCP servers on the project
  Once,          \* Questions and Protocols: sealed at most once
  Repeatable,    \* Decisions: the same arguments may be sealed again
  Key,           \* idempotency keys
  Free,          \* holder of commit.lock while nobody holds it
  MaxEvents, MaxPreviews, MaxKills

ASSUME SealAssumption ==
  /\ Free \notin Session
  /\ "none" \notin Once \cup Repeatable
  /\ MaxKills \in Nat

VARIABLES
  chronicle,     \* the events, as [target, preview]
  previews,      \* the preview files, as [target, head]
  records,       \* the idempotency records, as [key, preview, event]
  holder,        \* of commit.lock
  pc,            \* what each server is in the middle of
  answers,       \* commits answered with a receipt
  kills

vars == <<chronicle, previews, records, holder, pc, answers, kills>>

Target == Once \cup Repeatable

Idle == [at |-> "idle"]

Other == [target |-> "none", preview |-> 0]

SealsOf(t) == { i \in DOMAIN chronicle : chronicle[i].target = t }

(* Mutant of Gate: the PASS stored in the preview is believed. *)
GateOfPreview(t) == t \in Target

(* What the builders of the seal transactions test. *)
Gate(t) == t \in Once => SealsOf(t) = {}

-----------------------------------------------------------------------------
Init ==
  /\ chronicle = <<Other>>
  /\ previews = << >>
  /\ records = {}
  /\ holder = Free
  /\ pc = [s \in Session |-> Idle]
  /\ answers = {}
  /\ kills = 0

Extend(event) ==
  /\ Len(chronicle) < MaxEvents
  /\ chronicle' = Append(chronicle, event)

(* Everybody else: other tools, and seals made on the command line. *)
Command ==
  /\ \/ Extend(Other)
     \/ \E t \in Target : Gate(t) /\ Extend([target |-> t, preview |-> 0])
  /\ UNCHANGED <<previews, records, holder, pc, answers, kills>>

DryRun(s, t) ==
  /\ pc[s] = Idle /\ Gate(t)
  /\ pc' = [pc EXCEPT ![s] = [at |-> "previewing", target |-> t]]
  /\ UNCHANGED <<chronicle, previews, records, holder, answers, kills>>

SavePreview(s) ==
  /\ pc[s].at = "previewing"
  /\ Len(previews) < MaxPreviews
  /\ previews' = Append(previews, [target |-> pc[s].target, head |-> Len(chronicle)])
  /\ pc' = [pc EXCEPT ![s] = Idle]
  /\ UNCHANGED <<chronicle, records, holder, answers, kills>>

(* _commit_preview.  Only commits write records, and under commit.lock, so   *)
(* the lookup is one step with taking the lock, and with the answer from it. *)
RecordsOf(k) == { r \in records : r.key = k }

(* Mutant of Replay: the record's preview is not compared. *)
ReplayOfAnyPreview(s, p, k) ==
  /\ pc[s] = Idle /\ holder = Free
  /\ \E r \in RecordsOf(k) : answers' = answers \cup {[r EXCEPT !.preview = p]}
  /\ UNCHANGED <<chronicle, previews, records, holder, pc, kills>>

Replay(s, p, k) ==
  /\ pc[s] = Idle /\ holder = Free
  /\ \E r \in RecordsOf(k) : r.preview = p /\ answers' = answers \cup {r}
  /\ UNCHANGED <<chronicle, previews, records, holder, pc, kills>>

(* Mutant of Begin: the head is not compared. *)
BeginWithoutHead(s, p, k) ==
  /\ pc[s] = Idle /\ holder = Free
  /\ RecordsOf(k) = {}
  /\ holder' = s
  /\ pc' = [pc EXCEPT ![s] = [at |-> "sealing", preview |-> p, key |-> k]]
  /\ UNCHANGED <<chronicle, previews, records, answers, kills>>

(* A head that has moved is answered with STALE_PREVIEW and changes nothing. *)
Begin(s, p, k) ==
  /\ pc[s] = Idle /\ holder = Free
  /\ RecordsOf(k) = {}
  /\ previews[p].head = Len(chronicle)
  /\ holder' = s
  /\ pc' = [pc EXCEPT ![s] = [at |-> "sealing", preview |-> p, key |-> k]]
  /\ UNCHANGED <<chronicle, previews, records, answers, kills>>

Seal(s) ==
  /\ pc[s].at = "sealing"
  /\ LET t == previews[pc[s].preview].target
     IN  /\ Gate(t)
         /\ Extend([target |-> t, preview |-> pc[s].preview])
  /\ pc' = [pc EXCEPT ![s] = [at |-> "recording", preview |-> pc[s].preview,
                              key |-> pc[s].key, event |-> Len(chronicle')]]
  /\ UNCHANGED <<previews, records, holder, answers, kills>>

(* The transaction raises: the Gate no longer passes. *)
Refused(s) ==
  /\ pc[s].at = "sealing"
  /\ ~Gate(previews[pc[s].preview].target)
  /\ holder' = Free
  /\ pc' = [pc EXCEPT ![s] = Idle]
  /\ UNCHANGED <<chronicle, previews, records, answers, kills>>

(* The receipt is of the event just sealed, whatever was appended since. *)
Record(s) ==
  /\ pc[s].at = "recording"
  /\ LET record == [key |-> pc[s].key, preview |-> pc[s].preview, event |-> pc[s].event]
     IN  records' = records \cup {record} /\ answers' = answers \cup {record}
  /\ holder' = Free
  /\ pc' = [pc EXCEPT ![s] = Idle]
  /\ UNCHANGED <<chronicle, previews, kills>>

Kill(s) ==
  /\ pc[s] # Idle
  /\ kills < MaxKills /\ kills' = kills + 1
  /\ pc' = [pc EXCEPT ![s] = Idle]
  /\ holder' = IF holder = s THEN Free ELSE holder
  /\ UNCHANGED <<chronicle, previews, records, answers>>

Next ==
  \/ Command
  \/ \E s \in Session :
       \/ SavePreview(s) \/ Seal(s) \/ Refused(s) \/ Record(s) \/ Kill(s)
       \/ \E t \in Target : DryRun(s, t)
       \/ \E p \in DOMAIN previews, k \in Key : Replay(s, p, k) \/ Begin(s, p, k)

Spec == Init /\ [][Next]_vars
-----------------------------------------------------------------------------
(* commit.lock is held exactly while a commit is past its checks, by the one *)
(* server that runs it; errors and kills give it back.                       *)
TypeOK ==
  /\ \A i \in DOMAIN chronicle :
       /\ chronicle[i].target \in Target \cup {"none"}
       /\ chronicle[i].preview \in 0 .. Len(previews)
  /\ \A p \in DOMAIN previews : previews[p].target \in Target
  /\ holder \in Session \cup {Free}
  /\ \A s \in Session : holder = s <=> pc[s].at \in {"sealing", "recording"}
  /\ kills \in 0 .. MaxKills

(* A confirmed preview is sealed at most once, however often its commit is   *)
(* retried, under whatever keys, by whichever server, after whatever kill.   *)
CommitsOnce ==
  \A i, j \in DOMAIN chronicle :
    chronicle[i].preview # 0 /\ chronicle[i].preview = chronicle[j].preview => i = j

(* A commit answered with a receipt is in the Chronicle, as the seal of the  *)
(* preview that was confirmed; and one key never answers for two previews.   *)
AnswersAreSeals ==
  \A a \in answers :
    /\ chronicle[a.event].preview = a.preview
    /\ chronicle[a.event].target = previews[a.preview].target
    /\ \A b \in answers : a.key = b.key => a = b

(* No Question or Protocol is sealed twice, though the command line and      *)
(* several confirmed previews may try to.                                    *)
SealedOnce == \A t \in Once : \A i, j \in SealsOf(t) : i = j

(* RFC-0009: any canonical event invalidates an outstanding preview.  So a   *)
(* preview is only ever sealed on the very head it was bound to.             *)
SealsAreFresh ==
  \A i \in DOMAIN chronicle :
    chronicle[i].preview # 0 => previews[chronicle[i].preview].head = i - 1
=============================================================================
