------------------------ MODULE ChronicleMigration ------------------------
(***************************************************************************)
(* Chronicle.migrate_v10_to_v11 (athanor.py): the two-file transaction     *)
(* that turns a v1.0 ledger and head into v1.1 files, and the commands     *)
(* other processes run between a crash of the migration and its next run.  *)
(*                                                                         *)
(* Every file here lives in one directory and is replaced by a rename.  A  *)
(* power failure takes back renames that no fsync of the directory         *)
(* followed, the latest first: the file system journals them in order.  It *)
(* also takes back events that no fsync of the ledger followed.  A ledger  *)
(* is its format and its number of events: Chronicle.tla models its        *)
(* content, and appends cut short.                                         *)
(***************************************************************************)
EXTENDS Naturals

CONSTANTS
  Process,       \* processes that open the project
  Free,          \* value of lock while nobody holds it
  OldEvents,     \* events of the v1.0 ledger
  MaxEvents,     \* bound: events of the ledger
  MaxFaults      \* bound: kills and power failures

ASSUME MigrationAssumption ==
  /\ Free \notin Process
  /\ OldEvents \in Nat /\ MaxEvents \in Nat /\ MaxFaults \in Nat

Format == {"v1.0", "v1.1"}
HeadFile == [format : Format, count : Nat]
Marker == {"absent", "PREPARED", "LEDGER_REPLACED", "HEAD_REPLACED"}
Directory == [ledger : Format, head : HeadFile, marker : Marker]

OldHead == [format |-> "v1.0", count |-> OldEvents]
NewHead == [format |-> "v1.1", count |-> OldEvents]

VARIABLES
  live,      \* the directory as processes see it
  past,      \* the directory as of its last fsync, and after each rename since
  events,    \* events in the ledger as processes see it
  synced,    \* how many of them an fsync of the ledger has put on the disk
  backup,    \* files of the newest backup directory
  lock,      \* holder of chronicle.lock
  pc,        \* the next step of each process
  acked,     \* events some caller knows to be in the Chronicle
  reported,  \* a migration report was returned
  hasty,     \* history: what a command has done ahead of an fsync
  faults

ledgerFile == <<events, synced, hasty>>
vars == <<live, past, ledgerFile, backup, lock, pc, acked, reported, faults>>

BackupFile == {"v1.0", "v1.1"}

(* recover has headed events that no fsync of the ledger put on the disk;  *)
(* a transaction has appended below a v1.1 head whose rename a power       *)
(* failure may still take back.                                            *)
Haste == {"headed", "appended"}

(* Each file the migration replaces is renamed, then the directory synced. *)
Rename == {"prepare", "ledger", "ledgerDone", "head", "headDone", "unlink"}
Sync == {"prepareSync", "ledgerSync", "ledgerDoneSync",
         "headSync", "headDoneSync", "unlinkSync"}

Init ==
  /\ live = [ledger |-> "v1.0", head |-> OldHead, marker |-> "absent"]
  /\ past = {live}
  /\ events = OldEvents /\ synced = OldEvents /\ hasty = {}
  /\ backup = {}
  /\ lock = Free
  /\ pc = [p \in Process |-> "idle"]
  /\ acked = OldEvents /\ reported = FALSE /\ faults = 0

-----------------------------------------------------------------------------

Go(p, step) == pc' = [pc EXCEPT ![p] = step]
Take(p, step) == pc[p] = "idle" /\ lock = Free /\ lock' = p /\ Go(p, step)
Leave(p) == lock' = Free /\ Go(p, "idle")

Acceptable == live.marker = "absent" /\ live.ledger = "v1.0" /\ live.head = OldHead

(* The ledger has the bytes of the candidate that the migration prepared.  *)
LedgerIsNew == live.ledger = "v1.1" /\ events = OldEvents

(* A first run: the v1.0 chain and head are verified, then a new backup    *)
(* directory receives the originals and the candidates.                    *)
Prepare(p) ==
  /\ Acceptable
  /\ Take(p, "copy")
  /\ backup' = {}
  /\ UNCHANGED <<live, past, ledgerFile, acked, reported, faults>>

CopyOriginals(p) ==
  /\ pc[p] = "copy"
  /\ backup' = backup \cup {"v1.0"}
  /\ Go(p, "candidates")
  /\ UNCHANGED <<live, past, ledgerFile, lock, acked, reported, faults>>

(* Mutant of WriteCandidates: the ledger is replaced without a marker.     *)
WriteCandidatesUnmarked(p) ==
  /\ pc[p] = "candidates"
  /\ backup' = backup \cup {"v1.1"}
  /\ Go(p, "ledger")
  /\ UNCHANGED <<live, past, ledgerFile, lock, acked, reported, faults>>

WriteCandidates(p) ==
  /\ pc[p] = "candidates"
  /\ backup' = backup \cup {"v1.1"}
  /\ Go(p, "prepare")
  /\ UNCHANGED <<live, past, ledgerFile, lock, acked, reported, faults>>

(* Mutant of Resume: a run that died before the ledger is not resumed.     *)
ResumeLate(p) ==
  /\ live.marker \in {"LEDGER_REPLACED", "HEAD_REPLACED"}
  /\ backup = BackupFile
  /\ Take(p, "ledger")
  /\ UNCHANGED <<live, past, ledgerFile, backup, acked, reported, faults>>

(* A later run finds the marker, whatever its stage, and finishes.         *)
Resume(p) ==
  /\ live.marker # "absent"
  /\ backup = BackupFile
  /\ Take(p, "ledger")
  /\ UNCHANGED <<live, past, ledgerFile, backup, acked, reported, faults>>

(* One rename of _finish_migration_transaction: a file that byte-matches   *)
(* the backup is replaced; one that is the candidate already is left       *)
(* alone, without an fsync; the marker is rewritten each time.             *)
Replace(p, step, sync, dir) ==
  /\ pc[p] = step
  /\ live' = dir
  /\ past' = past \cup {dir}
  /\ Go(p, sync)
  /\ UNCHANGED <<ledgerFile, backup, lock, acked, reported, faults>>

Skip(p, step, next) ==
  /\ pc[p] = step
  /\ Go(p, next)
  /\ UNCHANGED <<live, past, ledgerFile, backup, lock, acked, reported, faults>>

WriteMarker(p) ==
  \/ Replace(p, "prepare", "prepareSync", [live EXCEPT !.marker = "PREPARED"])
  \/ Replace(p, "ledgerDone", "ledgerDoneSync", [live EXCEPT !.marker = "LEDGER_REPLACED"])
  \/ Replace(p, "headDone", "headDoneSync", [live EXCEPT !.marker = "HEAD_REPLACED"])
  \/ Replace(p, "unlink", "unlinkSync", [live EXCEPT !.marker = "absent"])

(* The candidate was fsynced before it is renamed. *)
PutLedger(p) ==
  /\ pc[p] = "ledger"
  /\ live' = [live EXCEPT !.ledger = "v1.1"]
  /\ past' = past \cup {live'}
  /\ events' = OldEvents /\ synced' = OldEvents
  /\ Go(p, "ledgerSync")
  /\ UNCHANGED <<hasty, backup, lock, acked, reported, faults>>

(* Mutant of ReplaceLedger: a ledger that diverged is replaced as well.    *)
ReplaceAnyLedger(p) ==
  \/ ~LedgerIsNew /\ PutLedger(p)
  \/ LedgerIsNew /\ Skip(p, "ledger", "ledgerDone")

ReplaceLedger(p) ==
  \/ live.ledger = "v1.0" /\ PutLedger(p)
  \/ LedgerIsNew /\ Skip(p, "ledger", "ledgerDone")

ReplaceHead(p) ==
  \/ live.head = OldHead /\ Replace(p, "head", "headSync", [live EXCEPT !.head = NewHead])
  \/ live.head = NewHead /\ Skip(p, "head", "headDone")

(* "diverged during migration": the run raises and keeps the marker.       *)
Diverged(p) ==
  /\ \/ pc[p] = "ledger" /\ live.ledger = "v1.1" /\ ~LedgerIsNew
     \/ pc[p] = "head" /\ live.head \notin {OldHead, NewHead}
  /\ Leave(p)
  /\ UNCHANGED <<live, past, ledgerFile, backup, acked, reported, faults>>

(* Where a process goes once its rename is durable.                        *)
Proceed(p) ==
  /\ \/ pc[p] = "prepareSync" /\ Go(p, "ledger") /\ UNCHANGED lock
     \/ pc[p] = "ledgerSync" /\ Go(p, "ledgerDone") /\ UNCHANGED lock
     \/ pc[p] = "ledgerDoneSync" /\ Go(p, "head") /\ UNCHANGED lock
     \/ pc[p] = "headSync" /\ Go(p, "headDone") /\ UNCHANGED lock
     \/ pc[p] = "headDoneSync" /\ Go(p, "unlink") /\ UNCHANGED lock
     \/ pc[p] \in {"unlinkSync", "commitSync", "acceptSync"} /\ Leave(p)
  /\ reported' = (reported \/ pc[p] = "unlinkSync")
  /\ acked' = IF pc[p] = "commitSync" THEN live.head.count ELSE acked
  /\ hasty' = hasty \ {"appended"}
  /\ UNCHANGED <<live, events, synced, backup, faults>>

(* Mutant of SyncDirectory: the report is returned after the unlink.       *)
SyncDirectoryLate(p) ==
  /\ past' = IF pc[p] = "unlinkSync" THEN past ELSE {live}
  /\ Proceed(p)

SyncDirectory(p) ==
  /\ past' = {live}
  /\ Proceed(p)

-----------------------------------------------------------------------------
(* The other commands look at the two files, never at the marker.          *)

BothNew == live.ledger = "v1.1" /\ live.head.format = "v1.1"
Readable == BothNew /\ live.head.count = events
Recoverable == BothNew /\ live.head.count <= events

BeginTransact(p) ==
  /\ Readable
  /\ events < MaxEvents
  /\ Take(p, "append")
  /\ UNCHANGED <<live, past, ledgerFile, backup, acked, reported, faults>>

BeginRecover(p) ==
  /\ Recoverable /\ ~Readable
  /\ Take(p, "accept")
  /\ UNCHANGED <<live, past, ledgerFile, backup, acked, reported, faults>>

(* The append reaches the file; a kill may come before its fsync.          *)
AppendEvent(p) ==
  /\ pc[p] = "append"
  /\ events' = events + 1
  /\ hasty' = hasty \cup {h \in {"appended"} : \E d \in past : d.head.format = "v1.0"}
  /\ Go(p, "fsync")
  /\ UNCHANGED <<live, past, synced, backup, lock, acked, reported, faults>>

FsyncLedger(p) ==
  /\ pc[p] = "fsync"
  /\ synced' = events /\ hasty' = hasty \ {"headed"}
  /\ Go(p, "commit")
  /\ UNCHANGED <<live, past, events, backup, lock, acked, reported, faults>>

(* A transaction heads what it has fsynced, recover what it finds.         *)
CommitHead(p) ==
  /\ pc[p] \in {"commit", "accept"}
  /\ live' = [live EXCEPT !.head.count = events]
  /\ past' = past \cup {live'}
  /\ hasty' = hasty \cup {h \in {"headed"} : pc[p] = "accept" /\ synced < events}
  /\ Go(p, IF pc[p] = "commit" THEN "commitSync" ELSE "acceptSync")
  /\ UNCHANGED <<events, synced, backup, lock, acked, reported, faults>>

-----------------------------------------------------------------------------

Kill(p) ==
  /\ faults < MaxFaults
  /\ pc[p] # "idle"
  /\ faults' = faults + 1
  /\ Leave(p)
  /\ UNCHANGED <<live, past, ledgerFile, backup, acked, reported>>

PowerFailure ==
  /\ faults < MaxFaults
  /\ faults' = faults + 1
  /\ live' \in past
  /\ past' = {live'}
  /\ events' \in synced .. events
  /\ synced' = events'
  /\ lock' = Free
  /\ pc' = [p \in Process |-> "idle"]
  /\ UNCHANGED <<hasty, backup, acked, reported>>

Migrate(p) == Prepare(p) \/ Resume(p)

Step(p) ==
  \/ CopyOriginals(p) \/ WriteCandidates(p)
  \/ WriteMarker(p) \/ ReplaceLedger(p) \/ ReplaceHead(p) \/ Diverged(p)
  \/ AppendEvent(p) \/ FsyncLedger(p) \/ CommitHead(p) \/ SyncDirectory(p)

Next ==
  \/ \E p \in Process :
       Migrate(p) \/ BeginTransact(p) \/ BeginRecover(p) \/ Step(p) \/ Kill(p)
  \/ PowerFailure

Spec == Init /\ [][Next]_vars

-----------------------------------------------------------------------------
(* Properties.                                                             *)

Finishable ==
  /\ live.marker # "absent"
  /\ backup = BackupFile
  /\ live.ledger = "v1.0" \/ LedgerIsNew
  /\ live.head \in {OldHead, NewHead}

(* "Crashes after backup, after Ledger replacement, before Head            *)
(* replacement, and after Head replacement are therefore resumable"        *)
(* (RFC-0001): at any moment the Chronicle is in use as v1.1 and reads or  *)
(* recovers, or running the migration again would be accepted and find     *)
(* nothing diverged.  Two commands may put an end to this, each ahead of   *)
(* an fsync: an append below a v1.1 head that a power failure takes back,  *)
(* and a recovery of a tail that a power failure takes back.               *)
NeverStranded ==
  /\ "appended" \notin hasty => BothNew \/ Acceptable \/ Finishable
  /\ "headed" \notin hasty /\ BothNew => Recoverable

(* A migration that is run again never replaces a ledger that commands     *)
(* have extended since, and no power failure takes an event back: every    *)
(* event somebody was told of is still in the ledger.                      *)
AckedKept == events >= acked

(* Once the report is returned, no power failure brings a v1.0 file or the *)
(* marker back.                                                            *)
ReportIsDurable ==
  reported => \A d \in past : /\ d.ledger = "v1.1" /\ d.head.format = "v1.1"
                              /\ d.marker = "absent"

(* Faults are finitely many, and somebody runs the migration again until   *)
(* it is refused because the Chronicle is v1.1; flock is granted at last.  *)
FairSpec ==
  /\ Spec
  /\ \A p \in Process : WF_vars(Step(p))
  /\ SF_vars(\E p \in Process : Migrate(p))

(* Commands have gone ahead of the last run of the migration: it finds a   *)
(* ledger or a head that is neither the old nor the new one.               *)
Overtaken == events # OldEvents \/ live.head \notin {OldHead, NewHead}

(* The migration ends: both files are v1.1 for good and the marker is      *)
(* gone, which is the last step of a run and comes after the report was    *)
(* written.  Only where commands went ahead of its last run may the marker *)
(* stay: then every later run raises "diverged".                           *)
EventuallyMigrated == <>[](Overtaken \/ (BothNew /\ live.marker = "absent"))
=============================================================================
