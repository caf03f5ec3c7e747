---------------------- MODULE ChronicleMigrationProofs ----------------------
(***************************************************************************)
(* Proofs about ChronicleMigration: whatever the number of processes,      *)
(* kills and power failures, a crash leaves a directory that a later run   *)
(* or command takes over, no acknowledged event is lost, and a returned    *)
(* report stays true.                                                      *)
(*                                                                         *)
(* A power failure may bring back any directory of `past' and as few       *)
(* events as `synced', so each claim about the live files has to be kept   *)
(* for all of those.  The rest of the invariant says what the holder of    *)
(* the lock knows at each step.                                            *)
(***************************************************************************)
EXTENDS ChronicleMigration, TLAPS

Marking == {"prepareSync", "ledger", "ledgerSync", "ledgerDone", "ledgerDoneSync",
            "head", "headSync", "headDone", "headDoneSync", "unlink"}
Commanding == {"append", "fsync", "commit", "commitSync", "accept", "acceptSync"}
Place == {"idle", "copy", "candidates", "prepare", "unlinkSync"} \cup Marking \cup Commanding

TypeOK ==
  /\ live \in Directory /\ past \subseteq Directory /\ live \in past
  /\ events \in Nat /\ synced \in Nat /\ OldEvents <= synced /\ synced <= events
  /\ hasty \subseteq Haste
  /\ backup \subseteq BackupFile
  /\ lock \in Process \cup {Free}
  /\ pc \in [Process -> Place]
  /\ acked \in Nat /\ reported \in BOOLEAN

(* Who is at work holds chronicle.lock.                                    *)
Holds == \A p \in Process : pc[p] # "idle" => lock = p

(* The three states that a crash may leave, of a directory d.              *)
InUse(d) == d.ledger = "v1.1" /\ d.head.format = "v1.1"
Untouched(d) == d.marker = "absent" /\ d.ledger = "v1.0" /\ d.head = OldHead
Resumable(d) == /\ d.marker # "absent" /\ backup = BackupFile
                /\ d.head \in {OldHead, NewHead}

SomeWayOn == \A d \in past : InUse(d) \/ Untouched(d) \/ Resumable(d)

(* A migration that has not started left nothing else behind.              *)
FreshStart == Untouched(live) => past = {live}

(* The ledger is new before the head is, in every directory that may come  *)
(* back, and it stays new once the head is; heads only count more events.  *)
LedgerFirst ==
  /\ \A d \in past : d.head.format = "v1.1" => d.ledger = "v1.1"
  /\ InUse(live) => \A d \in past : d.ledger = "v1.1"

HeadsGrow ==
  \A d \in past : InUse(d) => InUse(live) /\ d.head.count <= live.head.count

(* An old ledger, and an old head unless a transaction was hasty, means    *)
(* that nothing was appended.                                              *)
GrownIsNew ==
  /\ \A d \in past : d.ledger = "v1.0" => events = OldEvents
  /\ "appended" \notin hasty =>
       \A d \in past : d.head.format = "v1.0" => events = OldEvents

(* Unless recover was hasty, every head counts events that are on the disk. *)
HeadsOnDisk ==
  "headed" \notin hasty => \A d \in past : InUse(d) => d.head.count <= synced

Files == SomeWayOn /\ FreshStart /\ LedgerFirst /\ HeadsGrow /\ GrownIsNew /\ HeadsOnDisk

(* What the holder of the lock knows.                                      *)
Preparing(p) ==
  /\ pc[p] \in {"copy", "candidates", "prepare"} => Untouched(live)
  /\ pc[p] \in {"candidates", "prepare"} => "v1.0" \in backup
  /\ pc[p] = "prepare" => "v1.1" \in backup

Finishing(p) ==
  /\ pc[p] \in Marking => live.marker # "absent" /\ backup = BackupFile
  /\ pc[p] = "prepareSync" => live.ledger = "v1.0"
  /\ pc[p] \in {"ledgerSync", "ledgerDone", "ledgerDoneSync", "head", "headSync",
                "headDone", "headDoneSync", "unlink", "unlinkSync"} => LedgerIsNew
  /\ pc[p] = "head" => past = {live}
  /\ pc[p] \in {"headSync", "headDone", "headDoneSync", "unlink", "unlinkSync"} =>
       live.head = NewHead
  /\ pc[p] = "unlinkSync" => live.marker = "absent"

Working(p) ==
  /\ pc[p] \in Commanding => InUse(live)
  /\ pc[p] \in {"append", "fsync", "commit", "accept"} => live.head.count <= events
  /\ pc[p] = "commit" => synced = events
  /\ pc[p] = "commitSync" => live.head.count = synced

Knows == \A p \in Process : Preparing(p) /\ Finishing(p) /\ Working(p)

(* Every acknowledged event is on the disk.                                *)
AckedOnDisk == acked <= synced

IInv == TypeOK /\ Holds /\ Files /\ Knows /\ AckedOnDisk /\ ReportIsDurable
-----------------------------------------------------------------------------
(* A turn of the holder of the lock, or of who takes the free lock, leaves *)
(* every other process idle.                                               *)
LEMMA Turn ==
  ASSUME TypeOK, Holds, NEW p \in Process, NEW s \in Place,
         lock = p \/ lock = Free, Go(p, s)
  PROVE  /\ pc' \in [Process -> Place] /\ pc'[p] = s
         /\ \A q \in Process : q # p => pc'[q] = "idle"
  BY MigrationAssumption DEF TypeOK, Holds, Go

(* So what processes know after it is what this one knows.                 *)
LEMMA TurnKnows ==
  ASSUME NEW p \in Process, \A q \in Process : q # p => pc'[q] = "idle",
         Preparing(p)', Finishing(p)', Working(p)'
  PROVE  Knows'
<1> SUFFICES ASSUME NEW q \in Process, q # p
             PROVE  (Preparing(q) /\ Finishing(q) /\ Working(q))'
  BY DEF Knows
<1>1. pc'[q] = "idle"
  OBVIOUS
<1> QED
  BY <1>1 DEF Preparing, Finishing, Working, Marking, Commanding

(* The lock follows the turn.                                              *)
LEMMA TurnHolds ==
  ASSUME NEW p \in Process, \A q \in Process : q # p => pc'[q] = "idle",
         lock' = p \/ pc'[p] = "idle"
  PROVE  Holds'
  BY DEF Holds

(* The formats tell the old head from the new one.                        *)
LEMMA OldNew ==
  /\ OldHead # NewHead /\ OldHead.format = "v1.0" /\ NewHead.format = "v1.1"
  /\ OldHead.count = OldEvents /\ NewHead.count = OldEvents
  /\ OldHead \in HeadFile /\ NewHead \in HeadFile
  BY MigrationAssumption DEF OldHead, NewHead, HeadFile, Format

(* The invariant holds at the start.                                       *)
LEMMA InitIInv == Init => IInv
<1> SUFFICES ASSUME Init PROVE IInv
  OBVIOUS
<1>1. TypeOK
  <2>1. live \in Directory
    BY OldNew DEF Init, Directory, Marker, Format
  <2>2. pc \in [Process -> Place]
    BY DEF Init, Place
  <2>3. /\ events \in Nat /\ synced \in Nat /\ OldEvents <= synced /\ synced <= events
        /\ acked \in Nat
    BY MigrationAssumption DEF Init
  <2>4. past \subseteq Directory /\ live \in past
    BY <2>1 DEF Init
  <2>5. hasty \subseteq Haste /\ backup \subseteq BackupFile /\ reported \in BOOLEAN
    BY DEF Init
  <2> QED
    BY <2>1, <2>2, <2>3, <2>4, <2>5 DEF Init, TypeOK
<1>2. /\ Untouched(live) /\ past = {live} /\ events = OldEvents
      /\ ~InUse(live) /\ live.head.format # "v1.1"
  BY OldNew DEF Init, Untouched, InUse
<1>3. Files
  BY <1>2 DEF Files, SomeWayOn, FreshStart, LedgerFirst, HeadsGrow, GrownIsNew, HeadsOnDisk
<1>4. ReportIsDurable /\ Holds /\ AckedOnDisk
  BY MigrationAssumption DEF Init, ReportIsDurable, Holds, AckedOnDisk
<1>5. Knows
  BY DEF Init, Knows, Preparing, Finishing, Working, Marking, Commanding
<1> QED
  BY <1>1, <1>3, <1>4, <1>5 DEF IInv

(* What may come back stays as it was.                                     *)
LEMMA SameFiles ==
  ASSUME Files, UNCHANGED <<live, past, ledgerFile, backup>>
  PROVE  Files'
<1>1. UNCHANGED <<events, synced, hasty>>
  BY DEF ledgerFile
<1>2. (SomeWayOn /\ FreshStart)'
  BY DEF Files, SomeWayOn, FreshStart, Untouched, Resumable, InUse
<1>3. (LedgerFirst /\ HeadsGrow)'
  BY DEF Files, LedgerFirst, HeadsGrow, InUse
<1>4. (GrownIsNew /\ HeadsOnDisk)'
  BY <1>1 DEF Files, GrownIsNew, HeadsOnDisk, InUse
<1> QED
  BY <1>2, <1>3, <1>4 DEF Files

(* A step that writes no file and takes, keeps or leaves the lock.         *)
LEMMA NoFileStep ==
  ASSUME IInv, NEW p \in Process, NEW s \in Place, lock = p \/ lock = Free, Go(p, s),
         lock' \in {p, lock, Free}, lock' = p \/ s = "idle",
         UNCHANGED <<live, past, ledgerFile, backup, acked, reported>>,
         Preparing(p)', Finishing(p)', Working(p)'
  PROVE  IInv'
<1>1. /\ pc' \in [Process -> Place] /\ pc'[p] = s
      /\ \A q \in Process : q # p => pc'[q] = "idle"
  BY Turn DEF IInv
<1>2. TypeOK'
  BY <1>1 DEF IInv, TypeOK, ledgerFile
<1>3. Holds' /\ Knows'
  BY <1>1, TurnHolds, TurnKnows
<1>4. Files'
  BY SameFiles DEF IInv
<1>5. (AckedOnDisk /\ ReportIsDurable)'
  BY DEF IInv, AckedOnDisk, ReportIsDurable, ledgerFile
<1> QED
  BY <1>2, <1>3, <1>4, <1>5 DEF IInv

(* A migration starts on an untouched directory: nothing that may come     *)
(* back needs the backup it fills.                                         *)
LEMMA BackupStep ==
  ASSUME IInv, NEW p \in Process, NEW s \in {"copy", "candidates", "prepare"},
         lock = p \/ lock = Free, lock' = p, Go(p, s), Untouched(live),
         backup' \subseteq BackupFile,
         s # "copy" => "v1.0" \in backup', s = "prepare" => "v1.1" \in backup',
         UNCHANGED <<live, past, ledgerFile, acked, reported>>
  PROVE  IInv'
<1>1. past = {live}
  BY DEF IInv, Files, FreshStart
<1>2. /\ pc' \in [Process -> Place] /\ pc'[p] = s
      /\ \A q \in Process : q # p => pc'[q] = "idle"
  BY Turn DEF IInv, Place
<1>3. TypeOK'
  BY <1>2 DEF IInv, TypeOK, ledgerFile
<1>4. (Preparing(p) /\ Finishing(p) /\ Working(p))'
  BY <1>2 DEF Preparing, Finishing, Working, Marking, Commanding, Untouched
<1>5. Holds' /\ Knows'
  BY <1>2, <1>4, TurnHolds, TurnKnows
<1>6. UNCHANGED <<events, synced, hasty>>
  BY DEF ledgerFile
<1>7. (SomeWayOn /\ FreshStart)'
  BY <1>1 DEF SomeWayOn, FreshStart, Untouched
<1>8. (LedgerFirst /\ HeadsGrow)'
  BY DEF IInv, Files, LedgerFirst, HeadsGrow, InUse
<1>9. (GrownIsNew /\ HeadsOnDisk)'
  BY <1>6 DEF IInv, Files, GrownIsNew, HeadsOnDisk, InUse
<1>10. (AckedOnDisk /\ ReportIsDurable)'
  BY <1>6 DEF IInv, AckedOnDisk, ReportIsDurable
<1> QED
  BY <1>3, <1>5, <1>7, <1>8, <1>9, <1>10 DEF IInv, Files

(* The three steps before the marker.                                      *)
LEMMA PrepareIInv ==
  ASSUME IInv, NEW p \in Process, Prepare(p) \/ CopyOriginals(p) \/ WriteCandidates(p)
  PROVE  IInv'
<1>1. CASE Prepare(p)
  <2>1. /\ Untouched(live) /\ lock = Free /\ lock' = p /\ Go(p, "copy") /\ backup' = {}
        /\ UNCHANGED <<live, past, ledgerFile, acked, reported>>
    BY <1>1 DEF Prepare, Acceptable, Take, Untouched
  <2> QED
    BY <2>1, BackupStep
<1>2. CASE CopyOriginals(p) \/ WriteCandidates(p)
  <2>1. /\ pc[p] \in {"copy", "candidates"} /\ lock = p /\ lock' = lock
        /\ UNCHANGED <<live, past, ledgerFile, acked, reported>>
        /\ backup' \subseteq BackupFile
    BY <1>2 DEF CopyOriginals, WriteCandidates, IInv, Holds, TypeOK, BackupFile
  <2>2. Untouched(live)
    BY <2>1 DEF IInv, Knows, Preparing
  <2>3. PICK s \in {"candidates", "prepare"} :
          /\ Go(p, s) /\ "v1.0" \in backup'
          /\ (s = "prepare" => "v1.1" \in backup')
    BY <1>2 DEF CopyOriginals, WriteCandidates, IInv, Knows, Preparing
  <2> QED
    BY <2>1, <2>2, <2>3, BackupStep
<1> QED
  BY <1>1, <1>2

(* A step that finds every file in place takes the lock, or moves on.      *)
LEMMA QuietIInv ==
  ASSUME IInv, NEW p \in Process,
         \/ Resume(p) \/ Diverged(p) \/ BeginTransact(p) \/ BeginRecover(p)
         \/ LedgerIsNew /\ Skip(p, "ledger", "ledgerDone")
         \/ live.head = NewHead /\ Skip(p, "head", "headDone")
         \/ Kill(p)
  PROVE  IInv'
<1>1. CASE Resume(p)
  <2>1. /\ lock = Free /\ lock' = p /\ Go(p, "ledger") /\ live.marker # "absent"
        /\ backup = BackupFile
        /\ UNCHANGED <<live, past, ledgerFile, backup, acked, reported>>
    BY <1>1 DEF Resume, Take
  <2>2. pc'[p] = "ledger"
    BY <2>1, Turn DEF IInv, Place, Marking
  <2>3. (Preparing(p) /\ Finishing(p) /\ Working(p))'
    BY <2>1, <2>2 DEF Preparing, Finishing, Working, Marking, Commanding
  <2> QED
    BY <2>1, <2>3, NoFileStep DEF Place, Marking
<1>2. CASE Diverged(p) \/ Kill(p)
  <2>1. /\ lock = p /\ lock' = Free /\ Go(p, "idle")
        /\ UNCHANGED <<live, past, ledgerFile, backup, acked, reported>>
    BY <1>2 DEF Diverged, Kill, Leave, IInv, Holds
  <2>2. pc'[p] = "idle"
    BY <2>1, Turn DEF IInv, Place
  <2>3. (Preparing(p) /\ Finishing(p) /\ Working(p))'
    BY <2>2 DEF Preparing, Finishing, Working, Marking, Commanding
  <2> QED
    BY <2>1, <2>3, NoFileStep DEF Place
<1>3. CASE BeginTransact(p) \/ BeginRecover(p)
  <2>1. PICK s \in {"append", "accept"} :
          /\ lock = Free /\ lock' = p /\ Go(p, s)
          /\ UNCHANGED <<live, past, ledgerFile, backup, acked, reported>>
    BY <1>3 DEF BeginTransact, BeginRecover, Take
  <2>2. InUse(live) /\ live.head.count <= events
    BY <1>3 DEF BeginTransact, BeginRecover, Readable, Recoverable, BothNew, InUse, IInv,
                TypeOK
  <2>3. pc'[p] = s
    BY <2>1, Turn DEF IInv, Place, Commanding
  <2>4. (Preparing(p) /\ Finishing(p) /\ Working(p))'
    BY <2>1, <2>2, <2>3
    DEF Preparing, Finishing, Working, Marking, Commanding, InUse, ledgerFile
  <2> QED
    BY <2>1, <2>4, NoFileStep DEF Place, Commanding
<1>4. CASE \/ LedgerIsNew /\ Skip(p, "ledger", "ledgerDone")
           \/ live.head = NewHead /\ Skip(p, "head", "headDone")
  <2>1. /\ pc[p] \in {"ledger", "head"} /\ lock = p /\ lock' = lock
        /\ UNCHANGED <<live, past, ledgerFile, backup, acked, reported>>
        /\ LedgerIsNew
    BY <1>4 DEF Skip, IInv, Holds, Knows, Finishing
  <2>2. PICK s \in {"ledgerDone", "headDone"} :
          Go(p, s) /\ (s = "headDone" => live.head = NewHead)
    BY <1>4 DEF Skip
  <2>3. pc'[p] = s
    BY <2>1, <2>2, Turn DEF IInv, Place, Marking
  <2>4. live.marker # "absent" /\ backup = BackupFile
    BY <2>1 DEF IInv, Knows, Finishing, Marking
  <2>5. (Preparing(p) /\ Finishing(p) /\ Working(p))'
    BY <2>1, <2>2, <2>3, <2>4
    DEF Preparing, Finishing, Working, Marking, Commanding, LedgerIsNew, ledgerFile
  <2> QED
    BY <2>1, <2>2, <2>5, NoFileStep DEF Place, Marking
<1> QED
  BY <1>1, <1>2, <1>3, <1>4

(* A rename adds a directory that may come back.  It is in use or          *)
(* resumable, takes no format back, and lowers no head.                    *)
LEMMA RenameFiles ==
  ASSUME IInv, NEW dir \in Directory, live' = dir, past' = past \cup {dir},
         UNCHANGED <<events, synced, backup>>,
         hasty \subseteq hasty', "appended" \in hasty' => "appended" \in hasty,
         InUse(dir) \/ Resumable(dir),
         dir.head.format = "v1.1" => dir.ledger = "v1.1",
         InUse(dir) => \A d \in past : d.ledger = "v1.1",
         InUse(live) => InUse(dir) /\ live.head.count <= dir.head.count,
         dir.ledger = "v1.0" => live.ledger = "v1.0",
         dir.head.format = "v1.0" => live.head.format = "v1.0",
         InUse(dir) /\ "headed" \notin hasty' => dir.head.count <= synced
  PROVE  Files'
<1>1. /\ live \in past /\ live \in Directory /\ past \subseteq Directory
      /\ \A d \in Directory : d.head.count \in Nat
  BY DEF IInv, TypeOK, Directory, HeadFile
<1>2. SomeWayOn'
  BY DEF IInv, Files, SomeWayOn, InUse, Untouched, Resumable
<1>3. FreshStart'
  <2>1. ~Untouched(dir)
    BY DEF InUse, Untouched, Resumable
  <2> QED
    BY <2>1 DEF FreshStart, Untouched
<1>4. LedgerFirst'
  BY DEF IInv, Files, LedgerFirst, InUse
<1>5. HeadsGrow'
  <2> SUFFICES ASSUME NEW d \in past', InUse(d)
               PROVE  InUse(dir) /\ d.head.count <= dir.head.count
    BY DEF HeadsGrow, InUse
  <2>1. CASE d = dir
    BY <1>1, <2>1
  <2>2. CASE d \in past
    <3>1. InUse(live) /\ d.head.count <= live.head.count
      BY <2>2 DEF IInv, Files, HeadsGrow
    <3>2. /\ d.head.count \in Nat /\ live.head.count \in Nat /\ dir.head.count \in Nat
          /\ live.head.count <= dir.head.count /\ InUse(dir)
      BY <1>1, <2>2, <3>1
    <3> QED
      BY <3>1, <3>2
  <2> QED
    BY <2>1, <2>2
<1>6. GrownIsNew'
  BY <1>1 DEF IInv, Files, GrownIsNew
<1>7. HeadsOnDisk'
  BY DEF IInv, Files, HeadsOnDisk, InUse
<1> QED
  BY <1>2, <1>3, <1>4, <1>5, <1>6, <1>7 DEF Files

(* Such a rename keeps the invariant, while no report is out.              *)
LEMMA RenameIInv ==
  ASSUME IInv, NEW p \in Process, NEW s \in Place, NEW dir \in Directory,
         lock = p, s # "idle", Go(p, s), live' = dir, past' = past \cup {dir},
         UNCHANGED <<events, synced, lock, backup, acked, reported>>,
         hasty' \subseteq Haste, Files',
         ~reported \/ (InUse(dir) /\ dir.marker = "absent"),
         Preparing(p)', Finishing(p)', Working(p)'
  PROVE  IInv'
<1>1. /\ pc' \in [Process -> Place] /\ pc'[p] = s
      /\ \A q \in Process : q # p => pc'[q] = "idle"
  BY Turn DEF IInv
<1>2. TypeOK'
  BY <1>1 DEF IInv, TypeOK
<1>3. Holds' /\ Knows'
  BY <1>1, TurnHolds, TurnKnows
<1>4. AckedOnDisk'
  BY DEF IInv, AckedOnDisk
<1>5. ReportIsDurable'
  BY DEF IInv, ReportIsDurable, InUse
<1> QED
  BY <1>2, <1>3, <1>4, <1>5 DEF IInv

(* While the old format or the marker is there, no report is out.          *)
LEMMA NotReportedYet ==
  ASSUME IInv, live.marker # "absent" \/ Untouched(live)
  PROVE  ~reported
  BY OldNew DEF IInv, TypeOK, ReportIsDurable, Untouched

(* The four writes of the marker.                                          *)
LEMMA MarkerIInv ==
  ASSUME IInv, NEW p \in Process, WriteMarker(p)
  PROVE  IInv'
<1>1. PICK at \in {"prepare", "ledgerDone", "headDone", "unlink"},
           s \in {"prepareSync", "ledgerDoneSync", "headDoneSync", "unlinkSync"},
           m \in Marker :
        /\ Replace(p, at, s, [live EXCEPT !.marker = m])
        /\ (m = "absent") <=> (s = "unlinkSync")
        /\ (at = "prepare") <=> (s = "prepareSync")
        /\ (at = "ledgerDone") <=> (s = "ledgerDoneSync")
        /\ (at = "unlink") <=> (s = "unlinkSync")
  <2>1. CASE Replace(p, "prepare", "prepareSync", [live EXCEPT !.marker = "PREPARED"])
    BY <2>1 DEF Marker
  <2>2. CASE Replace(p, "ledgerDone", "ledgerDoneSync",
                     [live EXCEPT !.marker = "LEDGER_REPLACED"])
    BY <2>2 DEF Marker
  <2>3. CASE Replace(p, "headDone", "headDoneSync", [live EXCEPT !.marker = "HEAD_REPLACED"])
    BY <2>3 DEF Marker
  <2>4. CASE Replace(p, "unlink", "unlinkSync", [live EXCEPT !.marker = "absent"])
    BY <2>4 DEF Marker
  <2> QED
    BY <2>1, <2>2, <2>3, <2>4 DEF WriteMarker
<1> DEFINE dir == [live EXCEPT !.marker = m]
<1>2. live \in Directory /\ live \in past
  BY DEF IInv, TypeOK
<1>3. /\ dir \in Directory /\ dir.marker = m
      /\ dir.ledger = live.ledger /\ dir.head = live.head
  BY <1>2 DEF Directory
<1>4. /\ pc[p] = at /\ lock = p /\ Go(p, s) /\ live' = dir /\ past' = past \cup {dir}
      /\ UNCHANGED <<events, synced, hasty, backup, lock, acked, reported>>
  BY <1>1 DEF Replace, IInv, Holds, ledgerFile
<1> HIDE DEF dir
<1>5. Preparing(p) /\ Finishing(p)
  BY DEF IInv, Knows
<1>6. /\ at = "prepare" => Untouched(live) /\ backup = BackupFile
      /\ at # "prepare" => live.marker # "absent" /\ backup = BackupFile /\ LedgerIsNew
      /\ at \in {"headDone", "unlink"} => live.head = NewHead
  BY <1>4, <1>5 DEF Preparing, Finishing, Marking, IInv, TypeOK, BackupFile
<1>7. ~reported
  BY <1>6, NotReportedYet
<1>8. InUse(dir) \/ Resumable(dir)
  <2>1. CASE m = "absent"
    BY <2>1, <1>1, <1>3, <1>6, OldNew DEF InUse, LedgerIsNew
  <2>2. CASE m # "absent" /\ at = "prepare"
    BY <2>2, <1>3, <1>6 DEF Resumable, Untouched
  <2>3. CASE m # "absent" /\ at # "prepare"
    <3>1. InUse(live) \/ Untouched(live) \/ Resumable(live)
      BY <1>2 DEF IInv, Files, SomeWayOn
    <3> QED
      BY <2>3, <3>1, <1>3, <1>6 DEF Resumable, Untouched, InUse
  <2> QED
    BY <2>1, <2>2, <2>3
<1>9. Files'
  <2>1. /\ dir.head.format = "v1.1" => dir.ledger = "v1.1"
        /\ InUse(dir) => \A d \in past : d.ledger = "v1.1"
        /\ InUse(dir) /\ "headed" \notin hasty => dir.head.count <= synced
    BY <1>2, <1>3 DEF IInv, Files, LedgerFirst, HeadsOnDisk, InUse
  <2>2. InUse(live) => InUse(dir) /\ live.head.count <= dir.head.count
    BY <1>2, <1>3 DEF InUse, Directory, HeadFile
  <2> QED
    BY <1>3, <1>4, <1>8, <2>1, <2>2, RenameFiles
<1>10. pc'[p] = s
  BY <1>1, <1>4, Turn DEF IInv, Place, Marking
<1>11. (Preparing(p) /\ Finishing(p) /\ Working(p))'
  <2>1. live'.marker = m /\ live'.ledger = live.ledger /\ live'.head = live.head
    BY <1>3, <1>4
  <2> QED
    BY <1>1, <1>4, <1>6, <1>10, <2>1
    DEF Preparing, Finishing, Working, Marking, Commanding, LedgerIsNew, Untouched
<1> QED
  BY <1>1, <1>3, <1>4, <1>7, <1>9, <1>11, RenameIInv DEF Place, Marking, IInv, TypeOK

(* The migration replaces the ledger while it has only the old events.     *)
LEMMA LedgerIInv ==
  ASSUME IInv, NEW p \in Process, live.ledger = "v1.0", PutLedger(p)
  PROVE  IInv'
<1> DEFINE dir == [live EXCEPT !.ledger = "v1.1"]
<1>1. live \in Directory /\ live \in past
  BY DEF IInv, TypeOK
<1>2. /\ dir \in Directory /\ dir.marker = live.marker
      /\ dir.ledger = "v1.1" /\ dir.head = live.head
  BY <1>1 DEF Directory, Format
<1>3. events = OldEvents /\ synced = OldEvents
  BY <1>1, MigrationAssumption DEF IInv, TypeOK, Files, GrownIsNew
<1>4. /\ pc[p] = "ledger" /\ lock = p /\ Go(p, "ledgerSync")
      /\ live' = dir /\ past' = past \cup {dir}
      /\ UNCHANGED <<events, synced, hasty, backup, lock, acked, reported>>
  BY <1>3 DEF PutLedger, IInv, Holds
<1> HIDE DEF dir
<1>5. live.marker # "absent" /\ backup = BackupFile
  BY <1>4 DEF IInv, Knows, Finishing, Marking
<1>6. ~reported
  BY <1>5, NotReportedYet
<1>7. ~InUse(live) /\ ~InUse(dir) /\ Resumable(dir)
  BY <1>1, <1>2, <1>5
  DEF IInv, Files, SomeWayOn, LedgerFirst, Resumable, Untouched, InUse
<1>8. Files'
  BY <1>2, <1>4, <1>7, RenameFiles
<1>9. pc'[p] = "ledgerSync"
  BY <1>4, Turn DEF IInv, Place, Marking
<1>10. (Preparing(p) /\ Finishing(p) /\ Working(p))'
  BY <1>2, <1>3, <1>4, <1>5, <1>9
  DEF Preparing, Finishing, Working, Marking, Commanding, LedgerIsNew
<1> QED
  BY <1>2, <1>4, <1>6, <1>8, <1>10, RenameIInv DEF Place, Marking, IInv, TypeOK

(* The migration replaces the head, the new ledger being on the disk.      *)
LEMMA HeadIInv ==
  ASSUME IInv, NEW p \in Process, live.head = OldHead,
         Replace(p, "head", "headSync", [live EXCEPT !.head = NewHead])
  PROVE  IInv'
<1> DEFINE dir == [live EXCEPT !.head = NewHead]
<1>1. live \in Directory /\ live \in past
  BY DEF IInv, TypeOK
<1>2. /\ dir \in Directory /\ dir.marker = live.marker
      /\ dir.ledger = live.ledger /\ dir.head = NewHead
  BY <1>1, OldNew DEF Directory
<1>3. /\ pc[p] = "head" /\ lock = p /\ Go(p, "headSync")
      /\ live' = dir /\ past' = past \cup {dir}
      /\ UNCHANGED <<events, synced, hasty, backup, lock, acked, reported>>
  BY DEF Replace, IInv, Holds, ledgerFile
<1> HIDE DEF dir
<1>4. /\ live.marker # "absent" /\ backup = BackupFile /\ LedgerIsNew
      /\ past = {live}
  BY <1>3 DEF IInv, Knows, Finishing, Marking
<1>5. ~reported
  BY <1>4, NotReportedYet
<1>6. Files'
  <2>1. Resumable(dir) /\ ~InUse(live) /\ dir.ledger = "v1.1"
    BY <1>2, <1>4, OldNew DEF Resumable, InUse, LedgerIsNew
  <2>2. dir.head.count <= synced
    BY <1>2, OldNew DEF IInv, TypeOK
  <2>3. \A d \in past : d.ledger = "v1.1"
    BY <1>4 DEF LedgerIsNew
  <2>4. dir.head.format # "v1.0" /\ dir.ledger # "v1.0"
    BY <1>2, <2>1, OldNew
  <2> QED
    BY <1>2, <1>3, <2>1, <2>2, <2>3, <2>4, RenameFiles
<1>7. pc'[p] = "headSync"
  BY <1>3, Turn DEF IInv, Place, Marking
<1>8. (Preparing(p) /\ Finishing(p) /\ Working(p))'
  BY <1>2, <1>3, <1>4, <1>7
  DEF Preparing, Finishing, Working, Marking, Commanding, LedgerIsNew
<1> QED
  BY <1>2, <1>3, <1>5, <1>6, <1>8, RenameIInv DEF Place, Marking, IInv, TypeOK

(* A command replaces the head by one for the whole ledger.                *)
LEMMA CommitIInv ==
  ASSUME IInv, NEW p \in Process, CommitHead(p)
  PROVE  IInv'
<1> DEFINE dir == [live EXCEPT !.head.count = events]
<1>1. live \in Directory /\ live \in past /\ events \in Nat /\ synced \in Nat
  BY DEF IInv, TypeOK
<1>2. PICK s \in {"commitSync", "acceptSync"} :
        /\ pc[p] \in {"commit", "accept"} /\ lock = p /\ Go(p, s)
        /\ s = "commitSync" => pc[p] = "commit"
        /\ live' = dir /\ past' = past \cup {dir}
        /\ UNCHANGED <<events, synced, backup, lock, acked, reported>>
        /\ hasty' = hasty \cup {h \in {"headed"} : pc[p] = "accept" /\ synced < events}
  BY DEF CommitHead, IInv, Holds
<1>3. /\ InUse(live) /\ live.head.count <= events
      /\ pc[p] = "commit" => synced = events
  BY <1>2 DEF IInv, Knows, Working, Commanding
<1>4. /\ dir \in Directory /\ dir.marker = live.marker /\ dir.ledger = live.ledger
      /\ dir.head.format = live.head.format /\ dir.head.count = events
  BY <1>1 DEF Directory, HeadFile
<1> HIDE DEF dir
<1>5. InUse(dir)
  BY <1>3, <1>4 DEF InUse
<1>6. ~reported \/ dir.marker = "absent"
  BY <1>1, <1>4 DEF IInv, ReportIsDurable
<1>7. /\ hasty' \subseteq Haste /\ hasty \subseteq hasty'
      /\ "appended" \in hasty' => "appended" \in hasty
  BY <1>2 DEF IInv, TypeOK, Haste
<1>8. "headed" \notin hasty' => dir.head.count <= synced
  <2>1. SUFFICES ASSUME pc[p] = "accept", "headed" \notin hasty'
                 PROVE  events <= synced
    BY <1>1, <1>2, <1>3, <1>4
  <2>2. ~(synced < events)
    BY <1>2, <2>1
  <2> QED
    BY <1>1, <2>2
<1>9. Files'
  <2>1. \A d \in past : d.ledger = "v1.1"
    BY <1>3 DEF IInv, Files, LedgerFirst
  <2>2. /\ dir.ledger = "v1.1" /\ dir.head.format = "v1.1"
        /\ dir.ledger # "v1.0" /\ dir.head.format # "v1.0"
        /\ live.head.count <= dir.head.count
    BY <1>3, <1>4, <1>5 DEF InUse
  <2> QED
    BY <1>2, <1>4, <1>5, <1>7, <1>8, <2>1, <2>2, RenameFiles
<1>10. pc'[p] = s
  BY <1>2, Turn DEF IInv, Place, Commanding
<1>11. (Preparing(p) /\ Finishing(p) /\ Working(p))'
  BY <1>2, <1>3, <1>4, <1>5, <1>10
  DEF Preparing, Finishing, Working, Marking, Commanding, InUse
<1> QED
  BY <1>2, <1>4, <1>5, <1>6, <1>7, <1>9, <1>11, RenameIInv DEF Place, Commanding

(* A transaction writes to the ledger file: first the event, then what     *)
(* the disk holds.                                                         *)
LEMMA AppendIInv ==
  ASSUME IInv, NEW p \in Process, AppendEvent(p) \/ FsyncLedger(p)
  PROVE  IInv'
<1>1. /\ live \in past /\ events \in Nat /\ synced \in Nat /\ OldEvents \in Nat
      /\ OldEvents <= synced /\ synced <= events /\ live.head.count \in Nat
      /\ \A d \in past : d.head.count \in Nat
  BY MigrationAssumption DEF IInv, TypeOK, Directory, HeadFile
<1>2. PICK s \in {"fsync", "commit"} :
        /\ pc[p] \in {"append", "fsync"} /\ lock = p /\ Go(p, s)
        /\ UNCHANGED <<live, past, backup, lock, acked, reported>>
        /\ s = "fsync" => /\ events' = events + 1 /\ synced' = synced
                          /\ hasty' = hasty \cup
                               {h \in {"appended"} : \E d \in past : d.head.format = "v1.0"}
        /\ s = "commit" => /\ events' = events /\ synced' = events
                           /\ hasty' = hasty \ {"headed"}
  BY DEF AppendEvent, FsyncLedger, IInv, Holds
<1>3. /\ events' \in Nat /\ synced' \in Nat /\ synced <= synced'
      /\ events <= events' /\ synced' <= events'
  BY <1>1, <1>2
<1>4. hasty' \subseteq Haste
  BY <1>2 DEF IInv, TypeOK, Haste
<1>5. InUse(live) /\ live.head.count <= events
  BY <1>2 DEF IInv, Knows, Working, Commanding
<1>6. \A d \in past : d.ledger = "v1.1"
  BY <1>5 DEF IInv, Files, LedgerFirst
<1>7. /\ pc' \in [Process -> Place] /\ pc'[p] = s
      /\ \A q \in Process : q # p => pc'[q] = "idle"
  BY <1>2, Turn DEF IInv, Place, Commanding
<1>8. TypeOK'
  BY <1>1, <1>2, <1>3, <1>4, <1>7 DEF IInv, TypeOK
<1>9. (Preparing(p) /\ Finishing(p) /\ Working(p))'
  <2>1. live.head.count <= events'
    BY <1>1, <1>3, <1>5
  <2> QED
    BY <1>2, <1>5, <1>7, <2>1 DEF Preparing, Finishing, Working, Marking, Commanding, InUse
<1>10. Holds' /\ Knows'
  BY <1>2, <1>7, <1>9, TurnHolds, TurnKnows
<1>11. (SomeWayOn /\ FreshStart)'
  BY <1>2 DEF IInv, Files, SomeWayOn, FreshStart, Untouched, Resumable, InUse
<1>12. (LedgerFirst /\ HeadsGrow)'
  BY <1>2 DEF IInv, Files, LedgerFirst, HeadsGrow, InUse
<1>13. GrownIsNew'
  <2>1. CASE s = "fsync"
    BY <1>2, <1>6, <2>1 DEF GrownIsNew
  <2>2. CASE s = "commit"
    BY <1>2, <2>2 DEF IInv, Files, GrownIsNew
  <2> QED
    BY <2>1, <2>2
<1>14. HeadsOnDisk'
  <2>1. CASE s = "fsync"
    <3>1. "headed" \in hasty => "headed" \in hasty'
      BY <1>2, <2>1
    <3> QED
      BY <1>2, <2>1, <3>1 DEF IInv, Files, HeadsOnDisk, InUse
  <2>2. CASE s = "commit"
    <3>1. \A d \in past : InUse(d) => d.head.count <= live.head.count
      BY DEF IInv, Files, HeadsGrow
    <3>2. \A d \in past : InUse(d) => d.head.count <= events
      BY <1>1, <1>5, <3>1
    <3> QED
      BY <1>2, <2>2, <3>2 DEF HeadsOnDisk, InUse
  <2> QED
    BY <2>1, <2>2
<1>15. (AckedOnDisk /\ ReportIsDurable)'
  <2>1. acked \in Nat /\ acked <= synced
    BY DEF IInv, TypeOK, AckedOnDisk
  <2> QED
    BY <1>1, <1>2, <1>3, <2>1 DEF IInv, AckedOnDisk, ReportIsDurable
<1> QED
  BY <1>8, <1>10, <1>11, <1>12, <1>13, <1>14, <1>15 DEF IInv, Files

(* An fsync of the directory: the live one is the only one left that may   *)
(* come back.                                                              *)
LEMMA SyncIInv ==
  ASSUME IInv, NEW p \in Process, SyncDirectory(p)
  PROVE  IInv'
<1>1. live \in Directory /\ live \in past
  BY DEF IInv, TypeOK
<1>2. PICK at \in {"prepareSync", "ledgerSync", "ledgerDoneSync", "headSync", "headDoneSync",
                   "unlinkSync", "commitSync", "acceptSync"},
           s \in {"ledger", "ledgerDone", "head", "headDone", "unlink", "idle"} :
        /\ pc[p] = at /\ Go(p, s)
        /\ lock' = lock \/ (s = "idle" /\ lock' = Free)
        /\ at = "prepareSync" <=> s = "ledger"
        /\ at = "ledgerSync" <=> s = "ledgerDone"
        /\ at = "ledgerDoneSync" <=> s = "head"
        /\ at = "headSync" <=> s = "headDone"
        /\ at = "headDoneSync" <=> s = "unlink"
  BY DEF SyncDirectory, Proceed, Leave
<1>3. /\ lock = p /\ past' = {live} /\ UNCHANGED <<live, events, synced, backup>>
      /\ hasty' = hasty \ {"appended"}
      /\ reported' = (reported \/ at = "unlinkSync")
      /\ acked' = IF at = "commitSync" THEN live.head.count ELSE acked
  BY <1>2 DEF SyncDirectory, Proceed, IInv, Holds
<1>4. Preparing(p) /\ Finishing(p) /\ Working(p)
  BY DEF IInv, Knows
<1>5. /\ at \in {"commitSync", "acceptSync"} => InUse(live)
      /\ at = "unlinkSync" => LedgerIsNew /\ live.head = NewHead /\ live.marker = "absent"
      /\ at \notin {"commitSync", "acceptSync", "unlinkSync"} =>
           live.marker # "absent" /\ backup = BackupFile
      /\ at = "prepareSync" => live.ledger = "v1.0"
      /\ at \notin {"prepareSync", "commitSync", "acceptSync"} => LedgerIsNew
  BY <1>2, <1>4 DEF Finishing, Working, Marking, Commanding
<1>6. SomeWayOn' /\ FreshStart'
  <2>1. (InUse(live) \/ Resumable(live))
    BY <1>1, <1>2, <1>5, OldNew
    DEF IInv, Files, SomeWayOn, Untouched, InUse, Resumable, LedgerIsNew
  <2> QED
    BY <1>3, <2>1 DEF SomeWayOn, FreshStart, InUse, Resumable, Untouched
<1>7. (LedgerFirst /\ HeadsGrow)'
  BY <1>1, <1>3 DEF IInv, Files, LedgerFirst, HeadsGrow, InUse
<1>8. (GrownIsNew /\ HeadsOnDisk)'
  <2>1. live.head.format = "v1.0" \/ live.ledger = "v1.0" => events = OldEvents
    BY <1>1, <1>5 DEF IInv, Files, GrownIsNew, InUse, LedgerIsNew
  <2> QED
    BY <1>1, <1>3, <2>1 DEF IInv, Files, GrownIsNew, HeadsOnDisk, InUse
<1>9. acked' \in Nat /\ AckedOnDisk'
  <2>1. at = "commitSync" => live.head.count = synced
    BY <1>2, <1>4 DEF Working
  <2> QED
    BY <1>3, <2>1 DEF IInv, TypeOK, AckedOnDisk
<1>10. ReportIsDurable'
  <2>1. CASE reported
    BY <1>1, <1>3, <2>1 DEF IInv, ReportIsDurable
  <2>2. CASE at = "unlinkSync"
    BY <1>3, <1>5, <2>2, OldNew DEF ReportIsDurable, LedgerIsNew
  <2>3. CASE ~reported /\ at # "unlinkSync"
    BY <1>3, <2>3 DEF ReportIsDurable
  <2> QED
    BY <2>1, <2>2, <2>3
<1>11. s \in Place
  BY <1>2 DEF Place, Marking
<1>12. /\ pc' \in [Process -> Place] /\ pc'[p] = s
       /\ \A q \in Process : q # p => pc'[q] = "idle"
  BY <1>2, <1>3, <1>11, Turn DEF IInv
<1>13. TypeOK'
  BY <1>1, <1>2, <1>3, <1>9, <1>12 DEF IInv, TypeOK
<1>14. (Preparing(p) /\ Finishing(p) /\ Working(p))'
  <2>1. s # "idle" => at \notin {"commitSync", "acceptSync", "unlinkSync"}
    BY <1>2
  <2>2. s \in {"headDone", "unlink"} => live.head = NewHead
    BY <1>2, <1>4 DEF Finishing
  <2> QED
    BY <1>2, <1>3, <1>5, <1>12, <2>1, <2>2
    DEF Preparing, Finishing, Working, Marking, Commanding, LedgerIsNew
<1>15. Holds' /\ Knows'
  BY <1>2, <1>3, <1>12, <1>14, TurnHolds, TurnKnows
<1> QED
  BY <1>6, <1>7, <1>8, <1>9, <1>10, <1>13, <1>15 DEF IInv, Files

(* A power failure brings back one of the directories that may come back,  *)
(* and at least the events that are on the disk.                           *)
LEMMA PowerIInv ==
  ASSUME IInv, PowerFailure
  PROVE  IInv'
<1>1. /\ live' \in past /\ past' = {live'} /\ lock' = Free
      /\ pc' = [p \in Process |-> "idle"] /\ UNCHANGED <<hasty, backup, acked, reported>>
      /\ events' \in synced .. events /\ synced' = events'
  BY DEF PowerFailure
<1>2. /\ OldEvents \in Nat /\ events \in Nat /\ synced \in Nat
      /\ OldEvents <= synced /\ synced <= events
      /\ events' \in Nat /\ synced <= events' /\ events' <= events
      /\ live' \in Directory /\ live'.head.count \in Nat
  BY <1>1, MigrationAssumption DEF IInv, TypeOK, Directory, HeadFile
<1>3. TypeOK'
  BY <1>1, <1>2 DEF IInv, TypeOK, Place
<1>4. Holds' /\ Knows'
  BY <1>1 DEF Holds, Knows, Preparing, Finishing, Working, Marking, Commanding
<1>5. (SomeWayOn /\ FreshStart)'
  BY <1>1 DEF IInv, Files, SomeWayOn, FreshStart, Untouched, Resumable, InUse
<1>6. (LedgerFirst /\ HeadsGrow)'
  BY <1>1, <1>2 DEF IInv, Files, LedgerFirst, HeadsGrow, InUse
<1>7. GrownIsNew'
  <2>1. events = OldEvents => events' = OldEvents
    BY <1>2
  <2> QED
    BY <1>1, <2>1 DEF IInv, Files, GrownIsNew
<1>8. HeadsOnDisk'
  <2>1. "headed" \notin hasty /\ InUse(live') => live'.head.count <= synced
    BY <1>1 DEF IInv, Files, HeadsOnDisk
  <2>2. "headed" \notin hasty /\ InUse(live') => live'.head.count <= synced'
    BY <1>1, <1>2, <2>1
  <2> QED
    BY <1>1, <2>2 DEF HeadsOnDisk, InUse
<1>9. (AckedOnDisk /\ ReportIsDurable)'
  <2>1. acked \in Nat /\ acked <= synced
    BY DEF IInv, TypeOK, AckedOnDisk
  <2> QED
    BY <1>1, <1>2, <2>1 DEF IInv, AckedOnDisk, ReportIsDurable
<1> QED
  BY <1>3, <1>4, <1>5, <1>6, <1>7, <1>8, <1>9 DEF IInv, Files

(* No step disturbs the invariant.                                         *)
LEMMA NextIInv == IInv /\ [Next]_vars => IInv'
<1> SUFFICES ASSUME IInv, [Next]_vars PROVE IInv'
  OBVIOUS
<1>1. ASSUME NEW p \in Process, Migrate(p) PROVE IInv'
  BY <1>1, PrepareIInv, QuietIInv DEF Migrate
<1>2. ASSUME NEW p \in Process, BeginTransact(p) \/ BeginRecover(p) \/ Kill(p) PROVE IInv'
  BY <1>2, QuietIInv
<1>3. ASSUME NEW p \in Process, CopyOriginals(p) \/ WriteCandidates(p) PROVE IInv'
  BY <1>3, PrepareIInv
<1>4. ASSUME NEW p \in Process, ReplaceLedger(p) PROVE IInv'
  BY <1>4, LedgerIInv, QuietIInv DEF ReplaceLedger
<1>5. ASSUME NEW p \in Process, ReplaceHead(p) PROVE IInv'
  BY <1>5, HeadIInv, QuietIInv DEF ReplaceHead
<1>6. ASSUME NEW p \in Process, Step(p) PROVE IInv'
  BY <1>3, <1>4, <1>5, <1>6, MarkerIInv, QuietIInv, AppendIInv, CommitIInv, SyncIInv DEF Step
<1>7. CASE PowerFailure
  BY <1>7, PowerIInv
<1>8. CASE UNCHANGED vars
  <2> USE <1>8 DEF vars
  <2>1. TypeOK' /\ Holds'
    BY DEF IInv, TypeOK, Holds, ledgerFile
  <2>2. Files'
    BY SameFiles DEF IInv
  <2>3. Knows'
    BY DEF IInv, Knows, Preparing, Finishing, Working, Untouched, InUse, LedgerIsNew,
           ledgerFile
  <2>4. (AckedOnDisk /\ ReportIsDurable)'
    BY DEF IInv, AckedOnDisk, ReportIsDurable, ledgerFile
  <2> QED
    BY <2>1, <2>2, <2>3, <2>4 DEF IInv
<1> QED
  BY <1>1, <1>2, <1>6, <1>7, <1>8 DEF Next

(* The invariant holds in every behaviour of the migration.                *)
THEOREM MigrationInvariant == Spec => []IInv
<1> QED
  BY InitIInv, NextIInv, PTL DEF Spec

(* RFC-0001, "resumable": after any kill or power failure the Chronicle is *)
(* in use as v1.1 and reads or recovers, or another run of the migration   *)
(* is accepted and finds every file it looks at to be one it knows; what   *)
(* the two hasty commands do is the only exception.                        *)
THEOREM MigrationNeverStranded == Spec => []NeverStranded
<1>1. IInv => NeverStranded
  <2> SUFFICES ASSUME IInv PROVE NeverStranded
    OBVIOUS
  <2>1. /\ live \in past /\ live \in Directory
        /\ InUse(live) \/ Untouched(live) \/ Resumable(live)
    BY DEF IInv, TypeOK, Files, SomeWayOn
  <2>2. ASSUME "appended" \notin hasty PROVE BothNew \/ Acceptable \/ Finishable
    <3>1. CASE InUse(live)
      BY <3>1 DEF InUse, BothNew
    <3>2. CASE Untouched(live)
      BY <3>2 DEF Untouched, Acceptable
    <3>3. CASE Resumable(live) /\ ~InUse(live)
      <4>1. live.head.format = "v1.0" /\ events = OldEvents
        BY <2>1, <2>2, <3>3
        DEF IInv, Files, LedgerFirst, GrownIsNew, InUse, Directory, HeadFile, Format
      <4> QED
        BY <2>1, <3>3, <4>1
        DEF Resumable, Finishable, LedgerIsNew, Directory, Format
    <3> QED
      BY <2>1, <3>1, <3>2, <3>3
  <2>3. ASSUME "headed" \notin hasty, BothNew PROVE Recoverable
    <3>1. live.head.count <= synced
      BY <2>1, <2>3 DEF IInv, Files, HeadsOnDisk, InUse, BothNew
    <3>2. live.head.count \in Nat /\ synced \in Nat /\ events \in Nat /\ synced <= events
      BY <2>1 DEF IInv, TypeOK, Directory, HeadFile
    <3> QED
      BY <2>3, <3>1, <3>2 DEF Recoverable
  <2> QED
    BY <2>2, <2>3 DEF NeverStranded
<1> QED
  BY <1>1, MigrationInvariant, PTL

(* No event that a caller was told of is ever missing from the ledger:     *)
(* neither a resumed migration nor a power failure takes one back.         *)
THEOREM MigrationKeepsAcked == Spec => []AckedKept
<1>1. IInv => AckedKept
  BY DEF IInv, TypeOK, AckedOnDisk, AckedKept
<1> QED
  BY <1>1, MigrationInvariant, PTL

(* A returned report stays true: no power failure brings a v1.0 file or    *)
(* the marker back.                                                        *)
THEOREM MigrationReportIsDurable == Spec => []ReportIsDurable
<1>1. IInv => ReportIsDurable
  BY DEF IInv
<1> QED
  BY <1>1, MigrationInvariant, PTL

(* One migration or command at a time is at work: all of its steps lie     *)
(* between taking and leaving chronicle.lock.                              *)
THEOREM MigrationExclusive ==
  Spec => [](\A p, q \in Process : pc[p] # "idle" /\ pc[q] # "idle" => p = q)
<1>1. IInv => \A p, q \in Process : pc[p] # "idle" /\ pc[q] # "idle" => p = q
  BY DEF IInv, Holds
<1> QED
  BY <1>1, MigrationInvariant, PTL
=============================================================================
