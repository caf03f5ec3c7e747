----------------------------- MODULE Chronicle -----------------------------
(***************************************************************************)
(* The commit protocol of the Chronicle (athanor.py, class Chronicle): an  *)
(* append-only JSONL ledger and a separately written head file, shared by  *)
(* every process that opens the project and guarded by one file lock.      *)
(*                                                                         *)
(* Both files are modelled twice: as the operating system shows them, and  *)
(* as they stand on the disk after the last fsync.  A process may be       *)
(* killed (or raise) between any two of its system calls, which frees the  *)
(* lock; a power failure also loses what was not fsynced.                  *)
(*                                                                         *)
(* An event is [id, seq, prev].  Event ids are uuid4, hence fresh, and a   *)
(* receipt sigil is a hash of a body that binds the event id, so the id    *)
(* stands for the receipt sigil too; 0 stands for a null sigil.            *)
(***************************************************************************)
EXTENDS Naturals, Sequences, SequencesExt

CONSTANTS
  Process,       \* processes that open the same project
  Free,          \* value of lock while nobody holds it
  Torn,          \* an incomplete JSON text
  NoHead,        \* the head file does not exist
  MaxEvents,     \* bound: events that transactions may draft
  MaxFaults,     \* bound: kills, exceptions and power failures
  ShortWrites,   \* how an interrupted append may end: "torn", "unterminated"
  PowerFails     \* whether the machine itself may fail

ASSUME ChronicleAssumption ==
  /\ Free \notin Process
  /\ MaxEvents \in Nat
  /\ MaxFaults \in Nat
  /\ ShortWrites \subseteq {"torn", "unterminated"}
  /\ PowerFails \in BOOLEAN

Event == [id : Nat \ {0}, seq : Nat \ {0}, prev : Nat]
HeadRecord == [count : Nat, sigil : Nat]

ASSUME SentinelAssumption == Torn \notin Event /\ NoHead \notin HeadRecord

(* What one append adds to the ledger: the text, and whether its newline   *)
(* reached the file.                                                       *)
Piece == [text : Event \cup {Torn}, nl : BOOLEAN]

VARIABLES
  ledger,      \* chronicle.jsonl, as every process sees it
  head,        \* chronicle.head, as every process sees it
  diskLedger,  \* the part of chronicle.jsonl a power failure cannot take
  diskHead,    \* the chronicle.head a power failure falls back to
  lock,        \* holder of chronicle.lock
  pc,          \* the next system call of each process
  op,          \* "transact" or "recover": the call a process is executing
  draft,       \* the event a transaction is about to append
  nextId,      \* ids handed out
  acked,       \* events whose receipt was returned to a caller
  faults       \* faults so far

files == <<ledger, head, diskLedger, diskHead>>
vars == <<files, lock, pc, op, draft, nextId, acked, faults>>

Location == {"idle", "ready", "initReplace", "initDirsync",
             "append", "fsync", "replace", "dirsync"}
NoDraft == [id |-> 1, seq |-> 1, prev |-> 0]

TypeOK ==
  /\ ledger \in Seq(Piece) /\ diskLedger \in Seq(Piece)
  /\ head \in HeadRecord \cup {NoHead} /\ diskHead \in HeadRecord \cup {NoHead}
  /\ lock \in Process \cup {Free}
  /\ pc \in [Process -> Location]
  /\ op \in [Process -> {"transact", "recover"}]
  /\ draft \in [Process -> Event]
  /\ nextId \in Nat \ {0}
  /\ acked \in SUBSET Event
  /\ faults \in Nat

Init ==
  /\ ledger = <<>> /\ diskLedger = <<>>
  /\ head = NoHead /\ diskHead = NoHead
  /\ lock = Free
  /\ pc = [p \in Process |-> "idle"]
  /\ op = [p \in Process |-> "transact"]
  /\ draft = [p \in Process |-> NoDraft]
  /\ nextId = 1
  /\ acked = {}
  /\ faults = 0

-----------------------------------------------------------------------------
(* Reading.  Texts that share a line do not parse, so a ledger whose last  *)
(* line lacks its newline still parses, and one with such a line inside    *)
(* does not.                                                               *)

PrevSigil(s, i) == IF i = 1 THEN 0 ELSE s[i-1].text.id

Parses(s) ==
  \A i \in 1..Len(s) :
    /\ s[i].text # Torn
    /\ i < Len(s) => s[i].nl
    /\ s[i].text.seq = i
    /\ s[i].text.prev = PrevSigil(s, i)

SigilAt(s, n) == IF n = 0 THEN 0 ELSE s[n].text.id

HeadFor(s) == [count |-> Len(s), sigil |-> SigilAt(s, Len(s))]

(* Mutant of Readable: the head is not compared.                           *)
ReadableAnyHead == head # NoHead /\ Parses(ledger)

(* _read_locked: the ledger parses and the head matches all of it.         *)
Readable ==
  /\ head # NoHead
  /\ Parses(ledger)
  /\ head = HeadFor(ledger)

(* The checks of recover: the head commits a prefix of the ledger.         *)
Recoverable ==
  /\ head # NoHead
  /\ Parses(ledger)
  /\ head.count <= Len(ledger)
  /\ head.sigil = SigilAt(ledger, head.count)

Drafted(id) ==
  [id |-> id, seq |-> Len(ledger) + 1, prev |-> SigilAt(ledger, Len(ledger))]

-----------------------------------------------------------------------------
(* initialize(): the first thing that events, transact and recover do, in  *)
(* a lock section of its own.                                              *)

Enter(p, o) ==
  /\ pc[p] = "idle"
  /\ lock = Free
  /\ op' = [op EXCEPT ![p] = o]
  /\ \/ /\ head # NoHead
        /\ pc' = [pc EXCEPT ![p] = "ready"]
        /\ UNCHANGED lock
     \/ /\ head = NoHead /\ ledger = <<>>
        /\ pc' = [pc EXCEPT ![p] = "initReplace"]
        /\ lock' = p
  /\ UNCHANGED <<files, draft, nextId, acked, faults>>

(* Mutant of BeginTransact: the head is trusted, the chain is not read.    *)
BeginTransactFromHead(p) ==
  /\ pc[p] = "ready" /\ op[p] = "transact"
  /\ lock = Free
  /\ nextId <= MaxEvents
  /\ lock' = p
  /\ draft' = [draft EXCEPT ![p] =
                 [id |-> nextId, seq |-> head.count + 1, prev |-> head.sigil]]
  /\ nextId' = nextId + 1
  /\ pc' = [pc EXCEPT ![p] = "append"]
  /\ UNCHANGED <<files, op, acked, faults>>

(* transact: the ledger and head agree, the builder accepts.               *)
BeginTransact(p) ==
  /\ pc[p] = "ready" /\ op[p] = "transact"
  /\ lock = Free
  /\ Readable
  /\ nextId <= MaxEvents
  /\ lock' = p
  /\ draft' = [draft EXCEPT ![p] = Drafted(nextId)]
  /\ nextId' = nextId + 1
  /\ pc' = [pc EXCEPT ![p] = "append"]
  /\ UNCHANGED <<files, op, acked, faults>>

(* Mutant of HasValidTail: a tail of one event is overlooked.              *)
HasLongTail == Recoverable /\ Len(ledger) > head.count + 1

HasValidTail == Recoverable /\ Len(ledger) > head.count

(* recover(accept_valid_tail=True).  Its projector accepts what builders   *)
(* accepted: the commands whose builder is weaker are another module's.    *)
BeginRecover(p) ==
  /\ pc[p] = "ready" /\ op[p] = "recover"
  /\ lock = Free
  /\ HasValidTail
  /\ lock' = p
  /\ pc' = [pc EXCEPT ![p] = "replace"]
  /\ UNCHANGED <<files, op, draft, nextId, acked, faults>>

(* Every other outcome of the second lock section: a check or the builder  *)
(* raises, or recover has no tail to accept.                               *)
Decline(p) ==
  /\ pc[p] = "ready"
  /\ lock = Free
  /\ op[p] = "recover" => ~HasValidTail
  /\ pc' = [pc EXCEPT ![p] = "idle"]
  /\ UNCHANGED <<files, lock, op, draft, nextId, acked, faults>>

(* Mutant of AppendLine: the receipt is handed out with the append.        *)
AppendLineAcks(p) ==
  /\ pc[p] = "append"
  /\ ledger' = Append(ledger, [text |-> draft[p], nl |-> TRUE])
  /\ pc' = [pc EXCEPT ![p] = "fsync"]
  /\ acked' = acked \cup {draft[p]}
  /\ UNCHANGED <<head, diskLedger, diskHead, lock, op, draft, nextId, faults>>

AppendLine(p) ==
  /\ pc[p] = "append"
  /\ ledger' = Append(ledger, [text |-> draft[p], nl |-> TRUE])
  /\ pc' = [pc EXCEPT ![p] = "fsync"]
  /\ UNCHANGED <<head, diskLedger, diskHead, lock, op, draft, nextId, acked, faults>>

FsyncLedger(p) ==
  /\ pc[p] = "fsync"
  /\ diskLedger' = ledger
  /\ pc' = [pc EXCEPT ![p] = "replace"]
  /\ UNCHANGED <<ledger, head, diskHead, lock, op, draft, nextId, acked, faults>>

(* Mutant of NewHead: the head counts the events before the new one.       *)
NewHeadLags(p) ==
  IF pc[p] = "initReplace" THEN HeadFor(<<>>)
  ELSE IF op[p] = "transact" THEN [count |-> draft[p].seq - 1, sigil |-> draft[p].id]
  ELSE HeadFor(ledger)

(* _write_head: the temporary file is written and fsynced, then renamed    *)
(* over the head.  The head's content depends on the caller.               *)
NewHead(p) ==
  IF pc[p] = "initReplace" THEN HeadFor(<<>>)
  ELSE IF op[p] = "transact" THEN [count |-> draft[p].seq, sigil |-> draft[p].id]
  ELSE HeadFor(ledger)

ReplaceHead(p) ==
  /\ pc[p] \in {"initReplace", "replace"}
  /\ head' = NewHead(p)
  /\ pc' = [pc EXCEPT ![p] =
              IF pc[p] = "initReplace" THEN "initDirsync" ELSE "dirsync"]
  /\ UNCHANGED <<ledger, diskLedger, diskHead, lock, op, draft, nextId, acked, faults>>

(* Mutant of FsyncDirectory: the lock is not released.                     *)
FsyncDirectoryKeepsLock(p) ==
  /\ pc[p] \in {"initDirsync", "dirsync"}
  /\ diskHead' = head
  /\ pc' = [pc EXCEPT ![p] = IF pc[p] = "initDirsync" THEN "ready" ELSE "idle"]
  /\ UNCHANGED <<ledger, head, diskLedger, lock, op, draft, nextId, acked, faults>>

(* _write_head: the directory is fsynced; the caller returns and a         *)
(* transaction hands out its receipt.                                      *)
FsyncDirectory(p) ==
  /\ pc[p] \in {"initDirsync", "dirsync"}
  /\ diskHead' = head
  /\ lock' = Free
  /\ pc' = [pc EXCEPT ![p] = IF pc[p] = "initDirsync" THEN "ready" ELSE "idle"]
  /\ acked' = IF pc[p] = "dirsync" /\ op[p] = "transact"
                THEN acked \cup {draft[p]} ELSE acked
  /\ UNCHANGED <<ledger, head, diskLedger, op, draft, nextId, faults>>

-----------------------------------------------------------------------------
(* Faults.                                                                 *)

CutTexts(text) ==
  (IF "torn" \in ShortWrites THEN {Torn} ELSE {}) \cup
  (IF "unterminated" \in ShortWrites THEN {text} ELSE {})

Cut(piece) == {[text |-> text, nl |-> FALSE] : text \in CutTexts(piece.text)}

(* A process is killed, or a system call of its lock section raises: the   *)
(* lock is released and nothing is undone.                                 *)
Abort(p) ==
  /\ faults < MaxFaults
  /\ pc[p] \notin {"idle", "ready"}
  /\ faults' = faults + 1
  /\ lock' = Free
  /\ pc' = [pc EXCEPT ![p] = "idle"]
  /\ UNCHANGED <<files, op, draft, nextId, acked>>

(* The same, in the middle of the append (disk full, kill): the line       *)
(* reaches the file only in part.                                          *)
AbortAppend(p) ==
  /\ faults < MaxFaults
  /\ pc[p] = "append"
  /\ \E piece \in Cut([text |-> draft[p], nl |-> TRUE]) :
       ledger' = Append(ledger, piece)
  /\ faults' = faults + 1
  /\ lock' = Free
  /\ pc' = [pc EXCEPT ![p] = "idle"]
  /\ UNCHANGED <<head, diskLedger, diskHead, op, draft, nextId, acked>>

(* What may be left of a file whose first Len(disk) pieces were fsynced.   *)
Survivors(disk, file) ==
  {SubSeq(file, 1, n) : n \in Len(disk)..Len(file)} \cup
  UNION {{Append(SubSeq(file, 1, n), piece) : piece \in Cut(file[n+1])} :
           n \in Len(disk)..(Len(file) - 1)}

PowerFailure ==
  /\ PowerFails
  /\ faults < MaxFaults
  /\ faults' = faults + 1
  /\ ledger' \in Survivors(diskLedger, ledger)
  /\ diskLedger' = ledger'
  /\ head' \in {head, diskHead}
  /\ diskHead' = head'
  /\ lock' = Free
  /\ pc' = [p \in Process |-> "idle"]
  /\ UNCHANGED <<op, draft, nextId, acked>>

-----------------------------------------------------------------------------

Step(p) ==
  \/ BeginTransact(p) \/ BeginRecover(p) \/ Decline(p)
  \/ AppendLine(p) \/ FsyncLedger(p) \/ ReplaceHead(p) \/ FsyncDirectory(p)

Next ==
  \/ \E p \in Process :
       \/ \E o \in {"transact", "recover"} : Enter(p, o)
       \/ Step(p)
       \/ Abort(p)
       \/ AbortAppend(p)
  \/ PowerFailure

Spec == Init /\ [][Next]_vars

-----------------------------------------------------------------------------
(* Properties.                                                             *)

Holding == {"initReplace", "initDirsync", "append", "fsync", "replace", "dirsync"}

(* Only the holder of the lock is inside a lock section, so no two         *)
(* processes interleave between reading the chain and writing the head.    *)
MutualExclusion == \A p \in Process : pc[p] \in Holding <=> lock = p

(* Fail closed: whatever was killed, cut short or lost, a ledger that      *)
(* reads without an error holds every event whose receipt a caller was     *)
(* given, at the sequence number the receipt acknowledged.                 *)
AckedEventsInPlace ==
  Readable => \A e \in acked : e.seq <= Len(ledger) /\ ledger[e.seq].text = e

(* Without power failures, interrupted transactions never pile up: at most *)
(* one event lies beyond the head, the one recover may accept.             *)
AtMostOneTailEvent ==
  head # NoHead => Len(ledger) <= head.count + 1

(* A kill between two writes is always recoverable: unless an append was   *)
(* cut short, no sequence of kills leaves a Chronicle that neither reads   *)
(* nor recovers.                                                           *)
Untorn == \A i \in 1..Len(ledger) : ledger[i].text # Torn

NeverBricked ==
  (lock = Free /\ head # NoHead /\ Untorn) => Readable \/ Recoverable

(* "For every Event: the Event and Receipt pass their Schemas" (RFC-0001): *)
(* the chain through an acknowledged event parses, and keeps parsing.      *)
AckedEventsParse ==
  \A e \in acked : Parses(SubSeq(ledger, 1, e.seq))

(* The committed prefix of the ledger, for the refinement of ChronicleLog. *)
Committed ==
  IF head = NoHead THEN <<>>
  ELSE [i \in 1..(IF head.count <= Len(ledger) THEN head.count ELSE Len(ledger))
          |-> ledger[i].text]

DraftableEvent == [id : 1..MaxEvents, seq : 1..MaxEvents, prev : 0..MaxEvents]

Log == INSTANCE ChronicleLog
         WITH Event <- DraftableEvent, log <- Committed, returned <- acked

(* The Chronicle implements an append-only log with durable receipts.      *)
ImplementsLog == Log!Spec

(* Liveness.  The operating system schedules every process, and flock is   *)
(* granted; after a kill somebody runs recover --accept-valid-tail.  Kills *)
(* are finitely many, and transactions need not ever be started.           *)
RunsRecover(p) ==
  /\ ~Readable
  /\ Enter(p, "recover")

FairSpec ==
  /\ Spec
  /\ \A p \in Process :
       /\ WF_vars(AppendLine(p) \/ FsyncLedger(p) \/ ReplaceHead(p) \/ FsyncDirectory(p))
       /\ SF_vars(BeginTransact(p) \/ BeginRecover(p) \/ Decline(p))
  /\ SF_vars(\E p \in Process : RunsRecover(p))

(* A lock section always ends.                                             *)
LockIsReleased == \A p \in Process : lock = p ~> lock # p

(* A Chronicle that a kill has left unreadable becomes readable again,     *)
(* unless the kill tore a line.                                            *)
EventuallyReadable == (head # NoHead /\ Untorn) ~> (Readable \/ ~Untorn)
=============================================================================
