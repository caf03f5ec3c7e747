-------------------------- MODULE ChronicleProofs --------------------------
(***************************************************************************)
(* Theorems about Chronicle, for every set of processes, every bound and   *)
(* every combination of faults.                                            *)
(***************************************************************************)
EXTENDS Chronicle, SequenceTheorems, TLAPS

(* The longer file continues the shorter one.                              *)
Continues(long, short) ==
  /\ Len(short) <= Len(long)
  /\ \A i \in 1..Len(short) : long[i] = short[i]

(* A file holds an event at the place its sequence number says.            *)
HoldsAt(file, e) == e.seq <= Len(file) /\ file[e.seq].text = e

(* The inductive invariant: what is on the disk is a beginning of what is  *)
(* seen, and a transaction's event is on its way from the draft to the     *)
(* ledger to the disk before its receipt can be returned.                  *)
DurabilityInv ==
  /\ TypeOK
  /\ MutualExclusion
  /\ Continues(ledger, diskLedger)
  /\ \A p \in Process :
       /\ pc[p] = "append" => draft[p].seq = Len(ledger) + 1
       /\ pc[p] = "fsync" => HoldsAt(ledger, draft[p])
       /\ pc[p] \in {"replace", "dirsync"} /\ op[p] = "transact"
            => HoldsAt(diskLedger, draft[p])
       /\ pc[p] \in {"append", "fsync"} => op[p] = "transact"
       /\ pc[p] = "replace" /\ op[p] = "recover" => Parses(ledger)
  /\ \A e \in acked : HoldsAt(diskLedger, e)

-----------------------------------------------------------------------------
LEMMA CutIsPiece ==
  ASSUME NEW piece \in Piece
  PROVE  Cut(piece) \subseteq Piece
<1>1. CutTexts(piece.text) \subseteq Event \cup {Torn}
  BY DEF CutTexts, Piece
<1>2. \A text \in Event \cup {Torn} : [text |-> text, nl |-> FALSE] \in Piece
  BY DEF Piece
<1>. QED  BY <1>1, <1>2, Zenon DEF Cut

(* Whatever survives a power failure continues what was on the disk.       *)
LEMMA SurvivorsContinue ==
  ASSUME NEW disk \in Seq(Piece), NEW file \in Seq(Piece),
         Continues(file, disk), NEW left \in Survivors(disk, file)
  PROVE  left \in Seq(Piece) /\ Continues(left, disk)
<1>1. CASE \E n \in Len(disk)..Len(file) : left = SubSeq(file, 1, n)
  <2>1. PICK n \in Len(disk)..Len(file) : left = SubSeq(file, 1, n)
    BY <1>1
  <2>2. /\ left \in Seq(Piece)
        /\ Len(left) = n
        /\ \A i \in 1..n : left[i] = file[i]
    BY <2>1
  <2>. QED  BY <2>1, <2>2 DEF Continues
<1>2. CASE \E n \in Len(disk)..(Len(file) - 1) :
             \E piece \in Cut(file[n+1]) : left = Append(SubSeq(file, 1, n), piece)
  <2>0. PICK n \in Len(disk)..(Len(file) - 1) :
               \E piece \in Cut(file[n+1]) : left = Append(SubSeq(file, 1, n), piece)
    BY <1>2
  <2>1. PICK piece \in Cut(file[n+1]) : left = Append(SubSeq(file, 1, n), piece)
    BY <2>0
  <2>2. file[n+1] \in Piece
    OBVIOUS
  <2>3. piece \in Piece
    BY <2>2, CutIsPiece
  <2>4. /\ SubSeq(file, 1, n) \in Seq(Piece)
        /\ Len(SubSeq(file, 1, n)) = n
        /\ \A i \in 1..n : SubSeq(file, 1, n)[i] = file[i]
    BY <2>1
  <2>5. /\ left \in Seq(Piece)
        /\ Len(left) = n + 1
        /\ \A i \in 1..n : left[i] = file[i]
    BY <2>1, <2>3, <2>4, AppendProperties
  <2>. QED  BY <2>1, <2>5 DEF Continues
<1>. QED  BY <1>1, <1>2 DEF Survivors

(* An event stays where it is while its file only grows.                   *)
LEMMA HoldsInContinuation ==
  ASSUME NEW short \in Seq(Piece), NEW long \in Seq(Piece), Continues(long, short),
         NEW e \in Event, HoldsAt(short, e)
  PROVE  HoldsAt(long, e)
BY DEF Continues, HoldsAt, Event

LEMMA SigilType ==
  ASSUME NEW s \in Seq(Piece), Parses(s), NEW n \in 0..Len(s)
  PROVE  SigilAt(s, n) \in Nat
<1>1. CASE n = 0
  BY <1>1 DEF SigilAt
<1>2. CASE n # 0
  <2>1. s[n] \in Piece /\ s[n].text # Torn
    BY <1>2 DEF Parses
  <2>2. s[n].text \in Event
    BY <2>1 DEF Piece
  <2>. QED  BY <1>2, <2>2 DEF SigilAt, Event
<1>. QED  BY <1>1, <1>2

LEMMA DraftedType ==
  ASSUME TypeOK, Parses(ledger)
  PROVE  Drafted(nextId) \in Event
<1>1. Len(ledger) \in Nat /\ SigilAt(ledger, Len(ledger)) \in Nat
  BY SigilType DEF TypeOK
<1>. QED  BY <1>1 DEF TypeOK, Drafted, Event

LEMMA NewHeadType ==
  ASSUME TypeOK, NEW p \in Process,
         pc[p] = "replace" /\ op[p] = "recover" => Parses(ledger),
         pc[p] \in {"initReplace", "replace"}
  PROVE  NewHead(p) \in HeadRecord
<1>1. CASE pc[p] = "initReplace"
  BY <1>1 DEF NewHead, HeadFor, SigilAt, HeadRecord
<1>2. CASE pc[p] = "replace" /\ op[p] = "transact"
  BY <1>2 DEF NewHead, HeadRecord, TypeOK, Event
<1>3. CASE pc[p] = "replace" /\ op[p] = "recover"
  <2>1. Len(ledger) \in Nat /\ SigilAt(ledger, Len(ledger)) \in Nat
    BY <1>3, SigilType DEF TypeOK
  <2>. QED  BY <1>3, <2>1 DEF NewHead, HeadFor, HeadRecord
<1>. QED  BY <1>1, <1>2, <1>3 DEF TypeOK

-----------------------------------------------------------------------------
(* The steps.                                                              *)

LEMMA InitInv == Init => DurabilityInv
BY ChronicleAssumption
   DEF Init, DurabilityInv, TypeOK, MutualExclusion, Continues, Location, Holding,
       NoDraft, Event, files

LEMMA EnterInv ==
  ASSUME DurabilityInv, NEW p \in Process, NEW o \in {"transact", "recover"}, Enter(p, o)
  PROVE  DurabilityInv'
BY ChronicleAssumption
   DEF Enter, DurabilityInv, TypeOK, MutualExclusion, Continues, HoldsAt, Location, Holding, files,
       Parses, PrevSigil

LEMMA DeclineInv ==
  ASSUME DurabilityInv, NEW p \in Process, Decline(p)
  PROVE  DurabilityInv'
BY ChronicleAssumption
   DEF Decline, DurabilityInv, TypeOK, MutualExclusion, Continues, HoldsAt, Location, Holding, files,
       Parses, PrevSigil

LEMMA BeginTransactInv ==
  ASSUME DurabilityInv, NEW p \in Process, BeginTransact(p)
  PROVE  DurabilityInv'
<1>1. Drafted(nextId) \in Event
  BY DraftedType DEF DurabilityInv, BeginTransact, Readable
<1>2. Drafted(nextId).seq = Len(ledger) + 1
  BY DEF Drafted
<1>. QED  BY <1>1, <1>2, ChronicleAssumption
   DEF BeginTransact, DurabilityInv, TypeOK, MutualExclusion, Continues, HoldsAt, Location, Holding, files,
       Parses, PrevSigil

LEMMA BeginRecoverInv ==
  ASSUME DurabilityInv, NEW p \in Process, BeginRecover(p)
  PROVE  DurabilityInv'
BY ChronicleAssumption
   DEF BeginRecover, HasValidTail, Recoverable, DurabilityInv, TypeOK, MutualExclusion, Continues, HoldsAt, Location, Holding, files,
       Parses, PrevSigil

LEMMA AppendLineInv ==
  ASSUME DurabilityInv, NEW p \in Process, AppendLine(p)
  PROVE  DurabilityInv'
<1> DEFINE piece == [text |-> draft[p], nl |-> TRUE]
<1>1. piece \in Piece /\ piece.text = draft[p]
  BY DEF Piece, DurabilityInv, TypeOK
<1>. HIDE DEF piece
<1>2. /\ ledger' = Append(ledger, piece)
      /\ ledger' \in Seq(Piece)
      /\ Len(ledger') = Len(ledger) + 1
      /\ \A i \in 1..Len(ledger) : ledger'[i] = ledger[i]
      /\ ledger'[Len(ledger) + 1] = piece
  BY <1>1, AppendProperties DEF AppendLine, piece, DurabilityInv, TypeOK
<1>. QED  BY <1>1, <1>2, ChronicleAssumption
   DEF AppendLine, DurabilityInv, TypeOK, MutualExclusion, Continues, HoldsAt, Location, Holding, files,
       Parses, PrevSigil

LEMMA FsyncLedgerInv ==
  ASSUME DurabilityInv, NEW p \in Process, FsyncLedger(p)
  PROVE  DurabilityInv'
<1>1. \A e \in Event : HoldsAt(diskLedger, e) => HoldsAt(diskLedger', e)
  BY HoldsInContinuation DEF DurabilityInv, TypeOK, FsyncLedger
<1>2. diskLedger' = ledger /\ ledger' = ledger
  BY DEF FsyncLedger
<1>3. TypeOK' /\ MutualExclusion' /\ Continues(ledger', diskLedger')
  BY <1>2, ChronicleAssumption DEF FsyncLedger, DurabilityInv, TypeOK, MutualExclusion, Continues, Location, Holding, files
<1>4. \A e \in acked' : HoldsAt(diskLedger', e)
  BY <1>1 DEF FsyncLedger, DurabilityInv, TypeOK
<1>5. ASSUME NEW q \in Process
      PROVE  /\ pc'[q] = "append" => draft'[q].seq = Len(ledger') + 1
             /\ pc'[q] = "fsync" => HoldsAt(ledger', draft'[q])
             /\ pc'[q] \in {"replace", "dirsync"} /\ op'[q] = "transact"
                  => HoldsAt(diskLedger', draft'[q])
             /\ pc'[q] \in {"append", "fsync"} => op'[q] = "transact"
             /\ pc'[q] = "replace" /\ op'[q] = "recover" => Parses(ledger')
  <2>1. CASE q = p
    BY <2>1, <1>2 DEF FsyncLedger, DurabilityInv, TypeOK
  <2>2. CASE q # p
    BY <2>2, <1>1, <1>2 DEF FsyncLedger, DurabilityInv, TypeOK
  <2>. QED  BY <2>1, <2>2
<1>. QED  BY <1>3, <1>4, <1>5 DEF DurabilityInv

LEMMA ReplaceHeadInv ==
  ASSUME DurabilityInv, NEW p \in Process, ReplaceHead(p)
  PROVE  DurabilityInv'
<1>1. NewHead(p) \in HeadRecord
  BY NewHeadType DEF DurabilityInv, ReplaceHead
<1>. QED  BY <1>1, ChronicleAssumption
   DEF ReplaceHead, DurabilityInv, TypeOK, MutualExclusion, Continues, HoldsAt, Location, Holding, files,
       Parses, PrevSigil

LEMMA FsyncDirectoryInv ==
  ASSUME DurabilityInv, NEW p \in Process, FsyncDirectory(p)
  PROVE  DurabilityInv'
BY ChronicleAssumption
   DEF FsyncDirectory, DurabilityInv, TypeOK, MutualExclusion, Continues, HoldsAt, Location, Holding, files,
       Parses, PrevSigil

LEMMA AbortInv ==
  ASSUME DurabilityInv, NEW p \in Process, Abort(p)
  PROVE  DurabilityInv'
BY ChronicleAssumption
   DEF Abort, DurabilityInv, TypeOK, MutualExclusion, Continues, HoldsAt, Location, Holding, files,
       Parses, PrevSigil

LEMMA AbortAppendInv ==
  ASSUME DurabilityInv, NEW p \in Process, AbortAppend(p)
  PROVE  DurabilityInv'
<1>1. [text |-> draft[p], nl |-> TRUE] \in Piece
  BY DEF Piece, DurabilityInv, TypeOK
<1>2. PICK piece \in Cut([text |-> draft[p], nl |-> TRUE]) : ledger' = Append(ledger, piece)
  BY DEF AbortAppend
<1>3. piece \in Piece
  BY <1>1, <1>2, CutIsPiece
<1>4. /\ ledger' \in Seq(Piece)
      /\ Len(ledger') = Len(ledger) + 1
      /\ \A i \in 1..Len(ledger) : ledger'[i] = ledger[i]
  BY <1>2, <1>3, AppendProperties DEF DurabilityInv, TypeOK
<1>. QED  BY <1>4, ChronicleAssumption
   DEF AbortAppend, DurabilityInv, TypeOK, MutualExclusion, Continues, HoldsAt, Location, Holding, files,
       Parses, PrevSigil

LEMMA PowerFailureInv ==
  ASSUME DurabilityInv, PowerFailure
  PROVE  DurabilityInv'
<1>1. ledger' \in Seq(Piece) /\ Continues(ledger', diskLedger)
  BY SurvivorsContinue DEF PowerFailure, DurabilityInv, TypeOK
<1>2. diskLedger' = ledger' /\ pc' = [p \in Process |-> "idle"] /\ lock' = Free
  BY DEF PowerFailure
<1>3. TypeOK' /\ MutualExclusion' /\ Continues(ledger', diskLedger')
  BY <1>1, <1>2, ChronicleAssumption DEF PowerFailure, DurabilityInv, TypeOK, MutualExclusion, Continues, Location, Holding, files
<1>4. \A e \in acked' : HoldsAt(diskLedger', e)
  BY <1>1, <1>2, HoldsInContinuation DEF PowerFailure, DurabilityInv, TypeOK
<1>. QED  BY <1>2, <1>3, <1>4 DEF DurabilityInv

(* The invariant holds in every reachable state. *)
THEOREM Durability == Spec => []DurabilityInv
<1>1. DurabilityInv /\ [Next]_vars => DurabilityInv'
  <2> SUFFICES ASSUME DurabilityInv, [Next]_vars PROVE DurabilityInv'
    OBVIOUS
  <2>1. ASSUME NEW p \in Process, NEW o \in {"transact", "recover"}, Enter(p, o)
        PROVE  DurabilityInv'
    BY <2>1, EnterInv
  <2>2. ASSUME NEW p \in Process, Step(p)
        PROVE  DurabilityInv'
    BY <2>2, BeginTransactInv, BeginRecoverInv, DeclineInv, AppendLineInv, FsyncLedgerInv,
       ReplaceHeadInv, FsyncDirectoryInv DEF Step
  <2>3. ASSUME NEW p \in Process, Abort(p) \/ AbortAppend(p)
        PROVE  DurabilityInv'
    BY <2>3, AbortInv, AbortAppendInv
  <2>4. CASE PowerFailure
    BY <2>4, PowerFailureInv
  <2>5. CASE UNCHANGED vars
    BY <2>5 DEF vars, DurabilityInv, TypeOK, MutualExclusion, Continues, HoldsAt, Location, Holding, files,
       Parses, PrevSigil
  <2>. QED  BY <2>1, <2>2, <2>3, <2>4, <2>5 DEF Next
<1>. QED  BY <1>1, InitInv, PTL DEF Spec

(* The state of the Chronicle is always well typed. *)
THEOREM TypeCorrect == Spec => []TypeOK
BY Durability, PTL DEF DurabilityInv

(* Fail closed, for every number of processes, kills, short writes and     *)
(* power failures: see AckedEventsInPlace.                                 *)
THEOREM FailClosed == Spec => []AckedEventsInPlace
<1>1. DurabilityInv => AckedEventsInPlace
  BY DEF DurabilityInv, AckedEventsInPlace, Continues, HoldsAt, TypeOK, Event
<1>. QED  BY <1>1, Durability, PTL

-----------------------------------------------------------------------------
(* Without power failures the head lags by at most the event of one        *)
(* interrupted transaction.                                                *)

(* How far the head may lag, at each step of a lock section. *)
LagInv ==
  /\ head = NoHead => ledger = <<>>
  /\ AtMostOneTailEvent
  /\ \A p \in Process :
       /\ pc[p] = "ready" => head # NoHead
       /\ pc[p] \in {"initReplace", "initDirsync"} => ledger = <<>>
       /\ pc[p] = "append" => head # NoHead /\ head.count = Len(ledger)
       /\ pc[p] \in {"initDirsync", "fsync", "replace", "dirsync"} => head # NoHead
       /\ pc[p] \in {"fsync", "replace"} /\ op[p] = "transact"
            => Len(ledger) = draft[p].seq

LEMMA LagStep ==
  ASSUME ~PowerFails, DurabilityInv, LagInv, [Next]_vars
  PROVE  LagInv'
<1> USE ChronicleAssumption, SentinelAssumption
    DEF LagInv, AtMostOneTailEvent, DurabilityInv, TypeOK, MutualExclusion, Holding, Location, files
<1>1. ASSUME NEW p \in Process, NEW o \in {"transact", "recover"}, Enter(p, o)
      PROVE  LagInv'
  BY <1>1 DEF Enter
<1>2. ASSUME NEW p \in Process, BeginTransact(p)
      PROVE  LagInv'
  BY <1>2 DEF BeginTransact, Readable, HeadFor
<1>3. ASSUME NEW p \in Process, BeginRecover(p)
      PROVE  LagInv'
  BY <1>3 DEF BeginRecover
<1>4. ASSUME NEW p \in Process, Decline(p)
      PROVE  LagInv'
  BY <1>4 DEF Decline
<1>5. ASSUME NEW p \in Process, NEW piece, ledger' = Append(ledger, piece),
             head' = head, head # NoHead, head.count = Len(ledger)
      PROVE  head' # NoHead /\ AtMostOneTailEvent' /\ Len(ledger') = Len(ledger) + 1
  BY <1>5
<1>6. ASSUME NEW p \in Process, AppendLine(p)
      PROVE  LagInv'
  BY <1>5, <1>6 DEF AppendLine
<1>7. ASSUME NEW p \in Process, FsyncLedger(p)
      PROVE  LagInv'
  BY <1>7 DEF FsyncLedger
<1>8. ASSUME NEW p \in Process, ReplaceHead(p)
      PROVE  LagInv'
  <2>1. head' # NoHead /\ head'.count = Len(ledger)
    BY <1>8, NewHeadType DEF ReplaceHead, NewHead, HeadFor
  <2>. QED  BY <1>8, <2>1 DEF ReplaceHead
<1>9. ASSUME NEW p \in Process, FsyncDirectory(p)
      PROVE  LagInv'
  BY <1>9 DEF FsyncDirectory
<1>10. ASSUME NEW p \in Process, Abort(p)
       PROVE  LagInv'
  BY <1>10 DEF Abort
<1>11. ASSUME NEW p \in Process, AbortAppend(p)
       PROVE  LagInv'
  <2>1. PICK piece : ledger' = Append(ledger, piece)
    BY <1>11 DEF AbortAppend
  <2>2. head' # NoHead /\ AtMostOneTailEvent'
    BY <1>5, <1>11, <2>1 DEF AbortAppend
  <2>3. \A q \in Process : pc'[q] \in {"idle", "ready"}
    BY <1>11 DEF AbortAppend
  <2>. QED  BY <2>2, <2>3
<1>12. CASE UNCHANGED vars
  BY <1>12 DEF vars
<1>. QED
  BY <1>1, <1>2, <1>3, <1>4, <1>6, <1>7, <1>8, <1>9, <1>10, <1>11, <1>12
     DEF Next, Step, PowerFailure

(* Recovery never has more than one event to accept: AtMostOneTailEvent.   *)
THEOREM RecoveryAcceptsOneEvent ==
  ASSUME ~PowerFails
  PROVE  Spec => []AtMostOneTailEvent
<1>1. Init => LagInv
  BY DEF Init, LagInv, AtMostOneTailEvent
<1>2. DurabilityInv /\ LagInv /\ [Next]_vars => LagInv'
  BY LagStep
<1>3. LagInv => AtMostOneTailEvent
  BY DEF LagInv
<1>. QED  BY <1>1, <1>2, <1>3, Durability, PTL DEF Spec

-----------------------------------------------------------------------------
(* If no append loses just its newline, the chain through every            *)
(* acknowledged event parses for ever.                                     *)

(* The first n lines of a file parse, the newline of the last one included. *)
ParsesTo(s, n) ==
  /\ n <= Len(s)
  /\ \A i \in 1..n : /\ s[i].text # Torn
                     /\ s[i].nl
                     /\ s[i].text.seq = i
                     /\ s[i].text.prev = PrevSigil(s, i)

(* Only torn texts lack their newline. *)
Terminated(s) == \A i \in 1..Len(s) : s[i].text # Torn => s[i].nl

ChainInv ==
  /\ Terminated(ledger)
  /\ \A p \in Process :
       /\ pc[p] = "append" => /\ Parses(ledger)
                              /\ draft[p].prev = SigilAt(ledger, Len(ledger))
       /\ pc[p] = "fsync" => ParsesTo(ledger, draft[p].seq)
       /\ pc[p] \in {"replace", "dirsync"} /\ op[p] = "transact"
            => ParsesTo(diskLedger, draft[p].seq)
  /\ \A e \in acked : ParsesTo(diskLedger, e.seq)

LEMMA ParsesInContinuation ==
  ASSUME NEW short \in Seq(Piece), NEW long \in Seq(Piece), Continues(long, short),
         NEW n \in Nat, ParsesTo(short, n)
  PROVE  ParsesTo(long, n)
<1>1. \A i \in 1..n : long[i] = short[i]
  BY DEF Continues, ParsesTo
<1>2. \A i \in 1..n : PrevSigil(long, i) = PrevSigil(short, i)
  BY <1>1 DEF PrevSigil
<1>. QED  BY <1>1, <1>2 DEF Continues, ParsesTo

LEMMA ParsesWhole ==
  ASSUME NEW s \in Seq(Piece), Terminated(s)
  PROVE  Parses(s) <=> ParsesTo(s, Len(s))
BY DEF Parses, ParsesTo, Terminated

LEMMA ParsesPrefix ==
  ASSUME NEW s \in Seq(Piece), NEW n \in Nat, ParsesTo(s, n)
  PROVE  Parses(SubSeq(s, 1, n))
<1> DEFINE t == SubSeq(s, 1, n)
<1>1. Len(t) = n /\ \A i \in 1..n : t[i] = s[i]
  BY DEF ParsesTo
<1>. HIDE DEF t
<1>2. \A i \in 1..n : PrevSigil(t, i) = PrevSigil(s, i)
  BY <1>1 DEF PrevSigil
<1>3. Parses(t)
  BY <1>1, <1>2 DEF Parses, ParsesTo
<1>. QED  BY <1>3 DEF t

(* A line appended to a parsed ledger parses. *)
LEMMA ParsesAppended ==
  ASSUME NEW s \in Seq(Piece), Terminated(s), Parses(s), NEW piece \in Piece,
         piece.text # Torn, piece.nl, piece.text.seq = Len(s) + 1,
         piece.text.prev = SigilAt(s, Len(s))
  PROVE  /\ Terminated(Append(s, piece))
         /\ ParsesTo(Append(s, piece), Len(s) + 1)
<1> DEFINE t == Append(s, piece)
<1>1. /\ t \in Seq(Piece) /\ Len(t) = Len(s) + 1
      /\ \A i \in 1..Len(s) : t[i] = s[i]
      /\ t[Len(s) + 1] = piece
  BY AppendProperties
<1>. HIDE DEF t
<1>2. \A i \in 1..Len(s) : PrevSigil(t, i) = PrevSigil(s, i)
  BY <1>1 DEF PrevSigil
<1>3. PrevSigil(t, Len(s) + 1) = SigilAt(s, Len(s))
  BY <1>1 DEF PrevSigil, SigilAt
<1>4. \A i \in 1..Len(s) : s[i].nl
  BY DEF Terminated, Parses
<1>5. Terminated(t)
  BY <1>1 DEF Terminated
<1>6. ParsesTo(t, Len(s) + 1)
  BY <1>1, <1>2, <1>3, <1>4 DEF ParsesTo, Parses
<1>. QED  BY <1>5, <1>6 DEF t

(* A cut leaves torn text, nothing else, so survivors stay terminated. *)
LEMMA CutIsTorn ==
  ASSUME "unterminated" \notin ShortWrites, NEW whole, NEW piece \in Cut(whole)
  PROVE  piece.text = Torn
BY DEF Cut, CutTexts

LEMMA SurvivorsTerminated ==
  ASSUME "unterminated" \notin ShortWrites,
         NEW disk \in Seq(Piece), NEW file \in Seq(Piece), Terminated(file),
         NEW left \in Survivors(disk, file)
  PROVE  Terminated(left)
<1>1. CASE \E n \in Len(disk)..Len(file) : left = SubSeq(file, 1, n)
  <2>1. PICK n \in Len(disk)..Len(file) : left = SubSeq(file, 1, n)
    BY <1>1
  <2>2. Len(left) = n /\ \A i \in 1..n : left[i] = file[i]
    BY <2>1
  <2>. QED  BY <2>1, <2>2 DEF Terminated
<1>2. CASE \E n \in Len(disk)..(Len(file) - 1) :
             \E piece \in Cut(file[n+1]) : left = Append(SubSeq(file, 1, n), piece)
  <2>0. PICK n \in Len(disk)..(Len(file) - 1) :
               \E piece \in Cut(file[n+1]) : left = Append(SubSeq(file, 1, n), piece)
    BY <1>2
  <2>1. PICK piece \in Cut(file[n+1]) : left = Append(SubSeq(file, 1, n), piece)
    BY <2>0
  <2>2. piece \in Piece /\ piece.text = Torn
    BY CutIsPiece, CutIsTorn
  <2>3. /\ SubSeq(file, 1, n) \in Seq(Piece)
        /\ Len(SubSeq(file, 1, n)) = n
        /\ \A i \in 1..n : SubSeq(file, 1, n)[i] = file[i]
    OBVIOUS
  <2>4. /\ Len(left) = n + 1
        /\ \A i \in 1..n : left[i] = file[i]
        /\ left[n + 1] = piece
    BY <2>1, <2>2, <2>3, AppendProperties
  <2>. QED  BY <2>2, <2>4 DEF Terminated
<1>. QED  BY <1>1, <1>2 DEF Survivors

LEMMA ChainStep ==
  ASSUME "unterminated" \notin ShortWrites, DurabilityInv, ChainInv, [Next]_vars
  PROVE  ChainInv'
<1> USE DEF DurabilityInv, TypeOK, Location, files
<1>1. ASSUME UNCHANGED <<ledger, diskLedger, acked>>,
             \A p \in Process : pc'[p] \in {pc[p], "idle", "ready", "initReplace"}
                                 /\ draft'[p] = draft[p]
                                 /\ (op'[p] = op[p] \/ pc'[p] \in {"ready", "initReplace"})
      PROVE  ChainInv'
  BY <1>1 DEF ChainInv
<1>2. ASSUME NEW p \in Process, NEW o \in {"transact", "recover"}, Enter(p, o)
      PROVE  ChainInv'
  BY <1>1, <1>2 DEF Enter
<1>3. ASSUME NEW p \in Process, BeginTransact(p)
      PROVE  ChainInv'
  <2>1. Parses(ledger) /\ draft'[p].prev = SigilAt(ledger, Len(ledger))
    BY <1>3 DEF BeginTransact, Readable, Drafted
  <2>. QED  BY <1>3, <2>1 DEF BeginTransact, ChainInv
<1>4. ASSUME NEW p \in Process, BeginRecover(p)
      PROVE  ChainInv'
  BY <1>4 DEF BeginRecover, ChainInv
<1>5. ASSUME NEW p \in Process, Decline(p) \/ Abort(p)
      PROVE  ChainInv'
  BY <1>1, <1>5 DEF Decline, Abort
<1>6. ASSUME NEW p \in Process, AppendLine(p)
      PROVE  ChainInv'
  <2> DEFINE piece == [text |-> draft[p], nl |-> TRUE]
  <2>1. /\ piece \in Piece /\ piece.text = draft[p] /\ piece.nl /\ piece.text # Torn
        /\ draft[p].seq = Len(ledger) + 1
    BY <1>6, SentinelAssumption DEF Piece, AppendLine
  <2>. HIDE DEF piece
  <2>2. Terminated(ledger') /\ ParsesTo(ledger', draft[p].seq)
    BY <1>6, <2>1, ParsesAppended DEF AppendLine, ChainInv, piece
  <2>3. \A q \in Process : q # p => pc[q] \notin {"append", "fsync", "replace", "dirsync"}
    BY <1>6, ChronicleAssumption DEF AppendLine, MutualExclusion, Holding
  <2>. QED  BY <1>6, <2>2, <2>3 DEF AppendLine, ChainInv
<1>7. ASSUME NEW p \in Process, FsyncLedger(p)
      PROVE  ChainInv'
  <2>1. \A n \in Nat : ParsesTo(diskLedger, n) => ParsesTo(diskLedger', n)
    BY <1>7, ParsesInContinuation DEF FsyncLedger
  <2>2. \A e \in acked' : ParsesTo(diskLedger', e.seq)
    BY <1>7, <2>1 DEF FsyncLedger, ChainInv, Event
  <2>3. \A q \in Process : pc'[q] \in {"replace", "dirsync"} /\ op'[q] = "transact"
                             => ParsesTo(diskLedger', draft'[q].seq)
    BY <1>7, <2>1 DEF FsyncLedger, ChainInv, Event
  <2>. QED  BY <1>7, <2>2, <2>3 DEF FsyncLedger, ChainInv
<1>8. ASSUME NEW p \in Process, ReplaceHead(p)
      PROVE  ChainInv'
  BY <1>8 DEF ReplaceHead, ChainInv
<1>9. ASSUME NEW p \in Process, FsyncDirectory(p)
      PROVE  ChainInv'
  BY <1>9 DEF FsyncDirectory, ChainInv
<1>10. ASSUME NEW p \in Process, AbortAppend(p)
       PROVE  ChainInv'
  <2>1. PICK piece \in Cut([text |-> draft[p], nl |-> TRUE]) : ledger' = Append(ledger, piece)
    BY <1>10 DEF AbortAppend
  <2>2. [text |-> draft[p], nl |-> TRUE] \in Piece
    BY DEF Piece
  <2>3. piece \in Piece /\ piece.text = Torn
    BY <2>2, CutIsPiece, CutIsTorn
  <2>4. Terminated(ledger')
    BY <2>1, <2>3, AppendProperties DEF ChainInv, Terminated
  <2>5. \A q \in Process : pc'[q] \notin {"append", "fsync", "replace", "dirsync"}
    BY <1>10, ChronicleAssumption DEF AbortAppend, MutualExclusion, Holding
  <2>. QED  BY <1>10, <2>4, <2>5 DEF AbortAppend, ChainInv
<1>11. CASE PowerFailure
  <2>1. Terminated(ledger') /\ Continues(diskLedger', diskLedger) /\ diskLedger' \in Seq(Piece)
    BY <1>11, SurvivorsTerminated, SurvivorsContinue DEF PowerFailure, ChainInv
  <2>2. \A e \in acked' : ParsesTo(diskLedger', e.seq)
    BY <1>11, <2>1, ParsesInContinuation DEF PowerFailure, ChainInv, Event
  <2>3. \A q \in Process : pc'[q] = "idle"
    BY <1>11 DEF PowerFailure
  <2>. QED  BY <2>1, <2>2, <2>3 DEF ChainInv
<1>12. CASE UNCHANGED vars
  BY <1>12 DEF vars, ChainInv
<1>. QED
  BY <1>2, <1>3, <1>4, <1>5, <1>6, <1>7, <1>8, <1>9, <1>10, <1>11, <1>12 DEF Next, Step

(* If no append loses just its newline, no later step makes the chain      *)
(* through an acknowledged event unparseable: AckedEventsParse.            *)
THEOREM AcknowledgedChainsParse ==
  ASSUME "unterminated" \notin ShortWrites
  PROVE  Spec => []AckedEventsParse
<1>1. Init => ChainInv
  BY DEF Init, ChainInv, Terminated
<1>2. DurabilityInv /\ ChainInv /\ [Next]_vars => ChainInv'
  BY ChainStep
<1>3. DurabilityInv /\ ChainInv => AckedEventsParse
  <2> SUFFICES ASSUME DurabilityInv, ChainInv, NEW e \in acked
               PROVE  Parses(SubSeq(ledger, 1, e.seq))
    BY DEF AckedEventsParse
  <2>1. ParsesTo(ledger, e.seq) /\ e.seq \in Nat
    BY ParsesInContinuation DEF DurabilityInv, TypeOK, ChainInv, Event
  <2>. QED  BY <2>1, ParsesPrefix DEF DurabilityInv, TypeOK
<1>. QED  BY <1>1, <1>2, <1>3, Durability, PTL DEF Spec

-----------------------------------------------------------------------------
(* Without power failures, and if no append loses just its newline, kills  *)
(* leave a Chronicle that recovers.                                        *)

(* The head names an event of the ledger by its place and its sigil, and   *)
(* only a torn line keeps the ledger from parsing.                         *)
HeadInv ==
  /\ Untorn => Parses(ledger)
  /\ head # NoHead => /\ head.count <= Len(ledger)
                      /\ head.sigil = SigilAt(ledger, head.count)

(* A piece added at the end leaves the head right; if its text is torn or  *)
(* the whole parses, so it does what HeadInv says of the ledger.           *)
LEMMA HeadAfterAppend ==
  ASSUME DurabilityInv, HeadInv, NEW piece \in Piece, UNCHANGED head,
         ledger' = Append(ledger, piece),
         piece.text = Torn \/ Parses(ledger')
  PROVE  HeadInv'
<1>1. /\ Len(ledger') = Len(ledger) + 1 /\ Len(ledger) \in Nat
      /\ \A i \in 1..Len(ledger) : ledger'[i] = ledger[i]
      /\ ledger'[Len(ledger) + 1] = piece
  BY AppendProperties DEF DurabilityInv, TypeOK
<1>2. head # NoHead => head.count \in Nat
  BY DEF DurabilityInv, TypeOK, HeadRecord
<1>3. piece.text = Torn => ~Untorn'
  BY <1>1 DEF Untorn
<1>. QED  BY <1>1, <1>2, <1>3 DEF HeadInv, SigilAt

(* A new head counts the whole ledger, or the events up to the one just    *)
(* written, and carries the sigil of the last it counts.                   *)
LEMMA HeadAfterReplace ==
  ASSUME DurabilityInv, HeadInv, NEW p \in Process, ReplaceHead(p)
  PROVE  HeadInv'
<1>1. /\ UNCHANGED ledger /\ head' = NewHead(p) /\ Len(ledger) \in Nat
      /\ pc[p] \in {"initReplace", "replace"} /\ op[p] \in {"transact", "recover"}
  BY DEF ReplaceHead, DurabilityInv, TypeOK
<1>2. CASE pc[p] = "initReplace"
  BY <1>1, <1>2 DEF HeadInv, Untorn, NewHead, HeadFor, SigilAt
<1>3. CASE pc[p] = "replace" /\ op[p] = "transact"
  <2>1. HoldsAt(ledger, draft[p]) /\ draft[p] \in Event
    BY <1>3, HoldsInContinuation DEF DurabilityInv, TypeOK
  <2>2. draft[p].seq \in Nat \ {0} /\ draft[p].seq <= Len(ledger)
    BY <2>1 DEF HoldsAt, Event
  <2>3. head' = [count |-> draft[p].seq, sigil |-> draft[p].id]
    BY <1>1, <1>3 DEF NewHead
  <2>4. SigilAt(ledger, draft[p].seq) = draft[p].id
    BY <2>1, <2>2 DEF SigilAt, HoldsAt
  <2>. QED  BY <1>1, <2>2, <2>3, <2>4 DEF HeadInv, Untorn
<1>4. CASE pc[p] = "replace" /\ op[p] = "recover"
  <2>1. head' = [count |-> Len(ledger), sigil |-> SigilAt(ledger, Len(ledger))]
    BY <1>1, <1>4 DEF NewHead, HeadFor
  <2>. QED  BY <1>1, <2>1 DEF HeadInv, Untorn
<1>. QED  BY <1>1, <1>2, <1>3, <1>4

LEMMA HeadStep ==
  ASSUME ~PowerFails, "unterminated" \notin ShortWrites,
         DurabilityInv, ChainInv, HeadInv, [Next]_vars
  PROVE  HeadInv'
<1>1. ASSUME UNCHANGED <<ledger, head>> PROVE HeadInv'
  BY <1>1 DEF HeadInv, Untorn, Parses, PrevSigil, SigilAt
<1>2. ASSUME NEW p \in Process, AppendLine(p) PROVE HeadInv'
  <2> DEFINE piece == [text |-> draft[p], nl |-> TRUE]
  <2>1. /\ piece \in Piece /\ piece.text = draft[p] /\ piece.nl /\ piece.text # Torn
        /\ draft[p].seq = Len(ledger) + 1 /\ ledger \in Seq(Piece)
    BY <1>2, SentinelAssumption DEF Piece, AppendLine, DurabilityInv, TypeOK
  <2>2. ledger' = Append(ledger, piece) /\ UNCHANGED head
    BY <1>2 DEF AppendLine
  <2>. HIDE DEF piece
  <2>3. Terminated(ledger') /\ ParsesTo(ledger', Len(ledger) + 1)
    BY <1>2, <2>1, <2>2, ParsesAppended DEF AppendLine, ChainInv
  <2>4. ledger' \in Seq(Piece) /\ Len(ledger') = Len(ledger) + 1
    BY <2>1, <2>2, AppendProperties
  <2>5. Parses(ledger')
    BY <2>3, <2>4, ParsesWhole
  <2>. QED  BY <2>1, <2>2, <2>5, HeadAfterAppend
<1>3. ASSUME NEW p \in Process, AbortAppend(p) PROVE HeadInv'
  <2>1. PICK piece \in Cut([text |-> draft[p], nl |-> TRUE]) : ledger' = Append(ledger, piece)
    BY <1>3 DEF AbortAppend
  <2>2. [text |-> draft[p], nl |-> TRUE] \in Piece
    BY DEF Piece, DurabilityInv, TypeOK
  <2>3. piece \in Piece /\ piece.text = Torn
    BY <2>2, CutIsPiece, CutIsTorn
  <2>. QED  BY <1>3, <2>1, <2>3, HeadAfterAppend DEF AbortAppend
<1>4. ASSUME NEW p \in Process, ReplaceHead(p) PROVE HeadInv'
  BY <1>4, HeadAfterReplace
<1>5. ASSUME NEW p \in Process, NEW o \in {"transact", "recover"}, Enter(p, o) PROVE HeadInv'
  BY <1>1, <1>5 DEF Enter, files
<1>6. ASSUME NEW p \in Process,
             \/ BeginTransact(p) \/ BeginRecover(p) \/ Decline(p)
             \/ FsyncLedger(p) \/ FsyncDirectory(p) \/ Abort(p)
      PROVE  HeadInv'
  BY <1>1, <1>6 DEF BeginTransact, BeginRecover, Decline, FsyncLedger, FsyncDirectory,
                    Abort, files
<1>7. CASE UNCHANGED vars
  BY <1>1, <1>7 DEF vars, files
<1>. QED  BY <1>2, <1>3, <1>4, <1>5, <1>6, <1>7 DEF Next, Step, PowerFailure

(* No sequence of kills leaves a Chronicle that neither reads nor          *)
(* recovers, unless it tore a line: NeverBricked.  (A recovery commits a   *)
(* tail that it never fsyncs, so a power failure may.)                     *)
THEOREM KillsNeverBrick ==
  ASSUME ~PowerFails, "unterminated" \notin ShortWrites
  PROVE  Spec => []NeverBricked
<1>1. Init => ChainInv /\ HeadInv
  BY DEF Init, ChainInv, Terminated, HeadInv, Untorn, Parses
<1>2. DurabilityInv /\ ChainInv /\ HeadInv /\ [Next]_vars => ChainInv' /\ HeadInv'
  BY ChainStep, HeadStep
<1>3. HeadInv => NeverBricked
  BY DEF HeadInv, NeverBricked, Recoverable
<1>. QED  BY <1>1, <1>2, <1>3, Durability, PTL DEF Spec

-----------------------------------------------------------------------------
(* Without power failures, and if no append loses just its newline, the    *)
(* Chronicle implements ChronicleLog.                                      *)

(* What the refinement needs besides: ids and sequence numbers stay within *)
(* the bound on drafts, and how far the head is behind at its replacement. *)
BoundInv ==
  /\ Len(ledger) < nextId
  /\ nextId <= MaxEvents + 1
  /\ head # NoHead => head.count <= Len(ledger)
  /\ \A i \in 1..Len(ledger) : ledger[i].text # Torn => ledger[i].text \in DraftableEvent
  /\ \A p \in Process :
       /\ pc[p] = "append" => Len(ledger) + 1 < nextId
       /\ pc[p] \in {"append", "fsync", "replace", "dirsync"} /\ op[p] = "transact"
            => draft[p] \in DraftableEvent
       /\ pc[p] \in {"fsync", "replace"} => head.count + 1 = Len(ledger)
       /\ pc[p] = "dirsync" /\ op[p] = "transact" => draft[p].seq <= head.count

LEMMA DraftedIsDraftable ==
  ASSUME DurabilityInv, BoundInv, Parses(ledger), nextId <= MaxEvents
  PROVE  Drafted(nextId) \in DraftableEvent
<1> USE ChronicleAssumption
<1>1. Len(ledger) \in Nat /\ Len(ledger) + 1 \in 1..MaxEvents /\ nextId \in 1..MaxEvents
  BY DEF BoundInv, DurabilityInv, TypeOK
<1>2. SigilAt(ledger, Len(ledger)) \in 0..MaxEvents
  <2>1. CASE Len(ledger) = 0
    BY <2>1 DEF SigilAt
  <2>2. CASE Len(ledger) # 0
    <3>1. ledger[Len(ledger)].text \in DraftableEvent
      BY <2>2, <1>1 DEF BoundInv, Parses
    <3>. QED  BY <2>2, <3>1 DEF SigilAt, DraftableEvent
  <2>. QED  BY <2>1, <2>2
<1>. QED  BY <1>1, <1>2 DEF Drafted, DraftableEvent

LEMMA BoundStep ==
  ASSUME ~PowerFails, DurabilityInv, LagInv, BoundInv, [Next]_vars
  PROVE  BoundInv'
<1> USE ChronicleAssumption, SentinelAssumption
    DEF BoundInv, LagInv, AtMostOneTailEvent, DurabilityInv, TypeOK, Location, files
<1>1. ASSUME NEW p \in Process, NEW o \in {"transact", "recover"}, Enter(p, o)
      PROVE  BoundInv'
  BY <1>1 DEF Enter
<1>2. ASSUME NEW p \in Process, BeginTransact(p)
      PROVE  BoundInv'
  <2>1. Drafted(nextId) \in DraftableEvent
    BY <1>2, DraftedIsDraftable DEF BeginTransact, Readable
  <2>. QED  BY <1>2, <2>1 DEF BeginTransact
<1>3. ASSUME NEW p \in Process, BeginRecover(p)
      PROVE  BoundInv'
  <2>1. head.count + 1 = Len(ledger)
    BY <1>3 DEF BeginRecover, HasValidTail, Recoverable, HeadRecord
  <2>. QED  BY <1>3, <2>1 DEF BeginRecover
<1>4. ASSUME NEW p \in Process, Decline(p) \/ Abort(p)
      PROVE  BoundInv'
  BY <1>4 DEF Decline, Abort
<1>5. ASSUME NEW p \in Process, NEW piece \in Piece, pc[p] = "append",
             piece.text = Torn \/ piece.text = draft[p], head' = head,
             nextId' = nextId, ledger' = Append(ledger, piece)
      PROVE  /\ Len(ledger') < nextId' /\ nextId' <= MaxEvents + 1
             /\ head' # NoHead => head'.count <= Len(ledger')
             /\ \A i \in 1..Len(ledger') :
                  ledger'[i].text # Torn => ledger'[i].text \in DraftableEvent
             /\ head'.count + 1 = Len(ledger')
  <2>1. /\ Len(ledger') = Len(ledger) + 1
        /\ \A i \in 1..Len(ledger) : ledger'[i] = ledger[i]
        /\ ledger'[Len(ledger) + 1] = piece
    BY <1>5, AppendProperties
  <2>. QED  BY <1>5, <2>1
<1>6. ASSUME NEW p \in Process, AppendLine(p)
      PROVE  BoundInv'
  <2> DEFINE piece == [text |-> draft[p], nl |-> TRUE]
  <2>1. piece \in Piece /\ piece.text = draft[p]
    BY DEF Piece
  <2>. HIDE DEF piece
  <2>2. ledger' = Append(ledger, piece)
    BY <1>6 DEF AppendLine, piece
  <2>3. \A q \in Process : q # p => pc[q] \notin Holding
    BY <1>6 DEF AppendLine, MutualExclusion, Holding
  <2>. QED  BY <1>5, <1>6, <2>1, <2>2, <2>3 DEF AppendLine, Holding
<1>7. ASSUME NEW p \in Process, FsyncLedger(p)
      PROVE  BoundInv'
  BY <1>7 DEF FsyncLedger
<1>8. ASSUME NEW p \in Process, ReplaceHead(p)
      PROVE  BoundInv'
  <2>1. head'.count = Len(ledger) /\ ledger' = ledger
    BY <1>8 DEF ReplaceHead, NewHead, HeadFor
  <2>2. pc[p] = "replace" /\ op[p] = "transact" => draft[p].seq = Len(ledger)
    BY <1>8
  <2>3. \A q \in Process : q # p => pc[q] \notin Holding
    BY <1>8 DEF ReplaceHead, MutualExclusion, Holding
  <2>. QED  BY <1>8, <2>1, <2>2, <2>3 DEF ReplaceHead, Holding
<1>9. ASSUME NEW p \in Process, FsyncDirectory(p)
      PROVE  BoundInv'
  BY <1>9 DEF FsyncDirectory
<1>10. ASSUME NEW p \in Process, AbortAppend(p)
       PROVE  BoundInv'
  <2>1. PICK piece \in Cut([text |-> draft[p], nl |-> TRUE]) : ledger' = Append(ledger, piece)
    BY <1>10 DEF AbortAppend
  <2>2. [text |-> draft[p], nl |-> TRUE] \in Piece
    BY DEF Piece
  <2>3. piece \in Piece /\ (piece.text = Torn \/ piece.text = draft[p])
    BY <2>2, CutIsPiece DEF Cut, CutTexts
  <2>4. \A q \in Process : pc'[q] \notin Holding
    BY <1>10 DEF AbortAppend, MutualExclusion, Holding
  <2>. QED  BY <1>5, <1>10, <2>1, <2>3, <2>4 DEF AbortAppend, Holding
<1>11. CASE UNCHANGED vars
  BY <1>11 DEF vars
<1>. QED
  BY <1>1, <1>2, <1>3, <1>4, <1>6, <1>7, <1>8, <1>9, <1>10, <1>11
     DEF Next, Step, PowerFailure

LEMMA CommittedIs ==
  ASSUME TypeOK, head # NoHead, head.count <= Len(ledger)
  PROVE  /\ Committed = [i \in 1..head.count |-> ledger[i].text]
         /\ Len(Committed) = head.count
<1>1. head.count \in Nat
  BY DEF TypeOK, HeadRecord
<1>. QED  BY <1>1 DEF Committed

LEMMA PrevOfLast ==
  ASSUME NEW s \in Seq(Piece), NEW n \in Nat, n # 0, n + 1 = Len(s)
  PROVE  PrevSigil(s, Len(s)) = s[n].text.id
<1>1. Len(s) # 1 /\ Len(s) - 1 = n
  OBVIOUS
<1>. QED  BY <1>1 DEF PrevSigil

LEMMA RefinementStep ==
  ASSUME ~PowerFails, "unterminated" \notin ShortWrites,
         DurabilityInv, LagInv, ChainInv, BoundInv, DurabilityInv', BoundInv', [Next]_vars
  PROVE  [Log!Next]_<<Committed, acked>>
<1> USE DEF DurabilityInv, TypeOK, files
<1>1. ASSUME UNCHANGED <<ledger, head>>
      PROVE  Committed' = Committed
  BY <1>1 DEF Committed
<1>2. ASSUME NEW p \in Process,
             \/ \E o \in {"transact", "recover"} : Enter(p, o)
             \/ BeginTransact(p) \/ BeginRecover(p) \/ Decline(p) \/ FsyncLedger(p) \/ Abort(p)
      PROVE  UNCHANGED <<Committed, acked>>
  BY <1>1, <1>2 DEF Enter, BeginTransact, BeginRecover, Decline, FsyncLedger, Abort
<1>3. ASSUME NEW p \in Process, AppendLine(p) \/ AbortAppend(p)
      PROVE  UNCHANGED <<Committed, acked>>
  <2>1. /\ head' = head /\ acked' = acked
        /\ \E piece : ledger' = Append(ledger, piece)
    BY <1>3 DEF AppendLine, AbortAppend
  <2>2. /\ Len(ledger) <= Len(ledger')
        /\ \A i \in 1..Len(ledger) : ledger'[i] = ledger[i]
    BY <2>1
  <2>3. CASE head = NoHead
    BY <2>1, <2>3 DEF Committed
  <2>4. CASE head # NoHead
    <3>1. head.count \in Nat /\ head.count <= Len(ledger) /\ head.count <= Len(ledger')
      BY <2>1, <2>2, <2>4 DEF BoundInv, HeadRecord
    <3>2. Committed = [i \in 1..head.count |-> ledger[i].text]
      BY <2>4, <3>1, CommittedIs
    <3>3. Committed' = [i \in 1..head.count |-> ledger'[i].text]
      BY <2>1, <2>4, <3>1 DEF Committed
    <3>4. \A i \in 1..head.count : ledger'[i].text = ledger[i].text
      BY <2>2, <3>1
    <3>. QED  BY <2>1, <3>2, <3>3, <3>4
  <2>. QED  BY <2>3, <2>4
<1>4. ASSUME NEW p \in Process, ReplaceHead(p), pc[p] = "initReplace"
      PROVE  UNCHANGED <<Committed, acked>>
  <2>1. /\ ledger = <<>> /\ ledger' = <<>> /\ acked' = acked
        /\ head' = [count |-> 0, sigil |-> 0]
    BY <1>4 DEF ReplaceHead, LagInv, NewHead, HeadFor, SigilAt
  <2>2. Committed' = <<>>
    BY <2>1 DEF Committed
  <2>3. Committed = <<>>
    BY <2>1 DEF Committed, BoundInv, HeadRecord
  <2>. QED  BY <2>1, <2>2, <2>3
<1>5. ASSUME NEW p \in Process, ReplaceHead(p), pc[p] = "replace"
      PROVE  Log!Next
  <2> DEFINE e == ledger[Len(ledger)].text
  <2>1. /\ head # NoHead /\ head.count \in Nat /\ head.count + 1 = Len(ledger)
        /\ head' # NoHead /\ head'.count = Len(ledger)
        /\ ledger' = ledger /\ acked' = acked
    BY <1>5, NewHeadType, SentinelAssumption, ChronicleAssumption
       DEF ReplaceHead, LagInv, BoundInv, NewHead, HeadFor, HeadRecord
  <2>2. Parses(ledger)
    <3>1. CASE op[p] = "transact"
      <4>1. ParsesTo(diskLedger, Len(ledger))
        BY <1>5, <3>1 DEF ChainInv, LagInv
      <4>2. ParsesTo(ledger, Len(ledger))
        BY <4>1, ParsesInContinuation
      <4>. QED  BY <4>2, ParsesWhole DEF ChainInv
    <3>2. CASE op[p] = "recover"
      BY <1>5, <3>2
    <3>. QED  BY <3>1, <3>2
  <2>3. e \in DraftableEvent /\ e.seq = Len(ledger) /\ e.prev = PrevSigil(ledger, Len(ledger))
    BY <2>1, <2>2 DEF BoundInv, Parses
  <2>4. /\ Committed = [i \in 1..head.count |-> ledger[i].text]
        /\ Len(Committed) = head.count
    BY <2>1, CommittedIs
  <2>5. Committed' = [i \in 1..Len(ledger) |-> ledger[i].text]
    BY <2>1 DEF Committed
  <2>6. Committed' = Append(Committed, e)
    BY <2>1, <2>4, <2>5
  <2>7. e.prev = IF Committed = <<>> THEN 0 ELSE Committed[Len(Committed)].id
    <3>1. CASE head.count = 0
      BY <2>1, <2>3, <2>4, <3>1 DEF PrevSigil
    <3>2. CASE head.count # 0
      <4>1. Committed # <<>> /\ Committed[Len(Committed)] = ledger[head.count].text
        BY <2>1, <2>4, <3>2
      <4>2. PrevSigil(ledger, Len(ledger)) = ledger[head.count].text.id
        BY <2>1, <3>2, PrevOfLast
      <4>. QED  BY <2>3, <4>1, <4>2
    <3>. QED  BY <3>1, <3>2
  <2>8. Log!Commit(e)
    BY <2>1, <2>3, <2>4, <2>6, <2>7 DEF Log!Commit
  <2>. QED  BY <2>3, <2>8 DEF Log!Next
<1>6. ASSUME NEW p \in Process, FsyncDirectory(p)
      PROVE  UNCHANGED <<Committed, acked>> \/ Log!Next
  <2>1. Committed' = Committed
    BY <1>1, <1>6 DEF FsyncDirectory
  <2>2. CASE pc[p] = "dirsync" /\ op[p] = "transact"
    <3>1. /\ draft[p] \in DraftableEvent /\ draft[p].seq <= head.count
          /\ head # NoHead /\ head.count \in Nat /\ head.count <= Len(ledger)
          /\ HoldsAt(ledger, draft[p])
      BY <2>2, HoldsInContinuation DEF BoundInv, LagInv, HeadRecord
    <3>2. draft[p].seq <= Len(Committed) /\ Committed[draft[p].seq] = draft[p]
      BY <3>1, CommittedIs DEF HoldsAt, DraftableEvent
    <3>3. Log!Return(draft[p])
      BY <1>6, <2>1, <2>2, <3>2 DEF Log!Return, FsyncDirectory
    <3>. QED  BY <3>1, <3>3 DEF Log!Next
  <2>3. CASE ~(pc[p] = "dirsync" /\ op[p] = "transact")
    BY <1>6, <2>1, <2>3 DEF FsyncDirectory
  <2>. QED  BY <2>2, <2>3
<1>7. CASE UNCHANGED vars
  BY <1>1, <1>7 DEF vars
<1>. QED
  <2>1. CASE \E p \in Process : ReplaceHead(p)
    BY <2>1, <1>4, <1>5 DEF ReplaceHead
  <2>. QED
    BY <2>1, <1>2, <1>3, <1>6, <1>7 DEF Next, Step, PowerFailure

(* The commit protocol implements the abstract log, step by step: an event *)
(* is committed when the head is replaced, by its transaction or by        *)
(* recovery, and its receipt is returned only then.                        *)
THEOREM Refinement ==
  ASSUME ~PowerFails, "unterminated" \notin ShortWrites
  PROVE  Spec => ImplementsLog
<1>1. Init => Log!Init
  BY DEF Init, Log!Init, Committed
<1>2. Init => LagInv /\ ChainInv /\ BoundInv
  BY ChronicleAssumption
     DEF Init, LagInv, ChainInv, BoundInv, AtMostOneTailEvent, Terminated
<1>3. DurabilityInv /\ LagInv /\ ChainInv /\ BoundInv /\ [Next]_vars
        => LagInv' /\ ChainInv' /\ BoundInv'
  BY LagStep, ChainStep, BoundStep
<1>4. DurabilityInv /\ LagInv /\ ChainInv /\ BoundInv
        /\ DurabilityInv' /\ BoundInv' /\ [Next]_vars
        => [Log!Next]_<<Committed, acked>>
  BY RefinementStep
<1>. QED
  BY <1>1, <1>2, <1>3, <1>4, Durability, PTL DEF Spec, ImplementsLog, Log!Spec
=============================================================================
