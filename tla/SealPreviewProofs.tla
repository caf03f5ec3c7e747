------------------------- MODULE SealPreviewProofs -------------------------
(***************************************************************************)
(* What SealPreview keeps for any number of servers, previews, keys and    *)
(* kills: each confirmed preview is sealed at most once, and each receipt  *)
(* is of a seal that is in the Chronicle.                                  *)
(*                                                                         *)
(* The argument: a seal lies after the head its preview was bound to.  A   *)
(* commit that has just found the head unmoved therefore knows that its    *)
(* preview has not been sealed, and commit.lock keeps that true until it   *)
(* seals: whoever else appends meanwhile seals no preview.                 *)
(***************************************************************************)
EXTENDS SealPreview, TLAPS

Shape ==
  /\ chronicle \in Seq([target : Target \cup {"none"}, preview : Nat])
  /\ previews \in Seq([target : Target, head : Nat])
  /\ pc = [s \in Session |-> pc[s]]
  /\ \A s \in Session : pc[s].at = "previewing" => pc[s].target \in Target
  /\ kills \in 0 .. MaxKills

Exclusive ==
  /\ holder \in Session \cup {Free}
  /\ \A s \in Session : holder = s <=> pc[s].at \in {"sealing", "recording"}

(* The seal at i is of preview p, and was made after the head p is bound to. *)
SealOf(i, p) ==
  /\ i \in DOMAIN chronicle /\ p \in DOMAIN previews
  /\ chronicle[i].preview = p
  /\ chronicle[i].target = previews[p].target

HeadsPast == \A p \in DOMAIN previews : previews[p].head <= Len(chronicle)

Ahead ==
  \A i \in DOMAIN chronicle : chronicle[i].preview # 0 =>
    SealOf(i, chronicle[i].preview) /\ previews[chronicle[i].preview].head < i

Unsealed ==
  \A s \in Session : pc[s].at = "sealing" =>
    /\ pc[s].preview \in DOMAIN previews
    /\ \A i \in DOMAIN chronicle : chronicle[i].preview # pc[s].preview
    /\ \A r \in records : r.key # pc[s].key

Sealed ==
  \A s \in Session : pc[s].at = "recording" =>
    /\ SealOf(pc[s].event, pc[s].preview)
    /\ \A r \in records : r.key # pc[s].key

Recorded ==
  /\ answers \subseteq records
  /\ \A r \in records : SealOf(r.event, r.preview)
  /\ \A r, q \in records : r.key = q.key => r = q

IInv ==
  /\ Shape /\ Exclusive /\ HeadsPast /\ Ahead /\ Unsealed /\ Sealed /\ Recorded
  /\ CommitsOnce /\ SealedOnce

-----------------------------------------------------------------------------
(* An appended sequence agrees with the old one, and ends in the new element. *)
LEMMA Appended ==
  ASSUME NEW S, NEW q \in Seq(S), NEW e \in S
  PROVE  /\ Append(q, e) \in Seq(S)
         /\ Len(q) \in Nat /\ Len(Append(q, e)) = Len(q) + 1
         /\ DOMAIN q = 1 .. Len(q) /\ DOMAIN Append(q, e) = 1 .. Len(q) + 1
         /\ \A i \in 1 .. Len(q) : Append(q, e)[i] = q[i]
         /\ Append(q, e)[Len(q) + 1] = e
  OBVIOUS

(* What Shape says of one event and of one preview. *)
LEMMA Types ==
  ASSUME Shape
  PROVE  /\ Len(chronicle) \in Nat /\ DOMAIN chronicle = 1 .. Len(chronicle)
         /\ \A i \in DOMAIN chronicle : /\ chronicle[i].target \in Target \cup {"none"}
                                       /\ chronicle[i].preview \in Nat
         /\ Len(previews) \in Nat /\ DOMAIN previews = 1 .. Len(previews)
         /\ \A p \in DOMAIN previews : /\ previews[p].target \in Target
                                      /\ previews[p].head \in Nat
<1>. DEFINE E == [target : Target \cup {"none"}, preview : Nat]
            P == [target : Target, head : Nat]
<1>1. /\ chronicle \in Seq(E) /\ \A e \in E : e.target \in Target \cup {"none"} /\ e.preview \in Nat
      /\ previews \in Seq(P) /\ \A q \in P : q.target \in Target /\ q.head \in Nat
  BY DEF Shape
<1>. HIDE DEF E, P
<1>2. \A i \in DOMAIN chronicle : chronicle[i] \in E
  BY <1>1
<1>3. \A p \in DOMAIN previews : previews[p] \in P
  BY <1>1
<1>. QED
  BY <1>1, <1>2, <1>3

(* The initial state. *)
LEMMA InitIInv == Init => IInv
<1>. SUFFICES ASSUME Init PROVE IInv
  OBVIOUS
<1>1. chronicle = <<Other>> /\ Other.preview = 0 /\ Other.target = "none" /\ previews = << >>
  BY DEF Init, Other
<1>2. Shape
  BY SealAssumption DEF Init, Shape, Other, Idle, Target
<1>3. Exclusive
  BY SealAssumption DEF Init, Exclusive, Idle
<1>4. \A s \in Session : pc[s].at = "idle"
  BY DEF Init, Idle
<1>5. Unsealed /\ Sealed
  BY <1>4 DEF Unsealed, Sealed
<1>6. HeadsPast /\ Ahead /\ CommitsOnce /\ SealedOnce
  BY <1>1, SealAssumption DEF HeadsPast, Ahead, CommitsOnce, SealedOnce, SealsOf
<1>7. Recorded
  BY DEF Init, Recorded
<1>. QED
  BY <1>2, <1>3, <1>5, <1>6, <1>7 DEF IInv

(* An event that seals no preview disturbs nothing that is known of seals. *)
LEMMA CommandKeeps == IInv /\ Command => IInv'
<1>. SUFFICES ASSUME IInv, Command PROVE IInv'
  OBVIOUS
<1>1. PICK e \in [target : Target \cup {"none"}, preview : Nat] :
        /\ e.preview = 0 /\ (e.target \in Target => Gate(e.target))
        /\ chronicle' = Append(chronicle, e)
  <2>1. CASE Extend(Other)
    BY <2>1, SealAssumption DEF Extend, Other, Target
  <2>2. CASE \E t \in Target : Gate(t) /\ Extend([target |-> t, preview |-> 0])
    BY <2>2 DEF Extend
  <2>. QED
    BY <2>1, <2>2 DEF Command
<1>2. /\ chronicle' \in Seq([target : Target \cup {"none"}, preview : Nat])
      /\ Len(chronicle) \in Nat /\ Len(chronicle') = Len(chronicle) + 1
      /\ DOMAIN chronicle = 1 .. Len(chronicle)
      /\ DOMAIN chronicle' = 1 .. Len(chronicle) + 1
      /\ \A i \in 1 .. Len(chronicle) : chronicle'[i] = chronicle[i]
      /\ chronicle'[Len(chronicle) + 1] = e
  BY <1>1, Appended DEF IInv, Shape
<1>3. UNCHANGED <<previews, records, holder, pc, answers, kills>>
  BY DEF Command
<1>4. Shape' /\ Exclusive'
  BY <1>2, <1>3 DEF IInv, Shape, Exclusive, Target
<1>5. \A i, p : SealOf(i, p) => SealOf(i, p)'
  BY <1>2, <1>3 DEF SealOf
<1>6. Ahead'
  BY <1>1, <1>2, <1>3, <1>5 DEF IInv, Ahead
<1>7. Unsealed'
  <2>1. ASSUME NEW s \in Session, pc[s].at = "sealing"
        PROVE  \A i \in DOMAIN chronicle' : chronicle'[i].preview # pc[s].preview
    <3>1. pc[s].preview # 0
      BY <2>1 DEF IInv, Shape, Unsealed
    <3>. QED
      BY <1>1, <1>2, <2>1, <3>1 DEF IInv, Unsealed
  <2>. QED
    BY <1>3, <2>1 DEF IInv, Unsealed
<1>8. Sealed' /\ Recorded'
  BY <1>3, <1>5 DEF IInv, Sealed, Recorded
<1>9. CommitsOnce'
  BY <1>1, <1>2 DEF IInv, CommitsOnce
<1>10. SealedOnce'
  BY <1>1, <1>2 DEF IInv, SealedOnce, SealsOf, Gate, Target
<1>11. HeadsPast'
  BY <1>2, <1>3, Types DEF IInv, HeadsPast
<1>. QED
  BY <1>11, <1>4, <1>6, <1>7, <1>8, <1>9, <1>10 DEF IInv

(* A step that leaves the Chronicle and the previews alone leaves the seals. *)
LEMMA SealsKept ==
  ASSUME UNCHANGED <<chronicle, previews>>
  PROVE  /\ \A i, p : SealOf(i, p)' = SealOf(i, p)
         /\ HeadsPast' = HeadsPast /\ Ahead' = Ahead /\ CommitsOnce' = CommitsOnce /\ SealedOnce' = SealedOnce
  BY DEF SealOf, HeadsPast, Ahead, CommitsOnce, SealedOnce, SealsOf, Target

LEMMA DryRunKeeps ==
  ASSUME NEW s \in Session, NEW t \in Target, IInv, DryRun(s, t)
  PROVE  IInv'
<1>1. /\ UNCHANGED <<chronicle, previews, records, holder, answers, kills>>
      /\ pc[s].at = "idle"
      /\ pc' = [pc EXCEPT ![s] = [at |-> "previewing", target |-> t]]
  BY DEF DryRun, Idle
<1>2. /\ pc' = [r \in Session |-> pc'[r]]
      /\ pc'[s].at = "previewing" /\ pc'[s].target = t
      /\ \A r \in Session : r # s => pc'[r] = pc[r]
  BY <1>1 DEF IInv, Shape
<1>3. Shape' /\ Exclusive'
  BY <1>1, <1>2 DEF IInv, Shape, Exclusive, Target
<1>4. Unsealed' /\ Sealed' /\ Recorded'
  BY <1>1, <1>2, SealsKept DEF IInv, Unsealed, Sealed, Recorded
<1>. QED
  BY <1>1, <1>3, <1>4, SealsKept DEF IInv

(* A new preview is sealed by nothing yet. *)
LEMMA SavePreviewKeeps ==
  ASSUME NEW s \in Session, IInv, SavePreview(s)
  PROVE  IInv'
<1>. DEFINE new == [target |-> pc[s].target, head |-> Len(chronicle)]
<1>1. /\ UNCHANGED <<chronicle, records, holder, answers, kills>>
      /\ pc[s].at = "previewing" /\ previews' = Append(previews, new)
      /\ pc' = [pc EXCEPT ![s] = Idle]
  BY DEF SavePreview
<1>2. new \in [target : Target, head : Nat]
  BY <1>1 DEF IInv, Shape
<1>3. /\ previews' \in Seq([target : Target, head : Nat])
      /\ DOMAIN previews \subseteq DOMAIN previews'
      /\ \A p \in DOMAIN previews : previews'[p] = previews[p]
  <2>. HIDE DEF new
  <2>1. previews \in Seq([target : Target, head : Nat])
    BY DEF IInv, Shape
  <2>. QED
    BY <1>1, <1>2, <2>1, Appended
<1>4. /\ pc' = [r \in Session |-> pc'[r]] /\ pc'[s].at = "idle"
      /\ \A r \in Session : r # s => pc'[r] = pc[r]
  BY <1>1 DEF IInv, Shape, Idle
<1>5. Shape' /\ Exclusive'
  BY <1>1, <1>3, <1>4 DEF IInv, Shape, Exclusive, Target
<1>6. \A i, p : SealOf(i, p) => SealOf(i, p)'
  BY <1>1, <1>3 DEF SealOf
<1>7. Ahead'
  BY <1>1, <1>3, <1>6 DEF IInv, Ahead, SealOf
<1>8. Unsealed' /\ Sealed' /\ Recorded'
  BY <1>1, <1>3, <1>4, <1>6 DEF IInv, Unsealed, Sealed, Recorded
<1>10. HeadsPast'
  <2>. HIDE DEF new
  <2>1. /\ Len(previews) \in Nat /\ DOMAIN previews = 1 .. Len(previews)
        /\ DOMAIN previews' = 1 .. Len(previews) + 1
        /\ previews'[Len(previews) + 1] = new
    BY <1>1, <1>2, Appended DEF IInv, Shape
  <2>2. new.head = Len(chronicle) /\ Len(chronicle) \in Nat
    BY DEF new, IInv, Shape
  <2>. QED
    BY <1>1, <1>3, <2>1, <2>2 DEF IInv, HeadsPast
<1>9. CommitsOnce' /\ SealedOnce'
  BY <1>1 DEF IInv, CommitsOnce, SealedOnce, SealsOf, Target
<1>. QED
  BY <1>5, <1>7, <1>8, <1>9, <1>10 DEF IInv

LEMMA ReplayKeeps ==
  ASSUME NEW s \in Session, NEW p, NEW k, IInv, Replay(s, p, k)
  PROVE  IInv'
<1>1. UNCHANGED <<chronicle, previews, records, holder, pc, kills>>
  BY DEF Replay
<1>2. answers' \subseteq records
  BY DEF Replay, RecordsOf, IInv, Recorded
<1>3. Shape' /\ Exclusive'
  BY <1>1 DEF IInv, Shape, Exclusive, Target
<1>4. Unsealed' /\ Sealed' /\ Recorded'
  BY <1>1, <1>2, SealsKept DEF IInv, Unsealed, Sealed, Recorded
<1>. QED
  BY <1>1, <1>3, <1>4, SealsKept DEF IInv

(* The head check: what seals the preview would lie beyond the last event. *)
LEMMA BeginKeeps ==
  ASSUME NEW s \in Session, NEW p \in DOMAIN previews, NEW k \in Key, IInv, Begin(s, p, k)
  PROVE  IInv'
<1>1. /\ UNCHANGED <<chronicle, previews, records, answers, kills>>
      /\ pc[s].at = "idle" /\ holder = Free /\ holder' = s
      /\ previews[p].head = Len(chronicle)
      /\ \A r \in records : r.key # k
      /\ pc' = [pc EXCEPT ![s] = [at |-> "sealing", preview |-> p, key |-> k]]
  BY DEF Begin, Idle, RecordsOf
<1>2. /\ pc' = [r \in Session |-> pc'[r]]
      /\ pc'[s].at = "sealing" /\ pc'[s].preview = p /\ pc'[s].key = k
      /\ \A r \in Session : r # s => pc'[r] = pc[r]
  BY <1>1 DEF IInv, Shape
<1>3. Shape'
  BY <1>1, <1>2 DEF IInv, Shape, Target
<1>4. Exclusive'
  BY <1>1, <1>2, SealAssumption DEF IInv, Exclusive
<1>5. \A i \in DOMAIN chronicle : chronicle[i].preview # p
  <2>1. p # 0 /\ DOMAIN chronicle = 1 .. Len(chronicle) /\ Len(chronicle) \in Nat
    BY DEF IInv, Shape
  <2>. QED
    BY <1>1, <2>1 DEF IInv, Ahead
<1>6. Unsealed' /\ Sealed' /\ Recorded'
  BY <1>1, <1>2, <1>5, SealsKept DEF IInv, Unsealed, Sealed, Recorded
<1>. QED
  BY <1>1, <1>3, <1>4, <1>6, SealsKept DEF IInv

(* The seal: the lock has kept the preview unsealed since the head check. *)
LEMMA SealKeeps ==
  ASSUME NEW s \in Session, IInv, Seal(s)
  PROVE  IInv'
<1>. DEFINE p == pc[s].preview
            e == [target |-> previews[p].target, preview |-> p]
<1>1. /\ UNCHANGED <<previews, records, holder, answers, kills>>
      /\ pc[s].at = "sealing" /\ Gate(previews[p].target)
      /\ chronicle' = Append(chronicle, e)
      /\ pc' = [pc EXCEPT ![s] = [at |-> "recording", preview |-> p,
                                 key |-> pc[s].key, event |-> Len(chronicle')]]
  BY DEF Seal, Extend
<1>2. /\ p \in DOMAIN previews /\ p \in Nat /\ p # 0 /\ previews[p].target \in Target
      /\ previews[p].head \in Nat
      /\ \A i \in DOMAIN chronicle : chronicle[i].preview # p
  <2>1. p \in DOMAIN previews /\ \A i \in DOMAIN chronicle : chronicle[i].preview # p
    BY <1>1 DEF IInv, Unsealed
  <2>. HIDE DEF p
  <2>2. \A q \in DOMAIN previews : /\ q \in Nat /\ q # 0
                                   /\ previews[q].target \in Target /\ previews[q].head \in Nat
    BY Types DEF IInv
  <2>. QED
    BY <2>1, <2>2
<1>3. e \in [target : Target \cup {"none"}, preview : Nat] /\ e.preview = p
        /\ e.target = previews[p].target
  BY <1>2
<1>. HIDE DEF p, e
<1>4. /\ chronicle' \in Seq([target : Target \cup {"none"}, preview : Nat])
      /\ Len(chronicle) \in Nat /\ Len(chronicle') = Len(chronicle) + 1
      /\ DOMAIN chronicle = 1 .. Len(chronicle)
      /\ DOMAIN chronicle' = 1 .. Len(chronicle) + 1
      /\ \A i \in 1 .. Len(chronicle) : chronicle'[i] = chronicle[i]
      /\ chronicle'[Len(chronicle) + 1] = e
  <2>1. chronicle \in Seq([target : Target \cup {"none"}, preview : Nat])
    BY DEF IInv, Shape
  <2>. QED
    BY <1>1, <1>3, <2>1, Appended
<1>5. /\ pc' = [r \in Session |-> pc'[r]]
      /\ pc'[s].at = "recording" /\ pc'[s].preview = p /\ pc'[s].key = pc[s].key
      /\ pc'[s].event = Len(chronicle) + 1
      /\ \A r \in Session : r # s => pc'[r] = pc[r]
  BY <1>1, <1>4 DEF IInv, Shape
<1>6. Shape' /\ Exclusive'
  BY <1>1, <1>4, <1>5 DEF IInv, Shape, Exclusive, Target
<1>7. \A i, q : SealOf(i, q) => SealOf(i, q)'
  BY <1>1, <1>4 DEF SealOf
<1>8. \A i, q : i = Len(chronicle) + 1 /\ q = p => SealOf(i, q)'
  BY <1>1, <1>2, <1>3, <1>4 DEF SealOf
<1>9. Ahead'
  <2>1. previews[p].head < Len(chronicle) + 1
    BY <1>2, <1>4 DEF IInv, HeadsPast
  <2>2. ASSUME NEW i \in 1 .. Len(chronicle), NEW q, q = chronicle'[i].preview, q # 0
        PROVE  SealOf(i, q)' /\ previews'[q].head < i
    BY <1>1, <1>4, <1>7, <2>2 DEF IInv, Ahead
  <2>3. ASSUME NEW i, NEW q, i = Len(chronicle) + 1, q = chronicle'[i].preview
        PROVE  SealOf(i, q)' /\ previews'[q].head < i
    <3>1. q = p
      BY <1>3, <1>4, <2>3
    <3>. QED
      BY <1>1, <1>8, <2>1, <2>3, <3>1
  <2>4. ASSUME NEW i \in DOMAIN chronicle', NEW q, q = chronicle'[i].preview, q # 0
        PROVE  SealOf(i, q)' /\ previews'[q].head < i
    <3>1. i \in 1 .. Len(chronicle) \/ i = Len(chronicle) + 1
      BY <1>4
    <3>. QED
      BY <2>2, <2>3, <2>4, <3>1
  <2>. QED
    BY <2>4 DEF Ahead, SealOf
<1>10. Unsealed'
  BY <1>1, <1>5 DEF IInv, Unsealed, Exclusive
<1>11. Sealed'
  BY <1>1, <1>5, <1>7, <1>8 DEF IInv, Sealed, Unsealed
<1>12. Recorded'
  BY <1>1, <1>7 DEF IInv, Recorded
<1>13. CommitsOnce'
  BY <1>2, <1>3, <1>4 DEF IInv, CommitsOnce
<1>14. SealedOnce'
  BY <1>1, <1>3, <1>4 DEF IInv, SealedOnce, SealsOf, Gate, Target
<1>15. HeadsPast'
  BY <1>1, <1>4, Types DEF IInv, HeadsPast
<1>. QED
  BY <1>15, <1>6, <1>9, <1>10, <1>11, <1>12, <1>13, <1>14 DEF IInv

LEMMA RefusedKeeps ==
  ASSUME NEW s \in Session, IInv, Refused(s)
  PROVE  IInv'
<1>1. /\ UNCHANGED <<chronicle, previews, records, answers, kills>>
      /\ pc[s].at = "sealing" /\ holder' = Free /\ pc' = [pc EXCEPT ![s] = Idle]
  BY DEF Refused
<1>2. /\ pc' = [r \in Session |-> pc'[r]] /\ pc'[s].at = "idle"
      /\ \A r \in Session : r # s => pc'[r] = pc[r]
  BY <1>1 DEF IInv, Shape, Idle
<1>3. Shape'
  BY <1>1, <1>2 DEF IInv, Shape, Target
<1>4. Exclusive'
  BY <1>1, <1>2, SealAssumption DEF IInv, Exclusive
<1>5. Unsealed' /\ Sealed' /\ Recorded'
  BY <1>1, <1>2, SealsKept DEF IInv, Unsealed, Sealed, Recorded
<1>. QED
  BY <1>1, <1>3, <1>4, <1>5, SealsKept DEF IInv

(* The record: no other commit holds the lock, and the key is a new one. *)
LEMMA RecordKeeps ==
  ASSUME NEW s \in Session, IInv, Record(s)
  PROVE  IInv'
<1>. DEFINE new == [key |-> pc[s].key, preview |-> pc[s].preview, event |-> pc[s].event]
<1>1. /\ UNCHANGED <<chronicle, previews, kills>>
      /\ pc[s].at = "recording" /\ holder' = Free /\ pc' = [pc EXCEPT ![s] = Idle]
      /\ records' = records \cup {new} /\ answers' = answers \cup {new}
  BY DEF Record
<1>2. /\ pc' = [r \in Session |-> pc'[r]] /\ pc'[s].at = "idle"
      /\ \A r \in Session : r # s => pc'[r] = pc[r]
  BY <1>1 DEF IInv, Shape, Idle
<1>3. Shape'
  BY <1>1, <1>2 DEF IInv, Shape, Target
<1>4. Exclusive'
  BY <1>1, <1>2, SealAssumption DEF IInv, Exclusive
<1>5. Unsealed' /\ Sealed'
  <2>1. \A r \in Session : pc'[r].at \notin {"sealing", "recording"}
    BY <1>1, <1>2 DEF IInv, Exclusive
  <2>. QED
    BY <2>1 DEF Unsealed, Sealed
<1>6. Recorded'
  BY <1>1, SealsKept DEF IInv, Recorded, Sealed
<1>. QED
  BY <1>1, <1>3, <1>4, <1>5, <1>6, SealsKept DEF IInv

LEMMA KillKeeps ==
  ASSUME NEW s \in Session, IInv, Kill(s)
  PROVE  IInv'
<1>1. /\ UNCHANGED <<chronicle, previews, records, answers>>
      /\ kills < MaxKills /\ kills' = kills + 1
      /\ pc' = [pc EXCEPT ![s] = Idle]
      /\ holder' = IF holder = s THEN Free ELSE holder
  BY DEF Kill
<1>2. /\ pc' = [r \in Session |-> pc'[r]] /\ pc'[s].at = "idle"
      /\ \A r \in Session : r # s => pc'[r] = pc[r]
  BY <1>1 DEF IInv, Shape, Idle
<1>3. Shape'
  BY <1>1, <1>2, SealAssumption DEF IInv, Shape, Target
<1>4. Exclusive'
  BY <1>1, <1>2, SealAssumption DEF IInv, Exclusive
<1>5. Unsealed' /\ Sealed' /\ Recorded'
  BY <1>1, <1>2, SealsKept DEF IInv, Unsealed, Sealed, Recorded
<1>. QED
  BY <1>1, <1>3, <1>4, <1>5, SealsKept DEF IInv

LEMMA StutterKeeps == IInv /\ UNCHANGED vars => IInv'
  BY SealsKept DEF vars, IInv, Shape, Exclusive, Unsealed, Sealed, Recorded, Target

(* Every step keeps the invariant. *)
LEMMA NextKeeps == IInv /\ [Next]_vars => IInv'
<1>. SUFFICES ASSUME IInv, [Next]_vars PROVE IInv'
  OBVIOUS
<1>1. CASE Command
  BY <1>1, CommandKeeps
<1>2. ASSUME NEW s \in Session, SavePreview(s) \/ Seal(s) \/ Refused(s) \/ Record(s) \/ Kill(s)
      PROVE  IInv'
  BY <1>2, SavePreviewKeeps, SealKeeps, RefusedKeeps, RecordKeeps, KillKeeps
<1>3. ASSUME NEW s \in Session, NEW t \in Target, DryRun(s, t)
      PROVE  IInv'
  BY <1>3, DryRunKeeps
<1>4. ASSUME NEW s \in Session, NEW p \in DOMAIN previews, NEW k \in Key,
             Replay(s, p, k) \/ Begin(s, p, k)
      PROVE  IInv'
  BY <1>4, ReplayKeeps, BeginKeeps
<1>5. CASE UNCHANGED vars
  BY <1>5, StutterKeeps
<1>. QED
  BY <1>1, <1>2, <1>3, <1>4, <1>5 DEF Next
-----------------------------------------------------------------------------
(* The strengthening holds in every reachable state. *)
THEOREM Strengthened == Spec => []IInv
  BY InitIInv, NextKeeps, PTL DEF Spec

(* commit.lock is held exactly by the one commit that is past its checks. *)
THEOREM TypeCorrect == Spec => []TypeOK
<1>1. IInv => TypeOK
  <2>. SUFFICES ASSUME IInv PROVE TypeOK
    OBVIOUS
  <2>1. \A i \in DOMAIN chronicle : chronicle[i].preview \in 0 .. Len(previews)
    BY Types DEF IInv, Ahead, SealOf
  <2>2. kills \in 0 .. MaxKills
    BY DEF IInv, Shape
  <2>. QED
    BY <2>1, <2>2, Types DEF IInv, Exclusive, TypeOK
<1>. QED
  BY <1>1, Strengthened, PTL

(* A confirmed preview is sealed at most once, whoever retries its commit    *)
(* and whoever is killed: _commit_preview's head check under commit.lock.    *)
THEOREM PreviewsSealOnce == Spec => []CommitsOnce
<1>1. IInv => CommitsOnce
  BY DEF IInv
<1>. QED
  BY <1>1, Strengthened, PTL

(* A receipt that a commit has answered is of the seal of its preview in the *)
(* Chronicle, and an idempotency key answers for one preview only.           *)
THEOREM ReceiptsAreOfSeals == Spec => []AnswersAreSeals
<1>1. IInv => AnswersAreSeals
  BY DEF IInv, Recorded, SealOf, AnswersAreSeals
<1>. QED
  BY <1>1, Strengthened, PTL

(* A Question or a Protocol is sealed at most once, by previews and command  *)
(* line together: the builders test the Gate inside the transaction.         *)
THEOREM SealsAreFinal == Spec => []SealedOnce
<1>1. IInv => SealedOnce
  BY DEF IInv
<1>. QED
  BY <1>1, Strengthened, PTL
=============================================================================
