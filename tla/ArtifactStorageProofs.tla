----------------------- MODULE ArtifactStorageProofs -----------------------
(***************************************************************************)
(* What ArtifactStorage keeps for any number of pins, sets, epochs and     *)
(* Recoveries: a Store that failed to protect a historical artifact is     *)
(* never activated, a pin whose place in the Chronicle was taken is never  *)
(* changed again, and the quota counters balance.                          *)
(*                                                                         *)
(* The argument for the first: activation is the only way out of a Store   *)
(* that has not been active.  Such a Store may be recovering, and a        *)
(* Recovery gives back the status it interrupted; so the invariant follows *)
(* the origin of the active Recovery as well as the status.                *)
(*                                                                         *)
(* For the counters: intents and commits move one pin each, whose units    *)
(* are disjoint from those of the other pins, so cardinalities add up.     *)
(***************************************************************************)
EXTENDS ArtifactStorage, FiniteSetTheorems, TLAPS

Recovery == [id : 1 .. MaxRecoveries, state : {"ACTIVE", "COMPLETED"},
             origin : {"INITIALIZING", "ACTIVE"}, epochs : Seq(Nat)]

Shape ==
  /\ store \in [status : {"INITIALIZING", "ACTIVE", "RECOVERING"},
                clock : {"TRUSTED", "UNCERTAIN"}, epoch : Nat]
  /\ recoveries \in Seq(Recovery)
  /\ pins \in [Pin -> [state : {"NONE", "OPEN", "COMMITTED"}, head : Nat]]
  /\ chronicle \in Seq(EventType)

(* The Store has not been active: it is initializing, or in a Recovery     *)
(* that interrupted its initialization.                                    *)
Unactivated ==
  \/ store.status = "INITIALIZING"
  \/ \E r \in DOMAIN recoveries : Active(r) /\ recoveries[r].origin = "INITIALIZING"

Untouched ==
  /\ sets = {} /\ open = {}
  /\ \A r \in DOMAIN recoveries : recoveries[r].origin = "INITIALIZING"

NeverActive == (Unactivated => Untouched) /\ (failed # {} => Unactivated)

IInv == Shape /\ ValidRecoveries /\ ValidPins /\ NeverActive

-----------------------------------------------------------------------------
(* The initial State.                                                      *)
LEMMA InitIInv == SInit => IInv
<1>. SUFFICES ASSUME SInit PROVE IInv
  OBVIOUS
<1>1. Shape
  BY DEF SInit, Shape, NoPin
<1>2. ValidRecoveries /\ ValidPins
  BY DEF SInit, ValidRecoveries, ValidPins, NoPin, Active, Ascending
<1>3. NeverActive
  BY DEF SInit, NeverActive, Unactivated, Untouched
<1>. QED
  BY <1>1, <1>2, <1>3 DEF IInv

(* A Store that is not recovering has no active Recovery, and one that is  *)
(* has exactly one.                                                        *)
LEMMA OneRecovery ==
  ASSUME ValidRecoveries
  PROVE  /\ store.status # "RECOVERING" => \A r \in DOMAIN recoveries : ~Active(r)
         /\ \A q, r \in DOMAIN recoveries : Active(q) /\ Active(r) => q = r
         /\ \A r \in DOMAIN recoveries : Active(r) => store.status = "RECOVERING"
  BY DEF ValidRecoveries

(* Marking a Recovery, or giving it an epoch, keeps every origin.          *)
LEMMA OriginsKept ==
  ASSUME Shape, [Next]_vars,
         EpochStarted \/ RecoveryCompleted
  PROVE  /\ recoveries' \in Seq(Recovery) /\ DOMAIN recoveries' = DOMAIN recoveries
         /\ \A r \in DOMAIN recoveries : /\ recoveries'[r].origin = recoveries[r].origin
                                        /\ recoveries'[r].state \in {recoveries[r].state, "COMPLETED"}
<1>1. recoveries \in Seq(Recovery) /\ store.epoch \in Nat
  BY DEF Shape
<1>2. \A r \in DOMAIN recoveries : recoveries[r] \in Recovery
  BY <1>1
<1>3. CASE EpochStarted
  <2>1. recoveries' = [r \in DOMAIN recoveries |->
                         IF Active(r)
                         THEN [recoveries[r] EXCEPT !.epochs = Append(@, store.epoch + 1)]
                         ELSE recoveries[r]]
    BY <1>3 DEF EpochStarted
  <2>2. \A r \in DOMAIN recoveries :
          /\ recoveries'[r] \in Recovery
          /\ recoveries'[r].origin = recoveries[r].origin
          /\ recoveries'[r].state = recoveries[r].state
    <3>1. ASSUME NEW r \in DOMAIN recoveries, NEW e \in Nat
          PROVE  LET q == [recoveries[r] EXCEPT !.epochs = Append(@, e)]
                 IN  /\ q \in Recovery
                     /\ q.origin = recoveries[r].origin
                     /\ q.state = recoveries[r].state
      <4>1. recoveries[r] \in Recovery /\ recoveries[r].epochs \in Seq(Nat)
        BY <1>2 DEF Recovery
      <4>2. Append(recoveries[r].epochs, e) \in Seq(Nat)
        BY <4>1
      <4>. QED
        BY <4>1, <4>2 DEF Recovery
    <3>2. store.epoch + 1 \in Nat
      BY <1>1
    <3>3. TAKE r \in DOMAIN recoveries
    <3>4. CASE Active(r)
      BY <2>1, <3>1, <3>2, <3>4
    <3>5. CASE ~Active(r)
      BY <1>2, <2>1, <3>5
    <3>. QED
      BY <3>4, <3>5
  <2>. QED
    <3>1. Len(recoveries) \in Nat /\ DOMAIN recoveries = 1 .. Len(recoveries)
      BY <1>1
    <3>2. /\ recoveries' = [r \in DOMAIN recoveries |-> recoveries'[r]]
          /\ DOMAIN recoveries' = DOMAIN recoveries
      BY <2>1
    <3>3. recoveries' \in [1 .. Len(recoveries) -> Recovery]
      BY <2>2, <3>1, <3>2
    <3>. QED
      BY <2>2, <3>1, <3>2, <3>3
<1>4. CASE RecoveryCompleted
  <2>1. PICK q \in DOMAIN recoveries : recoveries' = [recoveries EXCEPT ![q].state = "COMPLETED"]
    BY <1>4 DEF RecoveryCompleted
  <2>2. \A r \in DOMAIN recoveries :
          /\ recoveries'[r] \in Recovery
          /\ recoveries'[r].origin = recoveries[r].origin
          /\ recoveries'[r].state \in {recoveries[r].state, "COMPLETED"}
    BY <1>2, <2>1 DEF Recovery
  <2>3. DOMAIN recoveries' = DOMAIN recoveries
    BY <2>1
  <2>. QED
    BY <1>1, <2>1, <2>2, <2>3
<1>. QED
  BY <1>3, <1>4

(* Registering records, pins and Chronicle events leaves the Store and its *)
(* Recoveries alone.                                                       *)
Registering ==
  \/ ProtectionFailed \/ SetRegistered
  \/ ProvenancePolicyRegistered \/ RetentionPolicyRegistered
Pinning == \E p \in Pin : IntentRecorded(p) \/ Committed(p)

(* Every step keeps the shape of the State.                                *)
LEMMA StepShape ==
  ASSUME Shape, [Next]_vars
  PROVE  Shape'
<1>. USE DEF Shape
<1>1. CASE ActivationCompleted \/ ClockGate
  BY <1>1 DEF ActivationCompleted, ClockGate, objects, pinned
<1>2. CASE EpochStarted
  <2>1. recoveries' \in Seq(Recovery)
    BY <1>2, OriginsKept
  <2>2. store' = [store EXCEPT !.epoch = @ + 1]
    BY <1>2 DEF EpochStarted
  <2>3. UNCHANGED <<pins, chronicle>>
    BY <1>2 DEF EpochStarted, objects, pinned
  <2>. QED
    BY <2>1, <2>2, <2>3
<1>3. CASE RecoveryCompleted
  <2>1. recoveries' \in Seq(Recovery)
    BY <1>3, OriginsKept
  <2>2. PICK r \in DOMAIN recoveries : store' = [store EXCEPT !.status = recoveries[r].origin]
    BY <1>3 DEF RecoveryCompleted
  <2>3. recoveries[r].origin \in {"INITIALIZING", "ACTIVE"}
    <3>1. recoveries[r] \in Recovery
      OBVIOUS
    <3>. QED
      BY <3>1 DEF Recovery
  <2>. QED
    BY <1>3, <2>1, <2>2, <2>3 DEF RecoveryCompleted, objects, pinned
<1>4. CASE RecoveryStarted
  <2>1. PICK id \in 1 .. MaxRecoveries :
          recoveries' = Append(recoveries, [id |-> id, state |-> "ACTIVE", origin |-> store.status,
                                            epochs |-> <<store.epoch + 1>>])
    BY <1>4 DEF RecoveryStarted
  <2>2. [id |-> id, state |-> "ACTIVE", origin |-> store.status,
         epochs |-> <<store.epoch + 1>>] \in Recovery
    BY <1>4 DEF RecoveryStarted, Recovery
  <2>3. recoveries' \in Seq(Recovery)
    BY <2>1, <2>2
  <2>4. store' = [store EXCEPT !.status = "RECOVERING", !.epoch = @ + 1]
    BY <1>4 DEF RecoveryStarted
  <2>5. UNCHANGED <<pins, chronicle>>
    BY <1>4 DEF RecoveryStarted, objects, pinned
  <2>6. store' \in [status : {"INITIALIZING", "ACTIVE", "RECOVERING"},
                    clock : {"TRUSTED", "UNCERTAIN"}, epoch : Nat]
    <3>1. store' = [status |-> "RECOVERING", clock |-> store.clock, epoch |-> store.epoch + 1]
      BY <2>4
    <3>. QED
      BY <3>1
  <2>. QED
    BY <2>3, <2>5, <2>6
<1>5. CASE Registering
  <2>1. store' = store /\ recoveries' = recoveries /\ pins' = pins /\ chronicle' = chronicle
    BY <1>5 DEF Registering, ProtectionFailed, SetRegistered, ProvenancePolicyRegistered,
         RetentionPolicyRegistered, OnlyObjects, pinned
  <2>. QED
    BY <2>1
<1>6. CASE Pinning
  <2>1. PICK p \in Pin : IntentRecorded(p) \/ Committed(p)
    BY <1>6 DEF Pinning
  <2>2. CASE IntentRecorded(p)
    <3>1. PICK head \in 0 .. Len(chronicle) :
            pins' = [pins EXCEPT ![p] = [state |-> "OPEN", head |-> head]]
      BY <2>2 DEF IntentRecorded
    <3>2. head \in Nat
      OBVIOUS
    <3>3. pins' \in [Pin -> [state : {"NONE", "OPEN", "COMMITTED"}, head : Nat]]
      BY <3>1, <3>2
    <3>. QED
      BY <2>2, <3>3 DEF IntentRecorded, objects
  <2>3. CASE Committed(p)
    BY <2>3 DEF Committed, objects
  <2>. QED
    BY <2>1, <2>2, <2>3
<1>7. CASE ChronicleAppended
  BY <1>7 DEF ChronicleAppended, objects, pinned
<1>8. CASE MessageRejected \/ UNCHANGED vars
  BY <1>8 DEF MessageRejected, vars, objects, pinned
<1>. QED
  BY <1>1, <1>2, <1>3, <1>4, <1>5, <1>6, <1>7, <1>8
     DEF Next, Step, Registering, Pinning

(* Every step keeps an unactivated Store untouched.                        *)
LEMMA StepNeverActive ==
  ASSUME IInv, [Next]_vars, ValidRecoveries'
  PROVE  NeverActive'
<1>. USE DEF IInv
<1>0. /\ DOMAIN recoveries = 1 .. Len(recoveries) /\ Len(recoveries) \in Nat
      /\ \A r \in DOMAIN recoveries : recoveries[r] \in Recovery
  BY DEF Shape
<1>1. CASE ActivationCompleted
  <2>1. ~Unactivated' /\ failed' = {}
    BY <1>1, OneRecovery DEF ActivationCompleted, Unactivated, Active, objects, Shape
  <2>. QED
    BY <2>1 DEF NeverActive
<1>2. CASE ClockGate
  <2>1. store'.status = store.status
    BY <1>2 DEF ClockGate, Shape
  <2>. QED
    BY <1>2, <2>1 DEF ClockGate, NeverActive, Unactivated, Untouched, Active, objects, pinned
<1>3. CASE EpochStarted
  <2>1. store'.status = store.status
    BY <1>3 DEF EpochStarted, Shape
  <2>2. /\ DOMAIN recoveries' = DOMAIN recoveries
        /\ \A r \in DOMAIN recoveries :
             /\ recoveries'[r].origin = recoveries[r].origin
             /\ recoveries'[r].state \in {recoveries[r].state, "COMPLETED"}
    BY <1>3, OriginsKept
  <2>3. \A r \in DOMAIN recoveries : Active(r) => Active(r)'
    BY <1>0, <1>3 DEF EpochStarted, Active, Recovery
  <2>4. (Unactivated' <=> Unactivated) /\ (Untouched <=> Untouched')
    BY <1>3, <2>1, <2>2, <2>3 DEF EpochStarted, Unactivated, Untouched, objects, pinned, Active
  <2>. QED
    BY <1>3, <2>4 DEF EpochStarted, NeverActive, objects
<1>4. CASE RecoveryStarted
  <2>1. PICK id \in 1 .. MaxRecoveries :
          recoveries' = Append(recoveries, [id |-> id, state |-> "ACTIVE", origin |-> store.status,
                                            epochs |-> <<store.epoch + 1>>])
    BY <1>4 DEF RecoveryStarted
  <2>2. /\ DOMAIN recoveries' = 1 .. Len(recoveries) + 1
        /\ \A r \in DOMAIN recoveries : recoveries'[r] = recoveries[r]
        /\ recoveries'[Len(recoveries) + 1].state = "ACTIVE"
        /\ recoveries'[Len(recoveries) + 1].origin = store.status
    BY <1>0, <2>1 DEF Shape
  <2>3. store.status \in {"INITIALIZING", "ACTIVE"} /\ store'.status = "RECOVERING"
    BY <1>4 DEF RecoveryStarted, Shape
  <2>4. \A r \in DOMAIN recoveries : ~Active(r) /\ ~Active(r)'
    BY <2>2, <2>3, OneRecovery DEF Active
  <2>5. Unactivated' <=> store.status = "INITIALIZING"
    BY <1>0, <2>2, <2>3, <2>4 DEF Unactivated, Active
  <2>6. Unactivated <=> store.status = "INITIALIZING"
    BY <2>4 DEF Unactivated
  <2>7. Unactivated /\ Untouched => Untouched'
    BY <1>0, <1>4, <2>2, <2>6 DEF RecoveryStarted, Untouched, objects, pinned
  <2>. QED
    BY <1>4, <2>5, <2>6, <2>7 DEF RecoveryStarted, NeverActive, objects
<1>5. CASE RecoveryCompleted
  <2>1. PICK r \in DOMAIN recoveries :
          /\ Active(r) /\ store' = [store EXCEPT !.status = recoveries[r].origin]
    BY <1>5 DEF RecoveryCompleted
  <2>2. /\ DOMAIN recoveries' = DOMAIN recoveries
        /\ \A q \in DOMAIN recoveries :
             /\ recoveries'[q].origin = recoveries[q].origin
             /\ recoveries'[q].state \in {recoveries[q].state, "COMPLETED"}
    BY <1>5, OriginsKept
  <2>3. store'.status = recoveries[r].origin /\ store.status = "RECOVERING"
    BY <1>5, <2>1 DEF Shape, RecoveryCompleted
  <2>4. Unactivated' <=> Unactivated
    <3>1. Unactivated <=> recoveries[r].origin = "INITIALIZING"
      BY <2>1, <2>3, OneRecovery DEF Unactivated
    <3>2. \A q \in DOMAIN recoveries : Active(q)' => q = r
      BY <2>1, <2>2, OneRecovery DEF Active
    <3>3. Unactivated' <=> recoveries[r].origin = "INITIALIZING"
      BY <2>2, <2>3, <3>2 DEF Unactivated
    <3>. QED
      BY <3>1, <3>3
  <2>5. Untouched <=> Untouched'
    BY <1>5, <2>2 DEF RecoveryCompleted, Untouched, objects, pinned
  <2>. QED
    BY <1>5, <2>4, <2>5 DEF RecoveryCompleted, NeverActive, objects
<1>6. CASE ProtectionFailed
  <2>1. /\ Unactivated /\ Unactivated' /\ (Untouched' <=> Untouched)
    BY <1>6 DEF ProtectionFailed, OnlyObjects, pinned, Unactivated, Untouched
  <2>. QED
    BY <2>1 DEF NeverActive
<1>7. ASSUME store.status = "ACTIVE", failed' = failed, UNCHANGED <<store, recoveries>>
      PROVE  NeverActive'
  <2>1. ~Unactivated
    BY <1>7, OneRecovery DEF Unactivated
  <2>2. ~Unactivated'
    BY <1>7, <2>1 DEF Unactivated, Active
  <2>. QED
    BY <1>7, <2>1, <2>2 DEF NeverActive
<1>8. CASE SetRegistered \/ ProvenancePolicyRegistered \/ RetentionPolicyRegistered
  BY <1>7, <1>8 DEF SetRegistered, ProvenancePolicyRegistered, RetentionPolicyRegistered,
                    OnlyObjects
<1>9. CASE Pinning
  <2>1. PICK p \in Pin : IntentRecorded(p) \/ Committed(p)
    BY <1>9 DEF Pinning
  <2>2. CASE IntentRecorded(p)
    BY <1>7, <2>2 DEF IntentRecorded, objects
  <2>3. CASE Committed(p)
    <3>1. (Unactivated' <=> Unactivated) /\ (Untouched => Untouched') /\ failed' = failed
      BY <2>3 DEF Committed, objects, Unactivated, Untouched, Active
    <3>. QED
      BY <3>1 DEF NeverActive
  <2>. QED
    BY <2>1, <2>2, <2>3
<1>10. CASE ChronicleAppended \/ MessageRejected \/ UNCHANGED vars
  BY <1>10 DEF ChronicleAppended, MessageRejected, vars, objects, pinned, NeverActive,
               Unactivated, Untouched, Active
<1>. QED
  BY <1>1, <1>2, <1>3, <1>4, <1>5, <1>6, <1>8, <1>9, <1>10 DEF Next, Step, Pinning

(* The shape, the validated lists and the rule for unactivated Stores hold *)
(* in every reachable State.                                               *)
THEOREM Invariance == Spec => []IInv
<1>1. ASSUME IInv, [Next]_vars PROVE IInv'
  <2>1. ValidRecoveries' /\ ValidPins'
    <3>1. CASE Next
      BY <3>1 DEF Next, Valid
    <3>2. CASE UNCHANGED vars
      BY <1>1, <3>2 DEF IInv, vars, objects, pinned, ValidRecoveries, ValidPins, Active, Ascending
    <3>. QED
      BY <1>1, <3>1, <3>2
  <2>2. Shape' /\ NeverActive'
    BY <1>1, <2>1, StepShape, StepNeverActive DEF IInv
  <2>. QED
    BY <2>1, <2>2 DEF IInv
<1>. QED
  BY <1>1, InitIInv, PTL DEF Spec

(* A Store that failed to protect a historical artifact never becomes      *)
(* active and never registers a set or opens a pin.                        *)
THEOREM FailuresHold == Spec => []FailedProtectionHolds
<1>1. IInv => FailedProtectionHolds
  <2>. SUFFICES ASSUME IInv, failed # {} PROVE FailedProtectionHolds
    BY DEF FailedProtectionHolds
  <2>1. Unactivated /\ Untouched
    BY DEF IInv, NeverActive
  <2>2. store.status # "ACTIVE"
    BY <2>1, OneRecovery DEF IInv, Unactivated
  <2>. QED
    BY <2>1, <2>2 DEF FailedProtectionHolds, Untouched
<1>. QED
  BY <1>1, Invariance, PTL

(* What a step does to one stranded pin.                                   *)
LEMMA StepStranded ==
  ASSUME IInv, [Next]_vars, NEW p \in Pin, Stranded(p)
  PROVE  /\ pins'[p] = pins[p] /\ reservations'[p] = reservations[p]
         /\ store.status = "RECOVERING" => store'.status = "RECOVERING"
<1>1. p \in open /\ pins[p].state = "OPEN" /\ ~Bound(p)
  BY DEF IInv, ValidPins, Stranded
<1>2. CASE ActivationCompleted \/ ClockGate
  BY <1>2 DEF ActivationCompleted, ClockGate, objects, pinned
<1>3. CASE EpochStarted \/ RecoveryStarted
  BY <1>3 DEF EpochStarted, RecoveryStarted, objects, pinned, IInv, Shape
<1>4. CASE RecoveryCompleted
  BY <1>1, <1>4 DEF RecoveryCompleted
<1>5. CASE Registering
  BY <1>5 DEF Registering, ProtectionFailed, SetRegistered, ProvenancePolicyRegistered,
       RetentionPolicyRegistered, OnlyObjects, pinned
<1>6. CASE Pinning
  <2>1. PICK q \in Pin : IntentRecorded(q) \/ Committed(q)
    BY <1>6 DEF Pinning
  <2>2. q # p
    BY <1>1, <2>1 DEF IntentRecorded, Committed
  <2>3. UNCHANGED store
    BY <2>1 DEF IntentRecorded, Committed
  <2>4. /\ \E pin : pins' = [pins EXCEPT ![q] = pin]
        /\ \E reservation : reservations' = [reservations EXCEPT ![q] = reservation]
    <3>1. CASE IntentRecorded(q)
      BY <3>1 DEF IntentRecorded
    <3>2. CASE Committed(q)
      BY <3>2 DEF Committed
    <3>. QED
      BY <2>1, <3>1, <3>2
  <2>. QED
    BY <2>2, <2>3, <2>4
<1>7. CASE ChronicleAppended \/ MessageRejected \/ UNCHANGED vars
  BY <1>7 DEF ChronicleAppended, MessageRejected, vars, objects, pinned
<1>. QED
  BY <1>2, <1>3, <1>4, <1>5, <1>6, <1>7 DEF Next, Step, Registering, Pinning

(* A pin whose place in the Chronicle was taken keeps its capacity for     *)
(* ever, and a Store that recovers while it is open recovers for ever.     *)
THEOREM StrandedForever == Spec => StrandedPinsHold
<1>1. ASSUME IInv, [Next]_vars
      PROVE  \A p \in Pin :
               Stranded(p) =>
                 /\ pins'[p] = pins[p] /\ reservations'[p] = reservations[p]
                 /\ (store.status = "RECOVERING" => store'.status = "RECOVERING")
  BY <1>1, StepStranded
<1>. QED
  BY <1>1, Invariance, PTL DEF Spec, StrandedPinsHold
-----------------------------------------------------------------------------
(* Quota.                                                                  *)

(* Units of pins P, as many of each pin as f says.                         *)
Units(P, f) == UNION {{p} \X (1 .. f[p]) : p \in P}

Done == {p \in Pin : pins[p].state = "COMMITTED"}
Claims(c) == [p \in Pin |-> reservations[p].claims[c]]
Spent(c) == [p \in Pin |-> reservations[p].consumed[c]]

QuotaShape ==
  /\ reservations \in [Pin -> [state : {"NONE", "ACTIVE", "SETTLED"},
                               claims : [Class -> Nat], consumed : [Class -> Nat]]]
  /\ counters \in [Class -> [used : Nat, reserved : Nat]]

(* The counters count: open pins are finitely many in every reachable      *)
(* State, so their units are, although Pin may have no end.                *)
Counted ==
  \A c \in Class :
    /\ IsFiniteSet(Units(open, Claims(c))) /\ IsFiniteSet(Units(Done, Spent(c)))
    /\ counters[c].reserved = Cardinality(Units(open, Claims(c)))
    /\ counters[c].used = Cardinality(Units(Done, Spent(c)))

QuotaInv == QuotaShape /\ Counted

(* Only what f says of P matters.                                          *)
LEMMA SameUnits ==
  ASSUME NEW P, NEW f, NEW g, \A p \in P : f[p] = g[p]
  PROVE  Units(P, f) = Units(P, g)
  BY DEF Units

(* One pin more than P, of which g says what f said.                       *)
OneMore(P, p, f, g) == p \notin P /\ g[p] \in Nat /\ \A q \in P : f[q] = g[q]

(* Its units come on top of theirs.                                        *)
LEMMA OneMoreUnits ==
  ASSUME NEW P, NEW p, NEW f, NEW g, OneMore(P, p, f, g)
  PROVE  /\ IsFiniteSet(Units(P \cup {p}, g)) => IsFiniteSet(Units(P, f))
         /\ IsFiniteSet(Units(P, f)) =>
              /\ IsFiniteSet(Units(P \cup {p}, g)) /\ Cardinality(Units(P, f)) \in Nat
              /\ Cardinality(Units(P \cup {p}, g)) = Cardinality(Units(P, f)) + g[p]
<1>. DEFINE old == Units(P, f)
            own == {p} \X (1 .. g[p])
            all == Units(P \cup {p}, g)
<1>0. p \notin P /\ g[p] \in Nat /\ \A q \in P : f[q] = g[q]
  BY DEF OneMore
<1>1. all = old \cup own
  <2>1. Units(P, f) = Units(P, g)
    BY <1>0, SameUnits
  <2>2. Units(P \cup {p}, g) = Units(P, g) \cup own
    BY DEF Units
  <2>. QED
    BY <2>1, <2>2
<1>2. old \cap own = {}
  <2>1. \A x \in old : \E q \in P : x[1] = q
    BY DEF Units
  <2>2. \A x \in own : x[1] = p
    OBVIOUS
  <2>. QED
    BY <1>0, <2>1, <2>2
<1>3. IsFiniteSet(own) /\ Cardinality(own) = g[p]
  <2>1. IsFiniteSet({p}) /\ Cardinality({p}) = 1
    BY FS_Singleton
  <2>2. IsFiniteSet(1 .. g[p]) /\ Cardinality(1 .. g[p]) = g[p]
    BY <1>0, FS_Interval
  <2>3. ASSUME NEW S, NEW T, IsFiniteSet(S), IsFiniteSet(T)
        PROVE  IsFiniteSet(S \X T) /\ Cardinality(S \X T) = Cardinality(S) * Cardinality(T)
    BY <2>3, FS_Product, Zenon
  <2>4. IsFiniteSet(own) /\ Cardinality(own) = Cardinality({p}) * Cardinality(1 .. g[p])
    BY <2>1, <2>2, <2>3, Zenon
  <2>. QED
    BY <1>0, <2>1, <2>2, <2>4
<1>. HIDE DEF old, own, all
<1>4. ASSUME IsFiniteSet(old)
      PROVE  /\ IsFiniteSet(all) /\ Cardinality(old) \in Nat
             /\ Cardinality(all) = Cardinality(old) + g[p]
  <2>1. /\ IsFiniteSet(old \cup own)
        /\ Cardinality(old \cup own)
             = Cardinality(old) + Cardinality(own) - Cardinality(old \cap own)
    BY <1>3, <1>4, FS_Union
  <2>2. Cardinality(old) \in Nat /\ Cardinality({}) = 0
    BY <1>4, FS_CardinalityType, FS_EmptySet
  <2>3. Cardinality(old \cap own) = 0
    BY <1>2, <2>2
  <2>. QED
    BY <1>0, <1>1, <1>3, <2>1, <2>2, <2>3
<1>5. IsFiniteSet(all) => IsFiniteSet(old)
  BY <1>1, FS_Subset
<1>. QED
  BY <1>4, <1>5 DEF old, own, all

(* No pin, no units.                                                       *)
LEMMA InitQuota == SInit => QuotaInv
<1>. SUFFICES ASSUME SInit
              PROVE  QuotaInv
  OBVIOUS
<1>1. QuotaShape
  BY DEF SInit, QuotaShape, NoReservation, Nothing
<1>2. open = {} /\ Done = {}
  BY DEF SInit, Done, NoPin
<1>3. \A f : Units(open, f) = {} /\ Units(Done, f) = {}
  BY <1>2 DEF Units
<1>4. IsFiniteSet({}) /\ Cardinality({}) = 0
  BY FS_EmptySet
<1>5. \A c \in Class : counters[c].used = 0 /\ counters[c].reserved = 0
  BY DEF SInit
<1>. QED
  BY <1>1, <1>3, <1>4, <1>5 DEF QuotaInv, Counted

(* An intent adds its claims to the units of the open pins.                *)
LEMMA IntentQuota ==
  ASSUME Shape, ValidPins, QuotaInv, NEW p \in Pin, IntentRecorded(p)
  PROVE  QuotaInv'
<1>. DEFINE new(claims) == [NoReservation EXCEPT !.state = "ACTIVE", !.claims = claims]
<1>1. PICK claims \in Claim, head \in Nat :
        /\ pins' = [pins EXCEPT ![p] = [state |-> "OPEN", head |-> head]]
        /\ reservations' = [reservations EXCEPT ![p] = new(claims)]
        /\ counters' = [c \in Class |-> [counters[c] EXCEPT !.reserved = @ + claims[c]]]
  <2>1. Len(chronicle) \in Nat
    BY DEF Shape
  <2>2. \A head \in 0 .. Len(chronicle) : head \in Nat
    BY <2>1
  <2>. HIDE DEF new
  <2>. QED
    BY <2>2 DEF IntentRecorded, new
<1>2. claims \in [Class -> Nat]
  BY StorageAssumption
<1>3. /\ new(claims).claims = claims
      /\ new(claims) \in [state : {"NONE", "ACTIVE", "SETTLED"},
                          claims : [Class -> Nat], consumed : [Class -> Nat]]
  BY <1>2 DEF NoReservation, Nothing
<1>. HIDE DEF new
<1>4. QuotaShape'
  <2>1. reservations' \in [Pin -> [state : {"NONE", "ACTIVE", "SETTLED"},
                                   claims : [Class -> Nat], consumed : [Class -> Nat]]]
    BY <1>1, <1>3 DEF QuotaInv, QuotaShape
  <2>2. ASSUME NEW c \in Class
        PROVE  [counters[c] EXCEPT !.reserved = @ + claims[c]] \in [used : Nat, reserved : Nat]
    <3>1. claims[c] \in Nat /\ counters[c] \in [used : Nat, reserved : Nat]
      BY <1>2 DEF QuotaInv, QuotaShape
    <3>. QED
      BY <3>1
  <2>. QED
    BY <1>1, <2>1, <2>2 DEF QuotaShape
<1>5. /\ open' = open \cup {p} /\ p \notin open
      /\ Done' = Done /\ p \notin Done
  <2>1. pins[p].state = "NONE" /\ open' = open \cup {p} /\ p \notin open
    BY DEF IntentRecorded
  <2>. QED
    BY <1>1, <2>1 DEF Done, Shape
<1>6. ASSUME NEW c \in Class
      PROVE  /\ IsFiniteSet(Units(open, Claims(c))') /\ IsFiniteSet(Units(Done, Spent(c))')
             /\ counters'[c].reserved = Cardinality(Units(open, Claims(c))')
             /\ counters'[c].used = Cardinality(Units(Done, Spent(c))')
  <2>. DEFINE f == Claims(c)
              g == [q \in Pin |-> reservations'[q].claims[c]]
              h == Spent(c)
              k == [q \in Pin |-> reservations'[q].consumed[c]]
  <2>1. /\ Units(open, Claims(c))' = Units(open \cup {p}, g)
        /\ Units(Done, Spent(c))' = Units(Done, k)
    BY <1>5 DEF Claims, Spent, Units
  <2>2. /\ \A q \in open : f[q] = g[q]
        /\ \A q \in Done : h[q] = k[q]
        /\ g[p] = claims[c]
    <3>1. /\ \A q \in Pin : q # p => reservations'[q] = reservations[q]
          /\ reservations'[p].claims = claims
      BY <1>1, <1>3 DEF QuotaInv, QuotaShape
    <3>2. open \subseteq Pin /\ Done \subseteq Pin
      BY DEF ValidPins, Done
    <3>. QED
      BY <1>5, <3>1, <3>2 DEF Claims, Spent
  <2>3. claims[c] \in Nat
    BY <1>2
  <2>4. /\ counters'[c].reserved = counters[c].reserved + claims[c]
        /\ counters'[c].used = counters[c].used
    BY <1>1 DEF QuotaInv, QuotaShape
  <2>5. /\ IsFiniteSet(Units(open, f)) /\ counters[c].reserved = Cardinality(Units(open, f))
        /\ IsFiniteSet(Units(Done, h)) /\ counters[c].used = Cardinality(Units(Done, h))
    BY DEF QuotaInv, Counted
  <2>. HIDE DEF f, g, h, k
  <2>6. /\ IsFiniteSet(Units(open \cup {p}, g))
        /\ Cardinality(Units(open \cup {p}, g)) = Cardinality(Units(open, f)) + g[p]
    <3>1. OneMore(open, p, f, g)
      BY <1>5, <2>2, <2>3 DEF OneMore
    <3>. QED
      BY <2>5, <3>1, OneMoreUnits
  <2>7. Units(Done, h) = Units(Done, k)
    BY <2>2, SameUnits
  <2>. QED
    BY <2>1, <2>2, <2>4, <2>5, <2>6, <2>7
<1>. QED
  BY <1>4, <1>6 DEF QuotaInv, Counted

(* A commit takes them away and adds what was consumed to the others.      *)
LEMMA CommittedQuota ==
  ASSUME Shape, ValidPins, QuotaInv, NEW p \in Pin, Committed(p)
  PROVE  QuotaInv'
<1>. DEFINE claims == reservations[p].claims
<1>1. PICK consumed \in [Class -> UNION {0 .. claims[c] : c \in Class}] :
        /\ \A c \in Class : consumed[c] <= claims[c]
        /\ reservations' = [reservations EXCEPT ![p].state = "SETTLED", ![p].consumed = consumed]
        /\ counters' = [c \in Class |-> Settled(counters[c], claims[c], consumed[c])]
  BY DEF Committed
<1>2. /\ pins' = [pins EXCEPT ![p].state = "COMMITTED"] /\ open' = open \ {p}
      /\ pins[p].state = "OPEN" /\ p \in open
  BY DEF Committed
<1>3. claims \in [Class -> Nat] /\ consumed \in [Class -> Nat]
  <2>1. claims \in [Class -> Nat]
    BY DEF QuotaInv, QuotaShape
  <2>2. \A c \in Class : consumed[c] \in Nat
    BY <1>1, <2>1
  <2>. QED
    BY <1>1, <2>1, <2>2
<1>. HIDE DEF claims
<1>4. /\ open = open' \cup {p} /\ p \notin open'
      /\ Done' = Done \cup {p} /\ p \notin Done
  BY <1>2 DEF Done, Shape
<1>5. /\ \A q \in Pin : q # p => reservations'[q] = reservations[q]
      /\ reservations'[p].consumed = consumed
      /\ reservations' \in [Pin -> [state : {"NONE", "ACTIVE", "SETTLED"},
                                    claims : [Class -> Nat], consumed : [Class -> Nat]]]
  BY <1>1, <1>3 DEF QuotaInv, QuotaShape
<1>6. ASSUME NEW c \in Class
      PROVE  /\ IsFiniteSet(Units(open, Claims(c))') /\ IsFiniteSet(Units(Done, Spent(c))')
             /\ counters'[c].reserved = Cardinality(Units(open, Claims(c))')
             /\ counters'[c].used = Cardinality(Units(Done, Spent(c))')
             /\ counters'[c] \in [used : Nat, reserved : Nat]
  <2>. DEFINE f == Claims(c)
              g == [q \in Pin |-> reservations'[q].claims[c]]
              h == Spent(c)
              k == [q \in Pin |-> reservations'[q].consumed[c]]
  <2>1. /\ Units(open, Claims(c))' = Units(open', g)
        /\ Units(Done, Spent(c))' = Units(Done \cup {p}, k)
    BY <1>4 DEF Claims, Spent, Units
  <2>2. /\ \A q \in open' : g[q] = f[q]
        /\ \A q \in Done : h[q] = k[q]
        /\ f[p] = claims[c] /\ k[p] = consumed[c]
    <3>1. open' \subseteq Pin /\ Done \subseteq Pin
      BY <1>2 DEF ValidPins, Done
    <3>. QED
      BY <1>4, <1>5, <3>1 DEF Claims, Spent, claims
  <2>3. claims[c] \in Nat /\ consumed[c] \in Nat
    BY <1>3
  <2>4. counters'[c] = [used |-> counters[c].used + consumed[c],
                        reserved |-> counters[c].reserved - claims[c]]
    BY <1>1 DEF Settled
  <2>5. /\ IsFiniteSet(Units(open, f)) /\ counters[c].reserved = Cardinality(Units(open, f))
        /\ IsFiniteSet(Units(Done, h)) /\ counters[c].used = Cardinality(Units(Done, h))
    BY DEF QuotaInv, Counted
  <2>. HIDE DEF f, g, h, k
  <2>6. /\ IsFiniteSet(Units(open', g)) /\ Cardinality(Units(open', g)) \in Nat
        /\ Cardinality(Units(open, f)) = Cardinality(Units(open', g)) + claims[c]
    <3>1. OneMore(open', p, g, f)
      BY <1>4, <2>2, <2>3 DEF OneMore
    <3>. DEFINE P == open'
    <3>2. open = P \cup {p} /\ OneMore(P, p, g, f)
      BY <1>4, <3>1
    <3>. HIDE DEF P
    <3>. QED
      BY <2>2, <2>5, <3>2, OneMoreUnits DEF P
  <2>7. /\ IsFiniteSet(Units(Done \cup {p}, k)) /\ Cardinality(Units(Done, h)) \in Nat
        /\ Cardinality(Units(Done \cup {p}, k)) = Cardinality(Units(Done, h)) + consumed[c]
    <3>1. OneMore(Done, p, h, k)
      BY <1>4, <2>2, <2>3 DEF OneMore
    <3>. QED
      BY <2>2, <2>5, <3>1, OneMoreUnits
  <2>8. /\ counters'[c].used = Cardinality(Units(Done \cup {p}, k))
        /\ counters'[c].reserved = Cardinality(Units(open', g))
    BY <2>3, <2>4, <2>5, <2>6, <2>7
  <2>9. counters'[c] \in [used : Nat, reserved : Nat]
    <3>1. /\ counters[c].used + consumed[c] \in Nat
          /\ counters[c].reserved - claims[c] \in Nat
      BY <2>3, <2>5, <2>6, <2>7
    <3>. QED
      BY <2>4, <3>1
  <2>. QED
    BY <2>1, <2>6, <2>7, <2>8, <2>9
<1>7. QuotaShape'
  <2>1. counters' \in [Class -> [used : Nat, reserved : Nat]]
    BY <1>1, <1>6
  <2>. QED
    BY <1>5, <2>1 DEF QuotaShape
<1>. QED
  BY <1>6, <1>7 DEF QuotaInv, Counted

(* Reserved quota is what the open pins claim and used quota is what the   *)
(* committed ones consumed, for any number of pins and classes: no order   *)
(* of intents, commits, epochs and Recoveries loses or double-counts any.  *)
THEOREM QuotaAlwaysBalances == Spec => []QuotaBalances
<1>1. ASSUME IInv, QuotaInv, [Next]_vars
      PROVE  QuotaInv'
  <2>1. CASE \E p \in Pin : IntentRecorded(p) \/ Committed(p)
    BY <1>1, <2>1, IntentQuota, CommittedQuota DEF IInv
  <2>2. CASE UNCHANGED pinned
    BY <1>1, <2>2 DEF pinned, QuotaInv, QuotaShape, Counted, Claims, Spent, Done
  <2>. QED
    BY <1>1, <2>1, <2>2
       DEF Next, Step, ActivationCompleted, ClockGate, EpochStarted, RecoveryStarted,
           RecoveryCompleted, MessageRejected, vars, ProtectionFailed, SetRegistered,
           ProvenancePolicyRegistered, RetentionPolicyRegistered, OnlyObjects,
           ChronicleAppended
<1>2. IInv /\ QuotaInv => QuotaBalances
  <2>. SUFFICES ASSUME IInv, QuotaInv, NEW c \in Class
                PROVE  /\ counters[c].reserved = Cardinality(Claimed(c))
                       /\ counters[c].used = Cardinality(Consumed(c))
    BY DEF QuotaBalances
  <2>1. open = {q \in Pin : pins[q].state = "OPEN"}
    BY DEF IInv, ValidPins
  <2>2. \A p \in Pin : /\ Claims(c)[p] = reservations[p].claims[c]
                       /\ Spent(c)[p] = reservations[p].consumed[c]
    BY DEF Claims, Spent
  <2>3. Claimed(c) = Units(open, Claims(c)) /\ Consumed(c) = Units(Done, Spent(c))
    BY <2>1, <2>2 DEF Claimed, Consumed, Units, Done
  <2>. QED
    BY <2>3 DEF QuotaInv, Counted
<1>. QED
  BY <1>1, <1>2, InitQuota, Invariance, PTL DEF Spec
=============================================================================
