--------------------------- MODULE ArtifactStorage ---------------------------
(***************************************************************************)
(* The installed reducers of the Artifact Storage Journal                  *)
(* (src/benchwork/artifact_storage_contracts.py): the Store's status and   *)
(* Recoveries, its registered records, and the canonical-reference pins    *)
(* with the quota they reserve.  An event whose reducer raises has no      *)
(* action; every reducer ends in validate_artifact_storage_state_v1, so    *)
(* Next takes a Step only to a Valid State.                                *)
(*                                                                         *)
(* Left out: identities and Sigils, which are the event's own to get       *)
(* right, and clock readings, of which the reducers only ask that they do  *)
(* not regress.  No installed reducer makes a Blob, a Replica or a         *)
(* Transfer, so the State has none.                                        *)
(***************************************************************************)
EXTENDS Naturals, Sequences, FiniteSets

CONSTANTS Class,        \* the quota classes a pin claims, "JOURNAL" among them
          Limit,        \* the limit of each
          Claim,        \* the claims explored, functions from Class
          RefSet,       \* Reference Sets
          Edges,        \* what each retains: Reference Sets, or "BLOB"
          Policy,       \* Provenance and Retention Policies
          Protection,   \* historical artifacts to protect, in identity order
          Pin,          \* canonical-reference intents
          EventType,    \* the types of Chronicle event, PinType those of the pins
          PinType, PinRoots,   \* per pin: the event it awaits, the sets it names
          MaxRecoveries, MaxEpoch, MaxChronicle   \* bounds

ASSUME StorageAssumption ==
  /\ "JOURNAL" \in Class /\ Limit \in [Class -> Nat] /\ Claim \subseteq [Class -> Nat]
  /\ Edges \in [RefSet -> SUBSET (RefSet \cup {"BLOB"})]
  /\ PinType \in [Pin -> EventType] /\ PinRoots \in [Pin -> SUBSET RefSet]
  /\ Protection \subseteq Nat

VARIABLES store,        \* [status, clock, epoch]
          recoveries,   \* in the order they were started
          sets, policies,        \* registered; a policy with its scope
          failed,       \* the protections whose copy failed
          pins, open,   \* the pins, and those listed as open intents
          reservations, \* per pin: what it claims, and what it consumed
          counters,     \* per class: used and reserved
          chronicle     \* external: the types of the Chronicle's events

objects == <<sets, policies, failed>>
pinned == <<pins, open, reservations, counters>>
vars == <<store, recoveries, objects, pinned, chronicle>>

Nothing == [c \in Class |-> 0]
NoPin == [state |-> "NONE", head |-> 0]
NoReservation == [state |-> "NONE", claims |-> Nothing, consumed |-> Nothing]

(* The first event of a Journal sets the counters unspent and the rest     *)
(* empty.                                                                  *)
SInit ==
  /\ store = [status |-> "INITIALIZING", clock |-> "TRUSTED", epoch |-> 1]
  /\ recoveries = <<>> /\ sets = {} /\ policies = {} /\ failed = {}
  /\ pins = [p \in Pin |-> NoPin] /\ open = {}
  /\ reservations = [p \in Pin |-> NoReservation]
  /\ counters = [c \in Class |-> [used |-> 0, reserved |-> 0]]
  /\ chronicle = <<>>

(***************************************************************************)
(* What a State must satisfy.                                              *)
(***************************************************************************)
Active(r) == recoveries[r].state = "ACTIVE"
Ascending(s) == \A i, j \in DOMAIN s : i < j => s[i] < s[j]

(* Recoveries are listed by identity, although they are appended.          *)
ValidRecoveries ==
  /\ Ascending([r \in DOMAIN recoveries |-> recoveries[r].id])
  /\ \A r \in DOMAIN recoveries : Ascending(recoveries[r].epochs)
  /\ IF store.status = "RECOVERING"
     THEN \E r \in DOMAIN recoveries :
            /\ {q \in DOMAIN recoveries : Active(q)} = {r}
            /\ recoveries[r].epochs[Len(recoveries[r].epochs)] = store.epoch
     ELSE \A r \in DOMAIN recoveries : ~Active(r)

ValidPins == open = {p \in Pin : pins[p].state = "OPEN"}

ValidQuota ==
  /\ \A c \in Class : counters[c].used + counters[c].reserved <= Limit[c]
  /\ \A p \in Pin, c \in Class : reservations[p].consumed[c] <= reservations[p].claims[c]

Valid == ValidRecoveries /\ ValidPins /\ ValidQuota

(***************************************************************************)
(* The Store: activation, clock gate, epochs and Recovery.                 *)
(***************************************************************************)
ActivationCompleted ==
  /\ store.status = "INITIALIZING" /\ failed = {}
  /\ store' = [store EXCEPT !.status = "ACTIVE"]
  /\ UNCHANGED <<recoveries, objects, pinned, chronicle>>

(* A settled reservation stays listed, and closes this gate for good.      *)
ClockGate ==
  /\ store.status = "ACTIVE" /\ open = {}
  /\ \A p \in Pin : reservations[p].state = "NONE"
  /\ store' = [store EXCEPT !.clock = IF @ = "TRUSTED" THEN "UNCERTAIN" ELSE "TRUSTED"]
  /\ UNCHANGED <<recoveries, objects, pinned, chronicle>>

EpochStarted ==
  /\ store.epoch < MaxEpoch
  /\ store' = [store EXCEPT !.epoch = @ + 1]
  /\ recoveries' = [r \in DOMAIN recoveries |->
                      IF Active(r) THEN [recoveries[r] EXCEPT !.epochs = Append(@, store.epoch + 1)]
                                   ELSE recoveries[r]]
  /\ UNCHANGED <<objects, pinned, chronicle>>

RecoveryStarted ==
  /\ store.status \in {"INITIALIZING", "ACTIVE"} /\ store.epoch < MaxEpoch
  /\ store' = [store EXCEPT !.status = "RECOVERING", !.epoch = @ + 1]
  /\ \E id \in 1..MaxRecoveries :
       recoveries' = Append(recoveries, [id |-> id, state |-> "ACTIVE", origin |-> store.status,
                                         epochs |-> <<store.epoch + 1>>])
  /\ UNCHANGED <<objects, pinned, chronicle>>

(* Mutant of RecoveryCompleted: the origin is not looked at.               *)
RecoveryCompletedActive ==
  /\ store.status = "RECOVERING" /\ open = {}
  /\ \E r \in DOMAIN recoveries :
       /\ Active(r)
       /\ store' = [store EXCEPT !.status = "ACTIVE"]
       /\ recoveries' = [recoveries EXCEPT ![r].state = "COMPLETED"]
  /\ UNCHANGED <<objects, pinned, chronicle>>

(* Mutant of RecoveryCompleted: with intents still open.                   *)
RecoveryCompletedOpen ==
  /\ store.status = "RECOVERING"
  /\ \E r \in DOMAIN recoveries :
       /\ Active(r)
       /\ store' = [store EXCEPT !.status = recoveries[r].origin]
       /\ recoveries' = [recoveries EXCEPT ![r].state = "COMPLETED"]
  /\ UNCHANGED <<objects, pinned, chronicle>>

RecoveryCompleted ==
  /\ store.status = "RECOVERING" /\ open = {}
  /\ \E r \in DOMAIN recoveries :
       /\ Active(r)
       /\ store' = [store EXCEPT !.status = recoveries[r].origin]
       /\ recoveries' = [recoveries EXCEPT ![r].state = "COMPLETED"]
  /\ UNCHANGED <<objects, pinned, chronicle>>

MessageRejected == UNCHANGED vars

(***************************************************************************)
(* Registered records.                                                     *)
(***************************************************************************)
OnlyObjects == UNCHANGED <<store, recoveries, pinned, chronicle>>

(* Failures are appended and the list must stay sorted.                    *)
ProtectionFailed ==
  /\ store.status = "INITIALIZING"
  /\ \E p \in Protection : (\A q \in failed : q < p) /\ failed' = failed \cup {p}
  /\ UNCHANGED <<sets, policies>> /\ OnlyObjects

SetRegistered ==
  /\ store.status = "ACTIVE"
  /\ \E s \in RefSet \ sets : sets' = sets \cup {s}
  /\ UNCHANGED <<policies, failed>> /\ OnlyObjects

Registered(kind) == {p[2] : p \in {q \in policies : q[1] = kind}}

ProvenancePolicyRegistered ==
  /\ store.status = "ACTIVE"
  /\ \E p \in Policy \ Registered("PROVENANCE") :
       policies' = policies \cup {<<"PROVENANCE", p, "PROJECT">>}
  /\ UNCHANGED <<sets, failed>> /\ OnlyObjects

RetentionPolicyRegistered ==
  /\ store.status = "ACTIVE"
  /\ \E p \in Policy \ Registered("RETENTION"), scope \in {"PROJECT"} \cup sets :
       policies' = policies \cup {<<"RETENTION", p, scope>>}
  /\ UNCHANGED <<sets, failed>> /\ OnlyObjects

(***************************************************************************)
(* Canonical-reference pins.                                               *)
(***************************************************************************)
(* What is retained from some sets, through sets.                          *)
Closure(roots) ==
  LET grow[n \in 0..Cardinality(RefSet)] ==
        IF n = 0 THEN roots
        ELSE grow[n - 1] \cup UNION {Edges[s] : s \in grow[n - 1] \cap RefSet}
  IN  grow[Cardinality(RefSet)]

(* Every set reached is registered, and no Blob is: the State has none.    *)
Closed(roots) == Closure(roots) \subseteq sets

Fits(claims) ==
  \A c \in Class : counters[c].used + counters[c].reserved + claims[c] <= Limit[c]

(* The reservation must pay for the terminal event, at least one frame.    *)
PaysForItsEnd(claims) == claims["JOURNAL"] > 0

IntentRecorded(p) ==
  /\ store.status = "ACTIVE" /\ store.clock = "TRUSTED"
  /\ pins[p].state = "NONE" /\ p \notin open /\ reservations[p].state = "NONE"
  /\ Closed(PinRoots[p])
  /\ \E claims \in Claim, head \in 0..Len(chronicle) :
       /\ Fits(claims) /\ PaysForItsEnd(claims)
       /\ pins' = [pins EXCEPT ![p] = [state |-> "OPEN", head |-> head]]
       /\ reservations' = [reservations EXCEPT
                             ![p] = [NoReservation EXCEPT !.state = "ACTIVE", !.claims = claims]]
       /\ counters' = [c \in Class |-> [counters[c] EXCEPT !.reserved = @ + claims[c]]]
  /\ open' = open \cup {p}
  /\ UNCHANGED <<store, recoveries, objects, chronicle>>

(* The Chronicle event bound to a pin: the one right after its expected    *)
(* head, if it has the pin's type.                                         *)
Bound(p) ==
  /\ pins[p].head < Len(chronicle)
  /\ chronicle[pins[p].head + 1] = PinType[p]

(* Mutant of Settled: only what was spent is released.                     *)
SettledSpent(counter, claimed, consumed) ==
  [used |-> counter.used + consumed, reserved |-> counter.reserved - consumed]

(* A counter after a settlement: all that was reserved is released.        *)
Settled(counter, claimed, consumed) ==
  [used |-> counter.used + consumed, reserved |-> counter.reserved - claimed]

(* Neither the Store's status nor its clock is looked at.                  *)
Committed(p) ==
  /\ pins[p].state = "OPEN" /\ p \in open /\ reservations[p].state = "ACTIVE"
  /\ Bound(p)
  /\ LET claims == reservations[p].claims
     IN  \E consumed \in [Class -> UNION {0..claims[c] : c \in Class}] :
           /\ \A c \in Class : consumed[c] <= claims[c]
           /\ consumed["JOURNAL"] > 0
           /\ reservations' = [reservations EXCEPT ![p].state = "SETTLED", ![p].consumed = consumed]
           /\ counters' = [c \in Class |-> Settled(counters[c], claims[c], consumed[c])]
  /\ pins' = [pins EXCEPT ![p].state = "COMMITTED"]
  /\ open' = open \ {p}
  /\ UNCHANGED <<store, recoveries, objects, chronicle>>

(* canonical_reference.released is always refused: it has no action.       *)

(* External: an event is appended to the Chronicle.                        *)
ChronicleAppended ==
  /\ Len(chronicle) < MaxChronicle
  /\ \E type \in EventType : chronicle' = Append(chronicle, type)
  /\ UNCHANGED <<store, recoveries, objects, pinned>>

Step ==
  \/ ActivationCompleted \/ ClockGate \/ EpochStarted
  \/ RecoveryStarted \/ RecoveryCompleted \/ MessageRejected
  \/ ProtectionFailed \/ SetRegistered
  \/ ProvenancePolicyRegistered \/ RetentionPolicyRegistered
  \/ \E p \in Pin : IntentRecorded(p) \/ Committed(p)
  \/ ChronicleAppended

Next == Step /\ Valid'

Spec == SInit /\ [][Next]_vars

(***************************************************************************)
(* Properties.                                                             *)
(***************************************************************************)
(* The units of a class that the open pins claim, and that the committed   *)
(* ones consumed.                                                          *)
Claimed(c) ==
  UNION {{p} \X (1..reservations[p].claims[c]) : p \in {q \in Pin : pins[q].state = "OPEN"}}

Consumed(c) ==
  UNION {{p} \X (1..reservations[p].consumed[c]) :
           p \in {q \in Pin : pins[q].state = "COMMITTED"}}

(* The quota counters, moved by one event at a time, always count what the *)
(* open pins claim and the committed ones consumed, through epochs and     *)
(* Recoveries: an open pin can still pay for the event that ends it.       *)
QuotaBalances ==
  \A c \in Class :
    /\ counters[c].reserved = Cardinality(Claimed(c))
    /\ counters[c].used = Cardinality(Consumed(c))

(* A Store that failed to protect a historical artifact never becomes      *)
(* active, whatever epochs, crashes and Recoveries follow.                 *)
FailedProtectionHolds ==
  failed # {} =>
    /\ store.status # "ACTIVE" /\ sets = {} /\ open = {}
    /\ \A r \in DOMAIN recoveries : recoveries[r].origin = "INITIALIZING"

(* A pin whose place in the Chronicle was taken by another event is kept   *)
(* open for ever, with its capacity, and a Store recovering while it is    *)
(* open recovers for ever: release is refused, and nothing else ends it.   *)
Stranded(p) ==
  /\ pins[p].state = "OPEN" /\ pins[p].head < Len(chronicle) /\ ~Bound(p)

StrandedPinsHold ==
  [][\A p \in Pin :
       Stranded(p) =>
         /\ pins'[p] = pins[p] /\ reservations'[p] = reservations[p]
         /\ (store.status = "RECOVERING" => store'.status = "RECOVERING")]_vars
=============================================================================
