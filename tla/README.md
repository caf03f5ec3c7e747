# Formal models of Benchwork

TLA+ modules for Benchwork, the auditable workbench for computational research:
their model-checking configurations, and theorems about them that the TLA+ proof
system (TLAPS) checks. `PROJECT.json` links every definition to the lines of
source it models, every property to a run, and every hazard to the properties
that cover it.

To run them in this directory:

    tlc -workers 2 -config ChronicleKills.cfg MCChronicle.tla
    tlapm ChronicleProofs.tla

## 1. The system

A command (from the command line or an MCP tool) becomes one or more
*transactions* of the Athanor, the deterministic kernel. A transaction projects
the event ledger, lets a *builder* test the command's gates against the projected
state, and appends one event to the *Chronicle*. Nothing else is canonical:
state is what the projector computes from the ledger each time it is read.
Around it stand stores that are not canonical: execution journal, blobs, Task
Capsules, Snapshots, MCP previews, installer state. The contracts of the
distributed executor and of the artifact store are written as pure reducers: a
journal of events is replayed into a State, and an event whose reducer raises,
or whose State does not validate, is not in the journal.

| Part | Source (under `src/src/benchwork`) | State | Operations | Model |
|---|---|---|---|---|
| Chronicle | `athanor.py` (`Chronicle`) | ledger file, head file, lock file | initialize, transact, recover, read | `Chronicle`, `ChronicleLog` |
| Chronicle migration | `athanor.py` (`migrate_v10_to_v11`) | ledger, head, pending marker, backup directory | migrate, resume | `ChronicleMigration` |
| Athanor, study lifecycle | `athanor.py`, `rites.py` | the tables of Programs, Protocols, Workings, Experiments, Runs, Bundles, Assessments, Decisions, Artifacts, Issues, Deviations, Reproductions | one command each, see 2.3 | `Study` |
| Athanor, evidence and claims | `athanor.py` | Evidence, Claims, relations, Hypotheses | record, verify, propose, relate | not modelled, see 7 |
| Athanor, reviews, approvals, agent results | `athanor.py` | review requests and artifacts, approvals, results | prepare, approve, record, accept | `HostTasks` |
| Capabilities, Tasks, Snapshots, Ward | `circle.py`, `tasks.py`, `snapshots.py` | contract, capsule and snapshot files | open a Task, judge it, accept its result | `HostTasks` |
| Execution journal | `execution.py` (`ExecutionService`) | journal file, lock file | start, queue, cancel, record_terminal, observe, get_outcome | `ExecutionJournal`, `JobLifecycle` |
| Blob store | `execution.py` (`BlobStore`) | blob and record files | import, read | not modelled, see 7 |
| Seal previews | `mcp/runtime.py` | preview files, idempotency records, commit lock | preview, commit | `SealPreview` |
| Execution plane | `execution_contracts.py` (reducers) | the Execution State: Executor and Recovery, Workers, Sessions, a Job, Attempts, Leases, logs, budget | replay, one reducer per journaled event | `ExecutionPlane`, `Fencing` |
| Artifact storage | `artifact_storage_contracts.py` (reducers) | the Storage State: Store and Recoveries, registered records, canonical-reference pins, quota | replay, one reducer per journaled event | `ArtifactStorage` |
| Document validators | both of the above | none | validate one document | not modelled, see 7 |
| Sanctum | `sanctum.py` | Jobs and Leases in memory | submit, claim, start, heartbeat, finish, cancel, expire | not modelled, see 7 |
| Installer | `install/`, `install.sh` | plugin tree, Host configuration, state file | repair, configure, uninstall | not modelled, see 7 |
| Patch and outcome contracts, Alembic, Rites, Grimoire, Doctor, CLI, hooks | as named | none, or immutable files | | not modelled, see 7 |

How they interact: every canonical write goes through `Chronicle.transact` under
`chronicle.lock`; registries and the execution journal have locks of their own;
MCP commits take `commit.lock` and, inside it, the Chronicle's. No component
calls back into another while holding the Chronicle's lock, save that a builder
may read capsule, contract and snapshot files. All processes are short: there is
no daemon, hence concurrency is between processes on one file system, and any of
them may be killed at any system call.

What is hard, and therefore modelled: kills and power failures between the
writes of two files; the two lock sections of `initialize` and `transact`; the
window between a check under one lock and a write under another; retries after a
lost answer; readers that page while a writer appends; long sequences of
individually legal commands whose gates read each other's effects; a wall clock
that steps back; and, in the execution plane, Leases that expire, are stopped,
revoked or renewed while the Worker's Result is on its way, so that authority
rests on fencing numbers, slots on counters that many reducers move, and budget
and quota on ledgers that are reserved in one event and settled in another.

## 2. The modules

### 2.1 Chronicle

`Chronicle.tla` models the commit protocol at the level of system calls:
append, fsync of the ledger, replacement of the head, fsync of the directory.
Each file exists twice, as processes see it (`ledger`, `head`) and as the disk
would give it back after a power failure (`diskLedger`, `diskHead`). `pc` is the
next system call of each process, `acked` the events whose receipt a caller was
given. `Enter` is `initialize`, which has a lock section of its own;
`BeginTransact` to `FsyncDirectory` are `transact`; `BeginRecover` is
`recover(accept_valid_tail=True)`. `Abort`, `AbortAppend` and `PowerFailure` are
the faults. An interrupted append leaves part of the line (`Torn`) or the line
without its newline, as `ShortWrites` allows. Event ids are fresh (uuid4) and
stand for receipt sigils too, so a chain of sigils is a chain of ids. `events()`
only reads and has no action. The entry of a newly created ledger in its
directory is assumed to survive.

`ChronicleLog.tla` is what the Chronicle promises: a log that grows at its end
by one well-chained event, and receipts only for events in it. `ImplementsLog`
maps `log` to the prefix of the ledger that the head counts.

`ChronicleMigration.tla` models the v1.0 to v1.1 migration by its renames: the
pending marker, ledger and head are replaced one by one, a later run resumes at
the marker, and `transact` and `recover`, which never look at the marker, run in
between. Two kinds of write are lost in a power failure, each to its own fsync:
renames, which an fsync of the directory follows (`past` holds every directory
that may come back), and events, which an fsync of the ledger follows
(`AppendEvent`, then `FsyncLedger`; `synced` counts those on the disk). A
candidate ledger is fsynced before its rename, so it comes back whole. `hasty` is
a history variable: what a command did ahead of an fsync, which is the exemption
in `NeverStranded`. The file
system is assumed to journal directory changes in order; with renames lost in an
arbitrary order, a migration that was killed and resumed could be stranded, so
the assumption is needed. The backup directory's own entry is assumed durable
(the code does not fsync its parent), the candidates are assumed to verify, and
the v1.0 ledger to be consistent at the start.

### 2.2 Execution journal

`ExecutionJournal.tla` models `ExecutionService`. `journal` is the sequence of
complete lines, `torn` an incomplete last line, `now` the wall clock, and
`answers` what calls returned. State, revision and idempotency of a Job are
operators over the journal (`State`, `Revision`, `StartOf`, `Cancellations`),
because `_project` computes them on each call, and `Accepts` is the projector as
a judge of the next event. A locked section is one step; `start` takes two
sections, `cancel` appends twice within one, and each append may be killed with
the line written, torn or (`Killed`) absent. An observation is read page by page
at a fixed prefix. The head file is written and never read, and is left out.

`JobLifecycle.tla` is the promise: submitted once, a worker's result only from
the queue, a requested cancellation ends in CANCELLED, an end is final.

### 2.3 Study

`Study.tla` models the projected state as tables (functions from identifiers to
records) and each accepted command as one action: builder and projector
together, since the event is judged and projected under one lock. Refused
commands change nothing and have no action. The commands go from `DraftProtocol`
through Workings, Experiments, Runs, analysis, Assessment and Decision to
`CloseProgram`, with Artifacts, Issues, Deviations and Reproduction Records on
the side. `Advance` raises a Program's status, `Credit` advances a Working on
the events of *other* objects, `PilotComplete` is the Pilot gate. `drafted` is
the projector's local variable left by its last `protocol.drafted` branch, which
the Deviation branch uses, and `replays` records whether the projector would
accept every event so far; it differs from the builders only in the tables it
looks references up in (`CommandTables`, `ProjectorTables`).

Abstracted: metrics and statistics (present on included Runs), texts, sigils,
blobs; artifact inputs and Issue subjects, which are checked as the producer is.
The Working stages are those of the built-in `computational-study@0.2.1`. The
branches of the projector for legacy documents (`working/1.0`,
`result-bundle/1.0`) are not modelled.

### 2.4 Seal previews

`SealPreview.tla` models `_create_preview` and `_commit_preview`. A preview is
dry-run on an unlocked copy (`DryRun`) and then bound to the head read
afterwards (`SavePreview`). A commit takes `commit.lock`, answers from an
idempotency record (`Replay`) or compares the head (`Begin`), seals in a
Chronicle transaction (`Seal`, `Refused`), and writes the record (`Record`).
`Command` is everybody else, who takes the Chronicle's lock alone. A Chronicle
transaction is one step here: what may happen inside it is `Chronicle.tla`'s
subject. Research Questions and Protocols (`Once`) can be sealed once; a
Decision (`Repeatable`) passes its gate again, so only the preview protocol
keeps a retry from sealing a second one.

### 2.5 Host Tasks and Reviews

`HostTasks.tla` models what the kernel demands of work done outside of it. `log`
holds the Chronicle's events of this part, and the status of a Review
(`ReviewStatus`) and the inventory of a Program (`Inventory`) are operators over
it, as `_project` computes them. `contract` is the Capability Registry, which
people edit (`EditContract`) under a lock of its own; `capsules` are the Task
Capsules. `OpenTask`, `ReadContract`, `ReadSigil` and `PinTask` are the server's
check and `TaskService.create`, which reads the registry twice: the contract
gives the capsule its version and outputs (`form`), the second reading its
Sigil. An acceptance is `judging`: it holds the Chronicle's lock from
`BeginAcceptance` (the comparison at `athanor.py:2968`, with `require_fresh`)
over `ReadRules` (`circle.py:427`) to `AcceptResult`, which compares the Sigil of
the third reading (`circle.py:428`) and all else with the rules of the second,
and appends; or until `EndUnaccepted`. The registry may change between any two
of the three. `held` is bookkeeping and no part of the code: the contracts the
registry held while a Task was judged. `PrepareReview`, `ApproveReview`, `RecordReview` and
`AcceptReview` are the life of a Review; `Research` is any other command that
changes an object of a Program.

Abstracted: a contract stands for its own Sigil; a Circle (tools, time, network)
is one value that a contract permits or not; Snapshots hold the number of other
changes to a Program in place of its objects, which takes it for granted that no
other command restores an object to an earlier content. A capsule is taken not
to change once written (its Sigil is checked).

The three readings make a difference. A capsule that pinned contract A is
accepted by the rules of B if the registry is edited from A to B and back during
the acceptance, and B has the version and outputs of A: a Circle that A does not
permit, or a Task that A wants approved, then passes. `ResultsPermitted`
therefore promises one contract that the registry *held meanwhile*, and the
pinned one among those held; that it was the pinned one's rules that judged
follows only if nobody edits the registry during the acceptance. The run reaches
such an edit and reversal.

### 2.6 Execution plane

`ExecutionPlane.tla` models the reducers behind `replay_execution_supplied_state_suffix_v1`
and the replays around it, one action for each event type they install: `ClockUncertain` to `RecoveryCompleted` for the
Executor, `WorkerRegistered` to `SessionLifecycle`, `JobSubmitted` to
`JobAttemptAllocated`, the life of an Attempt from `AuthorizationBound` to
`AttemptTerminated`, settlement and assurance up to `JobEnded`, Leases from
`LeaseOffered` to their four ends (`EndLease`), and log streams. A reducer's
refusals are the guard. Each of them ends in `build_execution_state_v1`, which
validates what it returns; hence `Next == Step /\ Valid'`. Some reducers return
a table that holds only the entry they changed (`Only`); validation then refuses
the event whenever there was another entry, and this is the reason why a second
Worker, for instance, cannot take part.

There is one Job, as every reducer demands. `input` is what the caller will
supply and no reducer computes: how many Attempts there are, which need an
authorization, whose terminal source is quarantined, which log streams exist and
which withdrawals of Workers and Sessions are explored. Two actions are external:
`StopLatched` and `Requeued` stand for `job.stop_latched` and
`job.retry_scheduled` with `job.retry_ready`, which the contracts name and for which no reducer is installed; the tests supply
the State after them, and so does the model. `LeaseLate` lets the time pass:
a Lease is late when its claim time or expiry lies behind.

Abstracted: identities, Sigils, revisions and causation links; the value of a
deadline (`deadlines` holds what is due, not when); every evaluation other than
CLAIMED is UNMET. The capture of usage records UNAVAILABLE, for which the
reducers charge the whole reservation.

`Fencing.tla` is the promise, over every Lease of the State and not only the one
of the current Attempt: generations are issued one by one, the fence floor never
falls, only the newest generation is offered and granted a Lease and only until
the floor passes it, its Result is accepted from the holder, once, and a Lease
that ended is neither heard of nor extended. It is weaker than RFC-0012 in one
place. A Lease whose Attempt was terminated and evaluated before the Lease ended
(`Abandon`) stays active: it keeps its slot, its heartbeats are accepted (`Hear`)
and it is renewed (`Extend`), also after a retry has raised the floor past it,
until another generation is offered a Lease. The code does this (section 3), so `Hear` and `Extend` ask only
that no other generation was offered one. `ImplementsFencing` maps `issued` and
`floor` to the Job's ledger; `offered`, `leased`, `late` and `heard` to the
generations of the Leases that are in the State, are ACTIVE, are past their
expiry, and had a heartbeat accepted; `holder` to the generation of the current
Attempt while its Lease is ACTIVE; and `accepted` to the generations whose Result
is ACCEPTED. The field `heard` of a Lease stands for `last_heartbeat_sequence`
being set.

### 2.7 Artifact storage

`ArtifactStorage.tla` models the installed reducers of the Storage State:
activation, clock gate, epochs and Recovery (`RecoveryStarted`,
`RecoveryCompleted`), the registered Reference Sets and Policies, failed
protections of historical artifacts, and the canonical-reference pins. A pin is
an intent that reserves quota (`IntentRecorded`) until the Chronicle event it
announces is found right after the head it expected (`Committed`), when the
reservation is settled (`Settled`). `ChronicleAppended` is external: everybody
else writes to the Chronicle too. `canonical_reference.released` is installed
and always refuses, hence it has no action. No installed reducer makes a Blob, a
Replica or a Transfer, so a set that retains a Blob is never pinned (`Closed`).

Abstracted: identities, Sigils and clock readings; the content of Policies; the
amounts of a claim, of which only the shares of two quota classes are kept.

## 3. The runs

| Run | Asks | Bounds | Result |
|---|---|---|---|
| `chronicle_kills` | Does every kill leave a Chronicle that reads or recovers, chains acknowledged events, implements the log, releases its lock, and becomes readable again? | 2 processes, 3 events, 3 kills, torn lines | holds |
| `chronicle_power` | With power failures and both kinds of short write, does a ledger that reads hold every acknowledged event in place? | 2 processes, 3 events, 3 faults | holds |
| `migration` | Is each crash of the migration resumable, is nothing acknowledged lost, is its report durable, does it end unless commands overtake it? | 2 processes, 1 old event, 3 events, 4 faults: kills before every system call, power failures | holds |
| `study_lifecycle` | Do Workings, Programs, Pilots, analyses and verdicts keep their meaning, and a Program the status its records earned, in every order of commands? | 1 Program, 2 Workings, 2 Experiments, 2 Runs, 2 Hypotheses, 2 Assessments, 1 implementation Artifact | holds |
| `study_programs` | Does any reference or credit cross a Program? | 2 Programs and Protocols, every kind of record | holds |
| `study_replay` | Is every appended event accepted on replay? | 1 Reproduction Record | violated |
| `execution_journal` | Are answers true of the journal, do racing clients agree, does the Job follow its lifecycle? | 2 clients, 1 Job, 2 requests, 2 cancellation keys, 6 events, 1 kill, pages of 1 | holds |
| `seal_commits` | Is a preview sealed once, and every receipt that of its seal? | 2 servers, 2 targets, 2 previews, 2 keys, 5 events, 2 kills | holds |
| `host_tasks` | Is every accepted result fresh, kept to one contract the registry held during its acceptance, and in the order of its Review, however and whenever the registry is edited? | 2 Programs, 2 Tasks, 1 Review, 3 contracts, 5 events, 2 edits of one Capability (back and forth), 1 other change per Program | holds |
| `seal_stale` | Is a preview sealed only on the head it was bound to? | as `seal_commits` | violated |
| `plane` | Is authority fenced as `Fencing` says, is every slot and reservation given back once, is every Lease timed, is a stop final, and what does the end of a Job say of its Attempts? | 1 Worker, 1 Session with 2 slots, 2 Leases; a Job retried once, or 1 Attempt with a log stream of 1 chunk and withdrawals; budget for 2 reservations | holds |
| `storage` | Do quota counters balance, does a failed protection keep the Store from activation, what becomes of a pin whose place was taken? | 2 sets, 2 pins, 2 quota classes, 2 protections, 2 Recoveries, epoch 4, 2 Chronicle events | holds |

Why these bounds are enough to be interesting. Two processes show every race on
one lock, a third adds a repetition. Three events let a tail be left, accepted
and extended. Three faults let recovery be killed and the recovery of recovery
fail again. Six journal lines hold the longest life of one Job whose
first cancellation was killed between its lines (epoch, submission, queue,
request, second request, end), or two cancellations observed after an end; Jobs
do not interact in the code except through positions in the journal, and the
proofs cover any number of them. One Protocol with two Experiments
and two Workings is the least in which credit could go to the wrong Working and
two Pilots could use the same Runs. With two Assessments the second overwrites a
verdict of the first, and either may come after the Program is CLOSED, as may the
Artifact. The outcome of a Decision matters to two guards only (CONTINUE with a
critical Issue open, REVIEW_REQUIRED of one Assessment); the lifecycle run seals
STOP. Five events hold an external Review of an approved Task from its request
to its completion (request, authorization, approval, result, completion), or a
local one up to the acceptance of a second Task's result; the two Tasks may be of
two Programs. Only the Capabilities of Reviews occur in the run, for they have the
most guards; the theorems cover all.
Two edits change the registry and change it back within one acceptance. Excluded Runs occur (`LostRun`), included
FORMAL Runs do not: the Pilot gate counts only PILOT Runs. A retried Job has two
Attempts and two Leases, so that a Lease of the first can end while the second
runs; a third would repeat that. The withdrawals are explored with one Attempt, because a Session
that has left does not take another Lease. Two Leases are the least with which
heartbeats and renewals are refused. Two pins contend for a quota that holds one
large and one small claim, and for one place in the Chronicle; epoch 4 lets a
Recovery be interrupted by a restart, complete, and be followed by another.

The first member of `MCInput` is the retried Job, the second the single Attempt;
TLC explores both from `Init`.

Deadlock checking is off in all runs but `storage`: users may stop issuing
commands, the bounds stop the rest, a torn execution journal is meant to refuse
for good, and a finished Job leaves nothing to replay.

### Fairness

Only the Chronicle and its migration have liveness properties. The other
components act when somebody calls them, so nothing must eventually happen; the
execution plane and artifact storage are replays of a journal that somebody else
writes, and their reducers promise nothing about what comes next.
`Chronicle!FairSpec` assumes that the operating system runs every process that
is inside a lock section (weak fairness), that `flock` is granted (strong
fairness, because the lock is taken and released by others) and that after a
kill somebody runs `recover`; it does not assume that any transaction is ever
started. `ChronicleMigration!FairSpec` assumes that the migration is run again
for as long as the Chronicle is refused as v1.0. Faults are finitely many.

### Disagreements found

Two have a run:

1. `athanor.py:1899`: an Artifact, Issue or Deviation may name a Reproduction
   Record when it is recorded, but the projector does not look there, so the
   ledger no longer replays (`study_replay`).
2. `mcp/runtime.py:1299`: an event appended after a commit's head check does not
   invalidate the preview (`seal_stale`).

The others were met while modelling, and the models behave as the code does.

Athanor, journal and previews:

- `athanor.py:2058`: the projector files a Deviation under the Protocol drafted
  last (`drafted` in `Study`), not under the one it departs from.
- `execution.py:496`: an event whose time lies before the last one's is written
  and can never be read again. `ClockStepsBack` in `ExecutionJournal` allows it;
  the run excludes it for its size, the proofs do not.
- `recover` heads a tail that no fsync put on the disk (798). A power failure may
  keep the head and lose the tail; the Chronicle then neither reads nor recovers,
  nor can a pending migration be resumed (`headed` in `ChronicleMigration`).
- A migration killed between the head's rename and its fsync lets commands
  append below the v1.1 head; a power failure may take the rename back and keep
  the event, whose own fsync came after. A v1.0 head then stands beside a v1.1
  ledger that has grown, which no command and no migration accepts (`appended`).
  RFC-0001:150 to 151 calls such a crash resumable.
- A migration killed after the head's rename reads as v1.1, so commands extend
  the ledger. Each later run raises "diverged", the marker stays and no report is
  given; RFC-0001:144 to 148 lets it finish. Nothing is lost (`AckedKept`), and
  `EventuallyMigrated` exempts it (`Overtaken`).
- The Ward of an acceptance compares the capsule's contract with one reading of
  the registry and judges by others (`athanor.py:2968`, `circle.py:427`,
  `circle.py:428`), each under its own lock. An edit that is taken back in
  between lets a result pass by rules its Task was not pinned to (2.5).
- An append that loses only its newline still parses (`athanor.py:594`), so
  recovery accepts it, and the next event shares its line, which no read parses
  from then on: `AckedEventsParse` fails if `ShortWrites` in
  `ChronicleKills.cfg` holds "unterminated".
- A preview's gate result belongs to a state that may be older than the head it
  is bound to; the seal transaction tests the gate again, so `SealedOnce` holds.
- A commit that is killed between its seal and its record answers STALE_PREVIEW
  to the retry, though the seal is canonical: it is never sealed twice, but the
  receipt is lost.

Execution plane (`execution_contracts.py`):

- The end of a Lease raises `fence_floor` and leaves `fencing_counter` alone, so
  a retried Attempt gets the generation its predecessor's tombstone has. RFC-0012
  (lines 1250 to 1254) lets it increment the counter and promises a later Attempt a
  strictly greater value. Authority is fenced all the same (`ImplementsFencing`),
  because no Lease is granted on a tombstone.
- An Attempt may be terminated while its Lease is ACTIVE (2157 to 2165);
  RFC-0012:3718 to 3721 ends the Lease first. Once that Attempt is evaluated
  none of the ends of a Lease applies, since they demand the current Attempt: the
  Lease keeps its slot for good. Its heartbeats and renewals (2971 to 3014) look at neither the
  Attempt nor the fence floor, so it is heard of and extended after a retry has
  raised the floor past it, against RFC-0012:1247 to 1254 and 1277 to 1285, until
  the retry's own Lease is offered. `Fencing` says as much and no more.
- An Attempt stopped before its Lease was claimed is never FENCED, hence can be
  neither cleaned up (2031) nor terminated (2157).
- `AttemptDraining` drains a Result received and not yet disposed of as
  NO_RESULT.
- `session.ready` replaces all deadlines (3607); `LeasesAreTimed` holds because
  it demands that its Session be the only one and that one be new.
- A renewal compares the new expiry with the old one, never with the time.
  Heartbeats, renewals and the stop after an expiry are refused once the State
  lists two Leases, ended ones included; a second Worker keeps both from being
  enabled.
- The end of a Lease sets its Session READY or BUSY whatever it was: drained,
  offline and quarantined Sessions come back (RFC-0012:1237 to 1245).
- A Recovery completed while the clock is still uncertain cannot be followed by
  another, so the clock stays uncertain.
- `POLICY_VIOLATED` (1642) is no state of an Attempt; POLICY_VIOLATION is, and a
  late Result is not rejected after it.

Artifact storage (`artifact_storage_contracts.py`):

- Recoveries are appended but validated in the order of their identities (2023
  to 2028), where RFC-0013:1281 sorts them by the sequence of their start. A
  second Recovery whose identity sorts below the first's is refused; so is a
  failed protection.
- The clock gate demands that no reservation be listed, and a settled one stays
  listed: after the first pin the clock can be neither gated nor trusted again.
- A pin whose place in the Chronicle was taken stays open for ever, because
  releases are refused, and a Recovery cannot complete while it is open
  (`StrandedPinsHold` says what is kept, and that nothing else happens to it).
- Two pins of one type with the same expected head are committed by one event.

## 4. Proofs

The modules ending in `Proofs` hold the theorems, which are proved for all
values of the constants under the assumptions named in the modules they extend:
sentinel values differ from real ones, the bounds are natural numbers, and in
`Study` each kind of identifier has a prefix of its own (`RP-`, `HY-`, `EX-`, ...,
which the commands test) and a registered analysis compares something (its
schema's `minItems`). Every invariant and action property that a passing run
checks is the conclusion of a theorem, except where its paragraph names a
hypothesis.

`ChronicleProofs`:

- `FailClosed`: in a ledger that reads, every acknowledged event stands at its
  sequence number, for any processes, kills, short writes and power failures.
  That is not inductive: a receipt is given when the directory has been synced,
  long after the event was durable. The strengthening `DurabilityInv`, proved as
  `Durability`, follows an event from the draft to the ledger to the disk: what
  is on the disk is a beginning of what is seen, the event of a process past its
  fsync is on the disk, and only the lock's holder moves. `TypeCorrect` is a part
  of it.
- `RecoveryAcceptsOneEvent`: without power failures at most one event lies
  beyond the head.
- `AcknowledgedChainsParse`: when no append loses just its newline, the chain up
  to an acknowledged event parses. The hypothesis is needed, see section 3.
- `KillsNeverBrick`: without power failures and lost newlines a Chronicle always
  reads or recovers. Each kill leaves a head that counts a prefix of the ledger
  and at most one event beyond it. Both hypotheses are needed, and TLC finds the
  counterexample without either: `recover` writes the head for a tail it never
  fsyncs, so a power failure may keep the head and lose the tail.
- `Refinement`: every step of the Chronicle is a step of `ChronicleLog` or
  leaves its variables unchanged, with kills and torn lines. The invariants
  above supply what the mapping needs: the head counts a prefix that parses.

`ChronicleMigrationProofs`: `MigrationNeverStranded`, `MigrationKeepsAcked` and
`MigrationReportIsDurable`, for any number of processes, events, kills and power
failures. `NeverStranded` is conditional: it exempts the two cases of section 3
in which a command goes ahead of an fsync, and `hasty` records exactly those. A power failure may give back any directory that the last fsync left
possible (`past`), so nothing said of the live directory alone is inductive. The
invariant (`MigrationInvariant`) says of *every* directory in `past` that it is in
use as v1.1, untouched, or marked with both backups made and each file either the
old or the new one (`SomeWayOn`), and that it lacks no acknowledged event
(`AckedOnDisk`), nor, unless `recover` was hasty, an event its head counts
(`HeadsOnDisk`); and what the holder of the lock knows at each system call
(`Preparing`, `Finishing`, `Working`). An untouched directory is the only one in
`past` (`FreshStart`): this is why deleting the old backups at the start of a
migration strands nobody.

`StudyProofs`: the properties of the lifecycle run and `LineageInProgram`, for
any number of Programs, Protocols and records. One invariant serves all
(`StudyInvariant`): the tables are typed and numbered without gaps, so that a
generated id is new (`Identified`); every row names rows that exist, of its own
Program and Protocol (`RowsOk`); every Pilot, verdict and closing is backed by
records (`Backed`); every stage a Working has left is justified (`LeftStages`). A
command changes up to four tables, and what it changes in one bears on claims
about the others. The proof therefore goes through `LedgerOnlyAdds`, which is a
result of its own: a command only extends the projection (no object goes away, no
reference changes, no status falls back). Lemmas show once that what held of a row
holds in whatever extends the projection (`RowsKept`, `BackedKept`, `StagesKept`),
and each command answers for its new rows alone. `StatusStaysEarned` says of
every command that the Program has afterwards the status its records earned, and
none lower than before: `Advance` is called by whichever command comes last, so
each must raise the status to what its record earns (`RaisedTo`) and leave alone
what others earned (`Earning`). CLOSED rests on a Decision whose Assessments are
of the Program, which `StudyInvariant` knows and the guards alone do not say.

`SealPreviewProofs`: `PreviewsSealOnce`, `ReceiptsAreOfSeals`, `SealsAreFinal`,
`TypeCorrect`. The inductive invariant says that a seal lies after the head its
preview was bound to. A commit that finds the head unmoved thus knows that its
preview has not been sealed, and `commit.lock` keeps it true until it seals,
since whoever else appends seals no preview.

`ExecutionProofs`: `StartsKept`, `CancelsSettled`, `OutcomesAgreed`,
`CancellationsWin`, `PagesPrefixed` and the refinement `JobsImplemented`, for any
number of clients, Jobs, keys and kills and with the clock free to step back.
None of the properties is inductive alone: what `State` says of a Job depends on
how often each event occurs. `Legal` states that a history is one the projector
accepts (one submission, one end, one line per cancellation key, an end after
each request); `LegalKept` shows that an accepted event keeps it, `StateAfter`
what the event does to each Job, `TrueKept` that no later event takes an answer
back, and `EveryStep` that every action leaves the journal alone or appends one
accepted event. The client between the two lines of a cancellation finds the
state it left, because it holds the lock. For the pages, `PageInv` says what a
client between two pages has read: all events of the Job up to the last one it
was given. A page keeps this because it is the beginning of what is left, up to a
greatest element (`FirstOfFacts`), and others only append.

`HostTasksProofs`: `ResultsAreFresh`, `DisclosurePrecedesWork`,
`ResultsArePermitted` and `ReviewsAreInOrder`, for any number of Programs,
Reviews, Tasks, contracts and edits. `EveryStep` divides the steps into those
that append nothing and leave the capsules of accepted results alone (`Quiet`),
those that append another event (`OtherEvent`), and acceptances. Freshness is the
one that needs an idea: `accept_agent_result` compares the inventory, not the
position in the log, and so would miss a change that is later undone. `FreshInv`
says that none is, given that other changes are counted (2.5): any event for the
Program since the Snapshot either counts one more object or raises a Review's
`Rank` (`InventoryMoves`), both of which later events keep (`MovesAddUp`). An
equal inventory thus means that nothing happened. For the disclosure, the
invariant follows a Task from its opening, because the Snapshot of a Task in
another Program does not contain the Review. For the registry, `JudgingInv` says
what an acceptance knows between its readings: the log is the one it judged the
Snapshot by, its Task has no result yet, and every contract it has read was in the
registry since it began (`held`), which an edit can only extend.

`ExecutionPlaneProofs`: every property of the `plane` run, for any number of
Sessions, Leases and retries and any capacity, reservation and budget:
`StopsAreFinal`, `LeasesTimed`, `SlotsAreCounted`, `LedgerOfAttempts`,
`EndedJobs` and the refinement `FencingImplemented`. The Attempts are numbered
by their generations and only the last can be current (`AttemptsSound`,
`JobSound`). `EveryStep` says that a step allocates an Attempt or changes one,
and how (`Changes`); `EveryLease` and `EverySession` say the same of those
tables. Authority: the floor stands at the current Attempt's generation until
its Lease ends (`FloorStands`), so a grant and an acceptance find it there, and
the tombstone that passes it leaves no Lease to grant on. Leases that are not the
current Attempt's are in the mapping too, so the sets of generations must follow
each Lease: every Lease is bound to the one Attempt it was offered to, and that
to it (`LeasesSound`), hence no two share a generation and a step on one Lease
moves one generation (`Regenerations`). Deadlines: the one
event that replaces the list finds no Lease, because its Session is the only one
and has just been registered (`NewSessionsFree`, with validation: a Lease is
listed by a Session of the State). Slots: a step changes one Lease, and with it
its Session. Budget: all Attempts but the current one are assured, hence settled
(`Assured`), so the ledger needs no sum. Ends: an assurance other than PENDING
stands only while no Attempt is current and is the last Attempt's (`Judged`).

`ArtifactStorageProofs`: `FailuresHold`, `StrandedForever` and
`QuotaAlwaysBalances`, for any number of
sets, pins, Recoveries and epochs. Activation is the only way out of a Store that
has not been active, but a Recovery may interrupt its initialization and gives
the interrupted status back; the invariant therefore follows the origin of the
active Recovery (`Unactivated`, `NeverActive`). A stranded pin stays because the
Chronicle only grows, so that the place it expected stays taken. The quota is a
sum over pins, and a sum is a recursion that the prover cannot unfold; it is
therefore stated as the number of elements of a set that holds one element for
each unit of each pin (`Claimed`, `Consumed`). A step changes one pin, hence adds
or removes one block of units (`OneMoreUnits`); that the set stays finite is part
of the invariant.

Only model-checked: liveness (`LockIsReleased`, `EventuallyReadable`,
`EventuallyMigrated`), which this prover does not treat, and with power failures
or lost newlines the weaker claims that section 3 names. `LedgerReplays` and
`SealsAreFresh` are false, as their runs show.

## 5. Abstractions shared by all modules

Sigils never collide, and identifiers made with uuid4 are fresh. A lock excludes
all processes and is released when its holder dies. JSON that was written whole
parses to what was written. Document schemas are not modelled.

## 6. Plan

1. Proofs: that each component's promises follow from its abstract
   specification (`ChronicleLog`, `JobLifecycle`, `Fencing`), so that the
   refinements can be cited alone.
2. `EvidenceClaims`: Evidence verification, Claims and relations, and the
   commands that take several transactions; `BlobStore` and the installer as
   file protocols with kills.

## 7. Not modelled

Evidence and Claims, the blob store and the installer have state and hazards of
their own (they are listed in `PROJECT.json`); they come after the execution
plane and artifact storage, which are larger and decide more. Sanctum is a
prototype in memory that no process of the repository uses; the execution plane
models the journaled protocol that replaces it.

The validators of the execution and artifact-storage contracts that belong to no
reducer judge one document each; they compare identities, Sigils and enumerated
fields, of which the models keep only what decides a State. The patch-promotion
and Job-outcome contracts are of the same kind. Alembic's statistics are
numerical functions without state. Rites and Grimoire write one immutable file
per version. Doctor, project discovery, the command line and the read tools
render what other modules compute. The hooks print context to a Host session.
The export of a Result Bundle after its event is a file nobody reads back. The
MCP tools that open, complete and fail a Task call the operations of
`HostTasks`; their own checks are not modelled.
