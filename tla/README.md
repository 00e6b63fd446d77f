# Verification of the BIAL build platform

TLA+ models of the control plane in `src/backend/src`, checked with TLC on small instances and,
for the safety properties that matter most, proved with TLAPS for every instance. The code is the
reference throughout: `PROJECT.json` maps each definition to the lines it stands for.

1. [The system](#1-the-system) — 2. [Modules](#2-modules-and-how-they-meet-the-code) —
3. [Runs](#3-runs-and-bounds) — 4. [Fairness](#4-fairness) — 5. [Proofs](#5-what-is-proved) —
6. [Disagreements](#6-disagreements-between-the-code-and-its-words) —
7. [Not modelled](#7-what-is-not-modelled-and-why) — 8. [What is left](#8-what-is-left)

## 1. The system

People describe an application; a model writes it in a disposable container, the **build
sandbox**; when it is decided about, it is built from a saved snapshot and **published** as a
container app of its own. The control plane is one API process and one background worker over
PostgreSQL, Redis, object storage and Azure. It never holds a lock across an Azure call, so nearly
every protocol is a chain of separately committed steps that another request, a detached task, a
worker's pass or a death may cut in two.

| Component | State it keeps | Operations | Hard because | Correct when | Module |
|---|---|---|---|---|---|
| Pool of ready sandboxes (`sandbox/pool.py`, `sandbox/client.py`, `build_sessions/pool_pass.py`) | ledger rows `filling, ready, claimed, retiring`; containers; detached tasks | claim, own create, let go, put back, fill, the minute pass | starts, fills and the pass work on one row from old readings; a write that failed may have landed; a create given up on may finish | a container has one holder; none goes from under its user; none is left unnamed; no row is stuck | `SandboxPool` |
| Workspace slot (`build_sessions/manager.py`, `locks.py`, `shutdown.py`, `reaper.py`, `snapshot.py`) | Redis lock, record, marker, lease, heartbeat, stay; ledger of owed teardowns; saved copies | start, switch, hand-over, reclaim, attach, restore, compensate, end of turn, shutdown routine, sweeps | one person's start, the turn they leave, its shutdown and two sweeps share five keys | work is saved before its container goes; never over another project's; what stands is always named | `WorkspaceSlot` |
| Publishing (`services/deploy`, `api/v1/deploy`) | `deployments` rows with heartbeats; pipelines; Azure's template, revisions and operations | claim, takeover, publish, restart, reconcile, take down | the API dies in mid-pipeline; Azure lands operations late; the snapshot moves under the decision | one writer an app; only decided code serves; the slot is freed; a stamp means gone | `Publishing`, `DeploySlot` |
| App status and review queue (`approvals/submit.py`, `api/v1/admin`, `api/v1/apps`, `api/v1/deploy`) | app row; immutable submission copies; attempts | publish, submit, withdraw, approve, reject, disable, enable, retry an approved copy | the row, the copy and the saved tree move separately; a request works from the row it read first | what is approved is what was read; a rejection and a disable stand; a bad copy is not tried for ever | `AppStatus` |
| Publish gate and classification review (`deploy/gate.py`, `classification/`) | one review row an app, its attempt and fingerprint; live policy and classes | ask, claim, run, settle, age out, decide | a superseded or abandoned run ends late; the policy is edited while a run reads | what is published was examined as that commit, by those definitions | `PublishGate` |
| Turn engine (`turns/engine.py`, `turns/guard.py`, `usage/gate.py`, turn routes) | turns in memory, the chat's guard, the person's slot, Redis stop keys, the day's meter | send, attach, run, self-heal, save, bill, stop, end | a Stop lands at any await, in the unwind too | one ending, one reply a chat, everything let go, spend metered once | `TurnEngine` |
| Project databases (`appdb/`, the two deletes, the switch) | claim row, database, role, door, salt record | claim, provision, sever, restore, destroy | DDL is not transactional; two provisioners; a switch and a delete beside them | ready means complete; a disabled app is shut out; what is left is on record | `ProjectDatabase` |
| Attachments, messages and retention (`attachments/`, `messages/store.py`, `conversations/`, `storage/reconcile`) | upload rows, objects, chats, references, the pass record | upload, send, delete, sweep, reclaim, reconcile, retain | rows commit before objects go; messages arrive in between | nothing referenced is deleted; idle chats go, touched ones stay | `Conversations` |
| Everything else | see section 7 | | | | |

How the modelled parts meet:

- A workspace start takes a container from the pool (`Birth` in `WorkspaceSlot` stands for all of
  `SandboxPool`'s start), and `SandboxPool` sees the workspace as a user of a container who stops,
  is reaped, or leaves a debt (`Leave`, `Reap`, `Owe`, `Settle`).
- A turn of `TurnEngine` attaches and hands back the workspace; what `WorkspaceSlot` calls a turn's
  hold is here the slot and the session, and what the container does is one failing or answering
  step.
- `Publishing` reads the saved copy that `WorkspaceSlot` writes (`Save`); its free choice `cleared`
  is the decision of `PublishGate` or the approval of `AppStatus`; `AppStatus` sees an attempt as a
  row that ends live, at fault or retryable.
- `AppStatus`'s disable and enable are the `SwitchOff`/`SwitchOn` requests whose statements
  `ProjectDatabase` takes one by one.
- A send of `Conversations` is what `TurnEngine` admits: the claim is the guard.

## 2. Modules and how they meet the code

Each module has one action per statement, call or handler step; between two steps of one actor any
other may run. A statement on a table commits alone in this code, so it is one step; an Azure,
supervisor or Redis call is a step of its own unless noted. Definitions whose comment begins with
"Fault" or whose name ends in *Anyway*, *Uncut* and the like are mutated forms that no
specification uses: they are what the properties are tried against.

### SandboxPool

`row` is the ledger (one row a name, by `uq_sandbox_pool_name`), `cloud` what Azure holds,
`inflight` creates whose caller gave up, `registry` and `owed` the two things that name a container
outside the ledger, `tasks` the detached tasks `_let_it_go` and `_put_it_back`. `_move` is a
compare-and-set (`Holds`, `Moved`), `forget` is by row id (`gen` tells a name's first row from the
one `hold_for_deletion` adds). The pass reads the ledger once (`PassBegin`), then the registry, then
the debts, and works from those readings (`pass.todo`, `pass.held`, `pass.gen`).
The advisory-lock transaction of `add_filling` (count, then insert) is one step. One pool is
modelled: the plain and the connector pool run the same code over disjoint rows. `GrowOld` ages a
row only when nobody is at a step that the code bounds by less than `ROW_DEADLINE` (`Busy`).
`FillHolds` assumes that a fill's insert comes later than the pass's forget for the same name: they
are one statement and one refused delete apart from the same moment.

### WorkspaceSlot

One person, two projects. `start` is the start under the person's start lock, with `pc` for the
place in `_show_the_outgoing_project_the_door`, `_holding_user_lock` and `_admit_a_start`; `turn[t]`
is the turn of start `t`, whose number is also its lock token; `runs` are shutdown routines,
detached in the API or begun by `sweep_owed_teardowns` in the worker; `reap` is the registry sweep
(`RegistrySweep`: production's cron, or the internal route). Consecutive Redis calls that no other
actor can tell apart are one step. `Becomes` keeps in a routine's record only what its later steps
read. Assumptions: each modelled turn is a build turn in a conversation of its own; every record has
a birthday and a vouched name; a claim's window outlasts the work done under it and a start's own
steps (`ClaimLapses`); the age ceiling is `Unread`'s free choice; the worker runs one owed row at a
time. Left out: the inline reap of a container certified dead, shared views, the answer of a
different instance, the integrity verdict and the quarantine, a missing repository, the user's Save,
discard, release and revoke, and a Plan turn's immediate cut.

### DeploySlot, Publishing

`DeploySlot` is what the `deployments` table promises of an app: attempts are made one at a time
and each settles once. `Publishing` implements it (`Slot == INSTANCE DeploySlot WITH status <- ...`).

An attempt, its pipeline and its revision share a number; an image has the number of the attempt
that built it. `row` is the table, with the heartbeat in three ages (`fresh`, `quiet`: the
reconciler's two minutes, `stale`: the takeover's half hour); `pipe` the detached pipelines;
`template`, `serving`, `revision`, `creating` and `deleting` are Azure: the template is what was
last asked for, `serving` what takes the traffic, and an operation may land after the caller that
asked for it gave up. `Publish` is the request: the decision (`cleared`), the claim, and a takeover,
with `ClaimAgain` as its second claim. `Restart`'s checks and claim are one step, milliseconds
against a pipeline's minutes. Extraction and build are one step (`Pack`). `Create` stands for all of
`create_or_update`'s tries, which ask for the same revision. `TakeDown, Pick, Sweep, Swept, Stamp`
are the two takedown routes; `Scan, Look, Deferred, Write` a reconciler's pass.
Assumptions: a live pipeline beats in time (20 s against 120 s and 30 min) — `OneWriter` rests on
it; with `Serial`, Azure refuses an operation while another on the same app is at work; with
`Overlaps` FALSE, no attempt begins while a takedown is under way.

### TurnEngine

One person, any number of Build, Plan and BIAL chats, one asyncio process. `turn[t]` is a turn with
the await it is parked at (`pc`) and all that it has done to the outside; between two awaits nothing
else runs, so a step is the code from one await to the next. `Stop` may cut a task at every await it
passes; `Ask`, `Settle` and the steps that look at `ask` are the cooperative stop, seen at a step
boundary only. The `finally` is `Terminal`, `HandBack`, `Release`, `LeaseOff`, in the code's order.
`Gate`, `Fold` and `Bill` are the usage gate and the meter, one token a model step. A build is
metered step by step, so past the limit each Build chat can spend one step more; a reply in another
chat is gated once, at its start, and pays at its end, so every message sent there before the meter
shows the limit may spend a whole reply: that is the sum in `OvershootIsBounded`. Left out: the day's
rollover, the API's death (a restart forgets all of this state), the frame ring and its subscribers,
plan options, the peek cache's eviction, analysis sessions.

### AppStatus

One app row, the saved head, the numbered submission copies and attempts. A tab is one owner's
request and an administrator one decision; each reads the row, takes its outside steps (copy, head,
door) and ends in a guarded update, or for the decisions without a guard in the unguarded one the
code has. Left out: an unconfigured store or builder, restarts (in `Publishing`), hard delete (in
`ProjectDatabase`), the declaration's own write.

### ProjectDatabase

One project. `row` is the claim, `role` and `base` the cluster's objects, `given` the passwords
containers hold, `inside` whether the app has a session. Each DDL statement of `provision.py` and
`teardown.py` is one step and may fail after any of the others; a claim is numbered and its number
stands for the password it made. `late` marks the runs in which a provisioner worked on while the
door was being shut: `DisabledMeansShut` says what holds outside them. Left out: the operator's
report and database sizes.

### PublishGate

The review row, every run detached for a claim (they outlive their claim), the publish dialogs that
ask for reviews and the sends that decide. A class definition carries its words' fingerprint, its
hard blocks and its weights; the decision (`Decide`, `Score`) is an operator over the row's answers
and the live configuration. Extraction, the credential scan and the model are one nondeterministic
answer or failure. The configuration and the head are read in one step, since neither read depends on
the other. Left out: the dialog's check that the answer's keys match, the required note, and a
standing rejection (`AppStatus` holds it).

### Conversations

One person. `chats` and `older` are the conversations and their order by `updated_at`; `refs` what
their messages refer to; `rows` and `blobs` the attachment rows and the objects. A transaction takes
effect at its commit: append with touch, the delete of chats, the retention pass's verdict with its
row locks and deletes. A pass is a scan, a verdict a chat, and an object sweep after its commit.
Days are counted in whole windows; a turn ends inside its day; the reconciler's grace outlasts an
upload. A key is a fresh uuid, that is, any key that nothing names. Moves of a file to a second chat
happen only with two chats, so never in the TLC run: the proofs cover them.

## 3. Runs and bounds

| Run | Checks | Bounds, and why they are enough |
|---|---|---|
| `SandboxPool` | `NoTwoHolders`, `NamedContainersStand`, `NoOrphan`, `RetiringNeverTaken`; processes die anywhere, the ledger answers | 2 names, 2 people, 2 starts, 1 fill, 2 claims a start, sizes 0 and 2: two starts can want one container, one start can keep one and take another, rows can be surplus. 1 M states; the invariants of the proofs were checked there |
| `SandboxPoolProgress` | `NamedContainersStand`, and `RowsResolve` under fairness; a ledger that may not answer, fills cut short, a changing image | 1 name: whether a row is stuck does not depend on other rows. The proofs' `Stands` was checked there |
| `WorkspaceSlot` | `WorkingContainerStands`, `WrittenBackFirst`, every call answered: past the age ceiling or the strikes the code destroys unread by design | 3 starts, 3 containers: a switch away and back. The proofs' `QInv` was checked there, 1.3 M states |
| `WorkspaceSlotFailures` | `TypeOK`, `NoOrphan`, `EachProjectItsOwn`, `OneRun`, and `DebtsSettle` under fairness, with everything failing and the registry sweep | 2 starts, 1 container, 2 strikes: one switch with every ending of both sides, and every debt met by the detached routine and by the sweep. The proofs' `IInv` was checked there, and with 2 containers (2.2 M states) |
| `Publishing` | `OnlyDecidedServes`, `OneWriter`, `KeepsTheSlot` (the refinement), with deaths anywhere | 3 attempts, 2 publishers, 2 commits, 1 pass: a publish, a takeover and a restart of either |
| `PublishingTakedown` | `StampedMeansGone`, and `FreesTheSlot` (`DeploySlot`'s fairness), where no attempt begins during a takedown | 3 attempts, 2 takedowns, 1 pass, `Serial`. The proofs' `Takedowns` was checked there |
| `AppStatus` | `ApprovalStands`, `QueueHoldsItsCopy`, `BarredStaysBarred`, `CopyIsNotTriedForEver` | 1 tab, 1 administrator, 2 commits, 3 copies, 2 attempts: a save or a resubmission inside every decision, and a decision inside every publish. 2.9 M states. The invariants of the proofs were checked with 2 tabs as well, to 20 M states of a larger space: an earlier bound of `CopyIsNotTriedForEver`, one that ignored a second request's own tries after a takedown, fails there |
| `PublishGate` | `PublishedWasExamined`, `AnswersStand` | 2 dialogs, 1 send, 2 saves, 2 runs, 1 edit, 3 configurations of which two read alike and decide differently: a superseded run, an abandoned one that lives, an edit between run and send |
| `TurnEngine` | `TypeOK`, `OneEnding`, `OneReplyAtATime`, `LetsGo`, `SpendReachesTheMeter`, `OvershootIsBounded`, `CompletedIsComplete`, and `TurnsEnd` under fairness | 2 turns, a Build and a Plan chat, a limit of 2 tokens, 1 retry, 1 ask: a Stop of either turn at each of its awaits, beside the other at any of its own. The meter answers. 1.45 M states. The proofs' invariants were checked with a third chat and a meter that fails as well, 2.7 M states |
| `ProjectDatabase` | `DisabledMeansShut`, `ReadyIsComplete`, `NothingLeftUnrecorded`, `SaltTellsTheTruth` | 2 provisioners of 1 claim, 2 teardowns, the switch: each pair of actors side by side |
| `ProjectDatabaseAnew` | `NextBuildGetsACleanDatabase`, violated | 2 claims, 1 provisioner, 1 teardown |
| `Conversations` | `RowsHaveTheirBytes`, `SentFilesStand`, `TouchedStays`, and `IdleChatsGo` under fairness | 1 chat, 1 file of the code lane, 1 upload, 1 send, 2 keys, a pass of 1 chat: the file is re-uploaded under a second key while any of the six remover's steps is under way. 0.7 M states. Two uploads and two chats were checked without the liveness property |

Deadlock is not checked where a bound on starts, turns, attempts or claims ends every behaviour.
Interchangeable names, projects, commits and requests are permuted in safety runs; no liveness run
uses symmetry. Each property of a passing run has a mutant in `PROJECT.json`: the code's definition
with a plausible bug, under which TLC finds that property violated.

## 4. Fairness

- Pool: whoever goes on running takes the next step (asyncio schedules every ready task); time
  passes; the worker begins a pass every minute. A pass may die but not at one point for ever, and
  Azure does not refuse one delete for ever (strong fairness on the pass's readings, deletes and
  forgets). Nothing obliges a person to start or to leave.
- Workspace: weak fairness on starts, on each container's routines and on a claim's lapse; strong
  on the sweep's claim, and on a delete or a settlement that lands. A container may never answer:
  the strikes see to it.
- Publishing: weak fairness on pipelines, on the heartbeat's ageing, on Azure's end of an
  operation, and on a pass's scan and write; strong on its look, since Azure answers one of the
  five-minute passes in the end.
- Turns: weak fairness on each turn's task. Every await of a turn has a timeout or a bounded retry
  in the code. Nothing obliges anybody to send, stop or ask.
- Conversations: days pass and the worker ticks (weak), a turn ends (weak; `TurnsEnd` is why), and
  a retention pass that comes to its commit again and again commits (strong): it may fail, not for
  ever.

## 5. What is proved

By `tlapm`, for every value of the constants and from the modules' named assumptions alone (each
says only that the flags are Booleans, the bounds naturals, the null values no members, and that a
person has finitely many Build chats). Four theorems state a condition besides, the one under which
their run checks the property, and without which the code does not keep it (section 6):
`WorkingIsUndisturbed` and `NothingIsLost` that every call is answered (`Answers`), `AStampMeansGone`
that `Serial /\ ~Overlaps`, `NothingStandsUnnamed` that the ledger answers and fills come to their
end (`Reliable`).

**`SandboxPoolProofs`**: `TypeCorrect`, and `OneContainerOneHolder` (`NoTwoHolders`). `NoTwoHolders`
is not inductive: a claim takes a row marked ready, so one needs that what can be claimed is
nobody's. The invariant is about *tokens*, what entitles one actor to a name — a start that claimed
or made it, or the detached task that will put it back: a row that is free or being filled has no
token and no record (`FreeIsFree`), a token is held once (`HeldOnce`, `OneHolder`,
`PutBackIsFree`), and a container at a step before its registry write has no record
(`UnrecordedHasNoRecord`). Nothing else matters to it: the pass may do what it likes, since it never
makes a row ready.

`NothingDeletedInUse` (`NamedContainersStand`) and `RetiringIsForGood` (`RetiringNeverTaken`) need
more, because a fill, a detached task and the pass delete on a reading that may be any number of
steps old. `Stands` is about names past being taken: a name is *closed* once it was given out, its
row is neither filling nor ready and nobody has yet to record or put back its container, and *spent*
when besides nobody has it and no debt names it. Both last for ever (`Lasting`), and whatever a fill
(`FillsAreApart`), a task (`TasksAreSpent`) or the pass's list (`ListIsSound`) may delete is spent;
a row judged claimed is closed only because the sweep's clock does not run under a start
(`OldIsClosed`). `NothingStandsUnnamed` (`NoOrphan`) adds `Kept`: a container under way has its
claimed row and is on nobody's list (`BuildingIsApart`, `FillsAlone`), and a row is forgotten only
when its container has gone (`ForgottenIsGone`).

**`WorkspaceSlotProofs`**: `TypeCorrect`, `NothingIsOrphaned` (`NoOrphan`), `OneRoutine` (`OneRun`)
and `WorkStaysWithItsProject` (`EachProjectItsOwn`), with everything failing, cancelled or dying and
with or without the registry sweep. `IInv` says that a routine works alone, under a claimed row
(`Routines`); that a start which will hand a routine its row has that row to itself
(`StartHasTheRow`); that a record is cleared only when what it names is owed or gone
(`StartClears`, `Reaping`), the order debt, record, routine on which `NoOrphan` rests; and that a
name is born once and its tree holds its own project's work (`OwnWork`). `WorkingIsUndisturbed`
(`WorkingContainerStands`) and `NothingIsLost` (`WrittenBackFirst`) assume `Answers` and add `QInv`:
an owed row is always worked on, so no claim lapses under a turn (`RowsAreWorkedOn`); the record
names a container that stands, serves and is nobody's to end, except between the hand-over and the
lock (`RecordServes`); a turn at work is in that container, or its routine has yet to stop it
(`TurnsAreSafe`).

**`TurnEngineProofs`**: `TypeCorrect`, `EndsOnce` (`OneEnding`), `GuardHolds` (`OneReplyAtATime`),
`EndingLetsGo` (`LetsGo`), `SpendIsMetered` (`SpendReachesTheMeter`), `CompletionIsHonest`
(`CompletedIsComplete`, an action property) and `OvershootBounded` (`OvershootIsBounded`). Most of
the invariant is about one turn's record (`Sound`): its end is told when it comes to it and not
before, it keeps to its kind's steps, its account is one step behind at most while it folds, and
what it knows grows towards completed. Only two parts relate turns: the chat's guard is its
answering turn's, or that of a turn cut before its first step (`Guarded`), and the slot is a turn's
that will hand it back, or that was cut while it attached (`SlotKept`). They are the two windows
that `LetsGo` names. The cap is a sum over all turns: `MInv` says that the meter and the builds at the model together stay
below the limit, one step for each Build chat, and one reply for each turn of another chat past its
bill.

**`PublishingProofs`**: `TypeCorrect`; `NeverTwoWriters` (`OneWriter`) and `TableKeepsTheSlot`
(`KeepsTheSlot`, the refinement of `DeploySlot`), both from `Slots`: a live pipeline's row is running
and fresh (`LiveRuns`), one row is running (`OneRuns`), rows beyond the last attempt are empty
(`Beyond`) and a pass judges only attempts whose pipelines have gone (`JudgesTheGone`); and
`OnlyTheDecidedServes` (`OnlyDecidedServes`), from `Bundles`, which follows a decided commit from the
request through the pipeline, its image and Azure's operations to the revision, and says that a row
with an image is one whose image was built from a decided commit — which is why a restart, which
decides nothing, cannot bring back anything else. `AStampMeansGone` (`StampedMeansGone`) is by
`Takedowns`: only the newest row runs (`NewestRuns`), nothing runs while a takedown is past its
check (`Undisturbed`), and one at its stamp has seen Azure bare (`Sweeping`), which stays so until
the next attempt (`StampStands`).

**`AppStatusProofs`**: `TypeCorrect`; `WhatIsApprovedWasRead` (`ApprovalStands`) and
`TheQueueHoldsWhatItSays` (`QueueHoldsItsCopy`), from an invariant that ties each request's reading
to the copy it names: a submission number is handed out once and its copy is never changed, so a
commit read with it stays its commit. `BarringStands` (`BarredStaysBarred`) and `TheCopyIsGivenUp`
(`CopyIsNotTriedForEver`) count: `Bounds` charges every attempt past a disable or a rejection, and
every failed try of the approved copy past the allowed ones, to a request that had read the row
before and has yet to claim, and a takedown gives each request one more. `OnlyAnEnableSwitchesOn` and `DecisionsAreTheAdministrators`
are action properties of the same specification, and are only proved: no status but by enable
follows disabled, and nothing the owner or an attempt does moves the pin of an approval.

**`PublishGateProofs`**: `TypeCorrect`; `GatePublishesWhatWasExamined` (`PublishedWasExamined`) and
`AnswersAreKept` (`AnswersStand`). The invariant follows the pair of commit and fingerprint: a
dialog asks for a pair that is or was the head's (`AsksForAPair`), a run that has not settled reads
the pair of its claim or fails (`ReadsItsOwn`), a complete row's answers are those of some run of
its pair (`CompleteWasSaid`), and what a send decided was such a row (`PublishedWasSaid`). A run
that comes late can write only what it read of the same pair, which is why the missing claim number
in `_finish` does no harm to the decision.

**`ProjectDatabaseProofs`**: `TypeCorrect`, `ASwitchedOffAppIsShutOut` (`DisabledMeansShut`),
`WhatIsReadyIsComplete` (`ReadyIsComplete`), `WhatIsLeftIsRecorded` (`NothingLeftUnrecorded`) and
`ATeardownSaysWhatItLeaves` (`SaltTellsTheTruth`). The heart is `Provisioned`: a provisioner at step
*k* of the sequence has brought about what the first *k* - 1 steps promise (`Brought`), unless
somebody destroyed it in the meantime, and destruction takes the row first. `ShutOff`, `NobodyElses`
and `CleanedUp` say the same of the teardown's own statements.

**`ConversationsProofs`**: `TypeCorrect`, `RowsKeepTheirBytes` (`RowsHaveTheirBytes`),
`SentFilesAreKept` (`SentFilesStand`) and `TouchedChatsStay` (`TouchedStays`). `Objects` is the part
about keys: a key is named by one row, a key about to be swept is named by none, a fresh key is its
upload's own. `UsedWhereItIs` ties a reference to the row's chat, `ReclaimsTheUnsent` says that what
the reclaim is about to delete was unsent when it looked or is in `late`, and `AnsweringIsRecent`
that a claimed chat is inside its window, from which the retention pass cannot take it.

**Only model-checked**: the liveness properties `RowsResolve`, `DebtsSettle`, `FreesTheSlot`,
`TurnsEnd` and `IdleChatsGo`, since liveness under fairness is out of the prover's reach. Every
invariant and action property of a passing run is a theorem.

## 6. Disagreements between the code and its words

One is a run that TLC refutes; the finding in `PROJECT.json` quotes the lines.

- `ProjectDatabaseAnew`: names are a pure function of the project's id, so after a hard delete the
  next build adopts the database whose teardown is still to come or has failed (`router.py:1014`,
  against `admin/router.py:1013` and `teardown.py:186`).

The others were met with the same models and are recorded here; the properties are stated so as to
hold beside them, and say so.

Pool, workspace, publishing:

- A fill cut short retires its row at once; the pass deletes what is not there yet and forgets the
  row, and the create lands unnamed. `NoOrphan` is checked with fills left to finish.
- A pass deletes a *retiring* row's container without asking the registry; a start whose registry
  write landed but was reported failed leaves such a row (`pool_pass.py:130`, against line 4).
- A start attaches to a container the registry sweep has judged; what the turn writes after the
  sweep's copy is destroyed with it. `WrittenBackFirst` is checked without that sweep.
- A start cancelled between the commit of its claim on the outgoing container and the routine it
  promises leaves a debt on a container that goes on serving; the claim lapses and the sweep
  destroys it under its turn (`manager.py:2022`, against `shutdown.py:856`).
- After a switch two turns renew one lease, and the outgoing one drops it (`engine.py:2104`, against
  `locks.py:281`).
- An ending looks at the slot and then clears it; a start that takes the lock in between loses it
  (`shutdown.py:720`, against `shutdown.py:710`). `reaper.py:930` clears an orphaned lock the same
  way.
- An attempt that begins between a takedown's in-flight check and its choice of a row, and settles
  before its stamp, is a serving app with a takedown stamp (`router.py:1150`, against
  `store.py:194`). `PublishingTakedown`, where no attempt overlaps a takedown, shows that this
  window is the only way.
- The reconciler promotes an attempt whose revision never took the traffic, because the template
  names its image (`reconcile.py:91`).
- An attempt that timed out comes up later and serves; a restart recycles the version before it
  (`RestartRunsWhatServes` in `Publishing` does not hold).

Turns: `EveryEndingLetsGo` in `TurnEngine` does not hold, for two windows that `LetsGo` names.

- A Stop before the task's first step leaves the chat's guard taken: the task never enters the
  `try` whose `finally` releases it.
- A Stop between the moment the workspace registers the session and the assignment that lets the
  `finally` see it leaves the person's slot taken (near `engine.py:2327`).
- A Stop inside `_bill_once` on the completed path, or between a reply's arrival and the step that
  records it, loses that reply's spend; a hard Stop leaves stored calls without answers; a Stop that
  comes after the reply was committed is recorded as stopped; a Plan turn's preview frame may follow
  the frame that ends the turn, and the wait for its watcher swallows a Stop. The guard is free
  before `_stop_liveness_lease` has run (`engine.py:2104`).

App status and gate:

- `service.start` re-reads nothing: an attempt begins on the status its request read.
- A rejection carries no submission's number, so it may land on a submission the administrator has
  not seen (`admin/router.py:640`); a declaration's write may pair one version's words with another's
  copy (`deploy/router.py:660`; `QueueDeclaresItsOwn` in `AppStatus` does not hold).
- The cap on model runs refuses only a failed row at the cap. Two dialogs, or an edit of the classes
  and back, run it more often than the docstring allows (`classification/service.py:96`;
  `RunsPerPairWithinTheCap` in `PublishGate` does not hold).
- `_finish` matches pair and attempt, not the claim: a run of an earlier claim of the same pair may
  settle a later one. An abandoned run that lives leaves two audit rows for one attempt. The live
  policy and classes are read in two statements.

Databases:

- A provisioner that works on past an administrator's disable opens the door again; the enable opens
  it before it commits; both are the `late` of `DisabledMeansShut`.
- `_publish_ready` has no guard on the claim. A process that dies between a delete's commit and its
  teardown leaves everything, unrecorded; `NothingLeftUnrecorded` excepts that death by name.

Conversations:

- The portal holds that "A `startTurn` that threw means the server persisted NOTHING"
  (`ConversationSurface.tsx:1385`): when only the answer was lost it deletes the files of a stored
  message, and if one was in the model's lane every later send of the chat is refused.
  `AssistantPage.tsx` does the same.
- A message sent between the reclaim's scan and its delete loses its file (against `reclaim.py:90`);
  `SentFilesStand` excepts it by `late`.
- A file used in two chats goes with the first that is deleted. The portal uses a file in one chat;
  `Uses` is that assumption, and a model value away from its negation.
- A project's cascade takes no claim on its chats: a send between its scan and its commit leaves a
  file's row behind until the reclaim.
- The limit of files a chat is a check and a later insert. A re-upload with nothing changed sends no
  UPDATE, and answers 201 though the row has gone. A put whose insert fails leaves an object for the
  reconciler.
- The interactive delete and the retention pass lock chat and attachment rows in different orders; a
  deadlock's victim rolls back, which the model has as a failed commit. A retention record that
  cannot be written makes the pass due again.

## 7. What is not modelled, and why

Every component is in `PROJECT.json` with its status and reason. In short: agent tools, prompts and
the model are the free choices of `TurnEngine`; extraction, media, embeddings, the message
projection and the integrity verdict over a tree are pure functions with no protocol; the data lake,
directory and analysis sessions are clients of outside services; shares, naming and the audit log
are single-row writes in their caller's transaction; sign-in and tokens are left to their tests;
the rate limiter's windows are in one process and between two awaits; the portal and the supervisor
appear only as what the control plane sees of them; migrations and scripts run once and alone. These
parts are most of the repository's lines, which is why the map covers only the protocols.

Hazards of the modelled parts without a property:

- A switch away and back while the first write-back still runs lets an older tree replace a newer
  saved one (`snapshot.py:262`): the saved copy has no ancestry in `WorkspaceSlot`.
- A restart that reads what is live while a takedown is under way puts the container back
  (`deploy/router.py:1014`): outside the instances where `Overlaps` is FALSE.
- The portal's clean-up after a lost answer (above): the page is not a part of `Conversations`.

## 8. What is left

1. Proofs: the refinement of item 2, and the safety half of `RowsResolve` and `DebtsSettle` — that a
   row nobody works on is one the pass, or the sweep, can take up.
2. A *Workspace* above `WorkspaceSlot` (a person has one place to work, and leaving it saves it),
   refined where every call answers.
3. The composition of `TurnEngine` with `WorkspaceSlot`, whose turns are now each other's
   abstractions, and of `AppStatus` and `PublishGate` with `Publishing`.
4. The user's Save, discard, release and revoke, and the quarantine arm, in `WorkspaceSlot`.
5. Pure algorithms: `judge_workspace`, the orphan classifiers of `appdb/reconcile.py`, the fixed
   window of the rate limiter against a definition over the log of hits.
