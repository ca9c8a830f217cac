# A TLA+ model of guardedcoder

guardedcoder runs a language model as a coding agent inside a Git worktree and
keeps everything the agent may do behind a governed, durable store: every action
passes governance and needs a single-use permit, one that leaves the write paths
a single-use approval of the user, and whatever a killed process left behind has
to be sorted out by the next one. Four kinds of processes meet in that store
without ever talking to each other: `run`, `approve`/`reject`, `resume`, and
`apply`/`discard`. The modules here model the store, those processes, the rules
they obey and the files they share.

Paths below are relative to `src/guardedcoder/` in the repository.

## 1. The system

| Component | State | Operations | Hard behaviour | What makes it correct |
|---|---|---|---|---|
| Store: tasks, revision (`persist/store.py`, `db.py`, `txn.py`) | row of `tasks`: `run_state`, `artifact_state`, `envelope_hash`, `state_revision`, `remaining_steps` | `create_task`, `update_task` | many processes with stale revisions | every write moves the revision by one; a stale writer is refused |
| Approvals (`persist/approval.py`) | `pending_actions` | `request_approval`, `insert_pending`, `approve`, `reject` | an answer racing another write | an approval buys one permit, for the same action, at the revision it was given at |
| Permits and windows (`persist/permit.py`) | `permits`, `execution_windows` | `create_permit`, `consume_permit_and_open_window` | two processes with a permit each; stale permits; the budget | one active window per task; one window per permit; one step per permit |
| Executor (`tools/executor.py`) | `execution_started`, the worktree | `execute`: `_authorize`, `_apply_authorized`, `_consume_claim` | a second start of the same tool | a command starts once; a patch once, and once per claim |
| Recovery (`persist/recover.py`, `claim.py`) | `recovered_attempt_claims`, window status | `recover`, `claim_recovered_attempt` | a process that died inside a tool | a patch is judged by its images, a command never runs again |
| Agent loop (`loop/engine.py`) | only locals | `step`, `_finish`, `execute_approved`, `_retry_started_patch` | reads the row, calls the model, runs tools, writes later | runs what was permitted; succeeds only when verified |
| Commands (`loop/service.py`) | `task_runtime` (observations), `envelope_versions` | `run`, `approve`, `reject`, `resume`, `apply`, `discard` | killed anywhere; two at once | each ends; each leaves a task that can go on or has ended |
| Governance (`governance/`) | none | `evaluate`, `classify_*`, `check_path`, `argv_is_hard_forbidden` | precedence of denials, envelope, budget and approval | what is forbidden never runs, approved or not |
| Sensors (`sensors/`) | none | verdict from exit code or JUnit, `build_verify_plan` | totals that disagree, reports that are missing or no reports | no clean report is no pass |
| Patch writer (`tools/apply_patch.py`) | worktree files, temporary files | plan, write, roll back | a write failing or killed half-way | all or nothing; each file old or new |
| Apply (`workspace/apply_back.py`, `artifact.py`) | user's repository, patch file, `applying` window | `preview_apply`, `confirm_apply`, `enter_applying`, `recover_apply`, `_finish_applied` | git killed between two files; a second apply; a user editing | the artifact state says what the repository holds |
| Worktree ownership and discard (`workspace/worktree.py`, `discard.py`) | worktree, ownership record, task row | `create_task_worktree`, `discard_worktree`, the compensation in `run` | failure or a kill between any two pieces | no loop without its row; `discarded` only when both are gone |
| Memory (`memory/`) | `memory_records` | add, supersede, collect, clear, retrieve | two supersessions of one decision; budgets of the answer | one successor per decision; only stale summaries go |
| Not modelled: audit log, assembly of the prompt, HTTP and keyring, command line | | | | |

The processes interact only through the database (one `BEGIN IMMEDIATE`
transaction per operation), the worktree, the patch file and the user's
repository. A process reads the row, works, and writes with the revision it read
- or, in `_complete_window`, `_fail_close_window` and `_set_task_state`, with the
revision it reads again at that moment, which the optimistic lock cannot refuse.

## 2. Modules

```
 OneShot             what the store promises: no revisions, no windows
    ^ refinement
 StoreRefinement <---------------------------- OneShotProofs   the refinement, proved
    |
 GuardedStore <-- GuardedStoreProofs           types, what a step does to a row
    ^        ^       ^
    |        |    StoreSafetyProofs            approvals, permits, windows, budget,
    |        |       ^         ^        ^      claims and launches
    |     ApplyBack  |  ApplyBackProofs |
    |                             LifecycleProofs
 Lifecycle
    |-- EXTENDS  Governance   evaluate() and its rules
    '-- INSTANCE Sensors      verdicts of verify commands

 AtomicPatch        what the loop and the recovery take a patch for
    ^ refinement
 PatchWriter <-- PatchWriterProofs
 Workspace   <-- WorkspaceProofs
 Memory      <-- MemoryProofs

 MCGuardedStore, MCLifecycle, MCApplyBack, MCPatchWriter, MCWorkspace,
 MCMemory: instances for TLC
```

**GuardedStore.** The five tables as functions from row identifiers to records; a
row not inserted has the task `None`. An action is one committed transaction; one
that raises is rolled back and is no step. `Next` calls every operation with every
identifier and every, possibly stale, `expected_revision`, so it covers more than
the present callers do. Two history variables: `verdicts` (how a pending action was
answered; the code only stores `consumed`) and `launches` (how often a tool was let
through). Partial unique indexes of the schema are guards (`NoOpenPending`,
`NoOpenPermit`, `PendingUnspent`, `ClaimFree`). Read actions change no row. A
`run_command` that is refused, and a patch that fails, roll back the started flag.
`recover`'s answer `retryable_same_attempt` writes nothing and so is no step.

**OneShot** is the abstract promise: an action runs only as an attempt; an attempt
costs a step; one attempt per task is under way; an attempt in the name of an
approval is for the approved action, and there is only one. **StoreRefinement** maps
a permit and its window to an attempt.

**Governance** and **Sensors** hold the pure rules as operators: the fence around
sensitive paths, the classification of reads and writes, the hard rules on a
command line, the order in which `evaluate` asks them; the two sensors and the check
of the verify plan. They are not checked against a restatement of themselves but in
Lifecycle, where every action the model proposes passes `Evaluate` and every
verification `SensorVerdict`, and the properties say what must come of it.

**Lifecycle.** The processes `run`, `approve`, `reject`, `resume` as program
counters over the store. `ActionOf` gives each fingerprint its action (tool, paths,
profile), `ArgvOf`, `SensorOf` and `VerifyProfiles` are the envelope's profiles.
`image` is how the worktree compares with each window's pre- and postimage,
`orphan` whether a command has outlived its process, `recorded` the windows whose
observation was stored, `ran` (history) what ran in each window. Between two
transactions anything may happen: another process's step, or `Crash`. A patch that
breaks off is `PatchBreaksOff`: the transaction that set the started flag is rolled
back, the files are not. The process was killed between two files or after the last
of them, or putting the files back failed as well and it closes the window.

Four things write the worktree. A patch makes it the postimage. A command, verify
commands included, may write any file as long as it runs (`CommandWrites`); one whose
process was killed goes on running and writing (`OrphanWrites`, since
`subprocess.run` leaves it behind). The user or another program may write it at any
time, and a machine that stops may lose what was written (`Meddle`). After each of
the last three the worktree may be either image of an open window's patch, or neither
(`Altered`). A started patch whose preimage is there again is the case that
`_retry_started_patch`, the claims and the second start are made for.

`green` and `fresh` (history) count the verify commands that passed on a worktree no
tool wrote afterwards: every patch, every write of an action's command and of an
orphan voids them (`Touch`, `Void`); a verification's own commands do not, and
neither does the user. Correspondence of labels:

| pc | code |
|---|---|
| `check`, `read`, `deny`, `hitl`, `revise`, `returned`, `giveup` | `_run_steps` and the first half of `step` |
| `act`, `recover`, `permit`, `consume`, `execute`, `running`, `complete`, `failclose`, `record` | the window half of `step`, `execute_approved`, `_permit_then_execute` |
| `retry`, `claim` | `_retry_started_patch` |
| `finish`, `settle`, `verify`, `sense`, `judge`, `conclude` | `_finish` |
| `approved`, `refused` | `_handle_resume` |

The language model is an adversary: at every step it may propose any action of
`Fingerprints`, and `Evaluate` decides what comes of it, or claim any outcome.

Two steps of one process are merged where nothing can come between that the code
would notice: a read followed at once by a write conditional on the revision read.
Had another write come between, the update would raise and end the process, which
`Crash` does as well. In `_verify_resume` the reads are one step.

**ApplyBack.** `apply` and `discard` over the store, with the user's repository as a
few files each at its base, at a version of the patch, or edited. It starts where
Lifecycle leaves a task, succeeded and `patch_ready`. git checks all files first and
then writes them one by one; the process may be killed, and git may fail, between
any two. The worktree may be altered after the verification, the user may edit the
repository at any time and put it back to its base when no command is at work. The
patch changes every file it touches.

**PatchWriter.** What Lifecycle takes as one step, file by file: planning against
the worktree, the images stored with the window, the temporary files, their
replacement, the unlinking, and the `except` clause that puts files back. A file is
the set of hunks applied to it, or absent, or torn. A write may fail, may be short
(`os.write`'s answer is not read), the process may be killed between or within
writes, and another program may write into the worktree. **AtomicPatch** is the
abstract patch: the whole of it is applied in one step, or recognised, refused or
failed with the files as they were; a kill leaves each file old or new
(`Interrupt`), a rollback cut short may leave one torn (`Break`), and after a short
write or another program's write nothing is promised until the next proposal
(`Distrust`). The refinement maps the files of an attempt under way to those it
found, so that all its writing is one step. It is what entitles Lifecycle to take a
patch as one: `Apply` is its `ExecutePatch`, `Interrupt` and `Break` are
`PatchBreaksOff`, `Refuse` and `Fail` are `ExecuteFails`.

**Workspace.** What belongs to a task outside the store's transactions and is
written piece by piece: worktree, ownership record, task row, envelope snapshot, and
the list of observations, which `_append_observation` reads and writes back. `run`
creates it all and takes the worktree back if it cannot; every step may fail or be
its process's last.

**Memory.** The notebook: records, supersession, the collection of old summaries,
clearing, and the ranking and budgets by which a query is answered. What may be
written (`Drafts`) and asked (`Queries`) are constants: sets of paths, tags and
terms, a length, and the budgets. A budget of zero makes the answer empty in the
code by an early return, in the model because nothing is left to show.

## 3. What TLC checks

`life_one` takes two to three minutes, `life_two`, `patch` and `memory` one to two, every
other run less.

| Run | Question |
|---|---|
| `store_single` | all safety invariants and action properties of the store, and its refinement of OneShot, with one task |
| `life_one` | one process at a time, killed anywhere, two verify commands, commands that write while they run and after their process was killed, patches that break off: the agent loop obeys the store, what runs was permitted, success is verified, ended tasks stay ended, every run and resume ends |
| `life_two` | two processes on one task, which adopt and retry each other's windows: what runs is still what was permitted, and who waits has a question to answer |
| `apply_one` | apply and discard one at a time, killed anywhere: `patch_ready` means untouched, `applying` is recoverable, `applied` is whole, what is written is what was shown, and running apply again gets a task out of `applying` |
| `patch` | one diff written file by file, with failing and short writes, a kill and another program's write: what holds of the worktree at every instant, and the refinement of AtomicPatch |
| `workspace` | three processes that create, resume, reject, record and discard, with two faults: what the pieces of a task say of each other |
| `memory` | supersession, collection and retrieval over two repositories |

The properties, by what they relate:

- *Store*: `OneActiveWindow`; `PermitBuysOneWindow`; `ApprovalBuysOnePermit` (never a
  rejected action, although `create_permit` only looks at `consumed`);
  `BudgetConserved` (steps left plus permits minted is constant);
  `LivePendingIsAwaited`, `LivePermitIsUsable`, `LiveWindowIsConsistent` (what carries
  the present revision agrees with the task's run state, the envelope and the
  windows); `LaunchesAccounted`; `WritesAreVersioned` and `OvertakenIsDead` (the
  optimistic lock sees every write, and whatever was overtaken stays dead);
  `KeepsOneShotPromise`.
- *Lifecycle*: `ObeysStore`; `RunsWhatWasPermitted` (whichever process opens, adopts,
  retries or resumes a window, what runs in it is the action of its permit, is
  nothing governance forbids, and was approved if it leaves `write_paths`);
  `WaitingHasQuestion`; `SucceededIsVerified` (every verify command passed, and on a
  worktree no tool wrote afterwards; against the commands that really passed, not
  against what the sensors were shown); `TerminalIsFinal`; `EveryCommandEnds`.
- *ApplyBack*: `PatchReadyIsUntouched`, `ApplyingIsRecoverable`,
  `AppliedIsComplete` (no file of an applied patch was left at its base; the user may
  have written over one since), `AppliedAsRecorded`, `DiscardedIsGone`, `StepsOfStore`,
  `ApplySettles`.
- *PatchWriter*: `FilesAreOldOrNew` (at every instant the images tell old from new);
  `AppliedIsWhole` (against the sections applied one after the other, also after
  kills and a second attempt); `DeletionIsAllowed` (no file goes without
  `allow_delete`, renames included); `TempsAreAccounted`; `KeepsPatchPromise` (the
  refinement of AtomicPatch, whose `Fail` says that a failed patch left the tree as it
  found it).
- *Workspace*: `RefusedLeavesNothing` (whatever failed before), `LoopHasTask`,
  `RecordMatchesWorktree`, `GoneIsDiscarded`, `LossNeedsOverlap` (an observation is
  lost only when two processes record at once). The last three name the
  interruptions they do not survive.
- *Memory*: `SupersededByOne`, `OnlyStaleSummariesGo`, `AnswerIsBest` (the answer is
  the best first, no record left out ranks above one that was shown, one of the best
  is left out only where a budget is used up).

### Where the code and its specification part

`SPEC.md` is the repository's own specification. Five runs end in a counterexample
to a sentence of it; each shows a history the code really allows.

| Run | What happens |
|---|---|
| `observation_lost` | killed between closing a window and `_append_observation`: the observation is gone, though the specification has both written atomically |
| `postimage_failed` | killed after the patch was written: resume refuses (`_verify_resume` tolerates one revision, two were written) and writes `error`, though the postimage matches |
| `permit_wedged` | killed between minting and consuming an approved permit: no resume ever succeeds and the task waits for ever |
| `terminal_revived` | `_finish` finds the task running; a refused resume writes `error`; `_set_task_state` (`loop/engine.py:264`) reads the revision anew and writes the outcome over it |
| `mixed_hidden` | discard turns an interrupted `applying` into `discarded`; the half-written repository is never reported |

Four properties are true of one command at a time, kills included, and need a second
live process to break. They are checked with one process and proved under
`OneAtATime` (section 4):

- `TerminalIsFinal`: `terminal_revived` is its counterexample with two.
- `SucceededIsVerified`: of two resumes in `verifying`, one runs a tool after the
  other's last verify command.
- `PatchReadyIsUntouched`: a second apply takes the window of one still at work for a
  crashed one and recovers it; the first then writes the repository of a
  `patch_ready` task.
- `AppliedAsRecorded`: a second apply rewrites the shared patch file between the
  first one's preview and its `git apply`.

Behaviour the models have that no document promises otherwise, or that is plain from
the source, and so is told here and not by a run:

- A loop without budget ends the task in `error` (`loop/service.py:434`), where
  `SPEC.md:408` says `exhausted`. After a rejection, `resume` takes one step and
  leaves a `running` task no command goes on with.
- The verify commands run once each, in the order of the profiles
  (`loop/engine.py:389`). What a later one writes, an earlier one has not seen, and
  `succeeded` is written all the same; `SPEC.md:97` asks that all of them passed at
  that time. `SucceededIsVerified` therefore does not count their writes, nor those of
  the user.
- Of two sections of a diff that name one path the last silently wins
  (`tools/apply_patch.py:299`; `SPEC.md:126` and `:282` speak of one atomic patch):
  `AppliedIsWhole` is about diffs whose sections name different paths.
- A temporary file whose write fails stays in the worktree, since it enters `temps`
  only after the write (`:395`), and so do those of a killed process; the export of
  the patch takes them for new files. A short `os.write` is not noticed. A write
  that fails inside the rollback is caught by nobody, and a kill inside it leaves a
  truncated file: `seen.undone`, `seen.whole` and `seen.spoiled` mark these states,
  and the properties of PatchWriter hold in all others.
- The task row is committed before its envelope snapshot: if the snapshot fails, the
  worktree is given back and the row stays `running` with nothing behind it. A kill
  between `git worktree add` and `create_task` leaves a worktree no command knows; an
  ownership record cut short stays.
- A discard whose revision is stale removes the worktree and never marks the task;
  every later discard is refused, because there is nothing left to verify.
- Two processes that record at once lose an observation (`loop/service.py:379`).
- The loop neither reads nor writes the notebook, though chapter 4.4 of `SPEC.md`
  describes both: Memory stands by itself.

### Bounds

`MaxRevision` bounds the revision (every write moves it); in `life_one` (18) and
`life_two` (20) it is out of reach of `MaxSteps` and `Cap`, so it cuts nothing off. In
`store_single` six revisions allow ask, approve, permit, window, close and one more
write, or two windows one after the other, so two of every row can interact; two permits
with a budget of two reach the empty budget; two claims and two windows allow a
contested recovery. It has one envelope, so the envelope's part of
`LiveWindowIsConsistent` is not tried there: the theorem `WindowIsConsistent` shows it
for any number. In `life_one` three steps, permits and windows are an approved patch and
the two verify commands after it, or any three actions; it proposes a patch that needs
approval, one that touches a `.env` file, a command and a profile nobody confirmed. In
`life_two` two steps are two actions and the verify plan is empty, which the code
accepts: two processes that verify are in `terminal_revived`, and the two theorems
behind this run hold for every plan. It proposes patches with and without approval, a
command, a read and a profile whose argv is forbidden, so that a process may find
another one's started patch at its preimage with a different patch in hand. `PendingIds`
bounds how often the model asks for approval, once in both. In `apply_one` two windows
are two applies or an apply and its repetition; two files are the least that can be
half-written; a window costs two revisions and a discard one, so seven are never
exhausted. In `patch` one diff of up to two sections over two paths has every pair of
creation, deletion, rename and change; one kill is followed by a second attempt. In
`workspace` three processes are a run and two that race with it, two faults a failure
and a failing clean-up, or a kill and what a second one makes of it. In `memory` three
records over two repositories give a decision with two would-be successors, one summary
kept with two written, and a budget that runs out between two records. Identifiers,
processes and files are symmetric sets in the runs of safety properties alone; runs with
a liveness property use no symmetry, nor does `memory` for `Ids`, which are ordered.

`CHECK_DEADLOCK` is off because the system may really stop: an ended task offers no
further command in the lifecycle model, a store at its revision bound none, and a
patch that was closed nothing more to write.

### Fairness

`LifecycleFairSpec`: weak fairness of each process's own steps (`Proceed`). A process
is an ordinary command that is always scheduled; commands have `timeout_seconds`,
calls of the model the default timeout of `httpx.Client`. What a command writes while
it runs is no part of `Proceed` and keeps nothing from ending. No fairness is assumed
for the user, for crashes or for what a killed process left running. `PatientSpec`
(only for `permit_wedged`) and `ApplyBackFairSpec` add a user who resumes (applies)
again and again, and a day after which nothing is killed: without such a user a
waiting task may simply be left alone. Strong fairness is needed there because a new
command can only be typed while a slot is free.

## 4. What is proved

For every set of tasks, rows, processes, files, envelopes and fingerprints, every
budget and every revision bound.

| Theorem | Module | Statement |
|---|---|---|
| `TypeCorrect` | GuardedStoreProofs | `Spec => []TypeOK` |
| `EveryWriteIsVersioned` | GuardedStoreProofs | `Spec => WritesAreVersioned` |
| `PendingIsAwaited` | StoreSafetyProofs | `Spec => []LivePendingIsAwaited` |
| `OnePermitPerApproval` | StoreSafetyProofs | `Spec => []ApprovalBuysOnePermit` |
| `OvertakenStaysDead` | StoreSafetyProofs | `Spec => OvertakenIsDead` |
| `WindowsAreExclusive` | StoreSafetyProofs | `Spec => []OneActiveWindow` |
| `OneWindowPerPermit` | StoreSafetyProofs | `Spec => []PermitBuysOneWindow` |
| `PermitIsUsable` | StoreSafetyProofs | `Spec => []LivePermitIsUsable` |
| `WindowIsConsistent` | StoreSafetyProofs | `Spec => []LiveWindowIsConsistent` |
| `StepsBuyPermits` | StoreSafetyProofs | `Spec => []BudgetConserved` |
| `LaunchesAreAccounted` | StoreSafetyProofs | `Spec => []LaunchesAccounted` |
| `StoreKeepsPromise` | OneShotProofs | `Spec => KeepsOneShotPromise` |
| `ProcessesObeyStore` | LifecycleProofs | `LifecycleSpec => ObeysStore` |
| `WhatRunsWasPermitted` | LifecycleProofs | `LifecycleSpec => []RunsWhatWasPermitted` |
| `WhoWaitsHasAQuestion` | LifecycleProofs | `LifecycleSpec => []WaitingHasQuestion` |
| `PatchesRunTwiceAtMost` | LifecycleProofs | `LifecycleSpec => []RetriedAtMostOnce` (no run) |
| `EndedStaysEnded` | LifecycleProofs | `OneAtATime` gives `LifecycleSpec => TerminalIsFinal` |
| `SuccessIsVerified` | LifecycleProofs | `OneAtATime` gives `LifecycleSpec => SucceededIsVerified` |
| `ApplyObeysStore` | ApplyBackProofs | `ApplyBackSpec => StepsOfStore` |
| `ApplyingStaysRecoverable` | ApplyBackProofs | `ApplyBackSpec => []ApplyingIsRecoverable` |
| `DiscardedStaysGone` | ApplyBackProofs | `ApplyBackSpec => []DiscardedIsGone` |
| `HalfIsNeverApplied` | ApplyBackProofs | `ApplyBackSpec => AppliedIsComplete` |
| `PatchReadyStaysUntouched` | ApplyBackProofs | `OneAtATime` gives `ApplyBackSpec => []PatchReadyIsUntouched` |
| `WhatIsAppliedWasRecorded` | ApplyBackProofs | `OneAtATime` gives `ApplyBackSpec => []AppliedAsRecorded` |
| `PatchTypeCorrect` | PatchWriterProofs | `PatchSpec => []TypeOK` |
| `FailureLeavesNothing` | PatchWriterProofs | `PatchSpec => []FailedIsUntouched` |
| `FilesStayOldOrNew` | PatchWriterProofs | `PatchSpec => []FilesAreOldOrNew` |
| `TempsStayAccounted` | PatchWriterProofs | `PatchSpec => []TempsAreAccounted` |
| `NothingGoesUnasked` | PatchWriterProofs | `PatchSpec => []DeletionIsAllowed` |
| `AppliedStaysWhole` | PatchWriterProofs | `PatchSpec => []AppliedIsWhole` |
| `PatchIsAtomic` | PatchWriterProofs | `PatchSpec => KeepsPatchPromise` |
| `RefusalLeavesNothing` | WorkspaceProofs | `WorkSpec => []RefusedLeavesNothing` |
| `RecordAndWorktreeAgree` | WorkspaceProofs | `WorkSpec => []RecordMatchesWorktree` |
| `WorkIsPrepared` | WorkspaceProofs | `WorkSpec => []LoopHasTask` |
| `OnlyOverlapsLose` | WorkspaceProofs | `WorkSpec => []LossNeedsOverlap` |
| `GoneSaysDiscarded` | WorkspaceProofs | `WorkSpec => []GoneIsDiscarded` |
| `OneSuccessor` | MemoryProofs | `MemorySpec => []SupersededByOne` |
| `OnlyStaleGo` | MemoryProofs | `MemorySpec => OnlyStaleSummariesGo` |
| `AnswersAreBest` | MemoryProofs | `MemorySpec => []AnswerIsBest` |

The assumptions. `StoreAssumption`: `None` is no identifier, kind, status or answer;
the bounds are natural numbers; the written states are run states; `PermitIds` and
`ClaimIds` are finite (the budget counts permits, the launches count claims).
`LifecycleAssumption`: the task is one of the tasks; every fingerprint stands for a
well-formed action; the profiles' sensors and commands have one domain; each verify
profile is run by some fingerprint; the states the loop writes are among
`WrittenStates`; a revision is left for the first write. `ApplyBackAssumption`,
`WorkspaceAssumption` and `MemoryAssumption` are of the same kind. `PatchAssumption`:
an absent file and a torn one are not texts and `Absent` is not a path; a diff has
room for one section. `DraftAssumption` and `QueryAssumption`: a record says something
(`add` refuses an empty content), its paths, tags and terms are finite, and a query
asks about a repository with budgets that are natural numbers. `OneAtATime` says that
`Procs` has one member; kills and later commands remain.

*The store.* `GuardedStoreProofs` says once what any transaction can do to a task, a
pending action, a permit and a window (`TaskStep`, `PendingStep`, `PermitsStep`,
`WindowStep`); the safety proofs then have a case per kind of row step and not one
per action. None of the properties about live rows is inductive alone: that a fresh
revision makes old rows dead needs `Bounds` - nothing is bound to a revision its
task has not reached, and a pending action is consumed exactly when it was answered.
With it the approval properties are inductive together (`ApprovalInvariant`):
`create_permit` asks only for a consumed row, but at the present revision a
consumed row cannot be a rejected one, since a reject moves the revision. The
window properties (`WindowInvariant`) need in addition that a tool's window names
a permit and that only a tool's window executes; then "its permit is consumed" and
"no other window has it" follow from the permit being unconsumed when the window
was opened. `BudgetConserved` is inductive with the types alone. Claims and launches
have an invariant of their own (`LaunchInvariant`): `ClaimsOnPatches` - a claim names
a patch window of its own task - makes `OneClaimPerAttempt` (one claim for a window and
a revision) inductive, because the unique index compares task, window and revision and
the window fixes the task; `LaunchesCounted` - a window was let through once if it was
started, plus once per consumed claim - gives `LaunchesAccounted`. The store alone
allows a claim at every revision, and so any number of second starts.

*The refinement.* Each transaction maps to one step of OneShot, or none: asking and
answering to `Ask` and `Answer`, `create_permit` to `Reserve`,
`consume_permit_and_open_window` to `Open`, a start to `Launch`, whatever closes a
window to `Close`. The guards of OneShot are stronger than those of the code; they
follow from the two invariants above: `Reserve`'s "approved" is
`ApprovalInvariant`, `Open`'s "no other attempt under way" is `WindowInvariant`.

*The processes.* `LifecycleInvariant` is `WindowInvariant` and: each process holds
where it stands what it needs there (`ProcsOK`: an action in hand has passed
governance, with the user's question behind it if it asks for one); the permit it
holds is for the action in its hand (`AllBacked`); every question and every permit in
the tables is for an action governance does not forbid (`PendingsCleared`,
`PermitsCleared`); what ran in a window was the action of its permit
(`RanAsPermitted`); `WaitingHasQuestion`. `EvaluateIsSound` is what ties the rules to
it: what `Evaluate` allows is not forbidden and stays inside `write_paths`. Adopted
windows are the point of `AllBacked`: `_resumable` compares fingerprints, and a retry
of a started patch compares kinds only until `_retry_started_patch` looks at the
permit. `ProcessesObeyStore` needs the invariant too, because the store's `Next`
bounds what a client may name.

*Second starts.* `PatchesRunTwiceAtMost` is what the loop adds to that. A process that
claims does so at the revision `recover` found the window's preimage at
(`Recovering`, for every process `AllRecovering`), and there `recover` asked for the
revision the window was opened at. So all claims of a window are of that one revision
(`ClaimedAsOpened`), by `OneClaimPerAttempt` there is one, and by `LaunchesCounted` the
patch is let through twice at most. Nothing is assumed of what puts the preimage back.
No run checks this one: it takes a process that opens the window and two that retry it,
and three processes are more than TLC gets through.

*One command at a time.* `EndedStaysEnded` rests on `AtWork`: a process that is at
work does so on a task that has not ended. A second process falsifies exactly this.
`SuccessIsVerified` adds `Proven` (for every process `AllProven`): while a verification
passes, as many commands passed on a worktree no tool wrote afterwards as have been
run, the one running has seen nothing else written since it started, and what is about
to run is a verify command and no patch. A command that outlived its process could
break this; `Orphaned` says why it does not: the window of such a command stays open
and started (`Unended`), `_verify_resume` lets no resume past it, and so nothing is
verified any more. `PassIsClean` says of both sensors that a pass
means a clean report.

*Apply and discard.* `ApplyInvariant`: in `applying` the task has an applying window
of the present revision, the one `recover_apply` asks for (`ApplyingIsRecoverable`);
every window carries the postimage of some version of the patch (`Imaged`); what git
has written is no longer at its base (`Writing`); what is removed is removed in order
(`Removing`), and `discarded` means gone. `HalfIsNeverApplied` then follows from
`recover_apply`'s comparison, for any number of processes. The two theorems under
`OneAtATime` need besides that git is at work only on a task in `applying`, and on
the patch file its own process exported (`Alone`).

*The patch writer.* `PatchInvariant` says what is known of the worktree at each point
of the code. `Proposed`: the two images in the artifact are those of the diff on the
tree it was proposed on, and cover the files it names. `Planning`: a plan in hand is the
plan of the diff on the preimage. That is where the comparison of `Check` is needed: a
plan depends on nothing but the files the diff names (`PlannedLooksAtItsFiles`), so on a
tree that agrees with the preimage there, planning again gives the same plan.
`Temporaries`: which temporary files may be beside which paths. `Progress`: at each phase
which files are still old, which are new already, and which the rollback has put back.
`Reported`: what was said at the end. `AppliedIsWhole` compares the plan, in which every
section reads the tree as it was, with the sections applied one after the other:
`OneByOneIsAtOnce`, by induction over the sections.

*The patch as one step.* `PatchIsAtomic` maps the writer to AtomicPatch. Checking,
preparing, replacing, unlinking and putting back stutter: there the files are hidden
behind "being written". `Succeed` is `Apply`, `Check` on the postimage `Recognise`,
a refusal `Refuse`, a finished rollback `Fail`; a kill is `Interrupt`, or `Break` when
it comes in the rollback; a rollback that fails is `Break`, and a write from outside or
a short one `Distrust`. The proof found `Break` after a failed rollback in the
code and nowhere in Lifecycle, whose `PatchBreaksOff` now has it.

*The pieces of a task.* The store commits a row, an envelope and a list at a time, and
git and a file hold the rest, so `WorkInvariant` has a part for each gap. `OneEach`: one
process creates, one at most removes, since the worktree is added once. `BeforeRow`:
without a row no other command does anything. `Places`: what exists when a process
stands between two pieces. `Prepared`: who works has found the snapshot, and nobody works
before it is there. `Refused`: after a refusal the creating process is gone. `Observed`:
unless two overlapped, one process at most is about to save, and the list in its hand is
the list in the table; this is why `LossNeedsOverlap` holds. `RecordMatchesWorktree` and
`GoneIsDiscarded` are inductive with these.

*The notebook.* `SupersededByOne` is not inductive: a record must not name one that
is absent (`NamedArePresent`), or whoever takes the free identifier would be born
superseded. Collecting removes summaries, which replace nothing, and clearing removes
a decision together with whatever replaced it, since both are of one repository.
`OnlyStaleSummariesGo` and `AnswerIsBest` are about what the code computes by sorting.
Both rest on `Ranks`: under a strict order on a finite set there is a first one, a
second, and so on, as many as there are members. For the collection, what is beyond
the limit has that many younger ones before it (`AsManyBefore`). For an answer, the
recursive function that spends the budget is unfolded (`Recursion`, `Spending`), and
`Budget` shows by induction over the places that a record is left out only for one
before it, or because nothing was left to say it with.

*Induction.* Induction over data in its general form is out of the prover's reach
(the library's theorems take an operator). Where a number is all that is needed, the
proofs take the least number that fails: `LeastNumber` follows from `WFMin` and
`NatLessThanWellFounded`, which speak of sets.

Only checked by TLC: liveness (`EveryCommandEnds`, `ApplySettles`), since the prover
does not handle fairness; and the runs that expect a violation, which are
counterexamples and nothing to prove.

## 5. What is not modelled

- Contents: lines of a diff, bytes of a file, output of commands and of the model,
  JSON, hashes, digests. An action is its tool, paths and profile; a file of a patch
  the set of its hunks; a report its totals as zero or not.
- The resolution of a path and the splitting of a command line: a path is inside the
  worktree or not, sensitive or not, readable, writable; a command line is the set of
  its normalised tokens. Symbolic links and size limits of a diff.
- The audit log (appended, never read back by another part), the assembly of the
  prompt and its ports, HTTP, the keyring, argument parsing.
- Loading and merging of configuration: an envelope is given. Its parsing and
  validation happen before a task exists.
- Migrations of old databases, which run in `connect`, once.
- Collisions of the uuid4 identifiers of tasks, rows and records.
- A second task in Lifecycle, ApplyBack and Workspace: tasks share no rows, and the
  theorems about the store hold for any set of tasks.
- Apply concurrent with the agent loop: the first needs `succeeded`, from which the
  loop makes no step, except through the late writes `terminal_revived` shows.
- In `SucceededIsVerified`, what the user or another program writes into the worktree
  while a verification is at work; what tools write is counted. In PatchWriter and
  ApplyBack such writes are modelled and counted.
- In Workspace, what a command does to the store: there it is a write of the row.

## 6. Plan

Done: the store, its promise and the refinement; the life cycle with governance and
sensors; apply and discard; the patch writer and its refinement of a patch in one step;
the pieces of a task outside the store; the notebook. Every safety property that a
passing run checks is a theorem.

What would come next: that the steps `ExecutePatch` and `PatchBreaksOff` of Lifecycle
are those of AtomicPatch on its `image`, as a second refinement; that ApplyBack
implements an apply in one step the way PatchWriter does a patch; and the migrations of
`persist/db.py` against a process that still uses the old table.
