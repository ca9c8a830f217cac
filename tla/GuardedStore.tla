----------------------------- MODULE GuardedStore -----------------------------
(***************************************************************************)
(* The durable store of guardedcoder (src/guardedcoder/persist, and the    *)
(* store transactions of tools/executor.py, loop/engine.py and             *)
(* workspace/apply_back.py).                                               *)
(*                                                                         *)
(* Every operation of the code runs in one BEGIN IMMEDIATE transaction, so *)
(* every action here is one committed transaction; an operation that       *)
(* raises rolls back and is no step at all.  The clients are arbitrary: an *)
(* operation may be called at any time with any identifier and with any,   *)
(* possibly stale, expected_revision.  What holds here holds for every     *)
(* interleaving of command-line processes, and after any crash.            *)
(***************************************************************************)
EXTENDS Naturals, FiniteSets

CONSTANTS
  Tasks,          (* task_id values                                        *)
  Fingerprints,   (* action fingerprints (task, envelope, action)          *)
  Envelopes,      (* envelope_hash values                                  *)
  PendingIds, PermitIds, WindowIds, ClaimIds,     (* uuid4 row identifiers *)
  None,           (* SQL NULL, and the task of a row not inserted          *)
  MaxSteps,       (* max_steps of the envelope: the initial budget         *)
  MaxRevision,    (* bound: no transaction bumps a revision beyond it      *)
  WrittenStates   (* the run_state values callers write directly           *)

RunStates == {"running", "awaiting_approval", "awaiting_envelope_revision",
              "executing_action", "verifying", "succeeded", "failed",
              "blocked", "unverified", "exhausted", "error"}

Terminal == {"succeeded", "failed", "blocked", "unverified", "exhausted", "error"}

ArtifactStates == {"worktree_present", "patch_ready", "applying", "applied",
                   "discarded", "cleanup_error"}

ToolKinds == {"apply_patch", "run_command", "read"}   \* read: list, read, search

WindowStatuses == {"executing_action", "applying", "succeeded", "error",
                   "applied", "needs_reconfirm", "cleanup_error"}

Answers == {"approved", "rejected"}

ASSUME StoreAssumption ==
  /\ None \notin Tasks \cup PendingIds \cup PermitIds \cup WindowIds
  /\ None \notin ToolKinds \cup {"apply_back"} \cup WindowStatuses \cup Answers
  /\ MaxSteps \in Nat
  /\ MaxRevision \in Nat
  /\ WrittenStates \subseteq RunStates
  /\ IsFiniteSet(PermitIds) /\ IsFiniteSet(ClaimIds)

VARIABLES
  tasks,      (* table tasks                                               *)
  pendings,   (* table pending_actions                                     *)
  permits,    (* table permits                                             *)
  windows,    (* table execution_windows                                   *)
  claims,     (* table recovered_attempt_claims                            *)
  verdicts,   (* history: how the user answered each pending action        *)
  launches    (* history: how often a tool was let through in each window  *)

vars == <<tasks, pendings, permits, windows, claims, verdicts, launches>>

NoPending == [task |-> None, fingerprint |-> None, state_revision |-> 0,
              consumed |-> FALSE]
NoPermit  == [task |-> None, fingerprint |-> None, envelope_hash |-> None,
              state_revision |-> 0, consumed |-> FALSE, pending |-> None]
NoWindow  == [task |-> None, permit |-> None, kind |-> None, status |-> None,
              opened_revision |-> 0, source_run_state |-> None, started |-> FALSE]
NoClaim   == [task |-> None, window |-> None, state_revision |-> 0,
              consumed |-> FALSE]

TaskRows    == [run_state : RunStates, artifact_state : ArtifactStates,
                envelope_hash : Envelopes, state_revision : Nat,
                remaining_steps : Nat]
PendingRows == [task : Tasks, fingerprint : Fingerprints, state_revision : Nat,
                consumed : BOOLEAN]
PermitRows  == [task : Tasks, fingerprint : Fingerprints,
                envelope_hash : Envelopes, state_revision : Nat,
                consumed : BOOLEAN, pending : PendingIds \cup {None}]
WindowRows  == [task : Tasks, permit : PermitIds \cup {None},
                kind : ToolKinds \cup {"apply_back"},
                status : WindowStatuses, opened_revision : Nat,
                source_run_state : RunStates, started : BOOLEAN]
ClaimRows   == [task : Tasks, window : WindowIds, state_revision : Nat,
                consumed : BOOLEAN]

EmptyTables ==
  /\ pendings = [q \in PendingIds |-> NoPending]
  /\ permits  = [p \in PermitIds  |-> NoPermit]
  /\ windows  = [w \in WindowIds  |-> NoWindow]
  /\ claims   = [c \in ClaimIds   |-> NoClaim]
  /\ verdicts = [q \in PendingIds |-> None]
  /\ launches = [w \in WindowIds  |-> 0]

(* A task row as create_task inserts it.                                   *)
Init ==
  /\ tasks \in [Tasks ->
                 {[run_state |-> "running", artifact_state |-> "worktree_present",
                   envelope_hash |-> e, state_revision |-> 1,
                   remaining_steps |-> MaxSteps] : e \in Envelopes}]
  /\ EmptyTables

-----------------------------------------------------------------------------
(* Guards shared by the operations.                                        *)

(* The optimistic lock: UPDATE ... WHERE state_revision = expected.        *)
AtRevision(t, expected) ==
  /\ tasks[t].state_revision = expected
  /\ expected < MaxRevision

IsActive(w, t) ==
  windows[w].task = t /\ windows[w].status \in {"executing_action", "applying"}

Bug_IgnoresExecuting(t) ==
  \A w \in WindowIds : ~(windows[w].task = t /\ windows[w].status = "applying")

NoActiveWindow(t) == \A w \in WindowIds : ~IsActive(w, t)

(* The partial unique indexes: at most one unconsumed row per task.        *)
NoOpenPending(t) ==
  \A q \in PendingIds : ~(pendings[q].task = t /\ ~pendings[q].consumed)
NoOpenPermit(t) ==
  \A p \in PermitIds : ~(permits[p].task = t /\ ~permits[p].consumed)

(* idx_permit_pending: a pending action backs at most one permit, ever.    *)
PendingUnspent(q) == \A p \in PermitIds : permits[p].pending # q

(* The row a task gets: a new state, the next revision.                    *)
Bug_MovedInPlace(t, run_state) == [tasks EXCEPT ![t].run_state = run_state]

Moved(t, run_state) ==
  [tasks EXCEPT ![t].run_state = run_state,
                ![t].state_revision = @ + 1]

-----------------------------------------------------------------------------
(* persist/approval.py                                                     *)

Bug_BindsOldRevision(t, fp, revision, q) ==
  /\ NoOpenPending(t)
  /\ pendings[q].task = None
  /\ pendings' = [pendings EXCEPT ![q] =
       [task |-> t, fingerprint |-> fp, state_revision |-> revision - 1,
        consumed |-> FALSE]]

OpenPending(t, fp, revision, q) ==
  /\ NoOpenPending(t)
  /\ pendings[q].task = None
  /\ pendings' = [pendings EXCEPT ![q] =
       [task |-> t, fingerprint |-> fp, state_revision |-> revision,
        consumed |-> FALSE]]

RequestApproval(t, fp, expected, q) ==
  /\ AtRevision(t, expected)
  /\ tasks[t].run_state = "running"
  /\ OpenPending(t, fp, expected + 1, q)
  /\ tasks' = Moved(t, "awaiting_approval")
  /\ UNCHANGED <<permits, windows, claims, verdicts, launches>>

(* The second way in: a pending action for a task already waiting.         *)
InsertPending(t, fp, revision, q) ==
  /\ tasks[t].run_state = "awaiting_approval"
  /\ tasks[t].state_revision = revision
  /\ OpenPending(t, fp, revision, q)
  /\ UNCHANGED <<tasks, permits, windows, claims, verdicts, launches>>

(* The pending row of t that an answer for fp may consume.                 *)
Answerable(t, fp, q) ==
  /\ pendings[q].task = t
  /\ ~pendings[q].consumed
  /\ pendings[q].fingerprint = fp
  /\ pendings[q].state_revision = tasks[t].state_revision

Answer(q, verdict) ==
  /\ pendings' = [pendings EXCEPT ![q].consumed = TRUE]
  /\ verdicts' = [verdicts EXCEPT ![q] = verdict]
  /\ UNCHANGED <<permits, windows, claims, launches>>

Approve(t, fp, q) ==
  /\ Answerable(t, fp, q)
  /\ Answer(q, "approved")
  /\ UNCHANGED tasks

Reject(t, fp, q) ==
  /\ Answerable(t, fp, q)
  /\ tasks[t].run_state = "awaiting_approval"
  /\ AtRevision(t, pendings[q].state_revision)
  /\ Answer(q, "rejected")
  /\ tasks' = Moved(t, "running")

-----------------------------------------------------------------------------
(* persist/permit.py                                                       *)

(* The pending action named in create_permit is a consumed approval of     *)
(* this task, this fingerprint and this very revision.                     *)
Bug_BacksAnyRevision(t, fp, expected, q) ==
  pendings[q].task = t /\ pendings[q].consumed /\ pendings[q].fingerprint = fp

Bug_BacksAnyAction(t, fp, expected, q) ==
  pendings[q].task = t /\ pendings[q].consumed /\ pendings[q].state_revision = expected

PendingBacks(t, fp, expected, q) ==
  /\ pendings[q].task = t
  /\ pendings[q].consumed
  /\ pendings[q].fingerprint = fp
  /\ pendings[q].state_revision = expected

Bug_PermitBesideWindow(t) ==
  /\ tasks[t].run_state \in {"running", "verifying", "awaiting_approval"}
  /\ tasks[t].remaining_steps > 0

MayPermit(t) ==
  /\ tasks[t].run_state \in {"running", "verifying", "awaiting_approval"}
  /\ NoActiveWindow(t)
  /\ tasks[t].remaining_steps > 0

(* The budget is reserved in the transaction that mints the permit.        *)
Bug_FreePermit(t) == [tasks EXCEPT ![t].state_revision = @ + 1]

Debited(t) ==
  [tasks EXCEPT ![t].remaining_steps = @ - 1, ![t].state_revision = @ + 1]

CreatePermit(t, fp, env, expected, q, p) ==
  /\ AtRevision(t, expected)
  /\ tasks[t].envelope_hash = env
  /\ MayPermit(t)
  /\ tasks[t].run_state = "awaiting_approval" => q # None
  /\ q # None => PendingBacks(t, fp, expected, q) /\ PendingUnspent(q)
  /\ NoOpenPermit(t)
  /\ permits[p].task = None
  /\ tasks' = Debited(t)
  /\ permits' = [permits EXCEPT ![p] =
       [task |-> t, fingerprint |-> fp, envelope_hash |-> env,
        state_revision |-> expected + 1, consumed |-> FALSE, pending |-> q]]
  /\ UNCHANGED <<pendings, windows, claims, verdicts, launches>>

(* The permit still describes the task: nothing was written since.         *)
Bug_FitsAnyRevision(t, p, expected) ==
  /\ permits[p].task = t
  /\ ~permits[p].consumed
  /\ permits[p].envelope_hash = tasks[t].envelope_hash

PermitFits(t, p, expected) ==
  /\ permits[p].task = t
  /\ ~permits[p].consumed
  /\ permits[p].envelope_hash = tasks[t].envelope_hash
  /\ permits[p].state_revision = expected

Window(t, p, kind, status, revision, source) ==
  [task |-> t, permit |-> p, kind |-> kind, status |-> status,
   opened_revision |-> revision, source_run_state |-> source, started |-> FALSE]

(* A verification command keeps its task in verifying.                     *)
Bug_LeavesVerifying(run_state) == "executing_action"

WindowState(run_state) ==
  IF run_state = "verifying" THEN "verifying" ELSE "executing_action"

ConsumePermit(t, p, expected, kind, w) ==
  /\ AtRevision(t, expected)
  /\ PermitFits(t, p, expected)
  /\ NoActiveWindow(t)
  /\ windows[w].task = None
  /\ permits' = [permits EXCEPT ![p].consumed = TRUE]
  /\ tasks' = Moved(t, WindowState(tasks[t].run_state))
  /\ windows' = [windows EXCEPT ![w] =
       Window(t, p, kind, "executing_action", expected + 1, tasks[t].run_state)]
  /\ UNCHANGED <<pendings, claims, verdicts, launches>>

-----------------------------------------------------------------------------
(* tools/executor.py: the transaction that lets a tool through.            *)

Authorized(t, p, w, kind) ==
  /\ permits[p].task = t
  /\ permits[p].consumed
  /\ windows[w].task = t
  /\ windows[w].permit = p
  /\ windows[w].status = "executing_action"
  /\ windows[w].kind = kind

Bug_AlwaysFresh(w) == TRUE

NotStarted(w) == ~windows[w].started

Launch(w) ==
  /\ windows'  = [windows EXCEPT ![w].started = TRUE]
  /\ launches' = [launches EXCEPT ![w] = @ + 1]

(* run_command, or the first attempt of apply_patch.  Reads change no row, *)
(* and a patch that fails rolls the flag back: neither is a step.          *)
StartTool(t, p, w, kind) ==
  /\ kind \in {"run_command", "apply_patch"}
  /\ Authorized(t, p, w, kind)
  /\ NotStarted(w)
  /\ Launch(w)
  /\ UNCHANGED <<tasks, pendings, permits, claims, verdicts>>

ClaimFits(t, w, c) ==
  /\ claims[c].task = t
  /\ claims[c].window = w
  /\ ~claims[c].consumed
  /\ claims[c].state_revision = tasks[t].state_revision

(* A recovered apply_patch: let through again, once per claim.             *)
RestartPatch(t, p, w, c) ==
  /\ Authorized(t, p, w, "apply_patch")
  /\ windows[w].started
  /\ ClaimFits(t, w, c)
  /\ claims' = [claims EXCEPT ![c].consumed = TRUE]
  /\ Launch(w)
  /\ UNCHANGED <<tasks, pendings, permits, verdicts>>

(* persist/claim.py, with idx_recovered_claim_exclusive.                   *)
ClaimFree(t, w, expected) ==
  \A c \in ClaimIds : ~(claims[c].task = t /\ claims[c].window = w
                        /\ claims[c].state_revision = expected)

ClaimRecoveredAttempt(t, w, expected, c) ==
  /\ tasks[t].state_revision = expected
  /\ windows[w].task = t
  /\ windows[w].status = "executing_action"
  /\ windows[w].started
  /\ windows[w].kind = "apply_patch"
  /\ ClaimFree(t, w, expected)
  /\ claims[c].task = None
  /\ claims' = [claims EXCEPT ![c] =
       [task |-> t, window |-> w, state_revision |-> expected, consumed |-> FALSE]]
  /\ UNCHANGED <<tasks, pendings, permits, windows, verdicts, launches>>

-----------------------------------------------------------------------------
(* persist/recover.py                                                      *)

LivePair(source, run_state) ==
  <<source, run_state>> \in {<<"running", "executing_action">>,
                             <<"verifying", "verifying">>,
                             <<"awaiting_approval", "executing_action">>}

(* The window is the last thing written to the task, and its states agree. *)
Consistent(t, w) ==
  /\ windows[w].opened_revision = tasks[t].state_revision
  /\ tasks[t].run_state \notin Terminal
  /\ LivePair(windows[w].source_run_state, tasks[t].run_state)

CloseWindow(t, w, status, run_state) ==
  /\ tasks' = Moved(t, run_state)
  /\ windows' = [windows EXCEPT ![w].status = status]
  /\ UNCHANGED <<pendings, permits, claims, verdicts, launches>>

(* seen: how the worktree compares with the window's two images.  A        *)
(* consistent patch window that sees its preimage is left as it is         *)
(* (retryable_same_attempt) and so is no step.                             *)
RecoverState(t, w, seen) ==
  IF windows[w].kind # "apply_patch" \/ ~Consistent(t, w) THEN "error"
  ELSE IF seen = "post"
       THEN IF windows[w].source_run_state = "verifying" THEN "verifying"
                                                         ELSE "running"
       ELSE IF seen = "pre" THEN None ELSE "error"

Recover(t, expected, seen, w) ==
  /\ windows[w].task = t
  /\ windows[w].status = "executing_action"
  /\ AtRevision(t, expected)
  /\ RecoverState(t, w, seen) # None
  /\ CloseWindow(t, w,
       IF RecoverState(t, w, seen) = "error" THEN "error" ELSE "succeeded",
       RecoverState(t, w, seen))

-----------------------------------------------------------------------------
(* loop/engine.py: both read the row again and overwrite whatever they     *)
(* find in it; neither looks at the window's or the task's present state.  *)

CompleteWindow(t, w, expected, run_state) ==
  /\ AtRevision(t, expected)
  /\ windows[w].task = t
  /\ windows[w].kind # "apply_back"
  /\ CloseWindow(t, w, "succeeded", run_state)

FailCloseWindow(t, w, expected, run_state) ==
  /\ AtRevision(t, expected)
  /\ windows[w].task = t
  /\ windows[w].kind # "apply_back"
  /\ CloseWindow(t, w, "error", run_state)

(* persist/store.py: update_task with the fields its callers pass.         *)
UpdateTask(t, expected, run_state, artifact_state, env) ==
  /\ AtRevision(t, expected)
  /\ run_state = "awaiting_approval" => tasks[t].run_state = "awaiting_approval"
  /\ tasks' = [tasks EXCEPT ![t].run_state = run_state,
                            ![t].artifact_state = artifact_state,
                            ![t].envelope_hash = env,
                            ![t].state_revision = @ + 1]
  /\ UNCHANGED <<pendings, permits, windows, claims, verdicts, launches>>

-----------------------------------------------------------------------------
(* workspace/apply_back.py: the store side of applying to the origin.      *)

Bug_ApplyInPlace(t, artifact_state) == [tasks EXCEPT ![t].artifact_state = artifact_state]

Apply(t, artifact_state) ==
  [tasks EXCEPT ![t].artifact_state = artifact_state, ![t].state_revision = @ + 1]

EnterApplying(t, expected, w) ==
  /\ AtRevision(t, expected)
  /\ tasks[t].run_state = "succeeded"
  /\ tasks[t].artifact_state = "patch_ready"
  /\ NoActiveWindow(t)
  /\ windows[w].task = None
  /\ windows' = [windows EXCEPT ![w] =
       Window(t, None, "apply_back", "applying", expected + 1, "succeeded")]
  /\ tasks' = Apply(t, "applying")
  /\ UNCHANGED <<pendings, permits, claims, verdicts, launches>>

(* The artifact state recover_apply derives from what the origin holds.    *)
Bug_OutcomeSwapped(seen) ==
  CASE seen = "post" -> [artifact |-> "applied", status |-> "applied"]
    [] seen = "pre"  -> [artifact |-> "needs_reconfirm", status |-> "needs_reconfirm"]
    [] OTHER         -> [artifact |-> "cleanup_error", status |-> "cleanup_error"]

ApplyOutcome(seen) ==
  CASE seen = "post" -> [artifact |-> "applied", status |-> "applied"]
    [] seen = "pre"  -> [artifact |-> "patch_ready", status |-> "needs_reconfirm"]
    [] OTHER         -> [artifact |-> "cleanup_error", status |-> "cleanup_error"]

Bug_ClosesWindowOnly(t, expected, w, outcome) ==
  /\ AtRevision(t, expected)
  /\ windows[w].task = t
  /\ windows[w].status = "applying"
  /\ windows' = [windows EXCEPT ![w].status = outcome.status]
  /\ tasks' = [tasks EXCEPT ![t].state_revision = @ + 1]
  /\ UNCHANGED <<pendings, permits, claims, verdicts, launches>>

LeaveApplying(t, expected, w, outcome) ==
  /\ AtRevision(t, expected)
  /\ tasks[t].run_state = "succeeded"
  /\ tasks[t].artifact_state = "applying"
  /\ windows[w].task = t
  /\ windows[w].status = "applying"
  /\ windows' = [windows EXCEPT ![w].status = outcome.status]
  /\ tasks' = Apply(t, outcome.artifact)
  /\ UNCHANGED <<pendings, permits, claims, verdicts, launches>>

RecoverApply(t, expected, seen, w) == LeaveApplying(t, expected, w, ApplyOutcome(seen))

FinishApplied(t, expected) ==
  /\ AtRevision(t, expected)
  /\ tasks[t].run_state = "succeeded"
  /\ tasks[t].artifact_state = "applying"
  /\ windows' = [w \in WindowIds |->
       IF windows[w].task = t /\ windows[w].status = "applying"
         THEN [windows[w] EXCEPT !.status = "applied"] ELSE windows[w]]
  /\ tasks' = Apply(t, "applied")
  /\ UNCHANGED <<pendings, permits, claims, verdicts, launches>>

-----------------------------------------------------------------------------
(* Any client, any identifier, any expected revision.                      *)

Revisions == 1..MaxRevision
Seen == {"pre", "post", "neither"}

ApprovalStep(t) ==
  \E fp \in Fingerprints, q \in PendingIds :
     \/ \E expected \in Revisions : RequestApproval(t, fp, expected, q)
     \/ \E expected \in Revisions : InsertPending(t, fp, expected, q)
     \/ Approve(t, fp, q)
     \/ Reject(t, fp, q)

PermitStep(t) ==
  \E p \in PermitIds, expected \in Revisions :
     \/ \E fp \in Fingerprints, env \in Envelopes, q \in PendingIds \cup {None} :
           CreatePermit(t, fp, env, expected, q, p)
     \/ \E kind \in ToolKinds, w \in WindowIds : ConsumePermit(t, p, expected, kind, w)

ToolStep(t) ==
  \E w \in WindowIds :
     \/ \E p \in PermitIds, kind \in ToolKinds : StartTool(t, p, w, kind)
     \/ \E p \in PermitIds, c \in ClaimIds : RestartPatch(t, p, w, c)
     \/ \E c \in ClaimIds, expected \in Revisions : ClaimRecoveredAttempt(t, w, expected, c)

CloseStep(t) ==
  \E w \in WindowIds, expected \in Revisions :
     \/ \E seen \in Seen : Recover(t, expected, seen, w)
     \/ \E run_state \in WrittenStates : CompleteWindow(t, w, expected, run_state)
     \/ \E run_state \in WrittenStates : FailCloseWindow(t, w, expected, run_state)

UpdateStep(t) ==
  \E expected \in Revisions, env \in Envelopes :
     \E run_state \in WrittenStates \cup {tasks[t].run_state},
        artifact_state \in {tasks[t].artifact_state, "patch_ready", "discarded"} :
           UpdateTask(t, expected, run_state, artifact_state, env)

ApplyStep(t) ==
  \E expected \in Revisions :
     \/ \E w \in WindowIds : EnterApplying(t, expected, w)
     \/ \E w \in WindowIds, seen \in Seen : RecoverApply(t, expected, seen, w)
     \/ FinishApplied(t, expected)

Next == \E t \in Tasks :
  \/ ApprovalStep(t) \/ PermitStep(t) \/ ToolStep(t)
  \/ CloseStep(t)    \/ UpdateStep(t) \/ ApplyStep(t)

Spec == Init /\ [][Next]_vars

-----------------------------------------------------------------------------
TypeOK ==
  /\ tasks    \in [Tasks -> TaskRows]
  /\ pendings \in [PendingIds -> PendingRows \cup {NoPending}]
  /\ permits  \in [PermitIds -> PermitRows \cup {NoPermit}]
  /\ windows  \in [WindowIds -> WindowRows \cup {NoWindow}]
  /\ claims   \in [ClaimIds -> ClaimRows \cup {NoClaim}]
  /\ verdicts \in [PendingIds -> Answers \cup {None}]
  /\ launches \in [WindowIds -> Nat]

PermitsOf(t) == {p \in PermitIds : permits[p].task = t}

(* A task never has two windows open at once: of two processes that both   *)
(* hold a permit, or that both resume, one is refused.                     *)
OneActiveWindow ==
  \A t \in Tasks : \A v, w \in WindowIds : IsActive(v, t) /\ IsActive(w, t) => v = w

(* Every step of the budget that is gone bought exactly one permit; stale  *)
(* and concurrent create_permit calls neither leak steps nor mint permits. *)
BudgetConserved ==
  \A t \in Tasks :
    tasks[t].remaining_steps + Cardinality(PermitsOf(t)) = MaxSteps

(* A tool runs only inside a window, and a window is one permit's alone:   *)
(* the permit is consumed, of the same task, and no second window can be   *)
(* opened with it.                                                         *)
PermitBuysOneWindow ==
  \A w \in WindowIds : windows[w].kind \in ToolKinds =>
    /\ permits[windows[w].permit].task = windows[w].task
    /\ permits[windows[w].permit].consumed
    /\ windows[w].opened_revision = permits[windows[w].permit].state_revision + 1
    /\ \A v \in WindowIds : windows[v].permit = windows[w].permit => v = w

(* What the user approved is what a permit was minted for, once: the same  *)
(* task, the same fingerprint, and never an action the user rejected,      *)
(* although create_permit only asks whether the pending row is consumed.   *)
ApprovalBuysOnePermit ==
  \A p \in PermitIds : permits[p].pending # None =>
    /\ verdicts[permits[p].pending] = "approved"
    /\ pendings[permits[p].pending].task = permits[p].task
    /\ pendings[permits[p].pending].fingerprint = permits[p].fingerprint
    /\ \A r \in PermitIds : permits[r].pending = permits[p].pending => r = p

(* A pending action bound to the task's present revision can only belong   *)
(* to a task that is still waiting, and was not rejected: so an approval   *)
(* dies with any other write to the task.                                  *)
LivePendingIsAwaited ==
  \A q \in PendingIds, t \in Tasks :
    /\ pendings[q].task = t
    /\ pendings[q].state_revision = tasks[t].state_revision
    => /\ tasks[t].run_state = "awaiting_approval"
       /\ verdicts[q] # "rejected"

(* An unconsumed permit of the task's present revision meets no open       *)
(* window and a task in a state that may run a tool: it can be consumed.   *)
LivePermitIsUsable ==
  \A p \in PermitIds, t \in Tasks :
    /\ permits[p].task = t
    /\ ~permits[p].consumed
    /\ permits[p].state_revision = tasks[t].state_revision
    => /\ NoActiveWindow(t)
       /\ tasks[t].run_state \in {"running", "verifying", "awaiting_approval"}

(* An open window that is the last write to its task matches the task's    *)
(* run_state, so recover's live_ok test can only refuse a window whose     *)
(* task was written by somebody else afterwards; and its permit was minted *)
(* under the envelope in force: a revised envelope kills older permits.    *)
LiveWindowIsConsistent ==
  \A w \in WindowIds, t \in Tasks :
    /\ windows[w].task = t
    /\ windows[w].status = "executing_action"
    /\ windows[w].opened_revision = tasks[t].state_revision
    => /\ LivePair(windows[w].source_run_state, tasks[t].run_state)
       /\ permits[windows[w].permit].envelope_hash = tasks[t].envelope_hash

ConsumedClaims(w) == {c \in ClaimIds : claims[c].window = w /\ claims[c].consumed}

(* A tool is let through once per window, and once more per consumed       *)
(* recovery claim; a command never has a claim, so it is never re-run.     *)
LaunchesAccounted ==
  \A w \in WindowIds :
    /\ launches[w] = (IF windows[w].started THEN 1 ELSE 0)
                     + Cardinality(ConsumedClaims(w))
    /\ windows[w].kind # "apply_patch" => launches[w] <= 1

(* Every write to a task, to a window's status or to the set of permits is *)
(* visible to the optimistic lock: the revision moves by exactly one.      *)
WritesAreVersioned ==
  [][ \A t \in Tasks :
        \/ tasks'[t] # tasks[t]
        \/ \E p \in PermitIds : permits'[p] # permits[p] /\ permits'[p].task = t
        \/ \E w \in WindowIds : windows'[w].status # windows[w].status
                                /\ windows'[w].task = t
        => tasks'[t].state_revision = tasks[t].state_revision + 1 ]_vars

(* A permit overtaken by another write to its task is never consumed       *)
(* afterwards, and an answer given to the user's question never changes.   *)
OvertakenIsDead ==
  [][ /\ \A p \in PermitIds, t \in Tasks :
           /\ permits[p].task = t
           /\ permits[p].state_revision < tasks[t].state_revision
           => permits'[p] = permits[p]
      /\ \A q \in PendingIds : verdicts[q] # None => verdicts'[q] = verdicts[q]
    ]_vars
=============================================================================
