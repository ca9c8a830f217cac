-------------------------- MODULE GuardedStoreProofs --------------------------
(***************************************************************************)
(* Machine-checked proofs about GuardedStore, for every set of tasks, rows *)
(* and clients: the types, what one step can do to one row of each table,  *)
(* and that every write moves the revision.  The actions are expanded here *)
(* and nowhere else: StoreSafetyProofs argues from these facts alone.      *)
(***************************************************************************)
EXTENDS GuardedStore, FiniteSetTheorems, TLAPS

(* The rows a task's tables hold are always well formed.                   *)
LEMMA InitTypeOK == Init => TypeOK
  <1> SUFFICES ASSUME Init PROVE TypeOK
    OBVIOUS
  <1>1. tasks \in [Tasks -> TaskRows]
    BY StoreAssumption DEF Init, TaskRows, RunStates, ArtifactStates
  <1> QED
    BY <1>1 DEF Init, EmptyTables, TypeOK

(* A row whose task is a task has been inserted, with all its columns.     *)
LEMMA InsertedRows ==
  ASSUME TypeOK
  PROVE  /\ \A t \in Tasks : tasks[t] \in TaskRows
         /\ \A q \in PendingIds : pendings[q].task \in Tasks => pendings[q] \in PendingRows
         /\ \A p \in PermitIds : permits[p].task \in Tasks => permits[p] \in PermitRows
         /\ \A w \in WindowIds : windows[w].task \in Tasks => windows[w] \in WindowRows
         /\ \A c \in ClaimIds : claims[c].task \in Tasks => claims[c] \in ClaimRows
  BY StoreAssumption DEF TypeOK, NoPending, NoPermit, NoWindow, NoClaim

(* An answer leaves well-formed rows.                                      *)
LEMMA AnswerTypeOK ==
  ASSUME TypeOK, NEW t \in Tasks, NEW fp, NEW q \in PendingIds, NEW answer \in Answers,
         Answerable(t, fp, q), Answer(q, answer), tasks' \in [Tasks -> TaskRows]
  PROVE  TypeOK'
  <1>1. pendings[q] \in PendingRows
    BY InsertedRows DEF Answerable
  <1>2. [pendings[q] EXCEPT !.consumed = TRUE] \in PendingRows
    BY <1>1 DEF PendingRows
  <1>3. pendings' \in [PendingIds -> PendingRows \cup {NoPending}]
    BY <1>2 DEF Answer, TypeOK
  <1>4. verdicts' \in [PendingIds -> Answers \cup {None}]
    BY DEF Answer, TypeOK
  <1> QED
    BY <1>3, <1>4 DEF Answer, TypeOK

(* So do the four approval operations.                                     *)
LEMMA ApprovalTypeOK ==
  ASSUME TypeOK, NEW t \in Tasks, ApprovalStep(t) PROVE TypeOK'
  <1>1. ASSUME NEW fp \in Fingerprints, NEW q \in PendingIds, NEW expected \in Revisions,
               RequestApproval(t, fp, expected, q)
        PROVE TypeOK'
    BY <1>1 DEF RequestApproval, OpenPending, Moved, AtRevision, TypeOK, TaskRows,
                PendingRows, RunStates, Revisions
  <1>2. ASSUME NEW fp \in Fingerprints, NEW q \in PendingIds, NEW expected \in Revisions,
               InsertPending(t, fp, expected, q)
        PROVE TypeOK'
    BY <1>2 DEF InsertPending, OpenPending, TypeOK, PendingRows, Revisions
  <1>3. ASSUME NEW fp \in Fingerprints, NEW q \in PendingIds, Approve(t, fp, q)
        PROVE TypeOK'
    BY <1>3, AnswerTypeOK DEF Approve, Answers, TypeOK
  <1>4. ASSUME NEW fp \in Fingerprints, NEW q \in PendingIds, Reject(t, fp, q)
        PROVE TypeOK'
    <2>1. tasks' \in [Tasks -> TaskRows]
      BY <1>4 DEF Reject, Moved, TypeOK, TaskRows, RunStates
    <2> QED
      BY <1>4, <2>1, AnswerTypeOK DEF Reject, Answers
  <1> QED
    BY <1>1, <1>2, <1>3, <1>4 DEF ApprovalStep

(* So do create_permit and consume_permit_and_open_window.                 *)
LEMMA PermitTypeOK ==
  ASSUME TypeOK, NEW t \in Tasks, PermitStep(t) PROVE TypeOK'
  <1>1. ASSUME NEW p \in PermitIds, NEW expected \in Revisions, NEW fp \in Fingerprints,
               NEW env \in Envelopes, NEW q \in PendingIds \cup {None},
               CreatePermit(t, fp, env, expected, q, p)
        PROVE TypeOK'
    <2>1. tasks' \in [Tasks -> TaskRows]
      BY <1>1 DEF CreatePermit, MayPermit, Debited, TypeOK, TaskRows
    <2>2. permits' \in [PermitIds -> PermitRows \cup {NoPermit}]
      BY <1>1 DEF CreatePermit, TypeOK, PermitRows, Revisions
    <2> QED
      BY <1>1, <2>1, <2>2 DEF CreatePermit, TypeOK
  <1>2. ASSUME NEW p \in PermitIds, NEW expected \in Revisions, NEW kind \in ToolKinds,
               NEW w \in WindowIds, ConsumePermit(t, p, expected, kind, w)
        PROVE TypeOK'
    <2>1. tasks' \in [Tasks -> TaskRows]
      BY <1>2 DEF ConsumePermit, WindowState, Moved, TypeOK, TaskRows, RunStates
    <2>2. permits' \in [PermitIds -> PermitRows \cup {NoPermit}]
      <3>1. permits[p] \in PermitRows
        BY <1>2, InsertedRows DEF ConsumePermit, PermitFits
      <3>2. [permits[p] EXCEPT !.consumed = TRUE] \in PermitRows
        BY <3>1 DEF PermitRows
      <3> QED
        BY <1>2, <3>2 DEF ConsumePermit, TypeOK
    <2>3. windows' \in [WindowIds -> WindowRows \cup {NoWindow}]
      BY <1>2 DEF ConsumePermit, Window, TypeOK, TaskRows, WindowRows, WindowStatuses, Revisions
    <2> QED
      BY <1>2, <2>1, <2>2, <2>3 DEF ConsumePermit, TypeOK
  <1> QED
    BY <1>1, <1>2 DEF PermitStep

(* Letting a tool through only sets a flag and counts.                     *)
LEMMA LaunchTypeOK ==
  ASSUME TypeOK, NEW t \in Tasks, NEW w \in WindowIds, windows[w].task = t, Launch(w)
  PROVE  /\ windows' \in [WindowIds -> WindowRows \cup {NoWindow}]
         /\ launches' \in [WindowIds -> Nat]
  <1>1. windows[w] \in WindowRows
    BY InsertedRows
  <1>2. [windows[w] EXCEPT !.started = TRUE] \in WindowRows
    BY <1>1 DEF WindowRows
  <1> QED
    BY <1>2 DEF Launch, TypeOK

(* So do starting a tool, restarting a patch and claiming an attempt.      *)
LEMMA ToolTypeOK ==
  ASSUME TypeOK, NEW t \in Tasks, ToolStep(t) PROVE TypeOK'
  <1>1. ASSUME NEW w \in WindowIds, NEW p \in PermitIds, NEW kind \in ToolKinds,
               StartTool(t, p, w, kind)
        PROVE TypeOK'
    BY <1>1, LaunchTypeOK DEF StartTool, Authorized, TypeOK
  <1>2. ASSUME NEW w \in WindowIds, NEW p \in PermitIds, NEW c \in ClaimIds,
               RestartPatch(t, p, w, c)
        PROVE TypeOK'
    <2>1. claims[c] \in ClaimRows
      BY <1>2, InsertedRows DEF RestartPatch, ClaimFits
    <2>2. [claims[c] EXCEPT !.consumed = TRUE] \in ClaimRows
      BY <2>1 DEF ClaimRows
    <2>3. claims' \in [ClaimIds -> ClaimRows \cup {NoClaim}]
      BY <1>2, <2>2 DEF RestartPatch, TypeOK
    <2> QED
      BY <1>2, <2>3, LaunchTypeOK DEF RestartPatch, Authorized, TypeOK
  <1>3. ASSUME NEW w \in WindowIds, NEW c \in ClaimIds, NEW expected \in Revisions,
               ClaimRecoveredAttempt(t, w, expected, c)
        PROVE TypeOK'
    BY <1>3 DEF ClaimRecoveredAttempt, TypeOK, ClaimRows, Revisions
  <1> QED
    BY <1>1, <1>2, <1>3 DEF ToolStep

(* Closing a window writes one run_state and one status.                   *)
LEMMA CloseWindowTypeOK ==
  ASSUME TypeOK, NEW t \in Tasks, NEW w \in WindowIds, windows[w].task = t,
         NEW status \in WindowStatuses, NEW run_state \in RunStates,
         CloseWindow(t, w, status, run_state)
  PROVE  TypeOK'
  <1>1. tasks' \in [Tasks -> TaskRows]
    BY DEF CloseWindow, Moved, TypeOK, TaskRows
  <1>2. windows[w] \in WindowRows
    BY InsertedRows
  <1>3. [windows[w] EXCEPT !.status = status] \in WindowRows
    BY <1>2 DEF WindowRows
  <1>4. windows' \in [WindowIds -> WindowRows \cup {NoWindow}]
    BY <1>3 DEF CloseWindow, TypeOK
  <1> QED
    BY <1>1, <1>4 DEF CloseWindow, TypeOK

(* recover writes running, verifying or error, or leaves the task alone.   *)
LEMMA RecoverStateType ==
  ASSUME NEW t \in Tasks, NEW w \in WindowIds, NEW seen
  PROVE  RecoverState(t, w, seen) \in {"error", "verifying", "running", None}
  BY DEF RecoverState

(* So do recover, _complete_window and _fail_close_window.                 *)
LEMMA CloseTypeOK ==
  ASSUME TypeOK, NEW t \in Tasks, CloseStep(t) PROVE TypeOK'
  <1>1. ASSUME NEW w \in WindowIds, NEW expected \in Revisions, NEW seen \in Seen,
               Recover(t, expected, seen, w)
        PROVE TypeOK'
    <2>1. RecoverState(t, w, seen) \in RunStates
      BY <1>1, RecoverStateType DEF Recover, RunStates
    <2>2. (IF RecoverState(t, w, seen) = "error" THEN "error" ELSE "succeeded")
            \in WindowStatuses
      BY DEF WindowStatuses
    <2> QED
      BY <1>1, <2>1, <2>2, CloseWindowTypeOK DEF Recover
  <1>2. ASSUME NEW w \in WindowIds, NEW expected \in Revisions,
               NEW run_state \in WrittenStates,
               \/ CompleteWindow(t, w, expected, run_state)
               \/ FailCloseWindow(t, w, expected, run_state)
        PROVE TypeOK'
    BY <1>2, StoreAssumption, CloseWindowTypeOK
    DEF CompleteWindow, FailCloseWindow, WindowStatuses
  <1> QED
    BY <1>1, <1>2 DEF CloseStep

(* So does update_task.                                                    *)
LEMMA UpdateTypeOK ==
  ASSUME TypeOK, NEW t \in Tasks, UpdateStep(t) PROVE TypeOK'
  <1>1. PICK expected \in Revisions, env \in Envelopes,
             run_state \in WrittenStates \cup {tasks[t].run_state},
             artifact_state \in {tasks[t].artifact_state, "patch_ready", "discarded"} :
               UpdateTask(t, expected, run_state, artifact_state, env)
    BY DEF UpdateStep
  <1>2. tasks[t] \in TaskRows
    BY DEF TypeOK
  <1>3. run_state \in RunStates /\ artifact_state \in ArtifactStates
    BY <1>2, StoreAssumption DEF TaskRows, ArtifactStates
  <1>5. tasks' \in [Tasks -> TaskRows]
    BY <1>1, <1>3 DEF UpdateTask, TypeOK, TaskRows
  <1> QED
    BY <1>1, <1>5 DEF UpdateTask, TypeOK

(* The task row apply writes is a task row.                                *)
LEMMA ApplyRowType ==
  ASSUME TypeOK, NEW t \in Tasks, NEW artifact_state \in ArtifactStates
  PROVE  Apply(t, artifact_state) \in [Tasks -> TaskRows]
  <1>1. tasks \in [Tasks -> TaskRows]
    BY DEF TypeOK
  <1>2. tasks[t].state_revision + 1 \in Nat
    BY <1>1 DEF TaskRows
  <1> QED
    BY <1>1, <1>2 DEF Apply, TaskRows

(* So do the three transactions of apply_back.                             *)
LEMMA ApplyTypeOK ==
  ASSUME TypeOK, NEW t \in Tasks, ApplyStep(t) PROVE TypeOK'
  <1>1. \A artifact_state \in ArtifactStates : Apply(t, artifact_state) \in [Tasks -> TaskRows]
    BY ApplyRowType
  <1>2. ASSUME NEW expected \in Revisions, NEW w \in WindowIds, EnterApplying(t, expected, w)
        PROVE TypeOK'
    <2>1. windows' \in [WindowIds -> WindowRows \cup {NoWindow}]
      <3>1. Window(t, None, "apply_back", "applying", expected + 1, "succeeded") \in WindowRows
        BY DEF Window, WindowRows, WindowStatuses, RunStates, Revisions
      <3> QED
        BY <1>2, <3>1 DEF EnterApplying, TypeOK
    <2> QED
      BY <1>1, <1>2, <2>1 DEF EnterApplying, TypeOK, ArtifactStates
  <1>3. ASSUME NEW expected \in Revisions, NEW w \in WindowIds, NEW seen \in Seen,
               RecoverApply(t, expected, seen, w)
        PROVE TypeOK'
    <2>1. /\ ApplyOutcome(seen).artifact \in ArtifactStates
          /\ ApplyOutcome(seen).status \in WindowStatuses
      <3>1. CASE seen = "post"
        BY <3>1 DEF ApplyOutcome, ArtifactStates, WindowStatuses
      <3>2. CASE seen = "pre"
        BY <3>2 DEF ApplyOutcome, ArtifactStates, WindowStatuses
      <3>3. CASE seen = "neither"
        BY <3>3 DEF ApplyOutcome, ArtifactStates, WindowStatuses
      <3> QED
        BY <3>1, <3>2, <3>3 DEF Seen
    <2>2. windows[w] \in WindowRows
      BY <1>3, InsertedRows DEF RecoverApply, LeaveApplying
    <2>3. [windows[w] EXCEPT !.status = ApplyOutcome(seen).status] \in WindowRows
      BY <2>1, <2>2 DEF WindowRows
    <2>4. windows' \in [WindowIds -> WindowRows \cup {NoWindow}]
      BY <1>3, <2>3 DEF RecoverApply, LeaveApplying, TypeOK
    <2> QED
      BY <1>1, <1>3, <2>1, <2>4 DEF RecoverApply, LeaveApplying, TypeOK
  <1>4. ASSUME NEW expected \in Revisions, FinishApplied(t, expected)
        PROVE TypeOK'
    <2>1. \A w \in WindowIds : windows[w].task = t =>
            [windows[w] EXCEPT !.status = "applied"] \in WindowRows
      BY InsertedRows DEF WindowRows, WindowStatuses
    <2>2. windows' \in [WindowIds -> WindowRows \cup {NoWindow}]
      BY <1>4, <2>1 DEF FinishApplied, TypeOK
    <2> QED
      BY <1>1, <1>4, <2>2 DEF FinishApplied, TypeOK, ArtifactStates
  <1> QED
    BY <1>2, <1>3, <1>4 DEF ApplyStep

(* Every transaction leaves well-formed rows.                              *)
LEMMA NextTypeOK == TypeOK /\ [Next]_vars => TypeOK'
  <1> SUFFICES ASSUME TypeOK, [Next]_vars PROVE TypeOK'
    OBVIOUS
  <1>1. CASE UNCHANGED vars
    BY <1>1 DEF vars, TypeOK
  <1>2. CASE Next
    BY <1>2, ApprovalTypeOK, PermitTypeOK, ToolTypeOK, CloseTypeOK, UpdateTypeOK, ApplyTypeOK
    DEF Next
  <1> QED
    BY <1>1, <1>2

(* Every table holds well-formed rows in every reachable state.            *)
THEOREM TypeCorrect == Spec => []TypeOK
  BY InitTypeOK, NextTypeOK, PTL DEF Spec

-----------------------------------------------------------------------------
(* Tasks.                                                                  *)

TaskVersioned(t) ==
  \/ tasks'[t] = tasks[t]
  \/ tasks'[t].state_revision = tasks[t].state_revision + 1

(* Recovering, completing and fail-closing a window all close it.          *)
LEMMA CloseStepCloses ==
  ASSUME NEW t \in Tasks, CloseStep(t)
  PROVE  \E w \in WindowIds, status \in {"succeeded", "error"}, run_state \in RunStates :
           windows[w].task = t /\ CloseWindow(t, w, status, run_state)
  <1>1. ASSUME NEW w \in WindowIds, NEW expected \in Revisions, NEW seen \in Seen,
               Recover(t, expected, seen, w)
        PROVE  \E status \in {"succeeded", "error"}, run_state \in RunStates :
                 windows[w].task = t /\ CloseWindow(t, w, status, run_state)
    <2>1. RecoverState(t, w, seen) \in RunStates
      BY <1>1, RecoverStateType DEF Recover, RunStates
    <2>2. (IF RecoverState(t, w, seen) = "error" THEN "error" ELSE "succeeded")
            \in {"succeeded", "error"}
      OBVIOUS
    <2> QED
      BY <1>1, <2>1, <2>2 DEF Recover
  <1>2. ASSUME NEW w \in WindowIds, NEW expected \in Revisions, NEW run_state \in WrittenStates,
               \/ CompleteWindow(t, w, expected, run_state)
               \/ FailCloseWindow(t, w, expected, run_state)
        PROVE  \E status \in {"succeeded", "error"} :
                 windows[w].task = t /\ CloseWindow(t, w, status, run_state)
    BY <1>2 DEF CompleteWindow, FailCloseWindow
  <1> QED
    BY <1>1, <1>2, StoreAssumption DEF CloseStep

(* A step changes the row of one task at most, and moves its revision.     *)
LEMMA TaskStep ==
  ASSUME TypeOK, Next, NEW t \in Tasks
  PROVE  TaskVersioned(t)
  <1> USE DEF TaskVersioned
  <1>1. PICK u \in Tasks : \/ ApprovalStep(u) \/ PermitStep(u) \/ ToolStep(u)
                           \/ CloseStep(u)    \/ UpdateStep(u) \/ ApplyStep(u)
    BY DEF Next
  <1>2. tasks \in [Tasks -> TaskRows]
    BY DEF TypeOK
  <1>3. CASE ApprovalStep(u)
    BY <1>2, <1>3 DEF ApprovalStep, RequestApproval, InsertPending, Approve, Reject,
                      Answer, Moved, TaskRows
  <1>4. CASE PermitStep(u)
    BY <1>2, <1>4 DEF PermitStep, CreatePermit, ConsumePermit, Debited, Moved, TaskRows
  <1>5. CASE ToolStep(u)
    BY <1>2, <1>5 DEF ToolStep, StartTool, RestartPatch, ClaimRecoveredAttempt
  <1>6. CASE CloseStep(u)
    <2>1. \E run_state : tasks' = Moved(u, run_state)
      BY <1>6, CloseStepCloses DEF CloseWindow
    <2> QED
      BY <1>2, <2>1 DEF Moved, TaskRows
  <1>7. CASE UpdateStep(u)
    BY <1>2, <1>7 DEF UpdateStep, UpdateTask, TaskRows
  <1>8. CASE ApplyStep(u)
    <2>1. \E artifact_state : tasks' = Apply(u, artifact_state)
      BY <1>8 DEF ApplyStep, EnterApplying, RecoverApply, LeaveApplying, FinishApplied
    <2> QED
      BY <1>2, <2>1 DEF Apply, TaskRows
  <1> QED
    BY <1>1, <1>3, <1>4, <1>5, <1>6, <1>7, <1>8

-----------------------------------------------------------------------------
(* Pending actions.                                                        *)

PendingKept(q) == pendings'[q] = pendings[q] /\ verdicts'[q] = verdicts[q]

PendingAsked(q) ==
  /\ pendings[q] = NoPending
  /\ ~pendings'[q].consumed
  /\ \A t \in Tasks : pendings'[q].task = t =>
       /\ pendings'[q].state_revision = tasks'[t].state_revision
       /\ tasks'[t].run_state = "awaiting_approval"
  /\ verdicts'[q] = verdicts[q]

PendingAnswered(q) ==
  /\ pendings[q].task \in Tasks
  /\ ~pendings[q].consumed
  /\ pendings'[q] = [pendings[q] EXCEPT !.consumed = TRUE]
  /\ verdicts'[q] \in Answers
  /\ verdicts'[q] = "rejected" =>
       tasks'[pendings[q].task].state_revision = tasks[pendings[q].task].state_revision + 1

PendingStepped(q) == PendingKept(q) \/ PendingAsked(q) \/ PendingAnswered(q)

(* A pending action is inserted at its task's revision, then answered once.*)
LEMMA PendingStep ==
  ASSUME TypeOK, Next, NEW q \in PendingIds
  PROVE  PendingStepped(q)
  <1> USE DEF PendingStepped
  <1>1. PICK u \in Tasks : \/ ApprovalStep(u) \/ PermitStep(u) \/ ToolStep(u)
                           \/ CloseStep(u)    \/ UpdateStep(u) \/ ApplyStep(u)
    BY DEF Next
  <1>2. /\ tasks \in [Tasks -> TaskRows]
        /\ pendings \in [PendingIds -> PendingRows \cup {NoPending}]
        /\ verdicts \in [PendingIds -> Answers \cup {None}]
    BY DEF TypeOK
  <1>3. \A r \in PendingIds : pendings[r].task = None => pendings[r] = NoPending
    BY <1>2, StoreAssumption DEF PendingRows
  <1>4. CASE ApprovalStep(u)
    <2>1. ASSUME NEW fp \in Fingerprints, NEW r \in PendingIds, NEW expected \in Revisions,
                 RequestApproval(u, fp, expected, r) \/ InsertPending(u, fp, expected, r)
          PROVE PendingKept(q) \/ PendingAsked(q)
      <3>1. q # r => PendingKept(q)
        BY <1>2, <2>1 DEF RequestApproval, InsertPending, OpenPending, PendingKept
      <3>2. q = r => PendingAsked(q)
        <4> SUFFICES ASSUME q = r PROVE PendingAsked(q)
          OBVIOUS
        <4>1. pendings[q] = NoPending
          BY <1>3, <2>1 DEF RequestApproval, InsertPending, OpenPending
        <4>2. CASE RequestApproval(u, fp, expected, r)
          <5>1. pendings'[q] = [task |-> u, fingerprint |-> fp,
                                state_revision |-> expected + 1, consumed |-> FALSE]
            BY <1>2, <4>2 DEF RequestApproval, OpenPending
          <5>2. /\ tasks'[u].run_state = "awaiting_approval"
                /\ tasks'[u].state_revision = expected + 1
            BY <1>2, <4>2 DEF RequestApproval, Moved, AtRevision, TaskRows
          <5> QED
            BY <4>1, <4>2, <5>1, <5>2 DEF PendingAsked, RequestApproval
        <4>3. CASE InsertPending(u, fp, expected, r)
          <5>1. pendings'[q] = [task |-> u, fingerprint |-> fp,
                                state_revision |-> expected, consumed |-> FALSE]
            BY <1>2, <4>3 DEF InsertPending, OpenPending
          <5> QED
            BY <4>1, <4>3, <5>1 DEF PendingAsked, InsertPending
        <4> QED
          BY <2>1, <4>2, <4>3
      <3> QED
        BY <3>1, <3>2
    <2>2. ASSUME NEW fp \in Fingerprints, NEW r \in PendingIds,
                 Approve(u, fp, r) \/ Reject(u, fp, r)
          PROVE PendingKept(q) \/ PendingAnswered(q)
      <3>1. q # r => PendingKept(q)
        BY <1>2, <2>2 DEF Approve, Reject, Answer, PendingKept
      <3>2. q = r => PendingAnswered(q)
        <4> SUFFICES ASSUME q = r PROVE PendingAnswered(q)
          OBVIOUS
        <4>1. pendings[q].task = u /\ ~pendings[q].consumed
          BY <2>2 DEF Approve, Reject, Answerable
        <4>2. PICK answer \in Answers : Answer(q, answer) /\ (answer = "rejected" => Reject(u, fp, r))
          BY <2>2 DEF Approve, Reject, Answers
        <4>3. /\ pendings'[q] = [pendings[q] EXCEPT !.consumed = TRUE]
              /\ verdicts'[q] = answer
          BY <1>2, <4>2 DEF Answer
        <4>4. Reject(u, fp, r) => tasks'[u].state_revision = tasks[u].state_revision + 1
          BY <1>2 DEF Reject, Moved, TaskRows
        <4> QED
          BY <4>1, <4>2, <4>3, <4>4 DEF PendingAnswered
      <3> QED
        BY <3>1, <3>2
    <2> QED
      BY <1>4, <2>1, <2>2 DEF ApprovalStep
  <1>5. CASE PermitStep(u)
    BY <1>5 DEF PermitStep, CreatePermit, ConsumePermit, PendingKept
  <1>6. CASE ToolStep(u)
    BY <1>6 DEF ToolStep, StartTool, RestartPatch, ClaimRecoveredAttempt, PendingKept
  <1>7. CASE CloseStep(u)
    BY <1>7, CloseStepCloses DEF CloseWindow, PendingKept
  <1>8. CASE UpdateStep(u)
    BY <1>8 DEF UpdateStep, UpdateTask, PendingKept
  <1>9. CASE ApplyStep(u)
    BY <1>9 DEF ApplyStep, EnterApplying, RecoverApply, LeaveApplying, FinishApplied, PendingKept
  <1> QED
    BY <1>1, <1>4, <1>5, <1>6, <1>7, <1>8, <1>9
-----------------------------------------------------------------------------
(* Permits.                                                                *)

PermitMinted(t, p) ==
  /\ permits[p] = NoPermit
  /\ permits'[p].task = t
  /\ ~permits'[p].consumed
  /\ permits'[p].state_revision = tasks'[t].state_revision
  /\ permits'[p].envelope_hash = tasks[t].envelope_hash
  /\ \A r \in PermitIds : r # p => permits'[r] = permits[r]
  /\ MayPermit(t)
  /\ tasks' = Debited(t)
  /\ permits'[p].pending # None =>
       /\ PendingBacks(t, permits'[p].fingerprint, tasks[t].state_revision, permits'[p].pending)
       /\ PendingUnspent(permits'[p].pending)
  /\ UNCHANGED <<pendings, verdicts, windows>>

PermitSpent(t, p) ==
  /\ permits[p].task = t
  /\ ~permits[p].consumed
  /\ permits[p].state_revision = tasks[t].state_revision
  /\ permits' = [permits EXCEPT ![p].consumed = TRUE]
  /\ tasks'[t].state_revision = tasks[t].state_revision + 1
  /\ \A u \in Tasks : tasks'[u].remaining_steps = tasks[u].remaining_steps
  /\ UNCHANGED <<pendings, verdicts>>

(* Either no permit changes and no budget either, or one permit is minted  *)
(* against one step of the budget, or one permit is consumed.              *)
PermitsStepped ==
  \/ permits' = permits /\ \A t \in Tasks : tasks'[t].remaining_steps = tasks[t].remaining_steps
  \/ \E t \in Tasks, p \in PermitIds : PermitMinted(t, p) \/ PermitSpent(t, p)

(* A step mints one permit, spends one permit, or leaves them all alone.   *)
LEMMA PermitsStep ==
  ASSUME TypeOK, Next
  PROVE  PermitsStepped
  <1> USE DEF PermitsStepped
  <1>1. PICK u \in Tasks : \/ ApprovalStep(u) \/ PermitStep(u) \/ ToolStep(u)
                           \/ CloseStep(u)    \/ UpdateStep(u) \/ ApplyStep(u)
    BY DEF Next
  <1>2. /\ tasks \in [Tasks -> TaskRows]
        /\ permits \in [PermitIds -> PermitRows \cup {NoPermit}]
    BY DEF TypeOK
  <1>3. CASE ApprovalStep(u)
    BY <1>2, <1>3 DEF ApprovalStep, RequestApproval, InsertPending, Approve, Reject,
                      Answer, Moved, TaskRows
  <1>4. CASE PermitStep(u)
    <2>1. ASSUME NEW p \in PermitIds, NEW expected \in Revisions, NEW fp \in Fingerprints,
                 NEW env \in Envelopes, NEW q \in PendingIds \cup {None},
                 CreatePermit(u, fp, env, expected, q, p)
          PROVE PermitMinted(u, p)
      <3>1. permits[p] = NoPermit
        BY <1>2, <2>1, StoreAssumption DEF CreatePermit, PermitRows
      <3>2. tasks[u].state_revision = expected /\ tasks'[u].state_revision = expected + 1
        BY <1>2, <2>1 DEF CreatePermit, AtRevision, Debited, TaskRows
      <3>3. permits'[p] = [task |-> u, fingerprint |-> fp, envelope_hash |-> env,
                           state_revision |-> expected + 1, consumed |-> FALSE, pending |-> q]
        BY <1>2, <2>1 DEF CreatePermit
      <3>4. \A r \in PermitIds : r # p => permits'[r] = permits[r]
        BY <1>2, <2>1 DEF CreatePermit
      <3> QED
        BY <2>1, <3>1, <3>2, <3>3, <3>4 DEF CreatePermit, PermitMinted
    <2>2. ASSUME NEW p \in PermitIds, NEW expected \in Revisions, NEW kind \in ToolKinds,
                 NEW w \in WindowIds, ConsumePermit(u, p, expected, kind, w)
          PROVE PermitSpent(u, p)
      BY <1>2, <2>2 DEF ConsumePermit, PermitFits, PermitSpent, AtRevision, Moved, TaskRows
    <2> QED
      BY <1>4, <2>1, <2>2 DEF PermitStep
  <1>5. CASE ToolStep(u)
    BY <1>2, <1>5 DEF ToolStep, StartTool, RestartPatch, ClaimRecoveredAttempt
  <1>6. CASE CloseStep(u)
    <2>1. \E run_state : tasks' = Moved(u, run_state) /\ permits' = permits
      BY <1>6, CloseStepCloses DEF CloseWindow
    <2> QED
      BY <1>2, <2>1 DEF Moved, TaskRows
  <1>7. CASE UpdateStep(u)
    BY <1>2, <1>7 DEF UpdateStep, UpdateTask, TaskRows
  <1>8. CASE ApplyStep(u)
    <2>1. \E artifact_state : tasks' = Apply(u, artifact_state) /\ permits' = permits
      BY <1>8 DEF ApplyStep, EnterApplying, RecoverApply, LeaveApplying, FinishApplied
    <2> QED
      BY <1>2, <2>1 DEF Apply, TaskRows
  <1> QED
    BY <1>1, <1>3, <1>4, <1>5, <1>6, <1>7, <1>8

-----------------------------------------------------------------------------
(* Windows.                                                                *)

SameWindow(w) ==
  /\ windows'[w].task = windows[w].task
  /\ windows'[w].permit = windows[w].permit
  /\ windows'[w].kind = windows[w].kind
  /\ windows'[w].opened_revision = windows[w].opened_revision
  /\ windows'[w].source_run_state = windows[w].source_run_state

WindowKept(w) == SameWindow(w) /\ windows'[w].status = windows[w].status

WindowClosed(w) ==
  /\ windows[w].task \in Tasks
  /\ SameWindow(w)
  /\ windows'[w].status \notin {"executing_action", "applying"}
  /\ tasks'[windows[w].task].state_revision = tasks[windows[w].task].state_revision + 1

(* A tool's window, opened with a permit, or the window of an apply.       *)
WindowOpened(t, w) ==
  /\ windows[w] = NoWindow
  /\ NoActiveWindow(t)
  /\ tasks'[t].state_revision = tasks[t].state_revision + 1
  /\ windows'[w].task = t
  /\ windows'[w].opened_revision = tasks'[t].state_revision
  /\ \A v \in WindowIds : v # w => windows'[v] = windows[v]
  /\ \/ /\ windows'[w].kind = "apply_back"
        /\ windows'[w].status = "applying"
        /\ windows'[w].permit = None
     \/ \E p \in PermitIds :
          /\ windows'[w].kind \in ToolKinds
          /\ windows'[w].status = "executing_action"
          /\ windows'[w].permit = p
          /\ windows'[w].source_run_state = tasks[t].run_state
          /\ PermitFits(t, p, tasks[t].state_revision)
          /\ permits' = [permits EXCEPT ![p].consumed = TRUE]
          /\ tasks' = Moved(t, WindowState(tasks[t].run_state))

WindowStepped(w) == WindowKept(w) \/ WindowClosed(w) \/ \E t \in Tasks : WindowOpened(t, w)

(* A window is opened with its task's next revision and closed with it.    *)
LEMMA WindowStep ==
  ASSUME TypeOK, Next, NEW w \in WindowIds
  PROVE  WindowStepped(w)
  <1> USE DEF WindowStepped
  <1>1. PICK u \in Tasks : \/ ApprovalStep(u) \/ PermitStep(u) \/ ToolStep(u)
                           \/ CloseStep(u)    \/ UpdateStep(u) \/ ApplyStep(u)
    BY DEF Next
  <1>2. /\ tasks \in [Tasks -> TaskRows]
        /\ windows \in [WindowIds -> WindowRows \cup {NoWindow}]
    BY DEF TypeOK
  <1>3. \A v \in WindowIds : windows[v].task = None => windows[v] = NoWindow
    BY <1>2, StoreAssumption DEF WindowRows
  <1>4. windows' = windows => WindowKept(w)
    BY DEF WindowKept, SameWindow
  <1>5. CASE ApprovalStep(u)
    BY <1>4, <1>5 DEF ApprovalStep, RequestApproval, InsertPending, Approve, Reject, Answer
  <1>6. CASE PermitStep(u)
    <2>1. ASSUME NEW p \in PermitIds, NEW expected \in Revisions, NEW kind \in ToolKinds,
                 NEW v \in WindowIds, ConsumePermit(u, p, expected, kind, v)
          PROVE WindowKept(w) \/ WindowOpened(u, w)
      <3>1. CASE w # v
        BY <1>2, <2>1, <3>1 DEF ConsumePermit, WindowKept, SameWindow
      <3>2. CASE w = v
        <4>1. windows[w] = NoWindow /\ NoActiveWindow(u)
          BY <1>3, <2>1, <3>2 DEF ConsumePermit
        <4>2. tasks[u].state_revision = expected /\ tasks'[u].state_revision = expected + 1
          BY <1>2, <2>1 DEF ConsumePermit, AtRevision, Moved, TaskRows
        <4>3. windows'[w] = [task |-> u, permit |-> p, kind |-> kind,
                 status |-> "executing_action", opened_revision |-> expected + 1,
                 source_run_state |-> tasks[u].run_state, started |-> FALSE]
          BY <1>2, <2>1, <3>2 DEF ConsumePermit, Window
        <4>4. \A x \in WindowIds : x # w => windows'[x] = windows[x]
          BY <1>2, <2>1, <3>2 DEF ConsumePermit
        <4>5. /\ PermitFits(u, p, tasks[u].state_revision)
              /\ permits' = [permits EXCEPT ![p].consumed = TRUE]
              /\ tasks' = Moved(u, WindowState(tasks[u].run_state))
          BY <2>1, <4>2 DEF ConsumePermit
        <4> QED
          <5>1. /\ windows'[w].kind \in ToolKinds
                /\ windows'[w].status = "executing_action"
                /\ windows'[w].permit = p
                /\ windows'[w].source_run_state = tasks[u].run_state
                /\ windows'[w].task = u
                /\ windows'[w].opened_revision = tasks'[u].state_revision
                /\ tasks'[u].state_revision = tasks[u].state_revision + 1
            BY <4>2, <4>3
          <5> QED
            BY <4>1, <4>4, <4>5, <5>1 DEF WindowOpened
      <3> QED
        BY <3>1, <3>2
    <2> QED
      BY <1>4, <1>6, <2>1 DEF PermitStep, CreatePermit
  <1>7. CASE ToolStep(u)
    <2>1. ASSUME NEW v \in WindowIds, Launch(v)
          PROVE WindowKept(w)
      BY <1>2, <2>1 DEF Launch, WindowKept, SameWindow, WindowRows, NoWindow
    <2> QED
      BY <1>4, <1>7, <2>1 DEF ToolStep, StartTool, RestartPatch, ClaimRecoveredAttempt
  <1>8. CASE CloseStep(u)
    <2>1. PICK v \in WindowIds, status \in {"succeeded", "error"}, run_state \in RunStates :
            windows[v].task = u /\ CloseWindow(u, v, status, run_state)
      BY <1>8, CloseStepCloses
    <2>2. tasks'[u].state_revision = tasks[u].state_revision + 1
      BY <1>2, <2>1 DEF CloseWindow, Moved, TaskRows
    <2>3. w # v => WindowKept(w)
      BY <1>2, <2>1 DEF CloseWindow, WindowKept, SameWindow
    <2>4. w = v => WindowClosed(w)
      BY <1>2, <2>1, <2>2 DEF CloseWindow, WindowClosed, SameWindow, WindowRows, NoWindow
    <2> QED
      BY <2>3, <2>4
  <1>9. CASE UpdateStep(u)
    BY <1>4, <1>9 DEF UpdateStep, UpdateTask
  <1>10. CASE ApplyStep(u)
    <2>0. \A artifact_state : tasks' = Apply(u, artifact_state) =>
            tasks'[u].state_revision = tasks[u].state_revision + 1
      BY <1>2 DEF Apply, TaskRows
    <2>1. ASSUME NEW expected \in Revisions, NEW v \in WindowIds, EnterApplying(u, expected, v)
          PROVE WindowKept(w) \/ WindowOpened(u, w)
      <3>1. CASE w # v
        BY <1>2, <2>1, <3>1 DEF EnterApplying, WindowKept, SameWindow
      <3>2. CASE w = v
        <4>1. windows[w] = NoWindow /\ NoActiveWindow(u) /\ tasks[u].state_revision = expected
          BY <1>3, <2>1, <3>2 DEF EnterApplying, AtRevision
        <4>2. windows'[w] = [task |-> u, permit |-> None, kind |-> "apply_back",
                 status |-> "applying", opened_revision |-> expected + 1,
                 source_run_state |-> "succeeded", started |-> FALSE]
          BY <1>2, <2>1, <3>2 DEF EnterApplying, Window
        <4>3. \A x \in WindowIds : x # w => windows'[x] = windows[x]
          BY <1>2, <2>1, <3>2 DEF EnterApplying
        <4> QED
          BY <2>0, <2>1, <4>1, <4>2, <4>3 DEF EnterApplying, WindowOpened
      <3> QED
        BY <3>1, <3>2
    <2>2. ASSUME NEW expected \in Revisions, NEW v \in WindowIds, NEW seen \in Seen,
                 RecoverApply(u, expected, seen, v)
          PROVE WindowKept(w) \/ WindowClosed(w)
      <3>1. CASE w # v
        BY <1>2, <2>2, <3>1 DEF RecoverApply, LeaveApplying, WindowKept, SameWindow
      <3>2. CASE w = v
        <4>1. ApplyOutcome(seen).status \notin {"executing_action", "applying"}
          <5>1. CASE seen = "post"
            BY <5>1 DEF ApplyOutcome
          <5>2. CASE seen = "pre"
            BY <5>2 DEF ApplyOutcome
          <5>3. CASE seen = "neither"
            BY <5>3 DEF ApplyOutcome
          <5> QED
            BY <5>1, <5>2, <5>3 DEF Seen
        <4> QED
          BY <1>2, <2>0, <2>2, <3>2, <4>1 DEF RecoverApply, LeaveApplying, WindowClosed,
             SameWindow, WindowRows, NoWindow
      <3> QED
        BY <3>1, <3>2
    <2>3. ASSUME NEW expected \in Revisions, FinishApplied(u, expected)
          PROVE WindowKept(w) \/ WindowClosed(w)
      <3>1. CASE windows[w].task = u /\ windows[w].status = "applying"
        BY <1>2, <2>0, <2>3, <3>1 DEF FinishApplied, WindowClosed, SameWindow, WindowRows, NoWindow
      <3>2. CASE ~(windows[w].task = u /\ windows[w].status = "applying")
        BY <1>2, <2>3, <3>2 DEF FinishApplied, WindowKept, SameWindow
      <3> QED
        BY <3>1, <3>2
    <2> QED
      BY <1>10, <2>1, <2>2, <2>3 DEF ApplyStep
  <1> QED
    BY <1>1, <1>5, <1>6, <1>7, <1>8, <1>9, <1>10
-----------------------------------------------------------------------------
(* Every write to a task is visible to the optimistic lock.                *)

(* What a step writes of a task, it writes under the next revision.        *)
LEMMA VersionedStep ==
  ASSUME TypeOK, [Next]_vars, NEW t \in Tasks,
         \/ tasks'[t] # tasks[t]
         \/ \E p \in PermitIds : permits'[p] # permits[p] /\ permits'[p].task = t
         \/ \E w \in WindowIds : windows'[w].status # windows[w].status
                                 /\ windows'[w].task = t
  PROVE  tasks'[t].state_revision = tasks[t].state_revision + 1
  <1>1. Next
    BY DEF vars
  <1>2. CASE tasks'[t] # tasks[t]
    BY <1>1, <1>2, TaskStep DEF TaskVersioned
  <1>3. ASSUME NEW p \in PermitIds, permits'[p] # permits[p], permits'[p].task = t
        PROVE  tasks'[t].state_revision = tasks[t].state_revision + 1
    <2>1. PICK u \in Tasks, r \in PermitIds : PermitMinted(u, r) \/ PermitSpent(u, r)
      BY <1>1, <1>3, PermitsStep DEF PermitsStepped
    <2>2. permits \in [PermitIds -> PermitRows \cup {NoPermit}] /\ tasks \in [Tasks -> TaskRows]
      BY DEF TypeOK
    <2>3. CASE PermitMinted(u, r)
      BY <1>3, <2>2, <2>3 DEF PermitMinted, Debited, TaskRows
    <2>4. CASE PermitSpent(u, r)
      <3>1. p = r
        BY <1>3, <2>2, <2>4 DEF PermitSpent
      <3>2. permits'[p].task = permits[p].task
        BY <2>2, <2>4, <3>1 DEF PermitSpent, PermitRows, NoPermit
      <3> QED
        BY <1>3, <2>4, <3>1, <3>2 DEF PermitSpent
    <2> QED
      BY <2>1, <2>3, <2>4
  <1>4. ASSUME NEW w \in WindowIds, windows'[w].status # windows[w].status, windows'[w].task = t
        PROVE  tasks'[t].state_revision = tasks[t].state_revision + 1
    BY <1>1, <1>4, WindowStep
    DEF WindowStepped, WindowKept, WindowClosed, WindowOpened, SameWindow
  <1> QED
    BY <1>2, <1>3, <1>4

(* No transaction writes a task, one of its permits or the status of one   *)
(* of its windows without moving the task's revision by exactly one.       *)
THEOREM EveryWriteIsVersioned == Spec => WritesAreVersioned
  <1>1. TypeOK /\ [Next]_vars =>
          [ \A t \in Tasks :
              \/ tasks'[t] # tasks[t]
              \/ \E p \in PermitIds : permits'[p] # permits[p] /\ permits'[p].task = t
              \/ \E w \in WindowIds : windows'[w].status # windows[w].status
                                      /\ windows'[w].task = t
              => tasks'[t].state_revision = tasks[t].state_revision + 1 ]_vars
    BY VersionedStep
  <1> QED
    BY <1>1, TypeCorrect, PTL DEF Spec, WritesAreVersioned
===============================================================================
