---------------------------- MODULE OneShotProofs ----------------------------
(***************************************************************************)
(* The store implements the one-shot promise, for every set of tasks, rows *)
(* and clients: each transaction is one step of OneShot, or none.          *)
(***************************************************************************)
EXTENDS StoreRefinement, StoreSafetyProofs

-----------------------------------------------------------------------------
(* What a transaction leaves alone.                                        *)

(* The steps left are read off the tasks.                                  *)
LEMMA StepsSame ==
  ASSUME \A t \in Tasks : tasks'[t].remaining_steps = tasks[t].remaining_steps
  PROVE  StepsLeft' = StepsLeft
  BY DEF StepsLeft

(* The questions are read off the pending rows and verdicts.               *)
LEMMA QuestionsSame ==
  ASSUME UNCHANGED <<pendings, verdicts>>
  PROVE  Questions' = Questions
  BY DEF Questions, Question, AnswerOf

(* An attempt is read off its permit and the windows it bought.            *)
LEMMA AttemptSame ==
  ASSUME NEW p \in PermitIds, permits'[p] = permits[p],
         WindowOpen(p)' <=> WindowOpen(p), WindowStarted(p)' <=> WindowStarted(p)
  PROVE  Attempt(p)' = Attempt(p)
  <1>1. Phase(p)' = Phase(p)
    BY DEF Phase
  <1>2. WindowStarted(p)' = WindowStarted(p)
    BY DEF WindowStarted
  <1> QED
    BY <1>1, <1>2 DEF Attempt

(* So are all of them.                                                     *)
LEMMA AttemptsSame ==
  ASSUME \A p \in PermitIds : permits'[p] = permits[p],
         \A p \in PermitIds : WindowOpen(p)' <=> WindowOpen(p),
         \A p \in PermitIds : WindowStarted(p)' <=> WindowStarted(p)
  PROVE  Attempts' = Attempts
  <1>1. \A p \in PermitIds : Attempt(p)' = Attempt(p)
    BY AttemptSame
  <1> QED
    BY <1>1 DEF Attempts

(* They stay while both of those tables do.                                *)
LEMMA WindowsSame ==
  ASSUME UNCHANGED <<permits, windows>>
  PROVE  Attempts' = Attempts
  BY AttemptsSame DEF WindowOpen, WindowStarted

(* Moving a task's state leaves its budget.                                *)
LEMMA MovedKeepsSteps ==
  ASSUME TypeOK, NEW t, NEW run_state, tasks' = Moved(t, run_state)
  PROVE  StepsLeft' = StepsLeft
  BY StepsSame DEF Moved, TypeOK, TaskRows

-----------------------------------------------------------------------------
(* The initial state.                                                      *)

(* An empty store has promised nothing.                                    *)
LEMMA InitPromise == Init => OS!Init
  <1> SUFFICES ASSUME Init PROVE OS!Init
    OBVIOUS
  <1>1. StepsLeft = [t \in Tasks |-> MaxSteps]
    BY DEF Init, StepsLeft
  <1>2. Questions = [q \in PendingIds |-> OS!NotAsked]
    BY DEF Init, EmptyTables, NoPending, Questions, Question, AnswerOf, OS!NotAsked
  <1>3. ASSUME NEW p \in PermitIds PROVE Attempt(p) = OS!NoAttempt
    <2>1. ~WindowStarted(p)
      BY DEF Init, EmptyTables, NoWindow, WindowStarted
    <2>2. WindowStarted(p) = FALSE
      BY <2>1 DEF WindowStarted
    <2> QED
      BY <2>2 DEF Init, EmptyTables, NoPermit, Attempt, Phase, OS!NoAttempt
  <1>4. Attempts = [p \in PermitIds |-> OS!NoAttempt]
    BY <1>3 DEF Attempts
  <1> QED
    BY <1>1, <1>2, <1>4 DEF OS!Init

-----------------------------------------------------------------------------
(* Questions and answers.                                                  *)

(* To ask is to ask.                                                       *)
LEMMA AskPromise ==
  ASSUME WindowInvariant, NEW t \in Tasks, NEW fp \in Fingerprints, NEW q \in PendingIds,
         NEW expected \in Revisions,
         RequestApproval(t, fp, expected, q) \/ InsertPending(t, fp, expected, q)
  PROVE  OS!Ask(t, fp, q)
  <1>1. TypeOK /\ AnsweredIsConsumed
    BY DEF WindowInvariant, ApprovalInvariant, Bounds
  <1>2. pendings[q] = NoPending /\ verdicts[q] = None
    <2>1. pendings[q].task = None
      BY DEF RequestApproval, InsertPending, OpenPending
    <2>2. pendings[q] = NoPending
      BY <1>1, <2>1, StoreAssumption DEF TypeOK, PendingRows
    <2> QED
      BY <1>1, <2>2 DEF AnsweredIsConsumed, NoPending
  <1>3. PICK revision : pendings' = [pendings EXCEPT ![q] =
          [task |-> t, fingerprint |-> fp, state_revision |-> revision, consumed |-> FALSE]]
    BY DEF RequestApproval, InsertPending, OpenPending
  <1>4. verdicts' = verdicts
    BY DEF RequestApproval, InsertPending
  <1>5. Questions[q] = OS!NotAsked
    BY <1>2 DEF Questions, Question, AnswerOf, NoPending, OS!NotAsked
  <1>6. Questions' = [Questions EXCEPT ![q] = [task |-> t, fingerprint |-> fp, answer |-> "open"]]
    <2>1. ASSUME NEW r \in PendingIds, r # q
          PROVE  Question(r)' = Question(r)
      BY <1>1, <1>3, <1>4, <2>1 DEF Question, AnswerOf, TypeOK
    <2>2. Question(q)' = [task |-> t, fingerprint |-> fp, answer |-> "open"]
      BY <1>1, <1>2, <1>3, <1>4, StoreAssumption DEF Question, AnswerOf, TypeOK
    <2> QED
      BY <2>1, <2>2 DEF Questions
  <1>7. StepsLeft' = StepsLeft
    BY <1>1, MovedKeepsSteps, StepsSame DEF RequestApproval, InsertPending
  <1>8. Attempts' = Attempts
    BY WindowsSame DEF RequestApproval, InsertPending
  <1> QED
    BY <1>5, <1>6, <1>7, <1>8 DEF OS!Ask

(* To answer is to answer.                                                 *)
LEMMA AnswerPromise ==
  ASSUME WindowInvariant, NEW t \in Tasks, NEW fp \in Fingerprints, NEW q \in PendingIds,
         Approve(t, fp, q) \/ Reject(t, fp, q)
  PROVE  \E answer \in {"approved", "rejected"} : OS!Answer(q, answer)
  <1>1. TypeOK /\ AnsweredIsConsumed
    BY DEF WindowInvariant, ApprovalInvariant, Bounds
  <1>2. PICK answer \in Answers : Answer(q, answer)
    BY DEF Approve, Reject, Answers
  <1>3. pendings[q].task = t /\ ~pendings[q].consumed /\ verdicts[q] = None
    BY <1>1 DEF Approve, Reject, Answerable, AnsweredIsConsumed
  <1>4. Questions[q].answer = "open"
    BY <1>3, StoreAssumption DEF Questions, Question, AnswerOf
  <1>5. Questions' = [Questions EXCEPT ![q].answer = answer]
    <2>1. ASSUME NEW r \in PendingIds, r # q
          PROVE  Question(r)' = Question(r)
      BY <1>1, <1>2, <2>1 DEF Answer, Question, AnswerOf, TypeOK
    <2>2. verdicts'[q] = answer /\ pendings'[q] = [pendings[q] EXCEPT !.consumed = TRUE]
      BY <1>1, <1>2 DEF Answer, TypeOK
    <2>3. pendings[q] \in PendingRows
      BY <1>1, <1>3, InsertedRows
    <2>4. answer # None
      BY StoreAssumption
    <2>5. Question(q)' = [task |-> pendings[q].task, fingerprint |-> pendings[q].fingerprint,
                          answer |-> answer]
      BY <1>3, <2>2, <2>3, <2>4, StoreAssumption DEF Question, AnswerOf, PendingRows
    <2>6. Question(q)' = [Question(q) EXCEPT !.answer = answer]
      BY <2>5 DEF Question
    <2> QED
      BY <2>1, <2>6 DEF Questions
  <1>6. StepsLeft' = StepsLeft
    BY <1>1, MovedKeepsSteps, StepsSame DEF Approve, Reject
  <1>7. Attempts' = Attempts
    BY <1>2, WindowsSame DEF Answer
  <1> QED
    BY <1>4, <1>5, <1>6, <1>7 DEF OS!Answer, Answers

-----------------------------------------------------------------------------
(* Permits and windows.                                                    *)

(* A window that names a permit is a tool's: its permit is consumed, and   *)
(* belongs to its task.                                                    *)
LEMMA PermitOfWindow ==
  ASSUME WindowInvariant, NEW p \in PermitIds, NEW w \in WindowIds, windows[w].permit = p
  PROVE  /\ permits[p].consumed
         /\ windows[w].task = permits[p].task /\ permits[p].task \in Tasks
         /\ \A v \in WindowIds : windows[v].permit = p => v = w
  <1>1. windows[w].kind \in ToolKinds
    BY StoreAssumption DEF WindowInvariant, UnpermittedWindows
  <1> QED
    BY <1>1 DEF WindowInvariant, PermitBuysOneWindow, PermittedWindows

(* A permit reserves one attempt.                                          *)
LEMMA ReservePromise ==
  ASSUME WindowInvariant, NEW t \in Tasks, NEW fp \in Fingerprints, NEW env \in Envelopes,
         NEW expected \in Revisions, NEW q \in PendingIds \cup {None}, NEW p \in PermitIds,
         CreatePermit(t, fp, env, expected, q, p)
  PROVE  OS!Reserve(t, fp, q, p)
  <1>1. TypeOK /\ AnsweredIsConsumed /\ LivePendingIsAwaited
    BY DEF WindowInvariant, ApprovalInvariant, Bounds
  <1>2. permits[p] = NoPermit
    BY <1>1, StoreAssumption DEF CreatePermit, TypeOK, PermitRows
  <1>3. \A w \in WindowIds : windows[w].permit # p
    BY <1>2, PermitOfWindow DEF NoPermit
  <1>4. WindowStarted(p) = FALSE /\ WindowOpen(p) = FALSE
    BY <1>3 DEF WindowStarted, WindowOpen
  <1>5. Attempts[p] = OS!NoAttempt
    <2>1. permits[p].task = None /\ permits[p].fingerprint = None /\ permits[p].pending = None
      BY <1>2 DEF NoPermit
    <2>2. Phase(p) = "unused"
      BY <2>1 DEF Phase
    <2>3. Attempt(p) = OS!NoAttempt
      BY <1>4, <2>1, <2>2 DEF Attempt, OS!NoAttempt
    <2> QED
      BY <2>3 DEF Attempts
  <1>6. StepsLeft[t] > 0 /\ StepsLeft' = [StepsLeft EXCEPT ![t] = @ - 1]
    BY <1>1 DEF CreatePermit, MayPermit, Debited, StepsLeft, TypeOK, TaskRows
  <1>7. q # None => OS!Approved(t, fp, q)
    <2> SUFFICES ASSUME q # None PROVE OS!Approved(t, fp, q)
      OBVIOUS
    <2>1. q \in PendingIds /\ PendingBacks(t, fp, expected, q) /\ PendingUnspent(q)
      BY DEF CreatePermit
    <2>2. verdicts[q] \in Answers
      BY <1>1, <2>1 DEF AnsweredIsConsumed, PendingBacks, TypeOK
    <2>3. verdicts[q] # "rejected"
      BY <1>1, <2>1 DEF LivePendingIsAwaited, PendingBacks, CreatePermit, AtRevision
    <2>4. verdicts[q] = "approved"
      BY <2>2, <2>3 DEF Answers
    <2>5. Questions[q] = [task |-> t, fingerprint |-> fp, answer |-> "approved"]
      BY <2>1, <2>4, StoreAssumption DEF Questions, Question, AnswerOf, PendingBacks, Answers
    <2>6. \A a \in PermitIds : Attempts[a].approval # q
      BY <2>1 DEF PendingUnspent, Attempts, Attempt
    <2> QED
      BY <2>5, <2>6 DEF OS!Approved
  <1>8. Attempts' = [Attempts EXCEPT ![p] = [task |-> t, fingerprint |-> fp, approval |-> q,
                                             phase |-> "reserved", launched |-> FALSE]]
    <2>1. /\ permits'[p] = [task |-> t, fingerprint |-> fp, envelope_hash |-> env,
                            state_revision |-> expected + 1, consumed |-> FALSE, pending |-> q]
          /\ \A r \in PermitIds : r # p => permits'[r] = permits[r]
          /\ windows' = windows
      BY <1>1 DEF CreatePermit, TypeOK
    <2>2. ASSUME NEW r \in PermitIds, r # p PROVE Attempt(r)' = Attempt(r)
      BY <2>1, <2>2, AttemptSame DEF WindowOpen, WindowStarted
    <2>3. WindowStarted(p)' = FALSE
      BY <1>3, <2>1 DEF WindowStarted
    <2>4. Attempt(p)' = [task |-> t, fingerprint |-> fp, approval |-> q,
                         phase |-> "reserved", launched |-> FALSE]
      <3>1. Phase(p)' = "reserved"
        BY <2>1, StoreAssumption DEF Phase
      <3>2. permits'[p].task = t /\ permits'[p].fingerprint = fp /\ permits'[p].pending = q
        BY <2>1
      <3> QED
        BY <2>3, <3>1, <3>2 DEF Attempt
    <2> QED
      BY <2>2, <2>4 DEF Attempts
  <1>9. Questions' = Questions
    BY QuestionsSame DEF CreatePermit
  <1> QED
    BY <1>5, <1>6, <1>7, <1>8, <1>9 DEF OS!Reserve

(* A window opens the attempt its permit reserved.                         *)
LEMMA OpenPromise ==
  ASSUME WindowInvariant, NEW t \in Tasks, NEW p \in PermitIds, NEW expected \in Revisions,
         NEW kind \in ToolKinds, NEW w \in WindowIds, ConsumePermit(t, p, expected, kind, w)
  PROVE  OS!Open(p)
  <1>1. TypeOK
    BY DEF WindowInvariant, ApprovalInvariant
  <1>2. permits[p].task = t /\ ~permits[p].consumed /\ windows[w].task = None /\ NoActiveWindow(t)
    BY DEF ConsumePermit, PermitFits
  <1>3. \A v \in WindowIds : windows[v].permit # p
    BY <1>2, PermitOfWindow
  <1>4. windows[w] = NoWindow
    BY <1>1, <1>2, StoreAssumption DEF TypeOK, WindowRows
  <1>5. Attempts[p].phase = "reserved"
    BY <1>2, StoreAssumption DEF Attempts, Attempt, Phase
  <1>6. ASSUME NEW b \in PermitIds, Attempts[b].task = Attempts[p].task
        PROVE  Attempts[b].phase # "open"
    <2>1. permits[b].task = t
      BY <1>2, <1>6 DEF Attempts, Attempt
    <2>2. ASSUME WindowOpen(b) PROVE FALSE
      <3>1. PICK v \in WindowIds : windows[v].permit = b /\ windows[v].status = "executing_action"
        BY <2>2 DEF WindowOpen
      <3>2. windows[v].task = t
        BY <2>1, <3>1, PermitOfWindow
      <3> QED
        BY <1>2, <3>1, <3>2 DEF NoActiveWindow, IsActive
    <2> QED
      BY <2>2 DEF Attempts, Attempt, Phase
  <1>7. /\ \A v \in WindowIds : v # w => windows'[v] = windows[v]
        /\ windows'[w].permit = p /\ windows'[w].status = "executing_action"
        /\ windows'[w].started = FALSE
    BY <1>1 DEF ConsumePermit, Window, TypeOK
  <1>8. /\ \A r \in PermitIds : r # p => permits'[r] = permits[r]
        /\ permits'[p] = [permits[p] EXCEPT !.consumed = TRUE]
        /\ permits[p] \in PermitRows
    BY <1>1, <1>2, InsertedRows DEF ConsumePermit, TypeOK
  <1>9. ASSUME NEW r \in PermitIds, r # p PROVE Attempt(r)' = Attempt(r)
    <2>1. windows[w].permit # r /\ windows'[w].permit # r
      BY <1>4, <1>7, <1>9, StoreAssumption DEF NoWindow
    <2>2. WindowOpen(r)' <=> WindowOpen(r)
      BY <1>7, <2>1 DEF WindowOpen
    <2>3. WindowStarted(r)' <=> WindowStarted(r)
      BY <1>7, <2>1 DEF WindowStarted
    <2> QED
      BY <1>8, <1>9, <2>2, <2>3, AttemptSame
  <1>10. Attempt(p)' = [Attempt(p) EXCEPT !.phase = "open"]
    <2>1. WindowOpen(p)'
      BY <1>7 DEF WindowOpen
    <2>2. WindowStarted(p)' = WindowStarted(p)
      BY <1>3, <1>7 DEF WindowStarted
    <2>3. Phase(p)' = "open"
      BY <1>2, <1>8, <2>1, StoreAssumption DEF Phase, PermitRows
    <2> QED
      BY <1>8, <2>2, <2>3 DEF Attempt, PermitRows
  <1>11. Attempts' = [Attempts EXCEPT ![p].phase = "open"]
    BY <1>9, <1>10 DEF Attempts
  <1>12. StepsLeft' = StepsLeft /\ Questions' = Questions
    BY <1>1, MovedKeepsSteps, QuestionsSame DEF ConsumePermit
  <1> QED
    BY <1>5, <1>6, <1>11, <1>12 DEF OS!Open

(* A launch is the launch of an open attempt.                              *)
LEMMA LaunchPromise ==
  ASSUME WindowInvariant, NEW t \in Tasks, NEW p \in PermitIds, NEW w \in WindowIds,
         NEW kind \in ToolKinds, Authorized(t, p, w, kind), Launch(w),
         UNCHANGED <<tasks, pendings, permits, verdicts>>
  PROVE  OS!Launch(p)
  <1>1. TypeOK
    BY DEF WindowInvariant, ApprovalInvariant
  <1>2. windows[w].permit = p /\ windows[w].status = "executing_action" /\ permits[p].consumed
        /\ permits[p].task = t
    BY DEF Authorized
  <1>3. \A v \in WindowIds : /\ windows'[v].permit = windows[v].permit
                             /\ windows'[v].status = windows[v].status
                             /\ v # w => windows'[v].started = windows[v].started
    <2>1. windows[w] \in WindowRows
      BY <1>1, InsertedRows DEF Authorized
    <2>2. windows'[w] = [windows[w] EXCEPT !.started = TRUE]
      BY <1>1 DEF Launch, TypeOK
    <2>3. \A v \in WindowIds : v # w => windows'[v] = windows[v]
      BY <1>1 DEF Launch, TypeOK
    <2> QED
      BY <2>1, <2>2, <2>3 DEF WindowRows
  <1>4. windows'[w].started = TRUE
    BY <1>1, <1>2, InsertedRows DEF Launch, TypeOK, WindowRows, Authorized
  <1>5. Attempts[p].phase = "open"
    BY <1>2, StoreAssumption DEF Attempts, Attempt, Phase, WindowOpen
  <1>6. \A r \in PermitIds : WindowOpen(r)' <=> WindowOpen(r)
    BY <1>3 DEF WindowOpen
  <1>7. ASSUME NEW r \in PermitIds, r # p PROVE Attempt(r)' = Attempt(r)
    <2>1. WindowStarted(r)' <=> WindowStarted(r)
      BY <1>2, <1>3, <1>7 DEF WindowStarted
    <2> QED
      BY <1>6, <2>1, AttemptSame
  <1>8. Attempt(p)' = [Attempt(p) EXCEPT !.launched = TRUE]
    <2>1. WindowStarted(p)' = TRUE
      BY <1>2, <1>3, <1>4 DEF WindowStarted
    <2>2. Phase(p)' = Phase(p)
      BY <1>6 DEF Phase
    <2>3. permits'[p] = permits[p]
      OBVIOUS
    <2>4. Attempt(p)' = [task |-> permits[p].task, fingerprint |-> permits[p].fingerprint,
                         approval |-> permits[p].pending, phase |-> Phase(p),
                         launched |-> TRUE]
      BY <2>1, <2>2, <2>3 DEF Attempt
    <2>5. \A value :
             [Attempt(p) EXCEPT !.launched = value]
             = [task |-> permits[p].task, fingerprint |-> permits[p].fingerprint,
                approval |-> permits[p].pending, phase |-> Phase(p), launched |-> value]
      BY DEF Attempt
    <2> QED
      BY Zenon, <2>4, <2>5
  <1>9. Attempts' = [Attempts EXCEPT ![p].launched = TRUE]
    BY <1>7, <1>8 DEF Attempts
  <1>10. StepsLeft' = StepsLeft /\ Questions' = Questions
    BY StepsSame, QuestionsSame
  <1> QED
    BY <1>5, <1>9, <1>10 DEF OS!Launch

(* Closing a window that is not executing leaves the attempt it was for.   *)
LEMMA ClosePromise ==
  ASSUME WindowInvariant, NEW t \in Tasks, NEW w \in WindowIds, windows[w].task = t,
         NEW status \in {"succeeded", "error"}, NEW run_state, CloseWindow(t, w, status, run_state)
  PROVE  UNCHANGED <<StepsLeft, Questions, Attempts>> \/ \E p \in PermitIds : OS!Close(p)
  <1>1. TypeOK
    BY DEF WindowInvariant, ApprovalInvariant
  <1>2. StepsLeft' = StepsLeft /\ Questions' = Questions
    BY <1>1, MovedKeepsSteps, QuestionsSame DEF CloseWindow
  <1>3. \A v \in WindowIds : /\ windows'[v].permit = windows[v].permit
                             /\ windows'[v].started = windows[v].started
                             /\ v # w => windows'[v].status = windows[v].status
    BY <1>1 DEF CloseWindow, TypeOK, WindowRows, NoWindow
  <1>4. windows'[w].status # "executing_action"
    BY <1>1, InsertedRows DEF CloseWindow, TypeOK, WindowRows
  <1>5. \A r \in PermitIds : WindowStarted(r)' <=> WindowStarted(r)
    BY <1>3 DEF WindowStarted
  <1>6. \A r \in PermitIds : permits'[r] = permits[r]
    BY DEF CloseWindow
  <1>7. CASE windows[w].status # "executing_action"
    <2>1. \A r \in PermitIds : WindowOpen(r)' <=> WindowOpen(r)
      BY <1>3, <1>4, <1>7 DEF WindowOpen
    <2> QED
      BY <1>2, <1>5, <1>6, <2>1, AttemptsSame
  <1>8. CASE windows[w].status = "executing_action"
    <2>1. PICK p \in PermitIds : windows[w].permit = p
      BY <1>8 DEF WindowInvariant, ExecutingIsTool, PermittedWindows
    <2>2. /\ permits[p].consumed /\ permits[p].task \in Tasks
          /\ \A v \in WindowIds : windows[v].permit = p => v = w
      BY <2>1, PermitOfWindow
    <2>3. Attempts[p].phase = "open"
      BY <1>8, <2>1, <2>2, StoreAssumption DEF Attempts, Attempt, Phase, WindowOpen
    <2>4. ASSUME NEW r \in PermitIds, r # p PROVE Attempt(r)' = Attempt(r)
      <3>1. WindowOpen(r)' <=> WindowOpen(r)
        BY <1>3, <2>1, <2>4 DEF WindowOpen
      <3> QED
        BY <1>5, <1>6, <3>1, AttemptSame
    <2>5. Attempt(p)' = [Attempt(p) EXCEPT !.phase = "closed"]
      <3>1. ~WindowOpen(p)'
        BY <1>3, <1>4, <2>2 DEF WindowOpen
      <3>2. Phase(p)' = "closed"
        BY <1>6, <2>2, <3>1, StoreAssumption DEF Phase
      <3>3. WindowStarted(p)' = WindowStarted(p)
        BY <1>5 DEF WindowStarted
      <3> QED
        BY <1>6, <3>2, <3>3 DEF Attempt
    <2>6. Attempts' = [Attempts EXCEPT ![p].phase = "closed"]
      BY <2>4, <2>5 DEF Attempts
    <2> QED
      BY <1>2, <2>3, <2>6 DEF OS!Close
  <1> QED
    BY <1>7, <1>8

-----------------------------------------------------------------------------
(* Updates and applies are none of the promise's business.                 *)

(* Whatever applying writes, the promises do not see it.                   *)
LEMMA ApplyHidden ==
  ASSUME WindowInvariant, NEW t \in Tasks, ApplyStep(t)
  PROVE  UNCHANGED <<StepsLeft, Questions, Attempts>>
  <1>1. TypeOK
    BY DEF WindowInvariant, ApprovalInvariant
  <1>2. \E artifact_state : tasks' = Apply(t, artifact_state)
    BY DEF ApplyStep, EnterApplying, RecoverApply, LeaveApplying, FinishApplied
  <1>3. StepsLeft' = StepsLeft
    BY <1>1, <1>2, StepsSame DEF Apply, TypeOK, TaskRows
  <1>4. UNCHANGED <<pendings, permits, verdicts>>
    BY DEF ApplyStep, EnterApplying, RecoverApply, LeaveApplying, FinishApplied
  <1> DEFINE Alike(v) ==
        /\ windows'[v].permit = windows[v].permit
        /\ windows'[v].started = windows[v].started
        /\ windows'[v].status = "executing_action" <=> windows[v].status = "executing_action"
  <1>5. \A v \in WindowIds : Alike(v)
    <2>1. ASSUME NEW expected, NEW w \in WindowIds, EnterApplying(t, expected, w), NEW v \in WindowIds
          PROVE  Alike(v)
      <3>1. windows[w] = NoWindow
        BY <1>1, <2>1, StoreAssumption DEF EnterApplying, TypeOK, WindowRows
      <3>2. windows'[w] = Window(t, None, "apply_back", "applying", expected + 1, "succeeded")
        BY <1>1, <2>1 DEF EnterApplying, TypeOK
      <3>3. v # w => windows'[v] = windows[v]
        BY <1>1, <2>1 DEF EnterApplying, TypeOK
      <3>4. None # "executing_action"
        BY StoreAssumption DEF WindowStatuses
      <3>5. /\ windows[w].permit = None /\ windows'[w].permit = None
            /\ windows[w].started = FALSE /\ windows'[w].started = FALSE
            /\ windows[w].status = None /\ windows'[w].status = "applying"
        BY <3>1, <3>2 DEF NoWindow, Window
      <3>6. CASE v = w
        BY <3>4, <3>5, <3>6
      <3>7. CASE v # w
        BY <3>3, <3>7
      <3> QED
        BY <3>6, <3>7
    <2>2. ASSUME NEW expected, NEW w \in WindowIds, NEW seen \in Seen,
                 RecoverApply(t, expected, seen, w), NEW v \in WindowIds
          PROVE  Alike(v)
      <3>1. windows[w].status = "applying" /\ windows[w] \in WindowRows
        BY <1>1, <2>2, InsertedRows DEF RecoverApply, LeaveApplying
      <3>2. windows'[w] = [windows[w] EXCEPT !.status = ApplyOutcome(seen).status]
        BY <1>1, <2>2 DEF RecoverApply, LeaveApplying, TypeOK
      <3>3. v # w => windows'[v] = windows[v]
        BY <1>1, <2>2 DEF RecoverApply, LeaveApplying, TypeOK
      <3>4. ApplyOutcome(seen).status # "executing_action"
        <4>1. CASE seen = "post"
          BY <4>1 DEF ApplyOutcome
        <4>2. CASE seen = "pre"
          BY <4>2 DEF ApplyOutcome
        <4>3. CASE seen = "neither"
          BY <4>3 DEF ApplyOutcome
        <4> QED
          BY <4>1, <4>2, <4>3 DEF Seen
      <3> QED
        BY <3>1, <3>2, <3>3, <3>4 DEF WindowRows
    <2>3. ASSUME NEW expected, FinishApplied(t, expected), NEW v \in WindowIds
          PROVE  Alike(v)
      <3>1. CASE windows[v].task = t /\ windows[v].status = "applying"
        <4>1. windows[v] \in WindowRows
          BY <1>1, <3>1, InsertedRows
        <4>2. windows'[v] = [windows[v] EXCEPT !.status = "applied"]
          BY <2>3, <3>1 DEF FinishApplied
        <4> QED
          BY <3>1, <4>1, <4>2 DEF WindowRows
      <3>2. CASE ~(windows[v].task = t /\ windows[v].status = "applying")
        BY <2>3, <3>2 DEF FinishApplied
      <3> QED
        BY <3>1, <3>2
    <2> QED
      BY <2>1, <2>2, <2>3 DEF ApplyStep
  <1>6. \A r \in PermitIds : WindowOpen(r)' <=> WindowOpen(r)
    BY <1>5 DEF WindowOpen
  <1>7. \A r \in PermitIds : WindowStarted(r)' <=> WindowStarted(r)
    BY <1>5 DEF WindowStarted
  <1> QED
    BY <1>3, <1>4, <1>6, <1>7, QuestionsSame, AttemptsSame

-----------------------------------------------------------------------------
(* Every transaction is a step of the promise, or none that it can see.    *)
LEMMA StepPromise ==
  ASSUME WindowInvariant, Next
  PROVE  [OS!Next]_<<StepsLeft, Questions, Attempts>>
  <1>1. PICK t \in Tasks : \/ ApprovalStep(t) \/ PermitStep(t) \/ ToolStep(t)
                           \/ CloseStep(t)    \/ UpdateStep(t) \/ ApplyStep(t)
    BY DEF Next
  <1>2. CASE ApprovalStep(t)
    BY <1>2, AskPromise, AnswerPromise DEF ApprovalStep, OS!Next
  <1>3. CASE PermitStep(t)
    <2>1. ASSUME NEW p \in PermitIds, NEW expected \in Revisions, NEW fp \in Fingerprints,
                 NEW env \in Envelopes, NEW q \in PendingIds \cup {None},
                 CreatePermit(t, fp, env, expected, q, p)
          PROVE  OS!Next
      BY <2>1, ReservePromise DEF OS!Next
    <2>2. ASSUME NEW p \in PermitIds, NEW expected \in Revisions, NEW kind \in ToolKinds,
                 NEW w \in WindowIds, ConsumePermit(t, p, expected, kind, w)
          PROVE  OS!Next
      BY <2>2, OpenPromise DEF OS!Next
    <2> QED
      BY <1>3, <2>1, <2>2 DEF PermitStep
  <1>4. CASE ToolStep(t)
    <2>1. ASSUME NEW w \in WindowIds, NEW p \in PermitIds, NEW kind \in ToolKinds,
                 Authorized(t, p, w, kind), Launch(w), UNCHANGED <<tasks, pendings, permits, verdicts>>
          PROVE  OS!Next
      BY <2>1, LaunchPromise DEF OS!Next
    <2>2. ASSUME NEW w \in WindowIds, NEW p \in PermitIds, NEW c \in ClaimIds, RestartPatch(t, p, w, c)
          PROVE  OS!Next
      BY <2>1, <2>2 DEF RestartPatch, ToolKinds
    <2>3. ASSUME NEW w \in WindowIds, NEW p \in PermitIds, NEW kind \in ToolKinds, StartTool(t, p, w, kind)
          PROVE  OS!Next
      BY <2>1, <2>3 DEF StartTool
    <2>4. ASSUME NEW w \in WindowIds, NEW c \in ClaimIds, NEW expected \in Revisions,
                 ClaimRecoveredAttempt(t, w, expected, c)
          PROVE  UNCHANGED <<StepsLeft, Questions, Attempts>>
      BY <2>4, StepsSame, QuestionsSame, WindowsSame DEF ClaimRecoveredAttempt
    <2> QED
      BY <1>4, <2>2, <2>3, <2>4 DEF ToolStep
  <1>5. CASE CloseStep(t)
    <2>1. PICK w \in WindowIds, status \in {"succeeded", "error"}, run_state \in RunStates :
            windows[w].task = t /\ CloseWindow(t, w, status, run_state)
      BY <1>5, CloseStepCloses
    <2>2. UNCHANGED <<StepsLeft, Questions, Attempts>> \/ \E p \in PermitIds : OS!Close(p)
      BY <2>1, ClosePromise
    <2> QED
      BY <2>2 DEF OS!Next
  <1>6. CASE UpdateStep(t)
    <2>1. \A u \in Tasks : tasks'[u].remaining_steps = tasks[u].remaining_steps
      BY <1>6 DEF UpdateStep, UpdateTask, WindowInvariant, ApprovalInvariant, TypeOK, TaskRows
    <2> QED
      BY <1>6, <2>1, StepsSame, QuestionsSame, WindowsSame DEF UpdateStep, UpdateTask
  <1>7. CASE ApplyStep(t)
    BY <1>7, ApplyHidden
  <1> QED
    BY <1>1, <1>2, <1>3, <1>4, <1>5, <1>6, <1>7

(* Whatever the clients do, and in whatever order, the store behaves as    *)
(* the one-shot promise.                                                   *)
THEOREM StoreKeepsPromise == Spec => KeepsOneShotPromise
  <1>1. WindowInvariant /\ [Next]_vars => [OS!Next]_<<StepsLeft, Questions, Attempts>>
    <2>1. UNCHANGED vars => UNCHANGED <<StepsLeft, Questions, Attempts>>
      BY StepsSame, QuestionsSame, WindowsSame DEF vars
    <2> QED
      BY <2>1, StepPromise
  <1> QED
    BY <1>1, InitPromise, WindowAlways, PTL DEF Spec, KeepsOneShotPromise, OS!Spec, OS!oneShotVars
================================================================================
