------------------------------- MODULE Lifecycle -------------------------------
(***************************************************************************)
(* The life of one task: the command-line processes run, approve, reject   *)
(* and resume (loop/service.py) driving the agent loop (loop/engine.py)    *)
(* against the store (GuardedStore), with evaluate() (Governance) before   *)
(* every action and the sensors (Sensors) after every verify command.      *)
(*                                                                         *)
(* A process is a program counter and the values it read: between two      *)
(* store transactions of one process any other process may run, and any    *)
(* process may be killed at any point, leaving only the database, the      *)
(* worktree and the command it was running behind.  A read of the task row *)
(* followed at once by an update conditional on the revision read is one   *)
(* step: had another write come between, the update would raise and end    *)
(* the process, as Crash does.                                             *)
(* The run_state a step returns and the loop's next look at it are one     *)
(* read.                                                                   *)
(***************************************************************************)
EXTENDS GuardedStore, Governance, Sequences

CONSTANTS
  Task,           (* the task the processes work on                        *)
  Procs,          (* slots for command-line processes                      *)
  ActionOf,       (* the action a fingerprint stands for                   *)
  ProfileIds,     (* what an action may name as a profile                  *)
  ArgvOf,         (* the profiles of the envelope, and their commands      *)
  SensorOf,       (* the sensor each of them declares                      *)
  VerifyProfiles  (* the verify_profiles of the envelope                   *)

RunsProfile(fp, id) ==
  ActionOf[fp].tool = "run_command" /\ ActionOf[fp].profile = id

ASSUME LifecycleAssumption ==
  /\ Task \in Tasks
  /\ \A fp \in Fingerprints : IsAction(ActionOf[fp], ProfileIds)
  /\ DOMAIN ArgvOf \subseteq ProfileIds /\ DOMAIN SensorOf = DOMAIN ArgvOf
  /\ VerifyProfiles \in Seq(ProfileIds)
  /\ \A i \in DOMAIN VerifyProfiles :
       \E fp \in Fingerprints : RunsProfile(fp, VerifyProfiles[i])
  /\ Terminal \cup {"running", "verifying", "awaiting_envelope_revision"} \subseteq WrittenStates
  /\ MaxRevision > 0

KindOf(fp) == ActionKind(ActionOf[fp])
VerifyAction(i) == CHOOSE fp \in Fingerprints : RunsProfile(fp, VerifyProfiles[i])
Profiles == Len(VerifyProfiles)

Sensed == INSTANCE Sensors WITH NoCode <- None

VARIABLES
  procs,      (* the processes                                             *)
  image,      (* how the worktree compares with each window's images       *)
  orphan,     (* whether a command has outlived the process that ran it    *)
  recorded,   (* windows whose observation reached task_runtime            *)
  ran         (* history: the actions run in each window                   *)

worldVars == <<image, orphan, recorded, ran>>
lifecycleVars == <<vars, procs, worldVars>>

(* pc: the next step; steps: iterations left to _run_steps, None when the  *)
(* process makes the single step of a resume; hand: the action in hand;    *)
(* rev: the revision step() read; target: the run_state to write;          *)
(* todo, pass: the verify profiles left, and whether all passed so far;    *)
(* green (history): the verify commands of this verification that passed   *)
(* since anything else last wrote the worktree;                            *)
(* fresh (history): nothing else wrote it since the verify command in hand *)
(* was started.                                                            *)
Idle == [pc |-> "idle", steps |-> None, hand |-> None, rev |-> 0, pending |-> None,
         permit |-> None, window |-> None, claim |-> None, target |-> None,
         todo |-> 0, pass |-> FALSE, green |-> 0, fresh |-> FALSE]

Row == tasks[Task]
Revision == Row.state_revision

Become(p, r) == procs' = [procs EXCEPT ![p] = r]
Goto(p, label) == procs' = [procs EXCEPT ![p].pc = label]
At(p, label) == procs[p].pc = label
Exit(p) == Become(p, Idle)

(* What a process verified is a worktree that is no more.                  *)
Void(r) == [r EXCEPT !.green = 0, !.fresh = FALSE]

(* A verification runs in verifying and stays there.                       *)
Verifying(p) == procs[p].todo > 0

(* A tool of p, which becomes r, writes the worktree.  A verification      *)
(* counts what passed before one of its own commands wrote.                *)
Touch(p, r) ==
  procs' = [other \in Procs |->
              IF other # p THEN Void(procs[other])
              ELSE IF Verifying(p) THEN r ELSE Void(r)]

Killed(p) == Become(p, [Idle EXCEPT !.pc = "killed"])
Free(p) == procs[p].pc \in {"idle", "killed"}

(* cap of _run_steps: a step for every unit of budget, and one more.       *)
Cap == (IF Row.remaining_steps > 0 THEN Row.remaining_steps ELSE 1) + 1
Looping == [Idle EXCEPT !.pc = "check", !.steps = Cap]

LifecycleInit ==
  /\ Init
  /\ procs \in {[[p \in Procs |-> Idle] EXCEPT
                   ![first] = [Idle EXCEPT !.pc = "check", !.steps =
                                 (IF MaxSteps > 0 THEN MaxSteps ELSE 1) + 1]]
                : first \in Procs}
  /\ image = [w \in WindowIds |-> None]
  /\ orphan = FALSE
  /\ recorded = {}
  /\ ran = [w \in WindowIds |-> {}]

OpenWindows == {w \in WindowIds : windows[w].task = Task
                                  /\ windows[w].status = "executing_action"}

(* Somebody writes the worktree.  It may then be either image of a patch   *)
(* whose window is open, or neither.                                       *)
Altered ==
  \E seen \in Seen :
    image' = [w \in WindowIds |->
                IF w \in OpenWindows /\ windows[w].kind = "apply_patch" THEN seen
                ELSE image[w]]

Bug_WritesBlind(run_state, artifact_state) ==
  /\ tasks' = [tasks EXCEPT ![Task].run_state = run_state,
                            ![Task].artifact_state = artifact_state]
  /\ UNCHANGED <<pendings, permits, windows, claims, verdicts, launches>>

Write(run_state, artifact_state) ==
  UpdateTask(Task, Revision, run_state, artifact_state, Row.envelope_hash)
SetState(run_state) == Write(run_state, Row.artifact_state)

(* A step that only moves the process.                                     *)
Quietly == UNCHANGED <<vars, worldVars>>

-----------------------------------------------------------------------------
(* _run_steps and step(): one look at the task, one answer of the model.   *)

LoopHead(p) ==
  /\ At(p, "check")
  /\ IF Row.run_state # "running" THEN Exit(p)
     ELSE IF procs[p].steps = 0 THEN Goto(p, "giveup")
     ELSE procs' = [procs EXCEPT ![p].pc = "read", ![p].steps = @ - 1]
  /\ Quietly

(* _set_error: also where a step made no observation.                      *)
GiveUp(p) ==
  /\ At(p, "giveup")
  /\ IF Row.run_state # "error" THEN SetState("error") ELSE UNCHANGED vars
  /\ Exit(p)
  /\ UNCHANGED worldVars

(* Where step() goes on each verdict.                                      *)
Branch == [Deny |-> "deny", NeedApproval |-> "hitl",
           NeedEnvelopeRevision |-> "revise", Allow |-> "act"]

Verdict(fp) == Evaluate(ArgvOf, ActionOf[fp], Row.remaining_steps)

(* bound: the model asks for approval only while a pending row is free.    *)
Choose(p, fp) ==
  /\ At(p, "read")
  /\ Verdict(fp) = "NeedApproval" => \E q \in PendingIds : pendings[q].task = None
  /\ procs' = [procs EXCEPT ![p].hand = fp, ![p].rev = Revision,
                            ![p].target = Row.run_state,
                            ![p].pc = Branch[Verdict(fp)]]
  /\ Quietly

ChooseFinish(p, outcome) ==
  /\ At(p, "read")
  /\ procs' = [procs EXCEPT ![p].target = outcome, ![p].pc = "finish"]
  /\ Quietly

Bug_AsksAgain(p) == At(p, "deny") /\ Goto(p, "read") /\ Quietly

(* A denied action leaves no observation: the loop gives up, a resumed     *)
(* single step just ends.                                                  *)
Denied(p) ==
  /\ At(p, "deny")
  /\ IF procs[p].steps # None /\ procs[p].target = "running"
       THEN Become(p, [Idle EXCEPT !.pc = "giveup"]) ELSE Exit(p)
  /\ Quietly

AskUser(p) ==
  /\ At(p, "hitl")
  /\ \/ /\ \E q \in PendingIds : RequestApproval(Task, procs[p].hand, procs[p].rev, q)
        /\ Goto(p, "returned")
     \/ /\ \/ Revision # procs[p].rev
           \/ Row.run_state # "running"
           \/ ~NoOpenPending(Task)
        /\ Exit(p)
        /\ UNCHANGED vars
  /\ UNCHANGED worldVars

AskEnvelope(p) ==
  /\ At(p, "revise")
  /\ \/ /\ UpdateTask(Task, procs[p].rev, "awaiting_envelope_revision",
                      Row.artifact_state, Row.envelope_hash)
        /\ Goto(p, "returned")
     \/ Revision # procs[p].rev /\ Exit(p) /\ UNCHANGED vars
  /\ UNCHANGED worldVars

(* The step is over without an observation, and reads the run_state again. *)
Returned(p) ==
  /\ At(p, "returned")
  /\ IF Row.run_state = "running" /\ procs[p].steps # None
       THEN Become(p, [Idle EXCEPT !.pc = "giveup"]) ELSE Exit(p)
  /\ Quietly

-----------------------------------------------------------------------------
(* From a verdict to a window: step() and execute_approved() share it.     *)

Bug_AdoptsByKind(p, w) ==
  ~windows[w].started /\ windows[w].kind = KindOf(procs[p].hand)

Resumable(p, w) ==
  /\ ~windows[w].started
  /\ windows[w].kind = KindOf(procs[p].hand)
  /\ permits[windows[w].permit].fingerprint = procs[p].hand

Retryable(p, w) ==
  /\ windows[w].started
  /\ windows[w].kind = "apply_patch"
  /\ KindOf(procs[p].hand) = "apply_patch"

Adopt(p, w, label) ==
  procs' = [procs EXCEPT ![p].pc = label, ![p].window = w,
                         ![p].permit = windows[w].permit]

(* An open window is taken over if it was not started and is for the same  *)
(* action, recovered if it was started, and otherwise ends the process.    *)
LookForWindow(p) ==
  /\ At(p, "act")
  /\ \/ OpenWindows = {} /\ Goto(p, "permit")
     \/ \E w \in OpenWindows :
          IF Retryable(p, w) THEN Adopt(p, w, "retry")
          ELSE IF Resumable(p, w) THEN Adopt(p, w, "execute")
          ELSE IF /\ windows[w].started
                  /\ windows[w].kind # "apply_patch"
                  /\ procs[p].pending = None
               THEN Adopt(p, w, "recover")
          ELSE Exit(p)
  /\ Quietly

(* step() closes a window some command left open; a command is never       *)
(* run again.                                                              *)
RecoverOther(p) ==
  /\ At(p, "recover")
  /\ \/ \E w \in OpenWindows :
          /\ Recover(Task, Revision, image[w], w)
          /\ IF RecoverState(Task, w, image[w]) = "error"
               THEN Goto(p, "returned") ELSE Exit(p)
     \/ /\ \A w \in OpenWindows : RecoverState(Task, w, image[w]) = None
        /\ Exit(p)
        /\ UNCHANGED vars
  /\ UNCHANGED worldVars

TakePermit(p) ==
  /\ At(p, "permit")
  /\ \/ \E r \in PermitIds :
          /\ CreatePermit(Task, procs[p].hand, Row.envelope_hash, procs[p].rev,
                          procs[p].pending, r)
          /\ procs' = [procs EXCEPT ![p].pc = "consume", ![p].permit = r]
     \/ /\ \/ procs[p].rev # Revision
           \/ ~MayPermit(Task)
           \/ ~NoOpenPermit(Task)
           \/ Row.run_state = "awaiting_approval" /\ procs[p].pending = None
           \/ /\ procs[p].pending # None
              /\ ~PendingBacks(Task, procs[p].hand, procs[p].rev, procs[p].pending)
        /\ Exit(p)
        /\ UNCHANGED vars
  /\ UNCHANGED worldVars

(* The preimage of a patch was read before the permit was created.         *)
OpenWindow(p) ==
  /\ At(p, "consume")
  /\ \/ \E w \in WindowIds :
          /\ ConsumePermit(Task, procs[p].permit, Revision, KindOf(procs[p].hand), w)
          /\ procs' = [procs EXCEPT ![p].pc = "execute", ![p].window = w]
          /\ image' = [image EXCEPT ![w] = "pre"]
     \/ /\ ~PermitFits(Task, procs[p].permit, Revision) \/ ~NoActiveWindow(Task)
        /\ Exit(p)
        /\ UNCHANGED <<vars, image>>
  /\ UNCHANGED <<orphan, recorded, ran>>

Ran(p) == ran' = [ran EXCEPT ![procs[p].window] = @ \cup {procs[p].hand}]

(* tools/executor.py execute(): what it starts, it starts at most once.    *)
MayRun(p) ==
  /\ Authorized(Task, procs[p].permit, procs[p].window, KindOf(procs[p].hand))
  /\ windows[procs[p].window].started =>
       procs[p].claim # None /\ ClaimFits(Task, procs[p].window, procs[p].claim)
  /\ procs[p].claim # None => windows[procs[p].window].started

ExecuteRead(p) ==
  /\ At(p, "execute") /\ KindOf(procs[p].hand) = "read" /\ MayRun(p)
  /\ Goto(p, "complete")
  /\ Ran(p)
  /\ UNCHANGED <<vars, image, orphan, recorded>>

ExecuteCommand(p) ==
  /\ At(p, "execute") /\ MayRun(p)
  /\ KindOf(procs[p].hand) = "run_command"
  /\ StartTool(Task, procs[p].permit, procs[p].window, "run_command")
  /\ procs' = [procs EXCEPT ![p].pc = "running", ![p].fresh = Verifying(p)]
  /\ Ran(p)
  /\ UNCHANGED <<image, orphan, recorded>>

(* The command runs outside every transaction and may write any file, a    *)
(* verify command no less than another.                                    *)
CommandWrites(p) ==
  /\ At(p, "running")
  /\ Touch(p, procs[p])
  /\ Altered
  /\ UNCHANGED <<vars, orphan, recorded, ran>>

(* It raises when its working directory is gone.                           *)
CommandEnds(p) ==
  /\ At(p, "running")
  /\ \E label \in {"complete", "failclose"} : Goto(p, label)
  /\ Quietly

StartPatch(p) ==
  LET w == procs[p].window IN
  \/ StartTool(Task, procs[p].permit, w, "apply_patch")
  \/ /\ procs[p].claim # None
     /\ RestartPatch(Task, procs[p].permit, w, procs[p].claim)

(* The whole patch is applied inside the transaction that starts it; a     *)
(* worktree that already is the postimage is left alone.                   *)
ExecutePatch(p) ==
  /\ At(p, "execute") /\ MayRun(p)
  /\ KindOf(procs[p].hand) = "apply_patch"
  /\ image[procs[p].window] \in {"pre", "post"}
  /\ StartPatch(p)
  /\ image' = [image EXCEPT ![procs[p].window] = "post"]
  /\ Touch(p, [procs[p] EXCEPT !.pc = "complete"])
  /\ Ran(p)
  /\ UNCHANGED <<orphan, recorded>>

(* The writing breaks off: the process is killed between two files, or     *)
(* after the last, and its transaction rolled back; or a write fails and   *)
(* so does putting the files back.  What was written stays.                *)
PatchBreaksOff(p) ==
  /\ At(p, "execute") /\ MayRun(p)
  /\ KindOf(procs[p].hand) = "apply_patch"
  /\ image[procs[p].window] = "pre"
  /\ \E left \in {"neither", "post"} :
       /\ image' = [image EXCEPT ![procs[p].window] = left]
       /\ \/ Touch(p, [Idle EXCEPT !.pc = "killed"])
          \/ left = "neither" /\ Touch(p, [procs[p] EXCEPT !.pc = "failclose"])
  /\ Ran(p)
  /\ UNCHANGED <<vars, orphan, recorded>>

(* Refused, or the patch failed and its files were put back.               *)
ExecuteFails(p) ==
  /\ At(p, "execute")
  /\ \/ ~MayRun(p)
     \/ KindOf(procs[p].hand) = "read"
     \/ KindOf(procs[p].hand) = "apply_patch" /\ image[procs[p].window] # "post"
  /\ Goto(p, "failclose")
  /\ Quietly

(* The window is closed unseen, except after the retry of a patch.         *)
Complete(p) ==
  /\ At(p, "complete")
  /\ IF procs[p].claim # None /\ procs[p].window \notin OpenWindows
       THEN UNCHANGED vars
       ELSE CompleteWindow(Task, procs[p].window, Revision,
                           IF Verifying(p) THEN "verifying" ELSE "running")
  /\ Goto(p, IF Verifying(p) THEN "sense" ELSE "record")
  /\ UNCHANGED worldVars

(* An exception in a tool closes the window and ends the process.          *)
FailClose(p) ==
  /\ At(p, "failclose")
  /\ FailCloseWindow(Task, procs[p].window, Revision,
                     IF Verifying(p) THEN "error" ELSE "running")
  /\ Exit(p)
  /\ UNCHANGED worldVars

(* _append_observation, a transaction after the one that closed the        *)
(* window; then the loop goes on, or begins after an approved action.      *)
Record(p) ==
  /\ At(p, "record")
  /\ recorded' = recorded \cup ({procs[p].window} \ {None})
  /\ IF procs[p].pending # None
       THEN IF Row.run_state = "running" THEN Become(p, Looping) ELSE Exit(p)
     ELSE IF procs[p].steps # None
       THEN Become(p, [Idle EXCEPT !.pc = "check", !.steps = procs[p].steps])
     ELSE Exit(p)
  /\ UNCHANGED <<vars, image, orphan, ran>>

-----------------------------------------------------------------------------
(* _retry_started_patch: recover() first; a patch that is still at its     *)
(* preimage may be applied again by whoever gets the claim.                *)

Bug_RetriesByKind(p) ==
  /\ At(p, "retry")
  /\ \/ \E w \in OpenWindows : /\ Recover(Task, Revision, image[w], w)
                               /\ Goto(p, "record")
     \/ /\ \E w \in OpenWindows : RecoverState(Task, w, image[w]) = None
        /\ procs' = [procs EXCEPT ![p].pc = "claim", ![p].rev = Revision]
        /\ UNCHANGED vars
     \/ OpenWindows = {} /\ Exit(p) /\ UNCHANGED vars
  /\ UNCHANGED worldVars

Retry(p) ==
  /\ At(p, "retry")
  /\ \/ /\ permits[procs[p].permit].fingerprint # procs[p].hand
        /\ Exit(p)
        /\ UNCHANGED vars
     \/ /\ permits[procs[p].permit].fingerprint = procs[p].hand
        /\ \/ \E w \in OpenWindows : /\ Recover(Task, Revision, image[w], w)
                                     /\ Goto(p, "record")
           \/ /\ \E w \in OpenWindows : RecoverState(Task, w, image[w]) = None
              /\ procs' = [procs EXCEPT ![p].pc = "claim", ![p].rev = Revision]
              /\ UNCHANGED vars
           \/ /\ OpenWindows = {}
              /\ Exit(p)
              /\ UNCHANGED vars
  /\ UNCHANGED worldVars

ClaimAttempt(p) ==
  /\ At(p, "claim")
  /\ \/ \E c \in ClaimIds :
          /\ ClaimRecoveredAttempt(Task, procs[p].window, procs[p].rev, c)
          /\ procs' = [procs EXCEPT ![p].pc = "execute", ![p].claim = c]
     \/ /\ \/ Revision # procs[p].rev
           \/ windows[procs[p].window].status # "executing_action"
           \/ ~windows[procs[p].window].started
           \/ ~ClaimFree(Task, procs[p].window, procs[p].rev)
        /\ Exit(p)
        /\ UNCHANGED vars
  /\ UNCHANGED worldVars

-----------------------------------------------------------------------------
(* _finish: what an outcome the model claims turns into.                   *)

FinishState(outcome) ==
  IF outcome = "success" THEN (IF Profiles = 0 THEN "unverified" ELSE "verifying")
  ELSE IF outcome = "failed" THEN "failed" ELSE "blocked"

(* A verify plan the envelope does not bear out raises.                    *)
Finish(p) ==
  /\ At(p, "finish")
  /\ IF Row.run_state # "running" \/ OpenWindows # {}
       THEN IF procs[p].steps # None /\ Row.run_state = "running"
              THEN Become(p, [Idle EXCEPT !.pc = "giveup"]) ELSE Exit(p)
     ELSE IF procs[p].target = "success" /\ ~Sensed!PlanHolds(ArgvOf, VerifyProfiles)
       THEN Exit(p)
       ELSE procs' = [procs EXCEPT ![p].pc = "settle",
                                   ![p].target = FinishState(@)]
  /\ Quietly

Settle(p) ==
  /\ At(p, "settle")
  /\ SetState(procs[p].target)
  /\ IF procs[p].target = "verifying"
       THEN procs' = [procs EXCEPT ![p].pc = "verify", ![p].todo = Profiles,
                                   ![p].pass = TRUE, ![p].window = None,
                                   ![p].green = 0]
       ELSE Exit(p)
  /\ UNCHANGED worldVars

Due(p) == VerifyAction(Profiles - procs[p].todo + 1)

(* Each profile passes evaluate() again; one that is not allowed ends the  *)
(* verification.                                                           *)
VerifyNext(p) ==
  /\ At(p, "verify")
  /\ IF procs[p].todo = 0 THEN Goto(p, "judge")
     ELSE IF Verdict(Due(p)) # "Allow"
       THEN procs' = [procs EXCEPT ![p].pc = "judge", ![p].todo = 0, ![p].pass = FALSE]
     ELSE procs' = [procs EXCEPT ![p].pc = "permit", ![p].rev = Revision,
                                 ![p].hand = Due(p)]
  /\ Quietly

(* Nothing the command or its report says is a failure (history only).     *)
Clean(sensor, result, report) ==
  /\ result.started /\ ~result.timed_out
  /\ \/ sensor = "exit_code" /\ result.exit_code = 0
     \/ /\ sensor = "junit_xml"
        /\ report.form \in {"testsuite", "testsuites"}
        /\ report.own = 0 /\ report.cases = 0
        /\ report.form = "testsuite" \/ report.suites = 0

(* The command that just ran ended somehow, with some report, and the      *)
(* sensor says what it was worth.                                          *)
Outcomes(sensor) ==
  {[pass  |-> Sensed!SensorVerdict(sensor, result, report) = "PASS",
    clean |-> Clean(sensor, result, report)] :
     result \in Sensed!Results, report \in Sensed!Reports}

Sense(p) ==
  /\ At(p, "sense")
  /\ \E outcome \in Outcomes(SensorOf[ActionOf[procs[p].hand].profile]) :
       procs' = [procs EXCEPT ![p].pc = "verify", ![p].todo = @ - 1,
                              ![p].pass = @ /\ outcome.pass,
                              ![p].green = @ + (IF outcome.clean /\ procs[p].fresh
                                                THEN 1 ELSE 0),
                              ![p].fresh = FALSE]
  /\ Quietly

AfterVerify == IF Row.remaining_steps > 0 THEN "running" ELSE "exhausted"

(* An over-limit patch artifact is a failed verification.                  *)
Judge(p) ==
  /\ At(p, "judge")
  /\ \E withinLimit \in BOOLEAN :
       procs' = [procs EXCEPT ![p].pc = "conclude", ![p].target =
                   IF procs[p].pass /\ withinLimit THEN "succeeded" ELSE AfterVerify]
  /\ Quietly

(* Back in the loop, a verification that ran no command left nothing to    *)
(* observe and so ends the task.                                           *)
AfterFailedVerify(p) ==
  IF procs[p].target # "running" \/ procs[p].steps = None THEN Exit(p)
  ELSE IF procs[p].window = None THEN Become(p, [Idle EXCEPT !.pc = "giveup"])
  ELSE Goto(p, "record")

Conclude(p) ==
  /\ At(p, "conclude")
  /\ IF procs[p].target = "succeeded"
       THEN Write("succeeded", "patch_ready") /\ Exit(p)
       ELSE SetState(procs[p].target) /\ AfterFailedVerify(p)
  /\ UNCHANGED worldVars

-----------------------------------------------------------------------------
(* The commands.                                                           *)

UserAnswers(p, fp) ==
  /\ Free(p)
  /\ \E q \in PendingIds : Approve(Task, fp, q) \/ Reject(Task, fp, q)
  /\ UNCHANGED <<procs, worldVars>>

(* The newest pending row of a fingerprint: its revision is the largest.   *)
Newest(fp) ==
  {q \in PendingIds : /\ pendings[q].task = Task
                      /\ pendings[q].fingerprint = fp
                      /\ \A r \in PendingIds :
                           pendings[r].task = Task /\ pendings[r].fingerprint = fp
                           => pendings[r].state_revision <= pendings[q].state_revision}

(* _verify_resume, with no other write between its reads.                  *)
Verified(q) ==
  /\ pendings[q].consumed
  /\ Revision - pendings[q].state_revision \in {0, 1}
  /\ \A w \in OpenWindows : ~(windows[w].kind = "run_command" /\ windows[w].started)

ResumeRefused(p, fp) ==
  /\ Free(p)
  /\ \A q \in Newest(fp) : ~Verified(q)
  /\ Goto(p, "refused")
  /\ Quietly

Bug_FailsEnded(p) ==
  /\ At(p, "refused")
  /\ SetState("error")
  /\ Exit(p)
  /\ UNCHANGED worldVars

(* _fail_resume_verify: a refused resume fails the task.                   *)
FailResume(p) ==
  /\ At(p, "refused")
  /\ IF Row.run_state \in Terminal THEN UNCHANGED vars ELSE SetState("error")
  /\ Exit(p)
  /\ UNCHANGED worldVars

(* An approved action is executed; any other task takes one step.          *)
Resume(p, fp) ==
  /\ Free(p)
  /\ Row.run_state \notin Terminal
  /\ \E q \in Newest(fp) :
       /\ Verified(q)
       /\ IF Row.run_state \in {"awaiting_approval", "executing_action"}
            THEN Become(p, [Idle EXCEPT !.pc = "approved", !.pending = q, !.hand = fp])
            ELSE PendingUnspent(q) /\ Become(p, [Idle EXCEPT !.pc = "read"])
  /\ Quietly

ExecuteApproved(p) ==
  /\ At(p, "approved")
  /\ procs' = [procs EXCEPT ![p].pc = "act", ![p].rev = Revision]
  /\ Quietly

(* Killed anywhere, but not what it was running: a command has nothing to  *)
(* tell it that nobody waits any more.  (Killed inside a patch:            *)
(* PatchBreaksOff.)                                                        *)
Crash(p) ==
  /\ ~Free(p)
  /\ Killed(p)
  /\ orphan' = (orphan \/ At(p, "running"))
  /\ UNCHANGED <<vars, image, recorded, ran>>

OrphanWrites ==
  /\ orphan
  /\ procs' = [p \in Procs |-> Void(procs[p])]
  /\ Altered
  /\ UNCHANGED <<vars, orphan, recorded, ran>>

(* The user, or another program, writes the worktree; or the machine stops *)
(* and files are lost that were written but never synchronised.            *)
Meddle == Altered /\ UNCHANGED <<vars, procs, orphan, recorded, ran>>

-----------------------------------------------------------------------------
Loop(p) ==
  \/ LoopHead(p) \/ GiveUp(p) \/ Denied(p) \/ AskUser(p) \/ AskEnvelope(p)
  \/ Returned(p)
  \/ \E fp \in Fingerprints : Choose(p, fp)
  \/ \E outcome \in {"success", "failed", "blocked"} : ChooseFinish(p, outcome)

Act(p) ==
  \/ LookForWindow(p) \/ RecoverOther(p) \/ TakePermit(p) \/ OpenWindow(p)
  \/ ExecuteRead(p) \/ ExecuteCommand(p) \/ CommandEnds(p)
  \/ ExecutePatch(p) \/ ExecuteFails(p)
  \/ Complete(p) \/ FailClose(p) \/ Record(p)
  \/ Retry(p) \/ ClaimAttempt(p)

Verify(p) ==
  \/ Finish(p) \/ Settle(p) \/ VerifyNext(p) \/ Sense(p) \/ Judge(p) \/ Conclude(p)

Proceed(p) == Loop(p) \/ Act(p) \/ Verify(p) \/ ExecuteApproved(p) \/ FailResume(p)

Command(p) ==
  \E fp \in Fingerprints : UserAnswers(p, fp) \/ Resume(p, fp) \/ ResumeRefused(p, fp)

Mishap(p) == Crash(p) \/ PatchBreaksOff(p) \/ CommandWrites(p)

LifecycleNext ==
  \/ \E p \in Procs : Proceed(p) \/ Command(p) \/ Mishap(p)
  \/ OrphanWrites
  \/ Meddle

LifecycleSpec == LifecycleInit /\ [][LifecycleNext]_lifecycleVars

(* Commands end (they have a timeout), however much they write, and so do  *)
(* calls of the model: every process goes on.  Whether anybody types a     *)
(* command is up to the user.                                              *)
LifecycleFairSpec == LifecycleSpec /\ \A p \in Procs : WF_lifecycleVars(Proceed(p))

(* A user who wants the task to go on resumes it again and again, and the  *)
(* machine is one day left in peace.                                       *)
Disturbed ==
  \/ \E p \in Procs : Crash(p) \/ PatchBreaksOff(p)
  \/ OrphanWrites \/ Meddle

PatientSpec ==
  /\ LifecycleFairSpec
  /\ \A p \in Procs, fp \in Fingerprints : SF_lifecycleVars(Resume(p, fp))
  /\ <>[][~Disturbed]_lifecycleVars

-----------------------------------------------------------------------------
(* The processes are clients of the store: whatever they read, and however *)
(* stale, each of their steps is one of its transactions or none.          *)
ObeysStore == Init /\ [][UNCHANGED vars \/ Next]_vars

(* What governance must keep out, approved or not.                         *)
Forbidden(action) ==
  \/ /\ action.tool \in {"list_dir", "read_file", "apply_patch"}
     /\ \E path \in action.paths : ~path.inside \/ path.envPart \/ path.envName
  \/ /\ action.tool = "run_command"
     /\ action.profile \in DOMAIN ArgvOf => HardForbidden(ArgvOf[action.profile])

(* What runs in a window is the one action its permit names.  It is never  *)
(* one governance forbids, and if it writes outside write_paths its permit *)
(* was minted from a question the user approved, whichever process opens,  *)
(* adopts, retries or resumes the window: an approved action is not        *)
(* evaluated again, and the tool layer itself compares kinds only.         *)
RunsWhatWasPermitted ==
  \A w \in WindowIds : \A fp \in ran[w] :
    /\ fp = permits[windows[w].permit].fingerprint
    /\ ~Forbidden(ActionOf[fp])
    /\ /\ ActionOf[fp].tool = "apply_patch"
       /\ \E path \in ActionOf[fp].paths : ~path.writable
       => permits[windows[w].permit].pending # None

(* A task that waits for approval waits for one question: the newest row   *)
(* is bound to the present revision, or is approved and has just been      *)
(* turned into the permit that is the last write to the task.              *)
WaitingHasQuestion ==
  Row.run_state = "awaiting_approval" =>
    \E q \in PendingIds :
      /\ pendings[q].task = Task
      /\ \/ pendings[q].state_revision = Revision
         \/ \E r \in PermitIds :
              /\ permits[r].pending = q
              /\ ~permits[r].consumed
              /\ permits[r].state_revision = Revision
              /\ pendings[q].state_revision + 1 = Revision

(* A task succeeds only if every verify command passed, and none of them   *)
(* ran on a worktree that a tool wrote afterwards: no other action, no     *)
(* patch broken off, no command whose process was killed.  The verify      *)
(* commands themselves may write what an earlier one of them saw; the code *)
(* runs each of them once, in the order of the profiles, and so it may     *)
(* succeed with a worktree only the last of them has seen.                 *)
SucceededIsVerified ==
  [][ Row.run_state # "succeeded" /\ Row'.run_state = "succeeded"
      => \E p \in Procs : At(p, "conclude") /\ procs[p].green = Profiles ]_lifecycleVars

(* No process leaves a state in which the task has ended.                  *)
TerminalIsFinal ==
  [][Row.run_state \in Terminal => Row'.run_state = Row.run_state]_lifecycleVars

(* An action that observed something is closed as succeeded and its        *)
(* observation stored in one write: once no process is at work, every      *)
(* window of the agent closed as succeeded has its observation stored.     *)
ObservationsKept ==
  (\A p \in Procs : Free(p)) =>
    \A w \in WindowIds :
      windows[w].status = "succeeded" /\ windows[w].source_run_state # "verifying"
      => w \in recorded

(* A patch that was applied when its process died is recorded as success.  *)
PostimageIsSuccess ==
  [][ \A w \in OpenWindows :
        /\ windows[w].kind = "apply_patch" /\ windows[w].started
        /\ image[w] = "post"
        /\ Revision = windows[w].opened_revision
        => Row'.run_state # "error" ]_lifecycleVars

(* A patch is applied in its window at most twice: by whoever opened the   *)
(* window, and again by one of those who found its preimage there          *)
(* afterwards, however many they are and whatever puts the preimage back.  *)
(* The index allows a claim for every revision; that recover asks for the  *)
(* revision the window was opened at makes it one for the window.          *)
RetriedAtMostOnce == \A w \in WindowIds : launches[w] <= 2

(* The commands end: no process loops, or waits, for ever.                 *)
EveryCommandEnds == \A p \in Procs : ~Free(p) ~> Free(p)

(* An action the user approved is carried out, or the task fails.          *)
ApprovedLeavesWaiting ==
  (\E q \in PendingIds : verdicts[q] = "approved")
    ~> Row.run_state # "awaiting_approval"

=============================================================================
