---------------------------- MODULE LifecycleProofs ----------------------------
(***************************************************************************)
(* What holds of the processes of one task, however many there are: they   *)
(* obey the store, and what they run is what was permitted.  The proofs    *)
(* keep apart what is true of a process by itself (ProcsOK) and what the   *)
(* rows say of the permit it holds (Backed).                               *)
(***************************************************************************)
EXTENDS Lifecycle, StoreSafetyProofs

Labels == {"idle", "killed", "check", "giveup", "read", "deny", "hitl", "revise",
           "returned", "act", "recover", "permit", "consume", "execute", "running",
           "complete", "failclose", "record", "retry", "claim", "finish", "settle",
           "verify", "sense", "judge", "conclude", "refused", "approved"}

Process ==
  [pc : Labels, steps : Nat \cup {None}, hand : Fingerprints \cup {None}, rev : Nat,
   pending : PendingIds \cup {None}, permit : PermitIds \cup {None},
   window : WindowIds \cup {None}, claim : ClaimIds \cup {None},
   target : RunStates \cup {"success", None}, todo : 0..Profiles,
   pass : BOOLEAN, green : Nat, fresh : BOOLEAN]

(* Governance lets the action pass, with the user's word if it asks for it.*)
Cleared(fp, pending) ==
  /\ fp \in Fingerprints /\ ~Forbidden(ActionOf[fp])
  /\ pending = None => ~LeavesWritePaths(ActionOf[fp])

Holding == {"consume", "execute", "retry", "claim"}
Windowed == {"execute", "running", "complete", "failclose", "retry", "claim"}

(* What a process has in hand where it stands.                             *)
Demands(r) ==
  /\ r.pc = "check" => r.steps \in Nat
  /\ r.pc = "hitl" => r.hand \in Fingerprints /\ ~Forbidden(ActionOf[r.hand])
  /\ r.pc \in Holding \cup {"approved", "act", "permit"} => Cleared(r.hand, r.pending)
  /\ r.pc \in Holding => r.permit \in PermitIds
  /\ r.pc \in Windowed => r.window \in WindowIds
  /\ r.pc = "settle" => r.target \in {"unverified", "verifying", "failed", "blocked"}
  /\ r.pc = "conclude" => r.target \in {"succeeded", "running", "exhausted"}
  /\ r.pc = "sense" => r.todo # 0

ProcsOK ==
  /\ procs \in [Procs -> Process]
  /\ \A p \in Procs : Demands(procs[p])

-----------------------------------------------------------------------------
(* Governance.                                                             *)

(* What evaluate allows, governance does not forbid, and it stays within   *)
(* write_paths; what it asks about is not forbidden either.                *)
LEMMA EvaluateIsSound ==
  ASSUME NEW fp \in Fingerprints
  PROVE  /\ Verdict(fp) \in {"Deny", "NeedApproval", "NeedEnvelopeRevision", "Allow"}
         /\ Verdict(fp) \in {"Allow", "NeedApproval"} => ~Forbidden(ActionOf[fp])
         /\ Verdict(fp) = "Allow" => ~LeavesWritePaths(ActionOf[fp])
  <1> DEFINE action == ActionOf[fp]
  <1>1. action \in [tool : Tools, paths : SUBSET Paths, profile : ProfileIds]
    BY LifecycleAssumption DEF IsAction
  <1> HIDE DEF action
  <1>2. ASSUME ~Fenced(action), action.tool \in {"list_dir", "read_file", "apply_patch"},
               NEW path \in action.paths
        PROVE  path.inside /\ ~path.envPart /\ ~path.envName
    BY <1>2 DEF Fenced, ClassifyRead, ClassifyWrite, CheckPath
  <1>3. ASSUME action.tool = "run_command", Profile(ArgvOf, action) = "allowed"
        PROVE  action.profile \in DOMAIN ArgvOf /\ ~HardForbidden(ArgvOf[action.profile])
    BY <1>3 DEF Profile, ClassifyProfile
  <1>4. Profile(ArgvOf, action) \in {"allowed", "unknown", "hard_forbidden"}
    BY DEF Profile, ClassifyProfile
  <1>5. ~Fenced(action) /\ Profile(ArgvOf, action) = "allowed" => ~Forbidden(action)
    BY <1>2, <1>3 DEF Forbidden
  <1> QED
    BY <1>4, <1>5 DEF action, Verdict, Evaluate

(* A command writes no path of its own.                                    *)
LEMMA CommandLeavesNothing ==
  ASSUME NEW fp \in Fingerprints, ActionOf[fp].tool = "run_command"
  PROVE  ~LeavesWritePaths(ActionOf[fp])
  BY DEF LeavesWritePaths

(* The fingerprint of a verify profile runs that profile.                  *)
LEMMA DueIsCommand ==
  ASSUME NEW i \in 1..Profiles
  PROVE  /\ VerifyAction(i) \in Fingerprints
         /\ ActionOf[VerifyAction(i)].tool = "run_command"
  <1>1. i \in DOMAIN VerifyProfiles
    BY LifecycleAssumption DEF Profiles
  <1>2. \E fp \in Fingerprints : RunsProfile(fp, VerifyProfiles[i])
    BY <1>1, LifecycleAssumption
  <1> QED
    BY <1>2 DEF VerifyAction, RunsProfile

-----------------------------------------------------------------------------
(* One process at a time changes, and it stays well formed.                *)

(* What a process becomes is all that changes.                             *)
LEMMA Becomes ==
  ASSUME ProcsOK, NEW p \in Procs, NEW r \in Process, Demands(r),
         procs' = [procs EXCEPT ![p] = r]
  PROVE  ProcsOK'
  BY DEF ProcsOK

(* A process that begins anew is well formed, wherever it begins.          *)
LEMMA IdleIsProcess ==
  /\ Idle \in Process /\ Demands(Idle)
  /\ \A label \in {"killed", "giveup", "read", "refused"} :
       [Idle EXCEPT !.pc = label] \in Process /\ Demands([Idle EXCEPT !.pc = label])
  /\ \A n \in Nat : /\ [Idle EXCEPT !.pc = "check", !.steps = n] \in Process
                    /\ Demands([Idle EXCEPT !.pc = "check", !.steps = n])
  <1>1. 0 \in 0..Profiles
    BY LifecycleAssumption DEF Profiles
  <1>2. Idle \in Process
    BY <1>1 DEF Idle, Process, Labels
  <1>3. Demands(Idle)
    BY DEF Idle, Demands, Holding, Windowed
  <1>4. ASSUME NEW label \in {"killed", "giveup", "read", "refused"}
        PROVE  /\ [Idle EXCEPT !.pc = label] \in Process
               /\ Demands([Idle EXCEPT !.pc = label])
    <2>1. [Idle EXCEPT !.pc = label] \in Process
      BY <1>2 DEF Process, Labels
    <2>2. [Idle EXCEPT !.pc = label].pc = label
      BY DEF Idle
    <2> QED
      BY <2>1, <2>2 DEF Demands, Holding, Windowed
  <1>5. ASSUME NEW n \in Nat
        PROVE  /\ [Idle EXCEPT !.pc = "check", !.steps = n] \in Process
               /\ Demands([Idle EXCEPT !.pc = "check", !.steps = n])
    <2>1. [Idle EXCEPT !.pc = "check", !.steps = n] \in Process
      BY <1>2 DEF Process, Labels
    <2>2. /\ [Idle EXCEPT !.pc = "check", !.steps = n].pc = "check"
          /\ [Idle EXCEPT !.pc = "check", !.steps = n].steps = n
      BY DEF Idle
    <2> QED
      BY <2>1, <2>2 DEF Demands, Holding, Windowed
  <1> QED
    BY <1>2, <1>3, <1>4, <1>5

(* A process that goes to a label which asks nothing of it, or nothing it  *)
(* does not have already.                                                  *)
LEMMA Goes ==
  ASSUME ProcsOK, NEW p \in Procs, NEW label \in Labels, Goto(p, label),
         \/ label \in {"idle", "killed", "giveup", "read", "deny", "revise", "returned",
                       "recover", "record", "finish", "verify", "judge", "refused"}
         \/ label \in {"complete", "failclose"} /\ procs[p].pc \in Windowed
         \/ label = "sense" /\ procs[p].todo # 0
         \/ label = "permit" /\ procs[p].pc = "act"
  PROVE  ProcsOK'
  <1> DEFINE r == [procs[p] EXCEPT !.pc = label]
  <1>1. procs[p] \in Process /\ Demands(procs[p])
    BY DEF ProcsOK
  <1>2. r \in Process
    BY <1>1 DEF Process
  <1>3. /\ r.pc = label /\ r.hand = procs[p].hand /\ r.pending = procs[p].pending
        /\ r.window = procs[p].window /\ r.todo = procs[p].todo
    BY <1>1 DEF Process
  <1>4. procs' = [procs EXCEPT ![p] = r]
    BY <1>1 DEF Goto, ProcsOK
  <1> HIDE DEF r
  <1>5. Demands(r)
    BY <1>1, <1>3 DEF Demands, Holding, Windowed
  <1> QED
    BY <1>2, <1>4, <1>5, Becomes

(* The row of the task has the type of a row.                              *)
LEMMA RowType ==
  ASSUME TypeOK
  PROVE  Row \in TaskRows
  BY LifecycleAssumption DEF TypeOK, Row

(* A process may leave, give up or die anywhere.                           *)
LEMMA Leaves ==
  ASSUME ProcsOK, NEW p \in Procs, Exit(p) \/ Become(p, [Idle EXCEPT !.pc = "giveup"])
                                 \/ Become(p, [Idle EXCEPT !.pc = "killed"])
  PROVE  ProcsOK'
  BY IdleIsProcess, Becomes DEF Exit, Become

(* _run_steps and step() up to the verdict.                                *)
LEMMA LoopProcs ==
  ASSUME TypeOK, ProcsOK, NEW p \in Procs, Loop(p)
  PROVE  ProcsOK'
  <1>1. procs[p] \in Process /\ Demands(procs[p]) /\ Row \in TaskRows
    BY RowType DEF ProcsOK
  <1>2. CASE LoopHead(p)
    <2>1. CASE procs' = [procs EXCEPT ![p].pc = "read", ![p].steps = @ - 1]
               /\ At(p, "check") /\ procs[p].steps # 0
      <3> DEFINE r == [procs[p] EXCEPT !.pc = "read", !.steps = @ - 1]
      <3>1. procs[p].steps - 1 \in Nat
        BY <1>1, <2>1 DEF Demands, At
      <3>2. r \in Process /\ r.pc = "read"
        BY <1>1, <3>1 DEF Process, Labels
      <3>3. procs' = [procs EXCEPT ![p] = r]
        BY <1>1, <2>1 DEF ProcsOK
      <3> HIDE DEF r
      <3>4. Demands(r)
        BY <3>2 DEF Demands, Holding, Windowed
      <3> QED
        BY <3>2, <3>3, <3>4, Becomes
    <2>2. CASE Exit(p) \/ Goto(p, "giveup")
      BY <2>2, Leaves, Goes DEF Labels
    <2> QED
      BY <1>2, <2>1, <2>2 DEF LoopHead
  <1>3. CASE GiveUp(p) \/ Denied(p) \/ Returned(p)
    BY <1>3, Leaves DEF GiveUp, Denied, Returned
  <1>4. CASE AskUser(p) \/ AskEnvelope(p)
    BY <1>4, Leaves, Goes DEF AskUser, AskEnvelope, Labels
  <1>5. ASSUME NEW fp \in Fingerprints, Choose(p, fp)
        PROVE  ProcsOK'
    <2> DEFINE r == [procs[p] EXCEPT !.pc = Branch[Verdict(fp)], !.hand = fp,
                                     !.rev = Revision, !.target = Row.run_state]
    <2>1. /\ Branch[Verdict(fp)] \in {"deny", "hitl", "revise", "act"}
          /\ Branch[Verdict(fp)] = "hitl" => Verdict(fp) = "NeedApproval"
          /\ Branch[Verdict(fp)] = "act" => Verdict(fp) = "Allow"
      BY EvaluateIsSound DEF Branch
    <2>2. r \in Process
      BY <1>1, <2>1 DEF Process, Labels, Revision, TaskRows
    <2>3. r.pc = Branch[Verdict(fp)] /\ r.hand = fp
      BY <1>1 DEF Process
    <2>4. procs' = [procs EXCEPT ![p] = r]
      BY <1>1, <1>5 DEF Choose, ProcsOK
    <2> HIDE DEF r
    <2>5. Demands(r)
      BY <2>1, <2>3, EvaluateIsSound DEF Demands, Holding, Windowed, Cleared
    <2> QED
      BY <2>2, <2>4, <2>5, Becomes
  <1>6. ASSUME NEW outcome \in {"success", "failed", "blocked"}, ChooseFinish(p, outcome)
        PROVE  ProcsOK'
    <2> DEFINE r == [procs[p] EXCEPT !.pc = "finish", !.target = outcome]
    <2>0. outcome \in RunStates \cup {"success", None} /\ "finish" \in Labels
      BY DEF RunStates, Labels
    <2>1. r \in Process /\ r.pc = "finish"
      BY <1>1, <2>0 DEF Process
    <2>2. procs' = [procs EXCEPT ![p] = r]
      BY <1>1, <1>6 DEF ChooseFinish, ProcsOK
    <2> HIDE DEF r
    <2> QED
      BY <2>1, <2>2, Becomes DEF Demands, Holding, Windowed
  <1> QED
    BY <1>2, <1>3, <1>4, <1>5, <1>6 DEF Loop

(* An open window is a tool's, with a permit of the task.                  *)
LEMMA OpenIsPermitted ==
  ASSUME WindowInvariant, NEW w \in OpenWindows
  PROVE  /\ w \in WindowIds
         /\ windows[w].permit \in PermitIds
         /\ permits[windows[w].permit].task = Task
  <1>1. w \in WindowIds /\ windows[w].task = Task /\ windows[w].status = "executing_action"
    BY DEF OpenWindows
  <1>2. windows[w].kind \in ToolKinds
    BY <1>1 DEF WindowInvariant, ExecutingIsTool
  <1> QED
    BY <1>1, <1>2 DEF WindowInvariant, PermittedWindows, PermitBuysOneWindow

(* A window taken over comes with its permit.                              *)
LEMMA Adopts ==
  ASSUME WindowInvariant, ProcsOK, NEW p \in Procs, procs[p].pc = "act",
         NEW w \in OpenWindows, NEW label \in {"retry", "execute", "recover"},
         Adopt(p, w, label)
  PROVE  ProcsOK'
  <1> DEFINE r == [procs[p] EXCEPT !.pc = label, !.window = w, !.permit = windows[w].permit]
  <1>1. procs[p] \in Process /\ Demands(procs[p])
    BY DEF ProcsOK
  <1>2. label \in Labels
    BY DEF Labels
  <1>3. r \in Process
    BY <1>1, <1>2, OpenIsPermitted DEF Process
  <1>4. /\ r.pc = label /\ r.window = w /\ r.permit = windows[w].permit
        /\ r.hand = procs[p].hand /\ r.pending = procs[p].pending
    BY <1>1 DEF Process
  <1>5. procs' = [procs EXCEPT ![p] = r]
    BY <1>1 DEF Adopt, ProcsOK
  <1> HIDE DEF r
  <1>6. Demands(r)
    BY <1>1, <1>4, OpenIsPermitted DEF Demands, Holding, Windowed
  <1> QED
    BY <1>3, <1>5, <1>6, Becomes

(* A process loses what it verified, and nothing else.                     *)
LEMMA Voids ==
  ASSUME NEW s \in Process
  PROVE  /\ Void(s) \in Process /\ (Demands(s) => Demands(Void(s)))
         /\ Void(s).pc = s.pc /\ Void(s).hand = s.hand /\ Void(s).permit = s.permit
         /\ Void(s).window = s.window /\ Void(s).claim = s.claim /\ Void(s).rev = s.rev
         /\ Void(s).pass = s.pass /\ Void(s).target = s.target
  <1> DEFINE t == Void(s)
  <1>1. t \in Process
    BY DEF Void, Process
  <1>2. /\ t.pc = s.pc /\ t.steps = s.steps /\ t.hand = s.hand /\ t.pending = s.pending
        /\ t.permit = s.permit /\ t.window = s.window /\ t.target = s.target
        /\ t.todo = s.todo /\ t.claim = s.claim /\ t.rev = s.rev /\ t.pass = s.pass
    BY DEF Void, Process
  <1> HIDE DEF t
  <1>3. Demands(s) => Demands(t)
    BY <1>2 DEF Demands
  <1> QED
    BY <1>1, <1>2, <1>3 DEF t

(* A tool that touches the worktree voids what the others verified.        *)
LEMMA Touches ==
  ASSUME ProcsOK, NEW p \in Procs, NEW r \in Process, Demands(r), Touch(p, r)
  PROVE  ProcsOK'
  <1>1. ASSUME NEW q \in Procs
        PROVE  procs'[q] \in Process /\ Demands(procs'[q])
    <2>1. procs'[q] \in {r, Void(r), Void(procs[q])}
      BY DEF Touch
    <2> QED
      BY <2>1, Voids DEF ProcsOK
  <1>2. procs' = [q \in Procs |-> procs'[q]]
    BY DEF Touch
  <1> QED
    BY <1>1, <1>2 DEF ProcsOK

(* A tool that touches the worktree takes its process with it.             *)
LEMMA TouchesAndGoes ==
  ASSUME ProcsOK, NEW p \in Procs, NEW label \in {"complete", "failclose"},
         procs[p].pc = "execute", Touch(p, [procs[p] EXCEPT !.pc = label])
  PROVE  ProcsOK'
  <1> DEFINE r == [procs[p] EXCEPT !.pc = label]
  <1>1. procs[p] \in Process /\ Demands(procs[p])
    BY DEF ProcsOK
  <1>2. label \in Labels
    BY DEF Labels
  <1>3. r \in Process /\ r.pc = label /\ r.window = procs[p].window
    BY <1>1, <1>2 DEF Process
  <1> HIDE DEF r
  <1>4. Demands(r)
    BY <1>1, <1>3 DEF Demands, Holding, Windowed
  <1> QED
    BY <1>3, <1>4, Touches DEF r

(* From the verdict to the observation.                                    *)
LEMMA ActProcs ==
  ASSUME WindowInvariant, ProcsOK, NEW p \in Procs, Act(p)
  PROVE  ProcsOK'
  <1>1. procs[p] \in Process /\ Demands(procs[p]) /\ Row \in TaskRows
    BY RowType DEF ProcsOK, WindowInvariant, ApprovalInvariant
  <1>2. CASE LookForWindow(p)
    BY <1>1, <1>2, Leaves, Goes, Adopts DEF LookForWindow, At, Labels
  <1>3. CASE RecoverOther(p)
    BY <1>3, Leaves, Goes DEF RecoverOther, Labels
  <1>4. CASE TakePermit(p)
    <2>1. ASSUME NEW n \in PermitIds, At(p, "permit"),
                 procs' = [procs EXCEPT ![p].pc = "consume", ![p].permit = n]
          PROVE  ProcsOK'
      <3> DEFINE r == [procs[p] EXCEPT !.pc = "consume", !.permit = n]
      <3>1. "consume" \in Labels
        BY DEF Labels
      <3>2. /\ r \in Process /\ r.pc = "consume" /\ r.permit = n
            /\ r.hand = procs[p].hand /\ r.pending = procs[p].pending
        BY <1>1, <3>1 DEF Process
      <3>3. procs' = [procs EXCEPT ![p] = r]
        BY <1>1, <2>1 DEF ProcsOK
      <3> HIDE DEF r
      <3>4. Demands(r)
        BY <1>1, <2>1, <3>2 DEF Demands, Holding, Windowed, At
      <3> QED
        BY <3>2, <3>3, <3>4, Becomes
    <2> QED
      BY <1>4, <2>1, Leaves DEF TakePermit
  <1>5. CASE OpenWindow(p)
    <2>1. ASSUME NEW w \in WindowIds, At(p, "consume"),
                 procs' = [procs EXCEPT ![p].pc = "execute", ![p].window = w]
          PROVE  ProcsOK'
      <3> DEFINE r == [procs[p] EXCEPT !.pc = "execute", !.window = w]
      <3>1. "execute" \in Labels
        BY DEF Labels
      <3>2. /\ r \in Process /\ r.pc = "execute" /\ r.window = w /\ r.permit = procs[p].permit
            /\ r.hand = procs[p].hand /\ r.pending = procs[p].pending
        BY <1>1, <3>1 DEF Process
      <3>3. procs' = [procs EXCEPT ![p] = r]
        BY <1>1, <2>1 DEF ProcsOK
      <3> HIDE DEF r
      <3>4. Demands(r)
        BY <1>1, <2>1, <3>2 DEF Demands, Holding, Windowed, At
      <3> QED
        BY <3>2, <3>3, <3>4, Becomes
    <2> QED
      BY <1>5, <2>1, Leaves DEF OpenWindow
  <1>6. CASE ExecuteRead(p) \/ ExecuteFails(p)
    BY <1>6, Goes DEF ExecuteRead, ExecuteFails, Labels, At, Windowed
  <1>7. CASE ExecuteCommand(p)
    <2> DEFINE fresh == Verifying(p)
               r == [procs[p] EXCEPT !.pc = "running", !.fresh = fresh]
    <2>1. "running" \in Labels /\ fresh \in BOOLEAN
      BY DEF Labels, Verifying
    <2>2. procs' = [procs EXCEPT ![p] = r]
      BY <1>1, <1>7 DEF ExecuteCommand, ProcsOK
    <2> HIDE DEF fresh
    <2>3. r \in Process /\ r.pc = "running" /\ r.window = procs[p].window
      BY <1>1, <2>1 DEF Process
    <2> HIDE DEF r
    <2>4. Demands(r)
      BY <1>1, <1>7, <2>3 DEF ExecuteCommand, At, Demands, Holding, Windowed
    <2> QED
      BY <2>2, <2>3, <2>4, Becomes
  <1>7a. CASE ExecutePatch(p)
    BY <1>7a, TouchesAndGoes DEF ExecutePatch, At
  <1>8. CASE CommandEnds(p)
    BY <1>8, Goes DEF CommandEnds, Labels, At, Windowed
  <1>9. CASE Complete(p)
    <2>1. procs[p].todo \in Nat
      BY <1>1, LifecycleAssumption DEF Process, Profiles
    <2> QED
      BY <1>9, <2>1, Goes DEF Complete, Verifying, Labels
  <1>10. CASE FailClose(p)
    BY <1>10, Leaves DEF FailClose
  <1>11. CASE Record(p)
    <2>1. Cap \in Nat
      BY <1>1 DEF Cap, TaskRows
    <2>2. ASSUME NEW n \in Nat, Become(p, [Idle EXCEPT !.pc = "check", !.steps = n])
          PROVE  ProcsOK'
      BY <2>2, IdleIsProcess, Becomes DEF Become
    <2>3. procs[p].steps # None => procs[p].steps \in Nat
      BY <1>1 DEF Process
    <2> QED
      BY <1>11, <2>1, <2>2, <2>3, Leaves DEF Record, Looping
  <1>12. CASE Retry(p)
    <2>1. ASSUME At(p, "retry"),
                 procs' = [procs EXCEPT ![p].pc = "claim", ![p].rev = Revision]
          PROVE  ProcsOK'
      <3> DEFINE r == [procs[p] EXCEPT !.pc = "claim", !.rev = Revision]
      <3>1. "claim" \in Labels /\ Revision \in Nat
        BY <1>1 DEF Labels, Revision, TaskRows
      <3>2. /\ r \in Process /\ r.pc = "claim" /\ r.window = procs[p].window
            /\ r.permit = procs[p].permit /\ r.hand = procs[p].hand
            /\ r.pending = procs[p].pending
        BY <1>1, <3>1 DEF Process
      <3>3. procs' = [procs EXCEPT ![p] = r]
        BY <1>1, <2>1 DEF ProcsOK
      <3> HIDE DEF r
      <3>4. Demands(r)
        BY <1>1, <2>1, <3>2 DEF Demands, Holding, Windowed, At
      <3> QED
        BY <3>2, <3>3, <3>4, Becomes
    <2> QED
      BY <1>12, <2>1, Leaves, Goes DEF Retry, Labels
  <1>13. CASE ClaimAttempt(p)
    <2>1. ASSUME NEW c \in ClaimIds, At(p, "claim"),
                 procs' = [procs EXCEPT ![p].pc = "execute", ![p].claim = c]
          PROVE  ProcsOK'
      <3> DEFINE r == [procs[p] EXCEPT !.pc = "execute", !.claim = c]
      <3>1. "execute" \in Labels
        BY DEF Labels
      <3>2. /\ r \in Process /\ r.pc = "execute" /\ r.window = procs[p].window
            /\ r.permit = procs[p].permit /\ r.hand = procs[p].hand
            /\ r.pending = procs[p].pending
        BY <1>1, <3>1 DEF Process
      <3>3. procs' = [procs EXCEPT ![p] = r]
        BY <1>1, <2>1 DEF ProcsOK
      <3> HIDE DEF r
      <3>4. Demands(r)
        BY <1>1, <2>1, <3>2 DEF Demands, Holding, Windowed, At
      <3> QED
        BY <3>2, <3>3, <3>4, Becomes
    <2> QED
      BY <1>13, <2>1, Leaves DEF ClaimAttempt
  <1> QED
    BY <1>2, <1>3, <1>4, <1>5, <1>6, <1>7, <1>7a, <1>8, <1>9, <1>10, <1>11, <1>12, <1>13 DEF Act

(* _finish and the verification.                                           *)
LEMMA VerifyProcs ==
  ASSUME TypeOK, ProcsOK, NEW p \in Procs, Verify(p)
  PROVE  ProcsOK'
  <1>1. procs[p] \in Process /\ Demands(procs[p]) /\ Row \in TaskRows
    BY RowType DEF ProcsOK
  <1>2. Profiles \in Nat /\ procs[p].todo \in 0..Profiles
    BY <1>1, LifecycleAssumption DEF Process, Profiles
  <1>3. CASE Finish(p)
    <2>1. ASSUME procs' = [procs EXCEPT ![p].pc = "settle", ![p].target = FinishState(@)]
          PROVE  ProcsOK'
      <3> DEFINE state == FinishState(procs[p].target)
                 r == [procs[p] EXCEPT !.pc = "settle", !.target = state]
      <3>1. state \in {"unverified", "verifying", "failed", "blocked"}
        BY DEF FinishState
      <3>2. "settle" \in Labels /\ state \in RunStates
        BY <3>1 DEF Labels, RunStates
      <3>3. procs' = [procs EXCEPT ![p] = r]
        BY <1>1, <2>1 DEF ProcsOK
      <3> HIDE DEF state
      <3>4. r \in Process /\ r.pc = "settle" /\ r.target = state
        BY <1>1, <3>2 DEF Process
      <3> HIDE DEF r
      <3>5. Demands(r)
        BY <3>1, <3>4 DEF Demands, Holding, Windowed
      <3> QED
        BY <3>3, <3>4, <3>5, Becomes
    <2> QED
      BY <1>3, <2>1, Leaves DEF Finish
  <1>4. CASE Settle(p)
    <2>1. ASSUME procs' = [procs EXCEPT ![p].pc = "verify", ![p].todo = Profiles,
                                        ![p].pass = TRUE, ![p].window = None, ![p].green = 0]
          PROVE  ProcsOK'
      <3> DEFINE r == [procs[p] EXCEPT !.pc = "verify", !.todo = Profiles, !.pass = TRUE,
                                       !.window = None, !.green = 0]
      <3>1. "verify" \in Labels /\ Profiles \in 0..Profiles
        BY <1>2 DEF Labels
      <3>2. r \in Process /\ r.pc = "verify"
        BY <1>1, <3>1 DEF Process
      <3>3. procs' = [procs EXCEPT ![p] = r]
        BY <1>1, <2>1 DEF ProcsOK
      <3> HIDE DEF r
      <3> QED
        BY <3>2, <3>3, Becomes DEF Demands, Holding, Windowed
    <2> QED
      BY <1>4, <2>1, Leaves DEF Settle
  <1>5. CASE VerifyNext(p)
    <2>1. CASE procs[p].todo = 0
      BY <1>5, <2>1, Goes DEF VerifyNext, Labels
    <2>2. CASE procs[p].todo # 0 /\ Verdict(Due(p)) # "Allow"
      <3> DEFINE r == [procs[p] EXCEPT !.pc = "judge", !.todo = 0, !.pass = FALSE]
      <3>1. "judge" \in Labels /\ 0 \in 0..Profiles
        BY <1>2 DEF Labels
      <3>2. r \in Process /\ r.pc = "judge"
        BY <1>1, <3>1 DEF Process
      <3>3. procs' = [procs EXCEPT ![p] = r]
        BY <1>1, <1>5, <2>2 DEF VerifyNext, ProcsOK
      <3> HIDE DEF r
      <3> QED
        BY <3>2, <3>3, Becomes DEF Demands, Holding, Windowed
    <2>3. CASE procs[p].todo # 0 /\ Verdict(Due(p)) = "Allow"
      <3> DEFINE fp == Due(p)
                 r == [procs[p] EXCEPT !.pc = "permit", !.rev = Revision, !.hand = fp]
      <3>1. Profiles - procs[p].todo + 1 \in 1..Profiles
        BY <1>2, <2>3
      <3>2. fp \in Fingerprints
        BY <3>1, DueIsCommand DEF Due
      <3>3. "permit" \in Labels /\ Revision \in Nat
        BY <1>1 DEF Labels, Revision, TaskRows
      <3>4. procs' = [procs EXCEPT ![p] = r]
        BY <1>1, <1>5, <2>3 DEF VerifyNext, ProcsOK
      <3>5. Cleared(fp, procs[p].pending)
        BY <2>3, <3>2, EvaluateIsSound DEF Cleared
      <3> HIDE DEF fp
      <3>6. /\ r \in Process /\ r.pc = "permit" /\ r.hand = fp
            /\ r.pending = procs[p].pending
        BY <1>1, <3>2, <3>3 DEF Process
      <3> HIDE DEF r
      <3>7. Demands(r)
        BY <3>5, <3>6 DEF Demands, Holding, Windowed
      <3> QED
        BY <3>4, <3>6, <3>7, Becomes
    <2> QED
      BY <2>1, <2>2, <2>3
  <1>6. CASE Sense(p)
    <2>1. PICK outcome \in Outcomes(SensorOf[ActionOf[procs[p].hand].profile]) :
            procs' = [procs EXCEPT ![p].pc = "verify", ![p].todo = @ - 1,
                                   ![p].pass = @ /\ outcome.pass,
                                   ![p].green = @ + (IF outcome.clean /\ procs[p].fresh
                                                     THEN 1 ELSE 0),
                                   ![p].fresh = FALSE]
      BY <1>6 DEF Sense
    <2> DEFINE left == procs[p].todo - 1
               pass == procs[p].pass /\ outcome.pass
               green == procs[p].green + (IF outcome.clean /\ procs[p].fresh THEN 1 ELSE 0)
               fresh == FALSE
               next == [procs[p] EXCEPT !.pc = "verify", !.todo = left, !.pass = pass]
               r == [next EXCEPT !.green = green, !.fresh = fresh]
    <2>2. procs[p].todo # 0
      BY <1>1, <1>6 DEF Demands, Sense, At
    <2>3. left \in 0..Profiles /\ green \in Nat /\ "verify" \in Labels
      BY <1>1, <1>2, <2>2 DEF Process, Labels
    <2>4. pass \in BOOLEAN /\ fresh \in BOOLEAN
      OBVIOUS
    <2>5. procs' = [procs EXCEPT ![p] = r]
      BY <1>1, <2>1 DEF ProcsOK
    <2> HIDE DEF left, pass, green, fresh
    <2>6. next \in Process /\ next.pc = "verify"
      BY <1>1, <2>3, <2>4 DEF Process
    <2> HIDE DEF next
    <2>7. r \in Process /\ r.pc = "verify"
      BY <2>3, <2>4, <2>6 DEF Process
    <2> HIDE DEF r
    <2> QED
      BY <2>5, <2>7, Becomes DEF Demands, Holding, Windowed
  <1>7. CASE Judge(p)
    <2>1. PICK withinLimit \in BOOLEAN :
            procs' = [procs EXCEPT ![p].pc = "conclude", ![p].target =
                        IF procs[p].pass /\ withinLimit THEN "succeeded" ELSE AfterVerify]
      BY <1>7 DEF Judge
    <2> DEFINE state == IF procs[p].pass /\ withinLimit THEN "succeeded" ELSE AfterVerify
               r == [procs[p] EXCEPT !.pc = "conclude", !.target = state]
    <2>2. state \in {"succeeded", "running", "exhausted"}
      BY DEF AfterVerify
    <2>3. procs' = [procs EXCEPT ![p] = r]
      BY <1>1, <2>1 DEF ProcsOK
    <2> HIDE DEF state
    <2>4. "conclude" \in Labels /\ state \in RunStates
      BY <2>2 DEF Labels, RunStates
    <2>5. r \in Process /\ r.pc = "conclude" /\ r.target = state
      BY <1>1, <2>4 DEF Process
    <2> HIDE DEF r
    <2>6. Demands(r)
      BY <2>2, <2>5 DEF Demands, Holding, Windowed
    <2> QED
      BY <2>3, <2>5, <2>6, Becomes
  <1>8. CASE Conclude(p)
    BY <1>8, Leaves, Goes DEF Conclude, AfterFailedVerify, Labels
  <1> QED
    BY <1>3, <1>4, <1>5, <1>6, <1>7, <1>8 DEF Verify

(* A question was put to the user only about what governance does not      *)
(* forbid.                                                                 *)
PendingsCleared ==
  \A q \in PendingIds : pendings[q].task # None =>
    pendings[q].fingerprint \in Fingerprints /\ ~Forbidden(ActionOf[pendings[q].fingerprint])

(* The commands, and kills.                                                *)
LEMMA CommandProcs ==
  ASSUME TypeOK, PendingsCleared, ProcsOK, NEW p \in Procs,
         ExecuteApproved(p) \/ FailResume(p) \/ Command(p) \/ Mishap(p)
  PROVE  ProcsOK'
  <1>1. procs[p] \in Process /\ Demands(procs[p]) /\ Row \in TaskRows
    BY RowType DEF ProcsOK
  <1>2. CASE ExecuteApproved(p)
    <2> DEFINE r == [procs[p] EXCEPT !.pc = "act", !.rev = Revision]
    <2>1. "act" \in Labels /\ Revision \in Nat
      BY <1>1 DEF Labels, Revision, TaskRows
    <2>2. r \in Process /\ r.pc = "act" /\ r.hand = procs[p].hand /\ r.pending = procs[p].pending
      BY <1>1, <2>1 DEF Process
    <2>3. procs' = [procs EXCEPT ![p] = r]
      BY <1>1, <1>2 DEF ExecuteApproved, ProcsOK
    <2> HIDE DEF r
    <2>4. Demands(r)
      BY <1>1, <1>2, <2>2 DEF ExecuteApproved, At, Demands, Holding, Windowed
    <2> QED
      BY <2>2, <2>3, <2>4, Becomes
  <1>3. CASE FailResume(p) \/ Crash(p)
    BY <1>3, Leaves DEF FailResume, Crash, Killed
  <1>4. ASSUME NEW fp \in Fingerprints, UserAnswers(p, fp)
        PROVE  ProcsOK'
    BY <1>4 DEF UserAnswers, ProcsOK
  <1>5. ASSUME NEW fp \in Fingerprints, ResumeRefused(p, fp)
        PROVE  ProcsOK'
    BY <1>5, Goes DEF ResumeRefused, Labels
  <1>6. ASSUME NEW fp \in Fingerprints, Resume(p, fp)
        PROVE  ProcsOK'
    <2>1. ASSUME Become(p, [Idle EXCEPT !.pc = "read"])
          PROVE  ProcsOK'
      BY <2>1, IdleIsProcess, Becomes DEF Become
    <2>2. ASSUME NEW q \in Newest(fp),
                 Become(p, [Idle EXCEPT !.pc = "approved", !.pending = q, !.hand = fp])
          PROVE  ProcsOK'
      <3> DEFINE r == [Idle EXCEPT !.pc = "approved", !.pending = q, !.hand = fp]
      <3>1. q \in PendingIds /\ ~Forbidden(ActionOf[fp])
        BY StoreAssumption, LifecycleAssumption DEF Newest, PendingsCleared
      <3>2. "approved" \in Labels
        BY DEF Labels
      <3>3. r \in Process
        BY <3>1, <3>2, IdleIsProcess DEF Process
      <3>4. r.pc = "approved" /\ r.hand = fp /\ r.pending = q
        BY DEF Idle
      <3> HIDE DEF r
      <3>5. Demands(r)
        BY <3>1, <3>4, StoreAssumption DEF Demands, Holding, Windowed, Cleared
      <3> QED
        BY <2>2, <3>3, <3>5, Becomes DEF Become, r
    <2> QED
      BY <1>6, <2>1, <2>2 DEF Resume
  <1>7. CASE PatchBreaksOff(p)
    BY <1>7, IdleIsProcess, Touches, TouchesAndGoes DEF PatchBreaksOff, At
  <1>8. CASE CommandWrites(p)
    BY <1>1, <1>8, Touches DEF CommandWrites
  <1> QED
    BY <1>2, <1>3, <1>4, <1>5, <1>6, <1>7, <1>8 DEF Command, Mishap

-----------------------------------------------------------------------------
(* The store: each step of a process is one of its transactions.           *)

InRange == Revision \in Revisions

ImagesOK ==
  /\ image \in [WindowIds -> Seen \cup {None}]
  /\ \A w \in WindowIds : windows[w].task # None => image[w] \in Seen

(* No question is asked, no permit minted or spent, no window opened; and  *)
(* if the task is written, it does not wait for an answer afterwards.      *)
Calm ==
  /\ \A q \in PendingIds : /\ pendings'[q].task = pendings[q].task
                          /\ pendings'[q].fingerprint = pendings[q].fingerprint
                          /\ pendings'[q].state_revision = pendings[q].state_revision
  /\ permits' = permits
  /\ Row' = Row \/ Row'.run_state # "awaiting_approval"
  /\ \A w \in WindowIds : /\ windows'[w].task = windows[w].task
                         /\ windows'[w].permit = windows[w].permit

(* A transaction that writes a task found it below the bound.              *)
LEMMA BelowBound ==
  ASSUME TypeOK, Next, NEW t \in Tasks
  PROVE  tasks'[t] = tasks[t] \/ tasks[t].state_revision < MaxRevision
  <1>1. PICK u \in Tasks : \/ ApprovalStep(u) \/ PermitStep(u) \/ ToolStep(u)
                           \/ CloseStep(u)    \/ UpdateStep(u) \/ ApplyStep(u)
    BY DEF Next
  <1>2. tasks \in [Tasks -> TaskRows]
    BY DEF TypeOK
  <1>3. CASE ApprovalStep(u)
    BY <1>2, <1>3 DEF ApprovalStep, RequestApproval, InsertPending, Approve, Reject,
                      Moved, AtRevision
  <1>4. CASE PermitStep(u)
    BY <1>2, <1>4 DEF PermitStep, CreatePermit, ConsumePermit, Debited, Moved, AtRevision
  <1>5. CASE ToolStep(u)
    BY <1>5 DEF ToolStep, StartTool, RestartPatch, ClaimRecoveredAttempt
  <1>6. CASE CloseStep(u)
    BY <1>2, <1>6 DEF CloseStep, Recover, CompleteWindow, FailCloseWindow, CloseWindow,
                      Moved, AtRevision
  <1>7. CASE UpdateStep(u)
    BY <1>2, <1>7 DEF UpdateStep, UpdateTask, AtRevision
  <1>8. CASE ApplyStep(u)
    BY <1>2, <1>8 DEF ApplyStep, EnterApplying, RecoverApply, LeaveApplying, FinishApplied,
                      Apply, AtRevision
  <1> QED
    BY <1>1, <1>3, <1>4, <1>5, <1>6, <1>7, <1>8

(* The revision stays within its bound.                                    *)
LEMMA StepInRange ==
  ASSUME TypeOK, InRange, [Next]_vars
  PROVE  InRange'
  <1>1. CASE UNCHANGED vars
    BY <1>1 DEF InRange, Revision, Row, vars
  <1>2. CASE Next
    <2>1. Revision \in Nat /\ 0 < Revision /\ Revision <= MaxRevision /\ MaxRevision \in Nat
      BY StoreAssumption DEF InRange, Revisions
    <2>2. \/ tasks'[Task] = tasks[Task]
          \/ tasks'[Task].state_revision = Revision + 1 /\ Revision < MaxRevision
      BY <1>2, BelowBound, TaskStep, LifecycleAssumption DEF TaskVersioned, Revision, Row
    <2> QED
      BY <2>1, <2>2 DEF InRange, Revisions, Revision, Row
  <1> QED
    BY <1>1, <1>2

(* A conditional write of a process is a write of the store.               *)
LEMMA WritesObey ==
  ASSUME TypeOK, InRange, NEW run_state \in WrittenStates, NEW expected,
         NEW artifact_state \in {Row.artifact_state, "patch_ready"},
         run_state # "awaiting_approval",
         UpdateTask(Task, expected, run_state, artifact_state, Row.envelope_hash)
  PROVE  Next /\ Calm
  <1>1. Row.envelope_hash \in Envelopes /\ Task \in Tasks
    BY RowType, LifecycleAssumption DEF TaskRows
  <1>2. expected \in Revisions
    BY DEF UpdateTask, AtRevision, InRange, Revision, Row
  <1>3. UpdateStep(Task)
    BY <1>1, <1>2 DEF UpdateStep, Row
  <1>4. Row'.run_state = run_state
    BY <1>1 DEF UpdateTask, TypeOK, TaskRows, Row
  <1> QED
    BY <1>1, <1>3, <1>4 DEF Next, Calm, UpdateTask

(* A question and its answer are the store's.                              *)
LEMMA AnswersObey ==
  ASSUME TypeOK, NEW fp \in Fingerprints, NEW q \in PendingIds,
         Approve(Task, fp, q) \/ Reject(Task, fp, q)
  PROVE  Next /\ Calm
  <1>1. ApprovalStep(Task) /\ Task \in Tasks
    BY LifecycleAssumption DEF ApprovalStep
  <1>2. pendings' = [pendings EXCEPT ![q].consumed = TRUE] /\ permits' = permits
        /\ windows' = windows
    BY DEF Approve, Reject, Answer
  <1>3. \A r \in PendingIds : /\ pendings'[r].task = pendings[r].task
                            /\ pendings'[r].fingerprint = pendings[r].fingerprint
                            /\ pendings'[r].state_revision = pendings[r].state_revision
    BY <1>2 DEF TypeOK, PendingRows, NoPending
  <1>4. Row' = Row \/ Row'.run_state = "running"
    BY <1>1 DEF Approve, Reject, Moved, TypeOK, TaskRows, Row
  <1> QED
    BY <1>1, <1>2, <1>3, <1>4 DEF Next, Calm

(* So is the start of a tool.                                              *)
LEMMA LaunchesObey ==
  ASSUME TypeOK, NEW n \in PermitIds, NEW w \in WindowIds,
         \/ \E kind \in ToolKinds : StartTool(Task, n, w, kind)
         \/ \E c \in ClaimIds : RestartPatch(Task, n, w, c)
  PROVE  Next /\ Calm
  <1>1. ToolStep(Task) /\ Task \in Tasks
    BY LifecycleAssumption DEF ToolStep
  <1>2. /\ windows' = [windows EXCEPT ![w].started = TRUE]
        /\ pendings' = pendings /\ permits' = permits /\ tasks' = tasks
    BY DEF StartTool, RestartPatch, Launch
  <1>3. \A v \in WindowIds : /\ windows'[v].task = windows[v].task
                           /\ windows'[v].permit = windows[v].permit
    BY <1>2 DEF TypeOK, WindowRows, NoWindow
  <1> QED
    BY <1>1, <1>2, <1>3 DEF Next, Calm, Row

(* So is the claim of another attempt.                                     *)
LEMMA ClaimsObey ==
  ASSUME TypeOK, InRange, NEW w \in WindowIds, NEW expected, NEW c \in ClaimIds,
         ClaimRecoveredAttempt(Task, w, expected, c)
  PROVE  Next /\ Calm
  <1>1. expected \in Revisions
    BY DEF ClaimRecoveredAttempt, InRange, Revision, Row
  <1>2. ToolStep(Task) /\ Task \in Tasks
    BY <1>1, LifecycleAssumption DEF ToolStep
  <1> QED
    BY <1>2 DEF Next, Calm, ClaimRecoveredAttempt, Row

(* So is whatever closes a window.                                         *)
LEMMA ClosesObey ==
  ASSUME TypeOK, InRange, NEW w \in WindowIds,
         \/ \E run_state \in WrittenStates \ {"awaiting_approval"} :
              \/ CompleteWindow(Task, w, Revision, run_state)
              \/ FailCloseWindow(Task, w, Revision, run_state)
         \/ \E seen \in Seen : Recover(Task, Revision, seen, w)
  PROVE  Next /\ Calm
  <1>1. CloseStep(Task) /\ Task \in Tasks
    BY LifecycleAssumption DEF CloseStep, InRange
  <1>2. PICK status : windows' = [windows EXCEPT ![w].status = status]
    BY DEF CompleteWindow, FailCloseWindow, Recover, CloseWindow
  <1>3. pendings' = pendings /\ permits' = permits
    BY DEF CompleteWindow, FailCloseWindow, Recover, CloseWindow
  <1>4. \A v \in WindowIds : /\ windows'[v].task = windows[v].task
                           /\ windows'[v].permit = windows[v].permit
    BY <1>2 DEF TypeOK, WindowRows, NoWindow
  <1>5. PICK run_state : tasks' = Moved(Task, run_state) /\ run_state # "awaiting_approval"
    BY DEF CompleteWindow, FailCloseWindow, Recover, CloseWindow, RecoverState
  <1>6. Row'.run_state = run_state
    BY <1>1, <1>5 DEF Moved, TypeOK, TaskRows, Row
  <1> QED
    BY <1>1, <1>3, <1>4, <1>5, <1>6 DEF Next, Calm

(* A step that leaves the tables alone is calm.                            *)
LEMMA IdleIsCalm ==
  ASSUME UNCHANGED vars
  PROVE  [Next]_vars /\ Calm
  BY DEF vars, Calm, Row

(* The loop writes states of its own, or asks the user.                    *)
LEMMA LoopObeys ==
  ASSUME TypeOK, InRange, ProcsOK, NEW p \in Procs, Loop(p)
  PROVE  [Next]_vars /\ (Calm \/ AskUser(p))
  <1> USE IdleIsCalm
  <1>1. {"error", "awaiting_envelope_revision"} \subseteq WrittenStates /\ Task \in Tasks
    BY LifecycleAssumption DEF Terminal
  <1>2. CASE GiveUp(p)
    BY <1>1, <1>2, WritesObey DEF GiveUp, SetState, Write
  <1>3. CASE AskEnvelope(p)
    BY <1>1, <1>3, WritesObey DEF AskEnvelope
  <1>4. CASE AskUser(p)
    <2>1. ASSUME NEW q \in PendingIds, RequestApproval(Task, procs[p].hand, procs[p].rev, q),
                 At(p, "hitl")
          PROVE  Next
      <3>1. procs[p].hand \in Fingerprints
        BY <2>1 DEF ProcsOK, Demands, At
      <3>2. procs[p].rev \in Revisions
        BY <2>1 DEF RequestApproval, AtRevision, InRange, Revision, Row
      <3> QED
        BY <1>1, <2>1, <3>1, <3>2 DEF Next, ApprovalStep
    <2> QED
      BY <1>4, <2>1 DEF AskUser
  <1>5. CASE UNCHANGED vars
    BY <1>5
  <1> QED
    BY <1>2, <1>3, <1>4, <1>5
    DEF Loop, LoopHead, Denied, Returned, Choose, ChooseFinish, Quietly

(* The kind of an action is one the store knows.                           *)
LEMMA KindIsTool ==
  ASSUME NEW fp
  PROVE  KindOf(fp) \in ToolKinds
  BY DEF KindOf, ActionKind, ToolKinds

(* The window half of a step: a permit, a window, a launch, a closing.     *)
LEMMA ActObeys ==
  ASSUME WindowInvariant, InRange, ImagesOK, ProcsOK, NEW p \in Procs, Act(p)
  PROVE  [Next]_vars /\ (Calm \/ TakePermit(p) \/ OpenWindow(p))
  <1> USE IdleIsCalm
  <1>1. procs[p] \in Process /\ Demands(procs[p]) /\ TypeOK /\ Row \in TaskRows /\ Task \in Tasks
    BY RowType, LifecycleAssumption DEF ProcsOK, WindowInvariant, ApprovalInvariant
  <1>2. {"running", "verifying", "error"} \subseteq WrittenStates
    BY LifecycleAssumption DEF Terminal
  <1>3. \A w \in OpenWindows : w \in WindowIds /\ image[w] \in Seen
    BY StoreAssumption, LifecycleAssumption DEF OpenWindows, ImagesOK
  <1>4. CASE RecoverOther(p) \/ Retry(p)
    BY <1>1, <1>3, <1>4, ClosesObey DEF RecoverOther, Retry
  <1>5. CASE TakePermit(p)
    <2>1. ASSUME NEW n \in PermitIds, At(p, "permit"),
                 CreatePermit(Task, procs[p].hand, Row.envelope_hash, procs[p].rev,
                              procs[p].pending, n)
          PROVE  Next
      <3>1. procs[p].hand \in Fingerprints /\ procs[p].pending \in PendingIds \cup {None}
        BY <1>1, <2>1 DEF Demands, Cleared, At, Process
      <3>2. procs[p].rev \in Revisions
        BY <2>1 DEF CreatePermit, AtRevision, InRange, Revision, Row
      <3>3. Row.envelope_hash \in Envelopes
        BY <1>1 DEF TaskRows
      <3> QED
        BY <1>1, <2>1, <3>1, <3>2, <3>3 DEF Next, PermitStep
    <2> QED
      BY <1>5, <2>1 DEF TakePermit
  <1>6. CASE OpenWindow(p)
    <2>1. ASSUME NEW w \in WindowIds, At(p, "consume"),
                 ConsumePermit(Task, procs[p].permit, Revision, KindOf(procs[p].hand), w)
          PROVE  Next
      <3>1. procs[p].permit \in PermitIds
        BY <1>1, <2>1 DEF Demands, At, Holding
      <3> QED
        BY <1>1, <2>1, <3>1, KindIsTool DEF Next, PermitStep, InRange
    <2> QED
      BY <1>6, <2>1 DEF OpenWindow
  <1>7. CASE ExecuteCommand(p) \/ ExecutePatch(p)
    <2>1. procs[p].permit \in PermitIds /\ procs[p].window \in WindowIds
      BY <1>1, <1>7 DEF ExecuteCommand, ExecutePatch, Demands, At, Holding, Windowed
    <2>2. procs[p].claim # None => procs[p].claim \in ClaimIds
      BY <1>1 DEF Process
    <2>3. "run_command" \in ToolKinds /\ "apply_patch" \in ToolKinds
      BY DEF ToolKinds
    <2> QED
      BY <1>1, <1>7, <2>1, <2>2, <2>3, LaunchesObey DEF ExecuteCommand, ExecutePatch, StartPatch
  <1>8. CASE Complete(p) \/ FailClose(p)
    <2>1. procs[p].window \in WindowIds
      BY <1>1, <1>8 DEF Complete, FailClose, Demands, At, Windowed
    <2> QED
      BY <1>1, <1>2, <1>8, <2>1, ClosesObey DEF Complete, FailClose
  <1>9. CASE ClaimAttempt(p)
    <2>1. procs[p].window \in WindowIds
      BY <1>1, <1>9 DEF ClaimAttempt, Demands, At, Windowed
    <2> QED
      BY <1>1, <1>9, <2>1, ClaimsObey DEF ClaimAttempt
  <1>10. CASE UNCHANGED vars
    BY <1>10
  <1> QED
    BY <1>4, <1>5, <1>6, <1>7, <1>8, <1>9, <1>10
    DEF Act, LookForWindow, ExecuteRead, CommandEnds, ExecuteFails, Record, Quietly

(* The verification: it writes the run_state and nothing else.             *)
LEMMA VerifyObeys ==
  ASSUME TypeOK, InRange, ProcsOK, NEW p \in Procs, Verify(p)
  PROVE  [Next]_vars /\ Calm
  <1> USE IdleIsCalm
  <1>1. Demands(procs[p])
    BY DEF ProcsOK
  <1>2. CASE Settle(p)
    <2>1. procs[p].target \in WrittenStates \ {"awaiting_approval"}
      BY <1>1, <1>2, LifecycleAssumption DEF Settle, At, Demands, Terminal
    <2> QED
      BY <1>2, <2>1, WritesObey DEF Settle, SetState, Write
  <1>3. CASE Conclude(p)
    <2>1. /\ procs[p].target \in WrittenStates \ {"awaiting_approval"}
          /\ "succeeded" \in WrittenStates
      BY <1>1, <1>3, LifecycleAssumption DEF Conclude, At, Demands, Terminal
    <2> QED
      BY <1>3, <2>1, WritesObey DEF Conclude, SetState, Write
  <1>4. CASE UNCHANGED vars
    BY <1>4
  <1> QED
    BY <1>2, <1>3, <1>4 DEF Verify, Finish, VerifyNext, Sense, Judge, Quietly

(* The commands: what the user answers, and how they die.                  *)
LEMMA CommandObeys ==
  ASSUME TypeOK, InRange, ProcsOK, NEW p \in Procs,
         ExecuteApproved(p) \/ FailResume(p) \/ Command(p) \/ Mishap(p)
  PROVE  [Next]_vars /\ Calm
  <1> USE IdleIsCalm
  <1>1. CASE FailResume(p)
    <2>1. "error" \in WrittenStates
      BY LifecycleAssumption DEF Terminal
    <2> QED
      BY <1>1, <2>1, WritesObey DEF FailResume, SetState, Write
  <1>2. ASSUME NEW fp \in Fingerprints, UserAnswers(p, fp)
        PROVE  [Next]_vars /\ Calm
    BY <1>2, AnswersObey DEF UserAnswers
  <1>3. CASE UNCHANGED vars
    BY <1>3
  <1> QED
    BY <1>1, <1>2, <1>3
    DEF Command, ExecuteApproved, Resume, ResumeRefused, Mishap, Crash, PatchBreaksOff,
        CommandWrites, Quietly

-----------------------------------------------------------------------------
(* What a process holds, and what ran, against the rows.                   *)

(* The permit a process is about to use is its task's, and is for the      *)
(* action in hand.                                                         *)
Backed(r) ==
  r.pc \in Holding =>
    /\ permits[r.permit].task = Task
    /\ r.pc # "retry" => permits[r.permit].fingerprint = r.hand

AllBacked == \A p \in Procs : Backed(procs[p])

(* A permit is for what governance does not forbid, and names an answer if *)
(* its action writes outside write_paths.                                  *)
PermitsCleared ==
  \A n \in PermitIds : permits[n].task # None => Cleared(permits[n].fingerprint, permits[n].pending)

(* What ran in a window is what its permit is for.                         *)
RanAsPermitted ==
  /\ ran \in [WindowIds -> SUBSET Fingerprints]
  /\ \A w \in WindowIds : \A fp \in ran[w] :
       /\ windows[w].permit \in PermitIds
       /\ permits[windows[w].permit].task # None
       /\ permits[windows[w].permit].fingerprint = fp

(* The rows a process relies on stay as they are, whatever the step.       *)
LEMMA RowsPersist ==
  ASSUME TypeOK, [Next]_vars
  PROVE  /\ \A n \in PermitIds : permits[n].task # None =>
              /\ permits'[n].task = permits[n].task
              /\ permits'[n].fingerprint = permits[n].fingerprint
              /\ permits'[n].pending = permits[n].pending
         /\ \A w \in WindowIds : windows[w].task # None =>
              /\ windows'[w].task = windows[w].task
              /\ windows'[w].permit = windows[w].permit
  <1>1. CASE UNCHANGED vars
    BY <1>1 DEF vars
  <1>2. CASE Next
    <2>1. ASSUME NEW n \in PermitIds, permits[n].task # None
          PROVE  /\ permits'[n].task = permits[n].task
                 /\ permits'[n].fingerprint = permits[n].fingerprint
                 /\ permits'[n].pending = permits[n].pending
      <3>1. CASE permits'[n] = permits[n]
        BY <3>1
      <3>2. ASSUME NEW t \in Tasks, PermitMinted(t, n) PROVE FALSE
        BY <2>1, <3>2 DEF PermitMinted, NoPermit
      <3>3. ASSUME NEW t \in Tasks, PermitSpent(t, n)
            PROVE  /\ permits'[n].task = permits[n].task
                   /\ permits'[n].fingerprint = permits[n].fingerprint
                   /\ permits'[n].pending = permits[n].pending
        BY <3>3 DEF PermitSpent, TypeOK, PermitRows, NoPermit
      <3> QED
        BY <1>2, <3>1, <3>2, <3>3, PermitRowStep
    <2>2. ASSUME NEW w \in WindowIds, windows[w].task # None
          PROVE  /\ windows'[w].task = windows[w].task
                 /\ windows'[w].permit = windows[w].permit
      BY <1>2, <2>2, WindowRowStep DEF SameWindow, WindowOpened, NoWindow
    <2> QED
      BY <2>1, <2>2
  <1> QED
    BY <1>1, <1>2

(* Questions come from AskUser alone, and it asks about what is cleared.   *)
LEMMA StepPendingsCleared ==
  ASSUME TypeOK, ProcsOK, PendingsCleared, NEW p \in Procs,
         Calm \/ AskUser(p) \/ TakePermit(p) \/ OpenWindow(p)
  PROVE  PendingsCleared'
  <1>1. CASE Calm
    BY <1>1 DEF Calm, PendingsCleared
  <1>2. CASE UNCHANGED pendings
    BY <1>2 DEF PendingsCleared
  <1>3. ASSUME NEW q \in PendingIds, RequestApproval(Task, procs[p].hand, procs[p].rev, q),
               At(p, "hitl")
        PROVE  PendingsCleared'
    <2>1. procs[p].hand \in Fingerprints /\ ~Forbidden(ActionOf[procs[p].hand])
      BY <1>3 DEF ProcsOK, Demands, At
    <2>2. pendings' = [pendings EXCEPT ![q] = [task |-> Task, fingerprint |-> procs[p].hand,
                         state_revision |-> procs[p].rev + 1, consumed |-> FALSE]]
      BY <1>3 DEF RequestApproval, OpenPending
    <2> QED
      BY <2>1, <2>2 DEF PendingsCleared, TypeOK
  <1> QED
    BY <1>1, <1>2, <1>3 DEF AskUser, TakePermit, OpenWindow, CreatePermit, ConsumePermit, vars

(* Permits come from TakePermit alone, for the action in hand.             *)
LEMMA StepPermitsCleared ==
  ASSUME TypeOK, ProcsOK, PermitsCleared, NEW p \in Procs,
         Calm \/ AskUser(p) \/ TakePermit(p) \/ OpenWindow(p)
  PROVE  PermitsCleared'
  <1>1. CASE Calm
    BY <1>1 DEF Calm, PermitsCleared
  <1>2. CASE UNCHANGED permits
    BY <1>2 DEF PermitsCleared
  <1>3. ASSUME NEW n \in PermitIds, At(p, "permit"),
               CreatePermit(Task, procs[p].hand, Row.envelope_hash, procs[p].rev,
                            procs[p].pending, n)
        PROVE  PermitsCleared'
    <2>1. Cleared(procs[p].hand, procs[p].pending)
      BY <1>3 DEF ProcsOK, Demands, At
    <2>2. permits' = [permits EXCEPT ![n] = [task |-> Task, fingerprint |-> procs[p].hand,
             envelope_hash |-> Row.envelope_hash, state_revision |-> procs[p].rev + 1,
             consumed |-> FALSE, pending |-> procs[p].pending]]
      BY <1>3 DEF CreatePermit
    <2> QED
      BY <2>1, <2>2 DEF PermitsCleared, TypeOK
  <1>4. ASSUME NEW w \in WindowIds,
               ConsumePermit(Task, procs[p].permit, Revision, KindOf(procs[p].hand), w)
        PROVE  PermitsCleared'
    <2>1. permits' = [permits EXCEPT ![procs[p].permit].consumed = TRUE]
      BY <1>4 DEF ConsumePermit
    <2>2. \A n \in PermitIds : /\ permits'[n].task = permits[n].task
                            /\ permits'[n].fingerprint = permits[n].fingerprint
                            /\ permits'[n].pending = permits[n].pending
      BY <2>1 DEF TypeOK, PermitRows, NoPermit
    <2> QED
      BY <2>2 DEF PermitsCleared
  <1> QED
    BY <1>1, <1>2, <1>3, <1>4 DEF AskUser, TakePermit, OpenWindow, RequestApproval, vars

(* However the worktree is written, it is compared with every patch.       *)
LEMMA AlteredImagesOK ==
  ASSUME ImagesOK, Altered, \A w \in WindowIds : windows'[w].task = windows[w].task
  PROVE  ImagesOK'
  BY DEF Altered, ImagesOK

(* The worktree is compared with the images of every window opened.        *)
LEMMA StepImagesOK ==
  ASSUME TypeOK, ProcsOK, ImagesOK, NEW p \in Procs,
         Proceed(p) \/ Command(p) \/ Mishap(p),
         Calm \/ AskUser(p) \/ TakePermit(p) \/ OpenWindow(p)
  PROVE  ImagesOK'
  <1>0. CASE UNCHANGED <<vars, image>>
    BY <1>0 DEF ImagesOK, vars
  <1>1. ASSUME NEW w \in WindowIds,
               ConsumePermit(Task, procs[p].permit, Revision, KindOf(procs[p].hand), w),
               image' = [image EXCEPT ![w] = "pre"]
        PROVE  ImagesOK'
    <2>1. \A v \in WindowIds : v # w => windows'[v] = windows[v]
      BY <1>1 DEF ConsumePermit, TypeOK
    <2> QED
      BY <1>1, <2>1 DEF ImagesOK, Seen
  <1>2. CASE ~OpenWindow(p)
    <2>1. \A w \in WindowIds : windows'[w].task = windows[w].task
      BY <1>2 DEF Calm, AskUser, TakePermit, RequestApproval, CreatePermit, vars
    <2>2. \/ UNCHANGED image
          \/ Altered
          \/ \E w : image' = [image EXCEPT ![w] = "post"]
          \/ \E w : image' = [image EXCEPT ![w] = "neither"]
      <3>0. CASE PatchBreaksOff(p)
        BY <3>0 DEF PatchBreaksOff
      <3>1. CASE Crash(p) \/ CommandWrites(p) \/ Command(p)
        BY <3>1 DEF Crash, CommandWrites, Command, UserAnswers, Resume, ResumeRefused,
                    Quietly, worldVars
      <3>2. CASE Loop(p)
        BY <3>2 DEF Loop, LoopHead, GiveUp, Denied, AskUser, AskEnvelope, Returned, Choose,
                    ChooseFinish, Quietly, worldVars
      <3>3. CASE Verify(p)
        BY <3>3 DEF Verify, Finish, Settle, VerifyNext, Sense, Judge, Conclude, Quietly, worldVars
      <3>4. CASE Act(p)
        BY <1>2, <3>4 DEF Act, LookForWindow, RecoverOther, TakePermit, ExecuteRead,
                          ExecuteCommand, CommandEnds, ExecutePatch, ExecuteFails, Complete,
                          FailClose, Record, Retry, ClaimAttempt,
                    Quietly, worldVars
      <3>5. CASE ExecuteApproved(p) \/ FailResume(p)
        BY <3>5 DEF ExecuteApproved, FailResume, Quietly, worldVars
      <3> QED
        BY <3>0, <3>1, <3>2, <3>3, <3>4, <3>5 DEF Proceed, Mishap
    <2>3. CASE Altered
      BY <2>1, <2>3, AlteredImagesOK
    <2> QED
      BY <2>1, <2>2, <2>3 DEF ImagesOK, Seen
  <1> QED
    BY <1>0, <1>1, <1>2 DEF OpenWindow

(* All a step changes of a process other than its own is to void it.       *)
LEMMA OthersKeep ==
  ASSUME ProcsOK, NEW p \in Procs, NEW q \in Procs, q # p,
         Proceed(p) \/ Command(p) \/ Mishap(p)
  PROVE  /\ procs'[q].pc = procs[q].pc
         /\ procs'[q].hand = procs[q].hand
         /\ procs'[q].permit = procs[q].permit
         /\ procs'[q].window = procs[q].window
         /\ procs'[q].rev = procs[q].rev
  <1> DEFINE Same == procs'[q] = procs[q]
  <1>1. CASE Same
    BY <1>1
  <1>2. ASSUME NEW r, Touch(p, r)
        PROVE  procs'[q] = Void(procs[q])
    BY <1>2 DEF Touch
  <1>3. CASE procs'[q] = Void(procs[q])
    BY <1>3, Voids DEF ProcsOK
  <1>4. CASE Mishap(p) \/ Command(p)
    <2>1. CASE PatchBreaksOff(p) \/ CommandWrites(p)
      BY <1>2, <1>3, <2>1 DEF PatchBreaksOff, CommandWrites
    <2>2. CASE Crash(p) \/ Command(p)
      <3> Same
        BY <2>2 DEF Crash, Command, UserAnswers, Resume, ResumeRefused, Killed,
                    Become, Goto, ProcsOK
      <3> QED
        BY <1>1
    <2> QED
      BY <1>4, <2>1, <2>2 DEF Mishap
  <1>5. CASE Loop(p)
    <2> Same
      BY <1>5 DEF Loop, LoopHead, GiveUp, Denied, AskUser, AskEnvelope, Returned, Choose,
                  ChooseFinish, Exit, Become, Goto, ProcsOK
    <2> QED
      BY <1>1
  <1>6. CASE Verify(p)
    <2> Same
      BY <1>6 DEF Verify, Finish, Settle, VerifyNext, Sense, Judge, Conclude, AfterFailedVerify,
                  Exit, Become, Goto, ProcsOK
    <2> QED
      BY <1>1
  <1>7. CASE ExecutePatch(p)
    BY <1>2, <1>3, <1>7 DEF ExecutePatch
  <1>8. CASE Act(p) /\ ~ExecutePatch(p)
    <2> Same
      BY <1>8 DEF Act, LookForWindow, Adopt, RecoverOther, TakePermit, OpenWindow, ExecuteRead,
                  ExecuteCommand, CommandEnds, ExecuteFails, Complete, FailClose, Record, Retry, ClaimAttempt,
                  Exit, Become, Goto, ProcsOK
    <2> QED
      BY <1>1
  <1>9. CASE ExecuteApproved(p) \/ FailResume(p)
    <2> Same
      BY <1>9 DEF ExecuteApproved, FailResume, Exit, Become, Goto, ProcsOK
    <2> QED
      BY <1>1
  <1> QED
    BY <1>4, <1>5, <1>6, <1>7, <1>8, <1>9 DEF Proceed

(* A permit that was for the action in hand still is.                      *)
LEMMA KeepsBacked ==
  ASSUME TypeOK, ProcsOK, AllBacked, [Next]_vars, NEW q \in Procs,
         procs'[q].hand = procs[q].hand, procs'[q].permit = procs[q].permit,
         \/ procs'[q].pc = procs[q].pc
         \/ procs'[q].pc \in Holding /\ procs[q].pc \in Holding \ {"retry"}
  PROVE  Backed(procs[q])'
  <1>1. CASE procs'[q].pc \in Holding
    <2>1. procs[q].permit \in PermitIds /\ permits[procs[q].permit].task = Task
      BY <1>1 DEF ProcsOK, Demands, AllBacked, Backed
    <2>2. /\ permits'[procs[q].permit].task = Task
          /\ permits'[procs[q].permit].fingerprint = permits[procs[q].permit].fingerprint
      BY <2>1, RowsPersist, StoreAssumption, LifecycleAssumption
    <2> QED
      BY <1>1, <2>2 DEF AllBacked, Backed
  <1> QED
    BY <1>1 DEF Backed

(* The steps after which a process holds no permit to use; and a command   *)
(* runs only in the process that started it.                               *)
LEMMA LetsGo ==
  ASSUME ProcsOK, NEW p \in Procs,
         \/ Loop(p) \/ Verify(p) \/ ExecuteApproved(p) \/ FailResume(p)
         \/ Mishap(p)
         \/ RecoverOther(p) \/ ExecuteRead(p) \/ ExecuteCommand(p) \/ CommandEnds(p)
         \/ ExecutePatch(p) \/ ExecuteFails(p) \/ Complete(p) \/ FailClose(p) \/ Record(p)
         \/ \E fp \in Fingerprints : Resume(p, fp) \/ ResumeRefused(p, fp)
  PROVE  /\ procs'[p].pc \notin Holding
         /\ procs'[p].pc = "running" => ExecuteCommand(p) \/ CommandWrites(p)
  <1> USE DEF Holding, Exit, Become, Goto, Killed
  <1>1. procs \in [Procs -> Process] /\ procs[p] \in Process
    BY DEF ProcsOK
  <1>2. \A label, r : procs' = [procs EXCEPT ![p].pc = label] => procs'[p].pc = label
    BY <1>1 DEF Process
  <1>3. ASSUME NEW r, procs' = [procs EXCEPT ![p] = r]
        PROVE  procs'[p] = r
    BY <1>1, <1>3
  <1>t. ASSUME NEW r \in Process, Touch(p, r)
        PROVE  procs'[p].pc = r.pc
    BY <1>t, Voids DEF Touch
  <1>4. Idle.pc = "idle" /\ \A label : [Idle EXCEPT !.pc = label].pc = label
    BY DEF Idle
  <1>5. CASE LoopHead(p)
    BY <1>1, <1>2, <1>3, <1>4, <1>5 DEF LoopHead, Process
  <1>6. CASE GiveUp(p) \/ Denied(p) \/ Returned(p)
    BY <1>2, <1>3, <1>4, <1>6 DEF GiveUp, Denied, Returned
  <1>7. CASE AskUser(p) \/ AskEnvelope(p)
    BY <1>2, <1>3, <1>4, <1>7 DEF AskUser, AskEnvelope
  <1>8. ASSUME NEW fp \in Fingerprints, Choose(p, fp)
        PROVE  procs'[p].pc \notin Holding \cup {"running"}
    <2>1. Branch[Verdict(fp)] \in {"deny", "hitl", "revise", "act"}
      BY EvaluateIsSound DEF Branch
    <2> QED
      BY <1>1, <1>8, <2>1 DEF Choose, Process
  <1>9. ASSUME NEW outcome, ChooseFinish(p, outcome)
        PROVE  procs'[p].pc \notin Holding \cup {"running"}
    BY <1>1, <1>9 DEF ChooseFinish, Process
  <1>10. CASE Loop(p)
    BY <1>5, <1>6, <1>7, <1>8, <1>9, <1>10 DEF Loop
  <1>11. CASE Verify(p)
    <2>1. CASE Finish(p)
      <3>1. ASSUME NEW state, procs' = [procs EXCEPT ![p].pc = "settle", ![p].target = state]
            PROVE  procs'[p].pc = "settle"
        BY <1>1, <3>1 DEF Process
      <3>2. CASE procs' = [procs EXCEPT ![p].pc = "settle", ![p].target = FinishState(@)]
        <4>1. procs' = [procs EXCEPT ![p].pc = "settle",
                                     ![p].target = FinishState(procs[p].target)]
          BY <1>1, <3>2
        <4> QED
          BY <3>1, <4>1
      <3> QED
        BY <1>3, <1>4, <2>1, <3>2 DEF Finish
    <2>2. CASE Settle(p)
      BY <1>1, <1>3, <1>4, <2>2 DEF Settle, Process
    <2>3. CASE VerifyNext(p)
      BY <1>1, <1>2, <2>3 DEF VerifyNext, Process
    <2>4. CASE Sense(p)
      BY <1>1, <2>4 DEF Sense, Process
    <2>5. CASE Judge(p)
      BY <1>1, <2>5 DEF Judge, Process
    <2>6. CASE Conclude(p)
      BY <1>2, <1>3, <1>4, <2>6 DEF Conclude, AfterFailedVerify
    <2> QED
      BY <1>11, <2>1, <2>2, <2>3, <2>4, <2>5, <2>6 DEF Verify
  <1>12. CASE ExecuteApproved(p) \/ FailResume(p) \/ Crash(p)
    <2>1. CASE ExecuteApproved(p)
      BY <1>1, <2>1 DEF ExecuteApproved, Process
    <2>2. CASE FailResume(p) \/ Crash(p)
      BY <1>3, <1>4, <2>2 DEF FailResume, Crash
    <2> QED
      BY <1>12, <2>1, <2>2
  <1>13. CASE PatchBreaksOff(p)
    <2>1. /\ [procs[p] EXCEPT !.pc = "failclose"] \in Process
          /\ [procs[p] EXCEPT !.pc = "failclose"].pc = "failclose"
      BY <1>1 DEF Process, Labels
    <2>2. Touch(p, [Idle EXCEPT !.pc = "killed"]) \/ Touch(p, [procs[p] EXCEPT !.pc = "failclose"])
      BY <1>13 DEF PatchBreaksOff
    <2>3. ASSUME Touch(p, [Idle EXCEPT !.pc = "killed"])
          PROVE  procs'[p].pc = "killed"
      BY <1>t, <1>4, <2>3, IdleIsProcess
    <2> QED
      BY <1>t, <2>1, <2>2, <2>3
  <1>14. ASSUME NEW fp \in Fingerprints, Resume(p, fp) \/ ResumeRefused(p, fp)
         PROVE  procs'[p].pc \notin Holding \cup {"running"}
    <2>1. \A q : [Idle EXCEPT !.pc = "approved", !.pending = q, !.hand = fp].pc = "approved"
      BY DEF Idle
    <2> QED
      BY <1>2, <1>3, <1>4, <1>14, <2>1 DEF Resume, ResumeRefused
  <1>15. CASE ExecuteCommand(p) \/ ExecutePatch(p) \/ CommandWrites(p)
    <2>1. CASE ExecuteCommand(p)
      BY <1>1, <2>1 DEF ExecuteCommand, Process
    <2>2. CASE ExecutePatch(p)
      <3>1. /\ [procs[p] EXCEPT !.pc = "complete"] \in Process
            /\ [procs[p] EXCEPT !.pc = "complete"].pc = "complete"
        BY <1>1 DEF Process, Labels
      <3> QED
        BY <1>t, <2>2, <3>1 DEF ExecutePatch
    <2>3. CASE CommandWrites(p)
      BY <1>1, <1>t, <2>3 DEF CommandWrites, At
    <2> QED
      BY <1>15, <2>1, <2>2, <2>3
  <1>16. CASE RecoverOther(p) \/ ExecuteRead(p) \/ CommandEnds(p) \/ ExecuteFails(p)
              \/ Complete(p) \/ FailClose(p)
    BY <1>2, <1>3, <1>4, <1>16
    DEF RecoverOther, ExecuteRead, CommandEnds, ExecuteFails, Complete, FailClose
  <1>17. CASE Record(p)
    <2>1. \A n : [Idle EXCEPT !.pc = "check", !.steps = n].pc = "check"
      BY DEF Idle
    <2> QED
      BY <1>3, <1>4, <1>17, <2>1 DEF Record, Looping
  <1> QED
    BY <1>10, <1>11, <1>12, <1>13, <1>14, <1>15, <1>16, <1>17 DEF Mishap

(* How a process comes to run a command, to retry a patch or to claim it.  *)
LEMMA ComesFrom ==
  ASSUME ProcsOK, NEW p \in Procs, Proceed(p) \/ Command(p) \/ Mishap(p)
  PROVE  /\ procs'[p].pc = "running" => ExecuteCommand(p) \/ CommandWrites(p)
         /\ procs'[p].pc = "retry" => LookForWindow(p)
         /\ procs'[p].pc = "claim" => Retry(p)
  <1>1. procs \in [Procs -> Process] /\ procs[p] \in Process
    BY DEF ProcsOK
  <1>2. ASSUME NEW label, Goto(p, label) PROVE procs'[p].pc = label
    BY <1>1, <1>2 DEF Goto, Process
  <1>3. ASSUME Exit(p) PROVE procs'[p].pc = "idle"
    BY <1>1, <1>3 DEF Exit, Become, Idle
  <1>4. CASE LookForWindow(p)
    <2>1. ASSUME NEW w, NEW label, Adopt(p, w, label) PROVE procs'[p].pc = label
      BY <1>1, <2>1 DEF Adopt, Process
    <2>2. procs'[p].pc \in {"permit", "retry", "execute", "recover", "idle"}
      BY <1>2, <1>3, <1>4, <2>1 DEF LookForWindow
    <2> QED
      BY <1>4, <2>2
  <1>5. CASE TakePermit(p) \/ OpenWindow(p) \/ ClaimAttempt(p)
    <2>1. procs'[p].pc \in {"consume", "execute", "idle"}
      BY <1>1, <1>3, <1>5 DEF TakePermit, OpenWindow, ClaimAttempt, Process
    <2> QED
      BY <2>1
  <1>6. CASE Retry(p)
    <2>1. procs'[p].pc \in {"claim", "record", "idle"}
      BY <1>1, <1>2, <1>3, <1>6 DEF Retry, Process
    <2> QED
      BY <1>6, <2>1
  <1>7. ASSUME NEW fp \in Fingerprints, UserAnswers(p, fp)
        PROVE  procs'[p].pc \in {"idle", "killed"}
    BY <1>7 DEF UserAnswers, Free
  <1> QED
    BY <1>4, <1>5, <1>6, <1>7, LetsGo DEF Holding, Proceed, Act, Command

(* A process takes up the permit of a window it found, of one it just      *)
(* minted, or keeps the one it has.                                        *)
LEMMA StepBacked ==
  ASSUME WindowInvariant, ProcsOK, ProcsOK', AllBacked, [Next]_vars, NEW p \in Procs,
         Proceed(p) \/ Command(p) \/ Mishap(p)
  PROVE  AllBacked'
  <1>1. /\ TypeOK /\ procs \in [Procs -> Process] /\ procs[p] \in Process
        /\ Demands(procs[p]) /\ Backed(procs[p])
    BY DEF ProcsOK, AllBacked, WindowInvariant, ApprovalInvariant
  <1>2. ASSUME NEW q \in Procs, q # p PROVE Backed(procs[q])'
    BY <1>1, <1>2, OthersKeep, KeepsBacked
  <1> SUFFICES Backed(procs[p])'
    BY <1>2 DEF AllBacked
  <1>3. CASE procs'[p].pc \notin Holding
    BY <1>3 DEF Backed
  <1>4. CASE LookForWindow(p)
    <2>1. ASSUME NEW w \in OpenWindows, NEW label \in {"retry", "execute", "recover"},
                 UNCHANGED vars, Adopt(p, w, label),
                 label = "execute" => Resumable(p, w)
          PROVE  Backed(procs[p])'
      <3>1. permits[windows[w].permit].task = Task
        BY OpenIsPermitted
      <3>2. /\ procs'[p].pc = label /\ procs'[p].permit = windows[w].permit
            /\ procs'[p].hand = procs[p].hand
        BY <1>1, <2>1 DEF Adopt, Process
      <3> QED
        BY <2>1, <3>1, <3>2 DEF Backed, Holding, Resumable, vars
    <2>2. ASSUME Goto(p, "permit") \/ Exit(p)
          PROVE  procs'[p].pc \notin Holding
      BY <1>1, <2>2 DEF Goto, Exit, Become, Idle, Process, Holding
    <2> QED
      BY <1>3, <1>4, <2>1, <2>2 DEF LookForWindow, Quietly
  <1>5. CASE TakePermit(p)
    <2>1. ASSUME NEW n \in PermitIds,
                 CreatePermit(Task, procs[p].hand, Row.envelope_hash, procs[p].rev,
                              procs[p].pending, n),
                 procs' = [procs EXCEPT ![p].pc = "consume", ![p].permit = n]
          PROVE  Backed(procs[p])'
      <3>1. procs'[p].permit = n /\ procs'[p].hand = procs[p].hand
        BY <1>1, <2>1 DEF Process
      <3>2. permits'[n].task = Task /\ permits'[n].fingerprint = procs[p].hand
        BY <1>1, <2>1 DEF CreatePermit, TypeOK
      <3> QED
        BY <3>1, <3>2 DEF Backed
    <2>2. ASSUME Exit(p) PROVE procs'[p].pc \notin Holding
      BY <1>1, <2>2 DEF Exit, Become, Idle, Holding
    <2> QED
      BY <1>3, <1>5, <2>1, <2>2 DEF TakePermit
  <1>6. CASE OpenWindow(p) \/ ClaimAttempt(p)
    <2>1. ASSUME Exit(p) PROVE procs'[p].pc \notin Holding
      BY <1>1, <2>1 DEF Exit, Become, Idle, Holding
    <2>2. ASSUME NEW w, procs[p].pc \in Holding \ {"retry"},
                 \/ procs' = [procs EXCEPT ![p].pc = "execute", ![p].window = w]
                 \/ procs' = [procs EXCEPT ![p].pc = "execute", ![p].claim = w]
          PROVE  Backed(procs[p])'
      <3>1. /\ procs'[p].pc = "execute" /\ procs'[p].permit = procs[p].permit
            /\ procs'[p].hand = procs[p].hand
        BY <1>1, <2>2 DEF Process
      <3> QED
        BY <1>1, <2>2, <3>1, KeepsBacked DEF Holding
    <2> QED
      BY <1>3, <1>6, <2>1, <2>2 DEF OpenWindow, ClaimAttempt, At, Holding
  <1>7. CASE Retry(p)
    <2>1. ASSUME Exit(p) \/ Goto(p, "record") PROVE procs'[p].pc \notin Holding
      BY <1>1, <2>1 DEF Goto, Exit, Become, Idle, Process, Holding
    <2>2. ASSUME permits[procs[p].permit].fingerprint = procs[p].hand, At(p, "retry"),
                 UNCHANGED vars,
                 procs' = [procs EXCEPT ![p].pc = "claim", ![p].rev = Revision]
          PROVE  Backed(procs[p])'
      <3>1. /\ procs'[p].pc = "claim" /\ procs'[p].permit = procs[p].permit
            /\ procs'[p].hand = procs[p].hand
        BY <1>1, <2>2 DEF Process
      <3> QED
        BY <1>1, <2>2, <3>1 DEF Backed, Holding, At, vars
    <2> QED
      BY <1>3, <1>7, <2>1, <2>2 DEF Retry
  <1>8. ASSUME NEW fp \in Fingerprints, UserAnswers(p, fp)
        PROVE  Backed(procs[p])'
    BY <1>1, <1>8, KeepsBacked DEF UserAnswers
  <1> QED
    BY <1>3, <1>4, <1>5, <1>6, <1>7, <1>8, LetsGo DEF Proceed, Act, Command

(* A tool runs in the window and with the permit its process holds.        *)
LEMMA StepRan ==
  ASSUME WindowInvariant, ProcsOK, AllBacked, RanAsPermitted, [Next]_vars, NEW p \in Procs,
         Proceed(p) \/ Command(p) \/ Mishap(p)
  PROVE  RanAsPermitted'
  <1>1. TypeOK /\ Demands(procs[p]) /\ Backed(procs[p])
    BY DEF ProcsOK, AllBacked, WindowInvariant, ApprovalInvariant
  <1>2. ASSUME NEW w \in WindowIds, windows[w].permit \in PermitIds,
               permits[windows[w].permit].task # None
        PROVE  /\ windows'[w].permit = windows[w].permit
               /\ permits'[windows[w].permit].task # None
               /\ permits'[windows[w].permit].fingerprint = permits[windows[w].permit].fingerprint
    <2>1. windows[w].task # None
      BY <1>1, <1>2, StoreAssumption DEF TypeOK, WindowRows, NoWindow
    <2> QED
      BY <1>1, <1>2, <2>1, RowsPersist
  <1>3. CASE UNCHANGED ran
    BY <1>2, <1>3 DEF RanAsPermitted
  <1>4. CASE At(p, "execute") /\ MayRun(p) /\ Ran(p)
    <2>1. /\ procs[p].window \in WindowIds /\ procs[p].permit \in PermitIds
          /\ procs[p].hand \in Fingerprints
          /\ permits[procs[p].permit].task = Task
          /\ permits[procs[p].permit].fingerprint = procs[p].hand
      BY <1>1, <1>4 DEF At, Demands, Backed, Holding, Windowed, Cleared
    <2>2. windows[procs[p].window].permit = procs[p].permit
      BY <1>4 DEF MayRun, Authorized
    <2>3. permits[procs[p].permit].task # None
      BY <2>1, StoreAssumption, LifecycleAssumption
    <2>4. ran' \in [WindowIds -> SUBSET Fingerprints]
      BY <1>4, <2>1 DEF Ran, RanAsPermitted
    <2>5. ASSUME NEW w \in WindowIds, NEW fp \in ran'[w]
          PROVE  /\ windows[w].permit \in PermitIds
                 /\ permits[windows[w].permit].task # None
                 /\ permits[windows[w].permit].fingerprint = fp
      <3>1. CASE fp \in ran[w]
        BY <3>1 DEF RanAsPermitted
      <3>2. CASE w = procs[p].window /\ fp = procs[p].hand
        BY <2>1, <2>2, <2>3, <3>2
      <3> QED
        BY <1>4, <2>5, <3>1, <3>2 DEF Ran, RanAsPermitted
    <2> QED
      BY <1>2, <2>4, <2>5 DEF RanAsPermitted
  <1>5. CASE ExecuteRead(p) \/ ExecuteCommand(p) \/ ExecutePatch(p) \/ PatchBreaksOff(p)
    BY <1>4, <1>5 DEF ExecuteRead, ExecuteCommand, ExecutePatch, PatchBreaksOff
  <1>6. CASE Loop(p)
    BY <1>3, <1>6 DEF Loop, LoopHead, GiveUp, Denied, AskUser, AskEnvelope, Returned, Choose,
                      ChooseFinish, Quietly, worldVars
  <1>7. CASE Verify(p)
    BY <1>3, <1>7 DEF Verify, Finish, Settle, VerifyNext, Sense, Judge, Conclude, Quietly, worldVars
  <1>8. CASE Crash(p) \/ CommandWrites(p) \/ Command(p)
    BY <1>3, <1>8 DEF Crash, CommandWrites, Command, UserAnswers, Resume, ResumeRefused,
                    Quietly, worldVars
  <1>9. CASE ExecuteApproved(p) \/ FailResume(p)
    BY <1>3, <1>9 DEF ExecuteApproved, FailResume, Quietly, worldVars
  <1>10. CASE Act(p) /\ ~ExecuteRead(p) /\ ~ExecuteCommand(p) /\ ~ExecutePatch(p)
    <2> UNCHANGED ran
      BY <1>10 DEF Act, LookForWindow, RecoverOther, TakePermit, OpenWindow, CommandEnds,
                   ExecuteFails, Complete, FailClose, Record, Retry, ClaimAttempt,
                    Quietly, worldVars
    <2> QED
      BY <1>3
  <1> QED
    BY <1>5, <1>6, <1>7, <1>8, <1>9, <1>10 DEF Proceed, Mishap

(* A task starts to wait with a question at its revision; the permit the   *)
(* answer buys is the only write that leaves it waiting.                   *)
LEMMA StepWaiting ==
  ASSUME TypeOK, ProcsOK, WaitingHasQuestion, NEW p \in Procs,
         Calm \/ AskUser(p) \/ TakePermit(p) \/ OpenWindow(p)
  PROVE  WaitingHasQuestion'
  <1>1. Row \in TaskRows /\ Task \in Tasks
    BY RowType, LifecycleAssumption
  <1>2. CASE UNCHANGED vars
    BY <1>2 DEF vars, WaitingHasQuestion, Row, Revision
  <1>3. CASE Calm
    <2>1. CASE Row' = Row
      BY <1>3, <2>1 DEF Calm, WaitingHasQuestion, Revision
    <2>2. CASE Row'.run_state # "awaiting_approval"
      BY <2>2 DEF WaitingHasQuestion
    <2> QED
      BY <1>3, <2>1, <2>2 DEF Calm
  <1>4. ASSUME NEW q \in PendingIds, RequestApproval(Task, procs[p].hand, procs[p].rev, q)
        PROVE  WaitingHasQuestion'
    <2>1. Row'.state_revision = procs[p].rev + 1
      BY <1>1, <1>4 DEF RequestApproval, Moved, AtRevision, TypeOK, TaskRows, Row
    <2>2. pendings'[q].task = Task /\ pendings'[q].state_revision = procs[p].rev + 1
      BY <1>4 DEF RequestApproval, OpenPending, TypeOK
    <2> QED
      BY <2>1, <2>2 DEF WaitingHasQuestion, Revision
  <1>5. ASSUME NEW n \in PermitIds,
               CreatePermit(Task, procs[p].hand, Row.envelope_hash, procs[p].rev,
                            procs[p].pending, n)
        PROVE  WaitingHasQuestion'
    <2> SUFFICES ASSUME Row'.run_state = "awaiting_approval" PROVE WaitingHasQuestion'
      BY DEF WaitingHasQuestion
    <2>1. /\ Row'.run_state = Row.run_state
          /\ Revision = procs[p].rev /\ Revision' = procs[p].rev + 1
      BY <1>1, <1>5 DEF CreatePermit, Debited, AtRevision, TypeOK, TaskRows, Row, Revision
    <2>2. /\ procs[p].pending \in PendingIds
          /\ pendings'[procs[p].pending].task = Task
          /\ pendings'[procs[p].pending].state_revision = procs[p].rev
      BY <1>5, <2>1 DEF CreatePermit, PendingBacks, Row, ProcsOK, Process
    <2>3. /\ permits'[n].pending = procs[p].pending
          /\ ~permits'[n].consumed
          /\ permits'[n].state_revision = procs[p].rev + 1
      BY <1>5 DEF CreatePermit, TypeOK
    <2> QED
      BY <2>1, <2>2, <2>3 DEF WaitingHasQuestion
  <1>6. ASSUME NEW w, NEW n, NEW kind, ConsumePermit(Task, n, Revision, kind, w)
        PROVE  WaitingHasQuestion'
    <2>1. Row'.run_state \in {"verifying", "executing_action"}
      BY <1>1, <1>6 DEF ConsumePermit, Moved, WindowState, TypeOK, TaskRows, Row
    <2> QED
      BY <2>1 DEF WaitingHasQuestion
  <1> QED
    BY <1>2, <1>3, <1>4, <1>5, <1>6 DEF AskUser, TakePermit, OpenWindow

-----------------------------------------------------------------------------
(* The inductive invariant.                                                *)

LifecycleInvariant ==
  /\ WindowInvariant
  /\ InRange /\ ImagesOK /\ ProcsOK
  /\ PendingsCleared /\ PermitsCleared
  /\ AllBacked /\ RanAsPermitted
  /\ WaitingHasQuestion

(* The first run of a task starts in the invariant.                        *)
LEMMA LifecycleStarts == LifecycleInit => LifecycleInvariant
  <1> SUFFICES ASSUME LifecycleInit PROVE LifecycleInvariant
    OBVIOUS
  <1>1. WindowInvariant /\ TypeOK
    BY WindowInductive, InitTypeOK DEF LifecycleInit
  <1>2. InRange
    BY StoreAssumption, LifecycleAssumption
    DEF LifecycleInit, Init, InRange, Revisions, Revision, Row
  <1>3. ImagesOK
    BY DEF LifecycleInit, Init, EmptyTables, NoWindow, ImagesOK
  <1>4. PendingsCleared /\ PermitsCleared
    BY DEF LifecycleInit, Init, EmptyTables, NoPending, NoPermit, PendingsCleared, PermitsCleared
  <1>5. RanAsPermitted
    BY DEF LifecycleInit, RanAsPermitted
  <1>6. PICK first \in Procs :
          procs = [[p \in Procs |-> Idle] EXCEPT
                     ![first] = [Idle EXCEPT !.pc = "check", !.steps =
                                   (IF MaxSteps > 0 THEN MaxSteps ELSE 1) + 1]]
    BY DEF LifecycleInit
  <1>7. (IF MaxSteps > 0 THEN MaxSteps ELSE 1) + 1 \in Nat
    BY StoreAssumption
  <1>8. ProcsOK
    BY <1>6, <1>7, IdleIsProcess DEF ProcsOK
  <1>9. AllBacked
    <2>1. ASSUME NEW p \in Procs PROVE procs[p].pc \in {"idle", "check"}
      BY <1>6 DEF Idle
    <2> QED
      BY <2>1 DEF AllBacked, Backed, Holding
  <1>10. WaitingHasQuestion
    BY LifecycleAssumption DEF LifecycleInit, Init, WaitingHasQuestion, Row
  <1> QED
    BY <1>1, <1>2, <1>3, <1>4, <1>5, <1>8, <1>9, <1>10 DEF LifecycleInvariant

(* Every step of a process is a transaction of the store, or none.         *)
LEMMA StepObeys ==
  ASSUME LifecycleInvariant, NEW p \in Procs,
         Proceed(p) \/ Command(p) \/ Mishap(p)
  PROVE  [Next]_vars /\ (Calm \/ AskUser(p) \/ TakePermit(p) \/ OpenWindow(p))
  <1>1. TypeOK /\ WindowInvariant /\ InRange /\ ImagesOK /\ ProcsOK
    BY DEF LifecycleInvariant, WindowInvariant, ApprovalInvariant
  <1> QED
    BY <1>1, LoopObeys, ActObeys, VerifyObeys, CommandObeys DEF Proceed

(* Every step leaves every process well formed.                            *)
LEMMA StepProcs ==
  ASSUME LifecycleInvariant, NEW p \in Procs,
         Proceed(p) \/ Command(p) \/ Mishap(p)
  PROVE  ProcsOK'
  <1>1. TypeOK /\ WindowInvariant /\ PendingsCleared /\ ProcsOK
    BY DEF LifecycleInvariant, WindowInvariant, ApprovalInvariant
  <1> QED
    BY <1>1, LoopProcs, ActProcs, VerifyProcs, CommandProcs DEF Proceed

(* Whoever else writes the worktree writes no row, and voids at most what  *)
(* the processes verified.                                                 *)
LEMMA OutsideKeeps ==
  ASSUME ProcsOK, OrphanWrites \/ Meddle
  PROVE  /\ UNCHANGED <<vars, recorded, ran>> /\ Altered
         /\ \A p \in Procs : procs'[p] \in {procs[p], Void(procs[p])}
         /\ procs' \in [Procs -> Process]
  <1>1. UNCHANGED <<vars, recorded, ran>> /\ Altered
    BY DEF OrphanWrites, Meddle
  <1>2. procs' = procs \/ procs' = [p \in Procs |-> Void(procs[p])]
    BY DEF OrphanWrites, Meddle
  <1>3. \A p \in Procs : procs[p] \in Process /\ Void(procs[p]) \in Process
    BY Voids DEF ProcsOK
  <1>4. procs' \in [Procs -> Process]
    BY <1>2, <1>3 DEF ProcsOK
  <1>5. \A p \in Procs : procs'[p] \in {procs[p], Void(procs[p])}
    BY <1>2
  <1> QED
    BY <1>1, <1>4, <1>5

(* So the invariant holds on.                                              *)
LEMMA OutsideInvariant ==
  ASSUME LifecycleInvariant, OrphanWrites \/ Meddle
  PROVE  LifecycleInvariant'
  <1>1. WindowInvariant /\ InRange /\ ImagesOK /\ ProcsOK /\ PendingsCleared /\ PermitsCleared
        /\ AllBacked /\ RanAsPermitted /\ WaitingHasQuestion /\ TypeOK
    BY DEF LifecycleInvariant, WindowInvariant, ApprovalInvariant
  <1>2. /\ UNCHANGED <<vars, recorded, ran>> /\ Altered
        /\ \A p \in Procs : procs'[p] \in {procs[p], Void(procs[p])}
        /\ procs' \in [Procs -> Process]
    BY <1>1, OutsideKeeps
  <1>3. WindowInvariant' /\ InRange'
    BY <1>1, <1>2, WindowInductive, StepInRange
  <1>4. ImagesOK'
    BY <1>1, <1>2, AlteredImagesOK DEF vars
  <1>5. ASSUME NEW p \in Procs
        PROVE  /\ Demands(procs'[p])
               /\ procs'[p].pc = procs[p].pc
               /\ procs'[p].hand = procs[p].hand /\ procs'[p].permit = procs[p].permit
    BY <1>1, <1>2, Voids DEF ProcsOK
  <1>6. ProcsOK'
    BY <1>2, <1>5 DEF ProcsOK
  <1>7. AllBacked'
    BY <1>1, <1>2, <1>5, KeepsBacked DEF AllBacked
  <1>8. PendingsCleared' /\ PermitsCleared' /\ RanAsPermitted'
    BY <1>1, <1>2 DEF PendingsCleared, PermitsCleared, RanAsPermitted, vars
  <1>9. WaitingHasQuestion'
    BY <1>1, <1>2 DEF vars, WaitingHasQuestion, Row, Revision
  <1> QED
    BY <1>3, <1>4, <1>6, <1>7, <1>8, <1>9 DEF LifecycleInvariant

(* Every step keeps the invariant.                                         *)
LEMMA LifecycleInductive ==
  LifecycleInvariant /\ [LifecycleNext]_lifecycleVars => LifecycleInvariant'
  <1> SUFFICES ASSUME LifecycleInvariant, [LifecycleNext]_lifecycleVars
               PROVE  LifecycleInvariant'
    OBVIOUS
  <1>1. TypeOK /\ WindowInvariant /\ InRange /\ ImagesOK /\ ProcsOK
        /\ PendingsCleared /\ PermitsCleared /\ AllBacked /\ RanAsPermitted
        /\ WaitingHasQuestion
    BY DEF LifecycleInvariant, WindowInvariant, ApprovalInvariant
  <1>2. CASE UNCHANGED lifecycleVars
    <2>1. WindowInvariant' /\ InRange'
      BY <1>1, <1>2, WindowInductive, StepInRange DEF lifecycleVars
    <2>2. ImagesOK' /\ ProcsOK' /\ PendingsCleared' /\ PermitsCleared'
      BY <1>1, <1>2 DEF lifecycleVars, worldVars, vars, ImagesOK, ProcsOK,
                              PendingsCleared, PermitsCleared
    <2>3. AllBacked' /\ RanAsPermitted'
      BY <1>1, <1>2 DEF lifecycleVars, worldVars, vars, AllBacked, Backed, RanAsPermitted
    <2>4. WaitingHasQuestion'
      BY <1>1, <1>2 DEF lifecycleVars, vars, WaitingHasQuestion, Row, Revision
    <2> QED
      BY <2>1, <2>2, <2>3, <2>4 DEF LifecycleInvariant
  <1>3. ASSUME NEW p \in Procs, Proceed(p) \/ Command(p) \/ Mishap(p)
        PROVE  LifecycleInvariant'
    <2>1. [Next]_vars /\ (Calm \/ AskUser(p) \/ TakePermit(p) \/ OpenWindow(p))
      BY <1>3, StepObeys
    <2>2. WindowInvariant' /\ InRange'
      BY <1>1, <2>1, WindowInductive, StepInRange
    <2>3. ProcsOK'
      BY <1>3, StepProcs
    <2>4. PendingsCleared' /\ PermitsCleared'
      BY <1>1, <2>1, StepPendingsCleared, StepPermitsCleared
    <2>5. ImagesOK'
      BY <1>1, <1>3, <2>1, StepImagesOK
    <2>6. AllBacked' /\ RanAsPermitted'
      BY <1>1, <1>3, <2>1, <2>3, StepBacked, StepRan
    <2>7. WaitingHasQuestion'
      BY <1>1, <2>1, StepWaiting
    <2> QED
      BY <2>2, <2>3, <2>4, <2>5, <2>6, <2>7 DEF LifecycleInvariant
  <1> QED
    BY <1>2, <1>3, OutsideInvariant DEF LifecycleNext

(* So it always holds.                                                     *)
LEMMA LifecycleAlways == LifecycleSpec => []LifecycleInvariant
  BY LifecycleStarts, LifecycleInductive, PTL DEF LifecycleSpec

(* However many processes run, approve, resume and die, and however stale  *)
(* what they read: the database only ever sees transactions of the store.  *)
THEOREM ProcessesObeyStore == LifecycleSpec => ObeysStore
  <1>1. LifecycleInit => Init
    BY DEF LifecycleInit
  <1>2. LifecycleInvariant /\ [LifecycleNext]_lifecycleVars
        => [UNCHANGED vars \/ Next]_vars
    <2>1. UNCHANGED lifecycleVars => UNCHANGED vars
      BY DEF lifecycleVars
    <2>2. OrphanWrites \/ Meddle => UNCHANGED vars
      BY DEF OrphanWrites, Meddle
    <2> QED
      BY <2>1, <2>2, StepObeys DEF LifecycleNext
  <1> QED
    BY <1>1, <1>2, LifecycleAlways, PTL DEF LifecycleSpec, ObeysStore

(* What runs in a window is the action of its permit, never one governance *)
(* forbids, and approved by the user if it writes outside write_paths.     *)
THEOREM WhatRunsWasPermitted == LifecycleSpec => []RunsWhatWasPermitted
  <1>1. LifecycleInvariant => RunsWhatWasPermitted
    <2> SUFFICES ASSUME LifecycleInvariant, NEW w \in WindowIds, NEW fp \in ran[w]
                 PROVE  /\ fp = permits[windows[w].permit].fingerprint
                        /\ ~Forbidden(ActionOf[fp])
                        /\ /\ ActionOf[fp].tool = "apply_patch"
                           /\ \E path \in ActionOf[fp].paths : ~path.writable
                           => permits[windows[w].permit].pending # None
      BY DEF RunsWhatWasPermitted
    <2>1. /\ windows[w].permit \in PermitIds
          /\ permits[windows[w].permit].task # None
          /\ fp = permits[windows[w].permit].fingerprint
      BY DEF LifecycleInvariant, RanAsPermitted
    <2>2. Cleared(fp, permits[windows[w].permit].pending)
      BY <2>1 DEF LifecycleInvariant, PermitsCleared
    <2>3. ASSUME ActionOf[fp].tool = "apply_patch",
                 NEW path \in ActionOf[fp].paths, ~path.writable
          PROVE  LeavesWritePaths(ActionOf[fp])
      <3>1. CheckPath(path) = "ok"
        BY <2>2, <2>3 DEF Cleared, Forbidden, CheckPath
      <3> QED
        BY <2>3, <3>1 DEF LeavesWritePaths, ClassifyWrite
    <2> QED
      BY <2>1, <2>2, <2>3 DEF Cleared
  <1> QED
    BY <1>1, LifecycleAlways, PTL

(* A task that waits has one question that an answer can still move, or    *)
(* the permit that answer has just bought, whatever was killed or refused. *)
THEOREM WhoWaitsHasAQuestion == LifecycleSpec => []WaitingHasQuestion
  <1>1. LifecycleInvariant => WaitingHasQuestion
    BY DEF LifecycleInvariant
  <1> QED
    BY <1>1, LifecycleAlways, PTL

-----------------------------------------------------------------------------
(* One command at a time.                                                  *)

OneAtATime == \A p, q \in Procs : p = q

(* Where a process has read nothing it will act on.                        *)
Resting == {"idle", "killed", "check", "returned", "record", "refused"}

(* Whoever is at work works on a task that has not ended.                  *)
AtWork == \A p \in Procs : procs[p].pc \notin Resting => Row.run_state \notin Terminal

(* A conditional write sets the run_state it names.                        *)
LEMMA Writes ==
  ASSUME TypeOK, NEW run_state, NEW artifact_state, NEW expected,
         UpdateTask(Task, expected, run_state, artifact_state, Row.envelope_hash)
  PROVE  Row'.run_state = run_state
  BY LifecycleAssumption DEF UpdateTask, TypeOK, TaskRows, Row

(* A window is closed together with the run_state that follows.            *)
LEMMA Closes ==
  ASSUME TypeOK, NEW w, NEW status, NEW run_state, CloseWindow(Task, w, status, run_state)
  PROVE  Row'.run_state = run_state
  BY LifecycleAssumption DEF CloseWindow, Moved, TypeOK, TaskRows, Row

(* A process that is at work, or begins to, finds the task unended, and    *)
(* leaves it so unless it rests.                                           *)
Minds(p) ==
  /\ Row.run_state \in Terminal => Row'.run_state = Row.run_state
  /\ procs'[p].pc \notin Resting => Row'.run_state \notin Terminal

(* The loop, up to the verdict.                                            *)
LEMMA LoopMinds ==
  ASSUME TypeOK, ProcsOK, AtWork, NEW p \in Procs, Loop(p)
  PROVE  Minds(p)
  <1> USE DEF Minds
  <1>1. procs \in [Procs -> Process] /\ procs[p] \in Process /\ Task \in Tasks
    BY LifecycleAssumption DEF ProcsOK
  <1>2. ASSUME NEW label, Goto(p, label)
        PROVE  procs'[p].pc = label
    BY <1>1, <1>2 DEF Goto, Process
  <1>3. ASSUME NEW label, Exit(p) \/ Become(p, [Idle EXCEPT !.pc = label])
        PROVE  procs'[p].pc \in {"idle", label}
    BY <1>1, <1>3 DEF Exit, Become, Idle
  <1>4. ASSUME procs[p].pc \notin Resting PROVE Row.run_state \notin Terminal
    BY <1>4 DEF AtWork
  <1>5. "running" \notin Terminal /\ "awaiting_approval" \notin Terminal
        /\ "awaiting_envelope_revision" \notin Terminal
    BY DEF Terminal
  <1>6. UNCHANGED vars => Row' = Row
    BY DEF vars, Row
  <1>7. CASE LoopHead(p)
    BY <1>3, <1>5, <1>6, <1>7 DEF LoopHead, Quietly, Resting
  <1>8. CASE GiveUp(p)
    <2>1. procs[p].pc \notin Resting /\ Exit(p)
      BY <1>8 DEF GiveUp, At, Resting
    <2>2. procs'[p].pc = "idle"
      BY <1>1, <2>1 DEF Exit, Become, Idle
    <2> QED
      BY <1>4, <2>1, <2>2 DEF Resting
  <1>9. CASE Denied(p)
    BY <1>4, <1>6, <1>9 DEF Denied, At, Quietly, Resting
  <1>10. CASE AskUser(p)
    <2>1. procs[p].pc \notin Resting
      BY <1>10 DEF AskUser, At, Resting
    <2>2. procs'[p].pc \in {"returned", "idle"}
      BY <1>2, <1>3, <1>10 DEF AskUser
    <2> QED
      BY <1>4, <2>1, <2>2 DEF Resting
  <1>11. CASE AskEnvelope(p)
    <2>1. procs[p].pc \notin Resting
      BY <1>11 DEF AskEnvelope, At, Resting
    <2>2. procs'[p].pc \in {"returned", "idle"}
      BY <1>2, <1>3, <1>11 DEF AskEnvelope
    <2> QED
      BY <1>4, <2>1, <2>2 DEF Resting
  <1>12. CASE Returned(p)
    <2>1. procs'[p].pc \notin Resting => Row.run_state = "running"
      BY <1>3, <1>12 DEF Returned, Resting
    <2> QED
      BY <1>5, <1>6, <1>12, <2>1 DEF Returned, Quietly
  <1>13. ASSUME NEW fp, Choose(p, fp) PROVE Minds(p)
    BY <1>4, <1>6, <1>13 DEF Choose, At, Quietly, Resting
  <1>14. ASSUME NEW outcome, ChooseFinish(p, outcome) PROVE Minds(p)
    BY <1>4, <1>6, <1>14 DEF ChooseFinish, At, Quietly, Resting
  <1> QED
    BY <1>7, <1>8, <1>9, <1>10, <1>11, <1>12, <1>13, <1>14 DEF Loop

(* From the verdict to the observation.                                    *)
LEMMA ActMinds ==
  ASSUME TypeOK, ProcsOK, AtWork, NEW p \in Procs, Act(p)
  PROVE  Minds(p)
  <1> USE DEF Minds
  <1>1. procs \in [Procs -> Process] /\ procs[p] \in Process /\ Task \in Tasks
    BY LifecycleAssumption DEF ProcsOK
  <1>2. ASSUME NEW label, Goto(p, label)
        PROVE  procs'[p].pc = label
    BY <1>1, <1>2 DEF Goto, Process
  <1>3. ASSUME Exit(p)
        PROVE  procs'[p].pc = "idle"
    BY <1>1, <1>3 DEF Exit, Become, Idle
  <1>4. UNCHANGED vars => Row' = Row
    BY DEF vars, Row
  <1>5. CASE Record(p)
    <2>1. procs'[p].pc \in {"check", "idle"}
      BY <1>1, <1>3, <1>5 DEF Record, Become, Looping, Idle
    <2> QED
      BY <1>4, <1>5, <2>1 DEF Record, Resting
  <1>6. procs[p].pc \notin Resting => Row.run_state \notin Terminal
    BY DEF AtWork
  <1>7. procs[p].pc \notin Resting \/ Record(p)
    BY DEF Act, LookForWindow, RecoverOther, TakePermit, OpenWindow, ExecuteRead, ExecuteCommand,
           CommandEnds, ExecutePatch, ExecuteFails, Complete, FailClose, Retry, ClaimAttempt,
           At, Resting
  <1>8. CASE Row' = Row
    BY <1>5, <1>6, <1>7, <1>8
  <1>9. CASE RecoverOther(p) \/ Retry(p)
    <2>1. Row' = Row \/ procs'[p].pc \in {"returned", "idle", "record"}
      BY <1>2, <1>3, <1>4, <1>9 DEF RecoverOther, Retry
    <2>2. procs[p].pc \notin Resting
      BY <1>9 DEF RecoverOther, Retry, At, Resting
    <2> QED
      BY <1>6, <1>8, <2>1, <2>2 DEF Resting
  <1>10. CASE TakePermit(p)
    <2>1. ASSUME NEW fp, NEW env, NEW rev, NEW q, NEW n, CreatePermit(Task, fp, env, rev, q, n)
          PROVE  Row'.run_state = Row.run_state
      BY <1>1, <2>1 DEF CreatePermit, Debited, TypeOK, TaskRows, Row
    <2>2. procs[p].pc \notin Resting
      BY <1>10 DEF TakePermit, At, Resting
    <2> QED
      BY <1>4, <1>6, <1>10, <2>1, <2>2 DEF TakePermit
  <1>11. CASE OpenWindow(p)
    <2>1. ASSUME NEW n, NEW rev, NEW kind, NEW w, ConsumePermit(Task, n, rev, kind, w)
          PROVE  Row'.run_state \notin Terminal
      BY <1>1, <2>1 DEF ConsumePermit, Moved, WindowState, TypeOK, TaskRows, Row, Terminal
    <2>2. procs[p].pc \notin Resting
      BY <1>11 DEF OpenWindow, At, Resting
    <2> QED
      BY <1>4, <1>6, <1>11, <2>1, <2>2 DEF OpenWindow
  <1>12. CASE ExecuteCommand(p) \/ ExecutePatch(p) \/ ClaimAttempt(p)
    BY <1>4, <1>8, <1>12 DEF ExecuteCommand, ExecutePatch, StartPatch, StartTool, RestartPatch,
                             ClaimAttempt, ClaimRecoveredAttempt, Row
  <1>13. CASE Complete(p)
    <2>1. Row' = Row \/ Row'.run_state \in {"verifying", "running"}
      BY <1>4, <1>13, Closes DEF Complete, CompleteWindow
    <2>2. procs[p].pc \notin Resting
      BY <1>13 DEF Complete, At, Resting
    <2> QED
      BY <1>6, <1>8, <2>1, <2>2 DEF Terminal
  <1>14. CASE FailClose(p)
    <2>1. procs'[p].pc = "idle" /\ procs[p].pc \notin Resting
      BY <1>3, <1>14 DEF FailClose, At, Resting
    <2> QED
      BY <1>6, <2>1 DEF Resting
  <1> QED
    BY <1>4, <1>5, <1>8, <1>9, <1>10, <1>11, <1>12, <1>13, <1>14
    DEF Act, LookForWindow, ExecuteRead, CommandEnds, ExecuteFails, Quietly

(* The verification.                                                       *)
LEMMA VerifyMinds ==
  ASSUME TypeOK, ProcsOK, AtWork, NEW p \in Procs, Verify(p)
  PROVE  Minds(p)
  <1> USE DEF Minds
  <1>1. procs \in [Procs -> Process] /\ procs[p] \in Process /\ Demands(procs[p])
    BY DEF ProcsOK
  <1>2. procs[p].pc \notin Resting
    BY DEF Verify, Finish, Settle, VerifyNext, Sense, Judge, Conclude, At, Resting
  <1>3. Row.run_state \notin Terminal
    BY <1>2 DEF AtWork
  <1>4. ASSUME Exit(p)
        PROVE  procs'[p].pc = "idle"
    BY <1>1, <1>4 DEF Exit, Become, Idle
  <1>5. CASE Finish(p) \/ VerifyNext(p) \/ Sense(p) \/ Judge(p)
    BY <1>3, <1>5 DEF Finish, VerifyNext, Sense, Judge, Quietly, vars, Row
  <1>6. CASE Settle(p)
    <2>1. Row'.run_state = procs[p].target
      BY <1>6, Writes DEF Settle, SetState, Write
    <2>2. procs[p].target = "verifying" \/ procs'[p].pc = "idle"
      BY <1>4, <1>6 DEF Settle
    <2> QED
      BY <1>3, <2>1, <2>2 DEF Terminal, Resting
  <1>7. CASE Conclude(p)
    <2>1. Row'.run_state = procs[p].target \/ procs'[p].pc = "idle"
      BY <1>4, <1>7, Writes DEF Conclude, SetState, Write
    <2>2. procs[p].target = "running" \/ procs'[p].pc = "idle"
      BY <1>4, <1>7 DEF Conclude, AfterFailedVerify
    <2> QED
      BY <1>3, <2>1, <2>2 DEF Terminal, Resting
  <1> QED
    BY <1>5, <1>6, <1>7 DEF Verify

(* The commands, and the ways to die.                                      *)
LEMMA CommandMinds ==
  ASSUME TypeOK, ProcsOK, AtWork, NEW p \in Procs,
         ExecuteApproved(p) \/ FailResume(p) \/ Command(p) \/ Mishap(p)
  PROVE  Minds(p)
  <1> USE DEF Minds
  <1>1. procs \in [Procs -> Process] /\ procs[p] \in Process
    BY DEF ProcsOK
  <1>2. UNCHANGED vars => Row' = Row
    BY DEF vars, Row
  <1>3. CASE ExecuteApproved(p)
    <2>1. Row.run_state \notin Terminal
      BY <1>3 DEF ExecuteApproved, At, AtWork, Resting
    <2> QED
      BY <1>2, <1>3, <2>1 DEF ExecuteApproved, Quietly
  <1>4. CASE FailResume(p)
    <2>1. procs'[p].pc = "idle"
      BY <1>1, <1>4 DEF FailResume, Exit, Become, Idle
    <2> QED
      BY <1>2, <1>4, <2>1 DEF FailResume, Resting
  <1>5. CASE Crash(p)
    <2>1. procs'[p].pc = "killed"
      BY <1>1, <1>5 DEF Crash, Killed, Become, Idle
    <2> QED
      BY <1>2, <1>5, <2>1 DEF Crash, Resting
  <1>6. CASE PatchBreaksOff(p)
    <2>1. procs[p].pc = "execute"
      BY <1>6 DEF PatchBreaksOff, At
    <2>2. Row.run_state \notin Terminal
      BY <2>1 DEF AtWork, Resting
    <2> QED
      BY <1>2, <1>6, <2>2 DEF PatchBreaksOff
  <1>6a. CASE CommandWrites(p)
    <2>1. Row.run_state \notin Terminal
      BY <1>6a DEF CommandWrites, At, AtWork, Resting
    <2> QED
      BY <1>2, <1>6a, <2>1 DEF CommandWrites
  <1>7. ASSUME NEW fp \in Fingerprints, UserAnswers(p, fp)
        PROVE  Minds(p)
    <2>1. procs'[p].pc \in Resting
      BY <1>7 DEF UserAnswers, Free, Resting
    <2>2. Row.run_state \in Terminal => Row' = Row
      BY <1>7 DEF UserAnswers, Approve, Reject, Row, Terminal
    <2> QED
      BY <2>1, <2>2
  <1>8. ASSUME NEW fp \in Fingerprints, Resume(p, fp)
        PROVE  Minds(p)
    BY <1>2, <1>8 DEF Resume, Quietly
  <1>9. ASSUME NEW fp \in Fingerprints, ResumeRefused(p, fp)
        PROVE  Minds(p)
    <2>1. procs'[p].pc = "refused"
      BY <1>1, <1>9 DEF ResumeRefused, Goto, Process
    <2> QED
      BY <1>2, <1>9, <2>1 DEF ResumeRefused, Quietly, Resting
  <1> QED
    BY <1>3, <1>4, <1>5, <1>6, <1>6a, <1>7, <1>8, <1>9 DEF Command, Mishap

(* One command at a time, whoever is at work works on an unended task, and *)
(* no step of it leaves an end.                                            *)
LEMMA LoneMinds ==
  ASSUME OneAtATime, LifecycleInvariant, AtWork, LifecycleNext
  PROVE  AtWork' /\ (Row.run_state \in Terminal => Row'.run_state = Row.run_state)
  <1>1. TypeOK /\ ProcsOK
    BY DEF LifecycleInvariant, WindowInvariant, ApprovalInvariant
  <1>2. ASSUME NEW p \in Procs, Proceed(p) \/ Command(p) \/ Mishap(p)
        PROVE  AtWork' /\ (Row.run_state \in Terminal => Row'.run_state = Row.run_state)
    <2>1. Minds(p)
      BY <1>1, <1>2, LoopMinds, ActMinds, VerifyMinds, CommandMinds DEF Proceed
    <2>2. \A q \in Procs : q = p
      BY DEF OneAtATime
    <2> QED
      BY <2>1, <2>2 DEF Minds, AtWork
  <1>3. ASSUME OrphanWrites \/ Meddle
        PROVE  AtWork' /\ Row' = Row
    <2>1. \A p \in Procs : procs'[p].pc = procs[p].pc
      BY <1>1, <1>3, OutsideKeeps, Voids DEF ProcsOK
    <2>2. Row' = Row
      BY <1>1, <1>3, OutsideKeeps DEF vars, Row
    <2> QED
      BY <2>1, <2>2 DEF AtWork
  <1> QED
    BY <1>2, <1>3 DEF LifecycleNext

(* One command at a time, a task that has ended stays as it ended: what    *)
(* two commands can undo (a verdict written over an end), one cannot.      *)
THEOREM EndedStaysEnded ==
  ASSUME OneAtATime
  PROVE  LifecycleSpec => TerminalIsFinal
  <1>1. LifecycleInit => AtWork
    BY LifecycleAssumption DEF LifecycleInit, Init, AtWork, Row, Terminal
  <1>2. LifecycleInvariant /\ AtWork /\ [LifecycleNext]_lifecycleVars =>
          AtWork' /\ (Row.run_state \in Terminal => Row'.run_state = Row.run_state)
    <2>1. UNCHANGED lifecycleVars => UNCHANGED <<Row, procs>>
      BY DEF lifecycleVars, vars, Row
    <2> QED
      BY <2>1, LoneMinds DEF AtWork
  <1> QED
    BY <1>1, <1>2, LifecycleAlways, PTL DEF LifecycleSpec, TerminalIsFinal

-----------------------------------------------------------------------------
(* What a verification that still passes has shown.                        *)

Proving == {"permit", "consume", "execute", "running", "complete", "failclose", "sense",
            "verify", "judge", "conclude", "record"}

(* While it passes, each verify command so far passed, and nothing but     *)
(* verify commands wrote the worktree since; what is about to run is the   *)
(* next command, no patch.                                                 *)
Proven(r) ==
  /\ r.pass =>
       /\ r.pc \in Proving
       /\ r.green = Profiles - r.todo
       /\ r.pc \in {"judge", "conclude"} => r.todo = 0
       /\ r.pc \in {"permit", "consume", "execute", "running"} =>
            r.todo > 0 /\ KindOf(r.hand) = "run_command"
       /\ r.pc \in {"running", "complete", "sense"} => r.fresh
  /\ r.pc = "conclude" /\ r.target = "succeeded" => r.pass

AllProven == \A p \in Procs : Proven(procs[p])

(* A sensor passes a command only when nothing it saw was a failure.       *)
LEMMA PassIsClean ==
  ASSUME NEW sensor, NEW outcome \in Outcomes(sensor), outcome.pass
  PROVE  outcome.clean
  <1>1. PICK result \in Sensed!Results, report \in Sensed!Reports :
          outcome = [pass  |-> Sensed!SensorVerdict(sensor, result, report) = "PASS",
                     clean |-> Clean(sensor, result, report)]
    BY DEF Outcomes
  <1>2. Sensed!SensorVerdict(sensor, result, report) = "PASS"
    BY <1>1
  <1>3. report.own \in {0, 1} /\ report.suites \in {0, 1} /\ report.cases \in {0, 1}
        /\ report.form \in {"missing", "malformed", "testsuite", "testsuites"}
    BY DEF Sensed!Reports
  <1>4. Clean(sensor, result, report)
    BY <1>2, <1>3 DEF Clean, Sensed!SensorVerdict, Sensed!JunitVerdict,
                      Sensed!ExitCodeVerdict, Sensed!Problems
  <1> QED
    BY <1>1, <1>4

(* A process that begins anew has shown nothing.                           *)
LEMMA AnewIsProven ==
  ASSUME ProcsOK, NEW p \in Procs,
         \/ Exit(p)
         \/ \E label \in {"killed", "giveup", "read"} : Become(p, [Idle EXCEPT !.pc = label])
         \/ \E n : Become(p, [Idle EXCEPT !.pc = "check", !.steps = n])
         \/ \E q, fp : Become(p, [Idle EXCEPT !.pc = "approved", !.pending = q, !.hand = fp])
         \/ Touch(p, [Idle EXCEPT !.pc = "killed"])
  PROVE  Proven(procs'[p])
  <1>1. ASSUME NEW r, Become(p, r) PROVE procs'[p] = r
    BY <1>1 DEF Become, ProcsOK
  <1>2. ASSUME NEW r, ~r.pass, r.pc # "conclude" PROVE Proven(r)
    BY <1>2 DEF Proven
  <1>3. CASE Exit(p)
    BY <1>1, <1>2, <1>3 DEF Exit, Idle
  <1>4. ASSUME NEW label \in {"killed", "giveup", "read"}, Become(p, [Idle EXCEPT !.pc = label])
        PROVE  Proven(procs'[p])
    BY <1>1, <1>2, <1>4 DEF Idle
  <1>5. ASSUME NEW n, Become(p, [Idle EXCEPT !.pc = "check", !.steps = n])
        PROVE  Proven(procs'[p])
    BY <1>1, <1>2, <1>5 DEF Idle
  <1>6. ASSUME NEW q, NEW fp,
               Become(p, [Idle EXCEPT !.pc = "approved", !.pending = q, !.hand = fp])
        PROVE  Proven(procs'[p])
    BY <1>1, <1>2, <1>6 DEF Idle
  <1>7. CASE Touch(p, [Idle EXCEPT !.pc = "killed"])
    <2> DEFINE r == [Idle EXCEPT !.pc = "killed"]
    <2>1. r \in Process /\ r.pc = "killed" /\ ~r.pass
      BY IdleIsProcess DEF Idle
    <2>2. procs'[p] \in {r, Void(r)}
      BY <1>7 DEF Touch
    <2> HIDE DEF r
    <2>3. procs'[p].pc = "killed" /\ ~procs'[p].pass
      BY <2>1, <2>2, Voids
    <2> QED
      BY <1>2, <2>3
  <1> QED
    BY <1>3, <1>4, <1>5, <1>6, <1>7

(* Going on changes nothing of what was shown.                             *)
LEMMA GoesOnly ==
  ASSUME ProcsOK, NEW p \in Procs, NEW label, Goto(p, label)
  PROVE  /\ procs'[p].pc = label /\ procs'[p].hand = procs[p].hand
         /\ procs'[p].pass = procs[p].pass /\ procs'[p].green = procs[p].green
         /\ procs'[p].todo = procs[p].todo /\ procs'[p].target = procs[p].target
         /\ procs'[p].fresh = procs[p].fresh
  BY DEF Goto, ProcsOK, Process

(* A process outside a verification gets into none by going on.            *)
LEMMA GoesProven ==
  ASSUME ProcsOK, NEW p \in Procs, Proven(procs[p]), procs[p].pc \notin Proving,
         NEW label, label # "conclude", Goto(p, label)
  PROVE  Proven(procs'[p])
  BY GoesOnly DEF Proven

(* The loop shows nothing.                                                 *)
LEMMA LoopProven ==
  ASSUME ProcsOK, NEW p \in Procs, Proven(procs[p]), Loop(p)
  PROVE  Proven(procs'[p])
  <1>1. procs \in [Procs -> Process] /\ procs[p] \in Process
    BY DEF ProcsOK
  <1>2. procs[p].pc \notin Proving
    BY DEF Loop, LoopHead, GiveUp, Denied, AskUser, AskEnvelope, Returned, Choose, ChooseFinish,
           At, Proving
  <1>3. ~procs[p].pass
    BY <1>2 DEF Proven
  <1>4. ASSUME ~procs'[p].pass, procs'[p].pc # "conclude"
        PROVE  Proven(procs'[p])
    BY <1>4 DEF Proven
  <1>5. ASSUME NEW fp, Choose(p, fp) PROVE Proven(procs'[p])
    <2>1. Branch[Verdict(fp)] # "conclude"
      BY DEF Branch, Verdict, Evaluate
    <2>2. ~procs'[p].pass /\ procs'[p].pc # "conclude"
      BY <1>1, <1>3, <1>5, <2>1 DEF Choose, Process
    <2> QED
      BY <1>4, <2>2
  <1>6. ASSUME NEW outcome, ChooseFinish(p, outcome) PROVE Proven(procs'[p])
    <2>1. ~procs'[p].pass /\ procs'[p].pc # "conclude"
      BY <1>1, <1>3, <1>6 DEF ChooseFinish, Process
    <2> QED
      BY <1>4, <2>1
  <1>7. CASE LoopHead(p)
    <2>1. CASE procs' = [procs EXCEPT ![p].pc = "read", ![p].steps = @ - 1]
      <3>1. ~procs'[p].pass /\ procs'[p].pc # "conclude"
        BY <1>1, <1>3, <2>1 DEF Process
      <3> QED
        BY <1>4, <3>1
    <2> QED
      BY <1>2, <1>7, <2>1, AnewIsProven, GoesProven DEF LoopHead
  <1>8. CASE GiveUp(p) \/ Denied(p) \/ Returned(p)
    BY <1>8, AnewIsProven DEF GiveUp, Denied, Returned
  <1>9. CASE AskUser(p) \/ AskEnvelope(p)
    <2>1. Exit(p) \/ Goto(p, "returned")
      BY <1>9 DEF AskUser, AskEnvelope
    <2> QED
      BY <1>2, <2>1, AnewIsProven, GoesProven
  <1> QED
    BY <1>5, <1>6, <1>7, <1>8, <1>9 DEF Loop

(* An action of a passing verification is a command, and is counted.       *)
LEMMA ActProven ==
  ASSUME ProcsOK, NEW p \in Procs, Proven(procs[p]), Act(p)
  PROVE  Proven(procs'[p])
  <1>1. procs \in [Procs -> Process] /\ procs[p] \in Process /\ Demands(procs[p])
        /\ procs[p].todo \in Nat
    BY LifecycleAssumption DEF ProcsOK, Process, Profiles
  <1>2. ASSUME procs[p].pc \notin Proving, ~procs'[p].pass \/ procs'[p].pass = procs[p].pass,
               procs'[p].pc # "conclude"
        PROVE  Proven(procs'[p])
    BY <1>2 DEF Proven
  <1>3. CASE LookForWindow(p)
    <2>1. ASSUME NEW w, NEW label \in {"retry", "execute", "recover"}, Adopt(p, w, label)
          PROVE  procs'[p].pc = label /\ procs'[p].pass = procs[p].pass
      BY <1>1, <2>1 DEF Adopt, Process
    <2>2. procs[p].pc \notin Proving
      BY <1>3 DEF LookForWindow, At, Proving
    <2> QED
      BY <1>2, <1>3, <2>1, <2>2, AnewIsProven, GoesProven DEF LookForWindow
  <1>4. CASE RecoverOther(p)
    <2>1. procs[p].pc \notin Proving
      BY <1>4 DEF RecoverOther, At, Proving
    <2> QED
      BY <1>4, <2>1, AnewIsProven, GoesProven DEF RecoverOther
  <1>5. CASE TakePermit(p)
    <2>1. ASSUME NEW n, procs' = [procs EXCEPT ![p].pc = "consume", ![p].permit = n]
          PROVE  Proven(procs'[p])
      <3>1. procs[p].pc = "permit"
        BY <1>5 DEF TakePermit, At
      <3>2. procs'[p].pc = "consume" /\ procs'[p].hand = procs[p].hand
            /\ procs'[p].pass = procs[p].pass /\ procs'[p].green = procs[p].green
            /\ procs'[p].todo = procs[p].todo
        BY <1>1, <2>1 DEF Process
      <3> QED
        BY <3>1, <3>2 DEF Proven, Proving
    <2> QED
      BY <1>5, <2>1, AnewIsProven DEF TakePermit
  <1>6. CASE OpenWindow(p)
    <2>1. ASSUME NEW w, procs' = [procs EXCEPT ![p].pc = "execute", ![p].window = w]
          PROVE  Proven(procs'[p])
      <3>1. procs[p].pc = "consume"
        BY <1>6 DEF OpenWindow, At
      <3>2. procs'[p].pc = "execute" /\ procs'[p].hand = procs[p].hand
            /\ procs'[p].pass = procs[p].pass /\ procs'[p].green = procs[p].green
            /\ procs'[p].todo = procs[p].todo
        BY <1>1, <2>1 DEF Process
      <3> QED
        BY <3>1, <3>2 DEF Proven, Proving
    <2> QED
      BY <1>6, <2>1, AnewIsProven DEF OpenWindow
  <1>7. CASE ExecuteRead(p) \/ ExecuteFails(p) \/ CommandEnds(p)
    <2>1. PICK label \in {"complete", "failclose"} : Goto(p, label)
      BY <1>7 DEF ExecuteRead, ExecuteFails, CommandEnds
    <2>2. procs'[p].pc = label /\ procs'[p].pass = procs[p].pass
          /\ procs'[p].green = procs[p].green /\ procs'[p].todo = procs[p].todo
          /\ procs'[p].fresh = procs[p].fresh
      BY <2>1, GoesOnly
    <2>3. CASE procs[p].pc = "running"
      BY <2>1, <2>2, <2>3 DEF Proven, Proving
    <2>4. CASE procs[p].pc = "execute"
      <3>1. procs[p].pass => KindOf(procs[p].hand) = "run_command"
        BY <2>4 DEF Proven
      <3>2. procs[p].pass => label = "failclose"
        <4>1. CASE ExecuteRead(p)
          BY <3>1, <4>1 DEF ExecuteRead
        <4>2. CASE ExecuteFails(p)
          BY <2>2, <4>2, GoesOnly DEF ExecuteFails
        <4> QED
          BY <1>7, <2>4, <4>1, <4>2 DEF CommandEnds, At
      <3> QED
        BY <2>1, <2>2, <2>4, <3>2 DEF Proven, Proving
    <2> QED
      BY <1>7, <2>3, <2>4 DEF ExecuteRead, ExecuteFails, CommandEnds, At
  <1>8. CASE ExecuteCommand(p)
    <2>1. procs[p].pc = "execute"
      BY <1>8 DEF ExecuteCommand, At
    <2>2. procs'[p].pc = "running" /\ procs'[p].pass = procs[p].pass
          /\ procs'[p].green = procs[p].green /\ procs'[p].todo = procs[p].todo
          /\ procs'[p].hand = procs[p].hand /\ procs'[p].fresh = Verifying(p)
      BY <1>1, <1>8 DEF ExecuteCommand, Process
    <2> QED
      BY <2>1, <2>2 DEF Proven, Proving, Verifying
  <1>9. CASE ExecutePatch(p)
    <2>1. ~procs[p].pass
      BY <1>9 DEF ExecutePatch, At, Proven
    <2> DEFINE r == [procs[p] EXCEPT !.pc = "complete"]
    <2>2. "complete" \in Labels
      BY DEF Labels
    <2>3. r \in Process /\ r.pc = "complete" /\ r.pass = procs[p].pass
      BY <1>1, <2>2 DEF Process
    <2>4. procs'[p] \in {r, Void(r)}
      BY <1>9 DEF ExecutePatch, Touch
    <2> HIDE DEF r
    <2>5. procs'[p].pc = "complete" /\ procs'[p].pass = procs[p].pass
      BY <2>3, <2>4, Voids
    <2> QED
      BY <2>1, <2>5 DEF Proven
  <1>10. CASE Complete(p)
    <2>1. PICK label \in {"sense", "record"} : Goto(p, label)
      BY <1>10 DEF Complete
    <2>2. procs'[p].pc = label /\ procs'[p].pass = procs[p].pass
          /\ procs'[p].green = procs[p].green /\ procs'[p].todo = procs[p].todo
          /\ procs'[p].fresh = procs[p].fresh
      BY <2>1, GoesOnly
    <2>3. procs[p].pc = "complete"
      BY <1>10 DEF Complete, At
    <2> QED
      BY <2>1, <2>2, <2>3 DEF Proven, Proving
  <1>11. CASE FailClose(p)
    BY <1>11, AnewIsProven DEF FailClose
  <1>12. CASE Record(p)
    BY <1>12, AnewIsProven DEF Record, Looping
  <1>13. CASE Retry(p)
    <2>1. procs[p].pc \notin Proving
      BY <1>13 DEF Retry, At, Proving
    <2>2. ASSUME procs' = [procs EXCEPT ![p].pc = "claim", ![p].rev = Revision]
          PROVE  procs'[p].pc = "claim" /\ procs'[p].pass = procs[p].pass
      BY <1>1, <2>2 DEF Process
    <2> QED
      BY <1>2, <1>13, <2>1, <2>2, AnewIsProven, GoesProven DEF Retry
  <1>14. CASE ClaimAttempt(p)
    <2>1. procs[p].pc \notin Proving
      BY <1>14 DEF ClaimAttempt, At, Proving
    <2>2. ASSUME NEW c, procs' = [procs EXCEPT ![p].pc = "execute", ![p].claim = c]
          PROVE  procs'[p].pc = "execute" /\ procs'[p].pass = procs[p].pass
      BY <1>1, <2>2 DEF Process
    <2> QED
      BY <1>2, <1>14, <2>1, <2>2, AnewIsProven DEF ClaimAttempt
  <1> QED
    BY <1>3, <1>4, <1>5, <1>6, <1>7, <1>8, <1>9, <1>10, <1>11, <1>12, <1>13, <1>14 DEF Act

(* The verification counts what passed, and starts over at none.           *)
LEMMA VerifyProven ==
  ASSUME ProcsOK, NEW p \in Procs, Proven(procs[p]), Verify(p)
  PROVE  Proven(procs'[p])
  <1>1. procs \in [Procs -> Process] /\ procs[p] \in Process /\ Demands(procs[p])
    BY DEF ProcsOK
  <1>2. Profiles \in Nat /\ procs[p].todo \in 0..Profiles /\ procs[p].green \in Nat
    BY <1>1, LifecycleAssumption DEF Process, Profiles
  <1>3. CASE Finish(p)
    <2>1. ASSUME procs' = [procs EXCEPT ![p].pc = "settle", ![p].target = FinishState(@)]
          PROVE  Proven(procs'[p])
      <3>1. procs'[p].pc = "settle" /\ procs'[p].pass = procs[p].pass
        BY <1>1, <2>1 DEF Process
      <3>2. ~procs[p].pass
        BY <1>3 DEF Finish, At, Proven, Proving
      <3> QED
        BY <3>1, <3>2 DEF Proven
    <2> QED
      BY <1>3, <2>1, AnewIsProven DEF Finish
  <1>4. CASE Settle(p)
    <2>1. ASSUME procs' = [procs EXCEPT ![p].pc = "verify", ![p].todo = Profiles,
                                        ![p].pass = TRUE, ![p].window = None, ![p].green = 0]
          PROVE  Proven(procs'[p])
      <3>1. procs'[p].pc = "verify" /\ procs'[p].todo = Profiles /\ procs'[p].green = 0
        BY <1>1, <2>1 DEF Process
      <3> QED
        BY <1>2, <3>1 DEF Proven, Proving
    <2> QED
      BY <1>4, <2>1, AnewIsProven DEF Settle
  <1>5. CASE VerifyNext(p)
    <2>1. procs[p].pc = "verify"
      BY <1>5 DEF VerifyNext, At
    <2>2. CASE procs[p].todo = 0
      <3>1. Goto(p, "judge")
        BY <1>5, <2>2 DEF VerifyNext
      <3> QED
        BY <2>1, <2>2, <3>1, GoesOnly DEF Proven, Proving
    <2>3. CASE procs[p].todo # 0 /\ Verdict(Due(p)) # "Allow"
      <3>1. ~procs'[p].pass /\ procs'[p].pc = "judge"
        BY <1>1, <1>5, <2>3 DEF VerifyNext, Process
      <3> QED
        BY <3>1 DEF Proven
    <2>4. CASE procs[p].todo # 0 /\ Verdict(Due(p)) = "Allow"
      <3>1. Profiles - procs[p].todo + 1 \in 1..Profiles
        BY <1>2, <2>4
      <3>2. KindOf(Due(p)) = "run_command"
        BY <3>1, DueIsCommand DEF Due, KindOf, ActionKind
      <3>3. procs'[p].pc = "permit" /\ procs'[p].hand = Due(p)
            /\ procs'[p].pass = procs[p].pass /\ procs'[p].green = procs[p].green
            /\ procs'[p].todo = procs[p].todo
        BY <1>1, <1>5, <2>4 DEF VerifyNext, Process
      <3> HIDE DEF KindOf
      <3> QED
        BY <1>2, <2>1, <2>4, <3>2, <3>3 DEF Proven, Proving
    <2> QED
      BY <2>2, <2>3, <2>4
  <1>6. CASE Sense(p)
    <2>1. PICK outcome \in Outcomes(SensorOf[ActionOf[procs[p].hand].profile]) :
            procs' = [procs EXCEPT ![p].pc = "verify", ![p].todo = @ - 1,
                                   ![p].pass = @ /\ outcome.pass,
                                   ![p].green = @ + (IF outcome.clean /\ procs[p].fresh
                                                     THEN 1 ELSE 0),
                                   ![p].fresh = FALSE]
      BY <1>6 DEF Sense
    <2>2. procs'[p].pc = "verify" /\ procs'[p].todo = procs[p].todo - 1
          /\ procs'[p].pass = (procs[p].pass /\ outcome.pass)
          /\ procs'[p].green = procs[p].green + (IF outcome.clean /\ procs[p].fresh
                                                 THEN 1 ELSE 0)
      BY <1>1, <2>1 DEF Process
    <2>3. ASSUME procs'[p].pass
          PROVE  procs'[p].green = Profiles - procs'[p].todo
      <3>1. outcome.clean
        BY <2>2, <2>3, PassIsClean
      <3>2. procs[p].green = Profiles - procs[p].todo /\ procs[p].fresh
        BY <1>6, <2>2, <2>3 DEF Proven, Sense, At
      <3> QED
        BY <1>2, <2>2, <3>1, <3>2
    <2> QED
      BY <2>2, <2>3 DEF Proven, Proving
  <1>7. CASE Judge(p)
    <2>1. PICK withinLimit \in BOOLEAN :
            procs' = [procs EXCEPT ![p].pc = "conclude", ![p].target =
                        IF procs[p].pass /\ withinLimit THEN "succeeded" ELSE AfterVerify]
      BY <1>7 DEF Judge
    <2>2. procs'[p].pc = "conclude" /\ procs'[p].pass = procs[p].pass
          /\ procs'[p].green = procs[p].green /\ procs'[p].todo = procs[p].todo
          /\ procs'[p].target = IF procs[p].pass /\ withinLimit THEN "succeeded" ELSE AfterVerify
      BY <1>1, <2>1 DEF Process
    <2>3. AfterVerify # "succeeded"
      BY DEF AfterVerify
    <2>4. procs[p].pc = "judge"
      BY <1>7 DEF Judge, At
    <2> QED
      BY <2>2, <2>3, <2>4 DEF Proven, Proving
  <1>8. CASE Conclude(p)
    <2>1. ASSUME Goto(p, "record")
          PROVE  Proven(procs'[p])
      <3>1. procs[p].pc = "conclude"
        BY <1>8 DEF Conclude, At
      <3> QED
        BY <2>1, <3>1, GoesOnly DEF Proven, Proving
    <2> QED
      BY <1>8, <2>1, AnewIsProven DEF Conclude, AfterFailedVerify
  <1> QED
    BY <1>3, <1>4, <1>5, <1>6, <1>7, <1>8 DEF Verify

(* A command begins with nothing shown.                                    *)
LEMMA CommandProven ==
  ASSUME ProcsOK, NEW p \in Procs, Proven(procs[p]),
         ExecuteApproved(p) \/ FailResume(p) \/ Command(p) \/ Mishap(p)
  PROVE  Proven(procs'[p])
  <1>1. procs \in [Procs -> Process] /\ procs[p] \in Process
    BY DEF ProcsOK
  <1>2. CASE ExecuteApproved(p)
    <2>1. procs'[p].pc = "act" /\ procs'[p].pass = procs[p].pass
      BY <1>1, <1>2 DEF ExecuteApproved, Process
    <2> QED
      BY <1>2, <2>1 DEF ExecuteApproved, At, Proven, Proving
  <1>3. CASE FailResume(p) \/ Crash(p)
    BY <1>3, AnewIsProven DEF FailResume, Crash, Killed
  <1>4. CASE PatchBreaksOff(p)
    <2>1. CASE Touch(p, [Idle EXCEPT !.pc = "killed"])
      BY <2>1, AnewIsProven
    <2>2. CASE Touch(p, [procs[p] EXCEPT !.pc = "failclose"])
      <3>1. ~procs[p].pass
        BY <1>4 DEF PatchBreaksOff, At, Proven
      <3> DEFINE r == [procs[p] EXCEPT !.pc = "failclose"]
      <3>2. "failclose" \in Labels
        BY DEF Labels
      <3>3. r \in Process /\ r.pc = "failclose" /\ r.pass = procs[p].pass
        BY <1>1, <3>2 DEF Process
      <3>4. procs'[p] \in {r, Void(r)}
        BY <2>2 DEF Touch
      <3> HIDE DEF r
      <3>5. procs'[p].pc = "failclose" /\ procs'[p].pass = procs[p].pass
        BY <3>3, <3>4, Voids
      <3> QED
        BY <3>1, <3>5 DEF Proven
    <2> QED
      BY <1>4, <2>1, <2>2 DEF PatchBreaksOff
  <1>5. ASSUME NEW fp, UserAnswers(p, fp) PROVE Proven(procs'[p])
    BY <1>5 DEF UserAnswers
  <1>6. ASSUME NEW fp, Resume(p, fp) PROVE Proven(procs'[p])
    BY <1>6, AnewIsProven DEF Resume
  <1>7. ASSUME NEW fp, ResumeRefused(p, fp) PROVE Proven(procs'[p])
    <2>1. procs'[p].pc = "refused" /\ procs'[p].pass = procs[p].pass
      BY <1>7, GoesOnly DEF ResumeRefused
    <2> QED
      BY <1>7, <2>1 DEF ResumeRefused, Free, Proven, Proving
  <1>8. CASE CommandWrites(p)
    <2>1. procs[p].pc = "running"
      BY <1>8 DEF CommandWrites, At
    <2>2. CASE procs[p].pass
      <3>1. procs'[p] = procs[p]
        BY <1>8, <2>1, <2>2 DEF CommandWrites, Touch, Proven, Verifying
      <3> QED
        BY <3>1
    <2>3. CASE ~procs[p].pass
      <3>1. procs'[p] \in {procs[p], Void(procs[p])}
        BY <1>8 DEF CommandWrites, Touch
      <3>2. ~procs'[p].pass /\ procs'[p].pc = "running"
        BY <1>1, <2>1, <2>3, <3>1, Voids
      <3> QED
        BY <3>2 DEF Proven
    <2> QED
      BY <2>2, <2>3
  <1> QED
    BY <1>2, <1>3, <1>4, <1>5, <1>6, <1>7, <1>8 DEF Command, Mishap

(* Only a verification that concludes so makes a task succeed.             *)
LEMMA OnlyConclusionSucceeds ==
  ASSUME TypeOK, ProcsOK, NEW p \in Procs,
         Proceed(p) \/ Command(p) \/ Mishap(p),
         Row.run_state # "succeeded", Row'.run_state = "succeeded"
  PROVE  At(p, "conclude") /\ procs[p].target = "succeeded"
  <1>1. procs[p] \in Process /\ Demands(procs[p]) /\ Task \in Tasks
    BY LifecycleAssumption DEF ProcsOK
  <1>2. ~UNCHANGED vars /\ Row' # Row
    BY DEF vars, Row
  <1>3. CASE Loop(p)
    <2>1. ASSUME NEW fp, NEW rev, NEW q, RequestApproval(Task, fp, rev, q)
          PROVE  Row'.run_state = "awaiting_approval"
      BY <1>1, <2>1 DEF RequestApproval, Moved, TypeOK, TaskRows, Row
    <2> QED
      BY <1>2, <1>3, <2>1, Writes DEF Loop, LoopHead, GiveUp, Denied, AskUser, AskEnvelope,
           Returned, Choose, ChooseFinish, SetState, Write, Quietly
  <1>4. CASE Act(p)
    <2>1. ASSUME NEW fp, NEW env, NEW rev, NEW q, NEW n, CreatePermit(Task, fp, env, rev, q, n)
          PROVE  Row'.run_state = Row.run_state
      BY <1>1, <2>1 DEF CreatePermit, Debited, TypeOK, TaskRows, Row
    <2>2. ASSUME NEW n, NEW rev, NEW kind, NEW w, ConsumePermit(Task, n, rev, kind, w)
          PROVE  Row'.run_state # "succeeded"
      BY <1>1, <2>2 DEF ConsumePermit, Moved, WindowState, TypeOK, TaskRows, Row
    <2>3. ASSUME NEW rev, NEW seen, NEW w, Recover(Task, rev, seen, w)
          PROVE  Row'.run_state # "succeeded"
      BY <2>3, Closes DEF Recover, RecoverState
    <2>4. ~LookForWindow(p) /\ ~ExecuteRead(p) /\ ~CommandEnds(p) /\ ~ExecuteFails(p)
          /\ ~Record(p)
      BY <1>2 DEF LookForWindow, ExecuteRead, CommandEnds, ExecuteFails, Record, Quietly
    <2>5. ~ExecuteCommand(p) /\ ~ExecutePatch(p) /\ ~ClaimAttempt(p)
      BY <1>2 DEF ExecuteCommand, ExecutePatch, StartPatch, StartTool, RestartPatch,
                  ClaimAttempt, ClaimRecoveredAttempt, Row
    <2>6. ~Complete(p) /\ ~FailClose(p)
      BY <1>2, Closes DEF Complete, CompleteWindow, FailClose, FailCloseWindow
    <2> QED
      BY <1>2, <1>4, <2>1, <2>2, <2>3, <2>4, <2>5, <2>6
      DEF Act, RecoverOther, TakePermit, OpenWindow, Retry
  <1>5. CASE Verify(p)
    <2>1. Settle(p) \/ Conclude(p)
      BY <1>2, <1>5 DEF Verify, Finish, VerifyNext, Sense, Judge, Quietly
    <2>2. ~Settle(p)
      BY <1>1, Writes DEF Settle, SetState, Write, Demands, At
    <2> QED
      BY <2>1, <2>2, Writes DEF Conclude, SetState, Write
  <1>6. CASE ExecuteApproved(p) \/ FailResume(p) \/ Mishap(p)
    BY <1>2, <1>6, Writes DEF ExecuteApproved, FailResume, Mishap, Crash, PatchBreaksOff,
                              CommandWrites, SetState, Write, Quietly
  <1>7. CASE Command(p)
    <2>1. ASSUME NEW fp, UserAnswers(p, fp) PROVE FALSE
      BY <1>1, <1>2, <2>1 DEF UserAnswers, Approve, Reject, Moved, TypeOK, TaskRows, Row
    <2> QED
      BY <1>2, <1>7, <2>1 DEF Command, Resume, ResumeRefused, Quietly
  <1> QED
    BY <1>3, <1>4, <1>5, <1>6, <1>7 DEF Proceed

-----------------------------------------------------------------------------
(* A command that has outlived its process.                                *)

(* The windows of commands that were started and not seen to end.          *)
Unended == {w \in OpenWindows : windows[w].kind = "run_command" /\ windows[w].started}

(* One command at a time, a command that outlives its process leaves a     *)
(* window open that no resume gets past: nothing is verified any more.     *)
Orphaned ==
  /\ \A p \in Procs : procs[p].pc = "running" => procs[p].window \in Unended
  /\ orphan => /\ Unended # {}
               /\ \A p \in Procs : procs[p].pc \in {"idle", "killed", "refused"}

(* A command that has outlived its process outlives the next step too, and *)
(* the task goes nowhere.                                                  *)
LEMMA StaysOrphaned ==
  ASSUME OneAtATime, ProcsOK, Orphaned, orphan, NEW p \in Procs,
         Proceed(p) \/ Command(p) \/ Mishap(p)
  PROVE  Orphaned'
  <1>1. procs \in [Procs -> Process] /\ procs[p].pc \in {"idle", "killed", "refused"}
        /\ Unended # {}
    BY DEF ProcsOK, Orphaned
  <1> SUFFICES /\ windows' = windows
               /\ procs'[p].pc \in {"idle", "killed", "refused"}
    BY <1>1 DEF OneAtATime, Orphaned, Unended, OpenWindows
  <1>2. ASSUME NEW fp \in Fingerprints, UserAnswers(p, fp)
        PROVE  windows' = windows /\ procs' = procs
    BY <1>2 DEF UserAnswers, Approve, Reject, Answer
  <1>3. ASSUME NEW fp \in Fingerprints, Resume(p, fp)
        PROVE  FALSE
    BY <1>1, <1>3 DEF Resume, Verified, Unended
  <1>4. ASSUME NEW fp \in Fingerprints, ResumeRefused(p, fp)
        PROVE  windows' = windows /\ procs'[p].pc = "refused"
    BY <1>1, <1>4 DEF ResumeRefused, Quietly, vars, Goto, Process
  <1>5. CASE FailResume(p)
    BY <1>1, <1>5 DEF FailResume, SetState, Write, UpdateTask, vars, Exit, Become, Idle
  <1>6. CASE Crash(p)
    BY <1>1, <1>6 DEF Crash, Killed, Become, Idle, vars
  <1>7. ~Loop(p) /\ ~Verify(p) /\ ~ExecuteApproved(p)
    BY <1>1 DEF Loop, LoopHead, GiveUp, Denied, AskUser, AskEnvelope, Returned, Choose,
                ChooseFinish, Verify, Finish, Settle, VerifyNext, Sense, Judge, Conclude,
                ExecuteApproved, At
  <1>8. ~Act(p) /\ ~PatchBreaksOff(p) /\ ~CommandWrites(p)
    BY <1>1 DEF Act, LookForWindow, RecoverOther, TakePermit, OpenWindow, ExecuteRead,
                ExecuteCommand, CommandEnds, ExecutePatch, ExecuteFails, Complete, FailClose,
                Record, Retry, ClaimAttempt, PatchBreaksOff, CommandWrites, At
  <1> QED
    BY <1>1, <1>2, <1>3, <1>4, <1>5, <1>6, <1>7, <1>8 DEF Proceed, Command, Mishap

(* A command outlives its process only if it was running in an open window.*)
LEMMA BecomesOrphaned ==
  ASSUME OneAtATime, TypeOK, ProcsOK, Orphaned, ~orphan, NEW p \in Procs,
         Proceed(p) \/ Command(p) \/ Mishap(p)
  PROVE  Orphaned'
  <1>1. procs \in [Procs -> Process] /\ procs[p] \in Process /\ \A q \in Procs : q = p
    BY DEF ProcsOK, OneAtATime
  <1>2. orphan' => Crash(p) /\ At(p, "running")
    <2>1. CASE Loop(p)
      BY <2>1 DEF Loop, LoopHead, GiveUp, Denied, AskUser, AskEnvelope, Returned, Choose,
                  ChooseFinish, Quietly, worldVars
    <2>2. CASE Act(p)
      BY <2>2 DEF Act, LookForWindow, RecoverOther, TakePermit, OpenWindow, ExecuteRead,
                  ExecuteCommand, CommandEnds, ExecutePatch, ExecuteFails, Complete, FailClose,
                  Record, Retry, ClaimAttempt, Quietly, worldVars
    <2>3. CASE Verify(p)
      BY <2>3 DEF Verify, Finish, Settle, VerifyNext, Sense, Judge, Conclude, Quietly, worldVars
    <2>4. CASE ExecuteApproved(p) \/ FailResume(p) \/ Command(p)
      BY <2>4 DEF ExecuteApproved, FailResume, Command, UserAnswers, Resume, ResumeRefused,
                  Quietly, worldVars
    <2>5. CASE PatchBreaksOff(p) \/ CommandWrites(p)
      BY <2>5 DEF PatchBreaksOff, CommandWrites
    <2>6. CASE Crash(p)
      BY <2>6 DEF Crash
    <2> QED
      BY <2>1, <2>2, <2>3, <2>4, <2>5, <2>6 DEF Proceed, Mishap
  <1>3. CASE orphan'
    <2>1. windows' = windows /\ procs'[p].pc = "killed"
      BY <1>1, <1>2, <1>3 DEF Crash, Killed, Become, Idle, vars
    <2>2. procs[p].window \in Unended
      BY <1>2, <1>3 DEF Orphaned, At
    <2> QED
      BY <1>1, <2>1, <2>2 DEF Orphaned, Unended, OpenWindows
  <1>4. CASE ~orphan'
    <2> SUFFICES ASSUME procs'[p].pc = "running" PROVE procs'[p].window \in Unended'
      BY <1>1, <1>4 DEF Orphaned
    <2>1. CASE ExecuteCommand(p)
      <3> DEFINE w == procs[p].window
      <3>1. procs'[p].window = w /\ w \in WindowIds
        BY <1>1, <2>1 DEF ExecuteCommand, ProcsOK, Process, Demands, At, Windowed
      <3>2. /\ windows[w].task = Task /\ windows[w].status = "executing_action"
            /\ windows[w].kind = "run_command"
            /\ windows' = [windows EXCEPT ![w].started = TRUE]
        BY <2>1 DEF ExecuteCommand, StartTool, Authorized, Launch
      <3> HIDE DEF w
      <3>3. /\ windows'[w].task = Task /\ windows'[w].status = "executing_action"
            /\ windows'[w].kind = "run_command" /\ windows'[w].started
        BY <3>1, <3>2 DEF TypeOK, WindowRows, NoWindow
      <3> QED
        BY <3>1, <3>3 DEF Unended, OpenWindows
    <2>2. CASE CommandWrites(p)
      <3>1. procs[p].window \in Unended /\ windows' = windows
        BY <2>2 DEF CommandWrites, Orphaned, At, vars
      <3>2. procs'[p] \in {procs[p], Void(procs[p])}
        BY <2>2 DEF CommandWrites, Touch
      <3>3. procs'[p].window = procs[p].window
        BY <1>1, <3>2, Voids
      <3> QED
        BY <3>1, <3>3 DEF Unended, OpenWindows
    <2> QED
      BY <2>1, <2>2, ComesFrom
  <1> QED
    BY <1>3, <1>4

(* Whoever writes the worktree from outside finds nobody verifying it, or  *)
(* is not one of its tools.                                                *)
LEMMA OutsideOrphaned ==
  ASSUME ProcsOK, Orphaned, AllProven, OrphanWrites \/ Meddle
  PROVE  Orphaned' /\ AllProven'
  <1>1. /\ windows' = windows /\ orphan' = orphan
        /\ \A p \in Procs : procs'[p] \in {procs[p], Void(procs[p])}
    BY OutsideKeeps DEF vars, OrphanWrites, Meddle
  <1>2. \A p \in Procs : /\ procs'[p].pc = procs[p].pc /\ procs'[p].window = procs[p].window
                         /\ procs'[p].pass = procs[p].pass /\ procs'[p].target = procs[p].target
    BY <1>1, Voids DEF ProcsOK
  <1>3. Orphaned'
    BY <1>1, <1>2 DEF Orphaned, Unended, OpenWindows
  <1>4. CASE Meddle
    BY <1>3, <1>4 DEF Meddle, AllProven
  <1>5. CASE OrphanWrites
    <2>1. \A p \in Procs : procs[p].pc \in {"idle", "killed", "refused"}
      BY <1>5 DEF OrphanWrites, Orphaned
    <2>2. \A p \in Procs : ~procs[p].pass
      BY <2>1 DEF AllProven, Proven, Proving
    <2> QED
      BY <1>2, <1>3, <2>1, <2>2 DEF AllProven, Proven
  <1> QED
    BY <1>4, <1>5

(* One command at a time, a task succeeds only if every verify command     *)
(* passed, each on a worktree that no other action, no broken patch and no *)
(* command of a killed process wrote while it ran or afterwards.  A verify *)
(* command that writes what an earlier one saw is none of these.           *)
THEOREM SuccessIsVerified ==
  ASSUME OneAtATime
  PROVE  LifecycleSpec => SucceededIsVerified
  <1>1. ASSUME LifecycleInit PROVE AllProven /\ Orphaned
    <2>1. PICK first \in Procs :
            procs = [[p \in Procs |-> Idle] EXCEPT
                       ![first] = [Idle EXCEPT !.pc = "check", !.steps =
                                     (IF MaxSteps > 0 THEN MaxSteps ELSE 1) + 1]]
      BY <1>1 DEF LifecycleInit
    <2>2. \A p \in Procs : ~procs[p].pass /\ procs[p].pc \in {"idle", "check"}
      BY <2>1 DEF Idle
    <2> QED
      BY <1>1, <2>2 DEF AllProven, Proven, Orphaned, LifecycleInit
  <1>2. ASSUME LifecycleInvariant, AllProven, Orphaned, [LifecycleNext]_lifecycleVars
        PROVE  /\ AllProven' /\ Orphaned'
               /\ \/ UNCHANGED lifecycleVars
                  \/ Row.run_state # "succeeded" /\ Row'.run_state = "succeeded"
                     => \E p \in Procs : At(p, "conclude") /\ procs[p].green = Profiles
    <2>1. TypeOK /\ ProcsOK
      BY <1>2 DEF LifecycleInvariant, WindowInvariant, ApprovalInvariant
    <2>2. CASE UNCHANGED lifecycleVars
      BY <1>2, <2>2 DEF lifecycleVars, worldVars, vars, AllProven, Orphaned, Unended, OpenWindows
    <2>3. ASSUME NEW p \in Procs, Proceed(p) \/ Command(p) \/ Mishap(p)
          PROVE  /\ AllProven' /\ Orphaned'
                 /\ Row.run_state # "succeeded" /\ Row'.run_state = "succeeded"
                    => At(p, "conclude") /\ procs[p].green = Profiles
      <3>1. Proven(procs[p])
        BY <1>2 DEF AllProven
      <3>2. Proven(procs'[p])
        BY <2>1, <2>3, <3>1, LoopProven, ActProven, VerifyProven, CommandProven DEF Proceed
      <3>3. \A q \in Procs : q = p
        BY DEF OneAtATime
      <3>4. AllProven'
        BY <3>2, <3>3 DEF AllProven
      <3>5. Orphaned'
        BY <1>2, <2>1, <2>3, StaysOrphaned, BecomesOrphaned
      <3>6. ASSUME Row.run_state # "succeeded", Row'.run_state = "succeeded"
            PROVE  At(p, "conclude") /\ procs[p].green = Profiles
        <4>1. At(p, "conclude") /\ procs[p].target = "succeeded"
          BY <2>1, <2>3, <3>6, OnlyConclusionSucceeds
        <4>2. procs[p].green = Profiles - 0
          BY <3>1, <4>1 DEF Proven, At
        <4> QED
          BY <4>1, <4>2, LifecycleAssumption DEF Profiles
      <3> QED
        BY <3>4, <3>5, <3>6
    <2>4. CASE OrphanWrites \/ Meddle
      <3>1. Row' = Row
        BY <2>1, <2>4, OutsideKeeps DEF vars, Row
      <3> QED
        BY <1>2, <2>1, <2>4, <3>1, OutsideOrphaned
    <2> QED
      BY <1>2, <2>2, <2>3, <2>4 DEF LifecycleNext
  <1> QED
    BY <1>1, <1>2, LifecycleAlways, PTL DEF LifecycleSpec, SucceededIsVerified

-----------------------------------------------------------------------------
(* How often a patch is applied in its window, whoever retries it.         *)

(* Who is about to claim another attempt saw the window as the last thing  *)
(* written to the task, and so it still is if the window is open.          *)
Recovering(r) ==
  r.pc \in {"retry", "claim"} =>
    /\ windows[r.window].task = Task
    /\ r.pc = "claim" /\ windows[r.window].status = "executing_action"
       => windows[r.window].opened_revision = r.rev

AllRecovering == \A p \in Procs : Recovering(procs[p])

(* So every claim on a window names the one revision it was opened at.     *)
ClaimedAsOpened ==
  \A c \in ClaimIds : claims[c].task # None =>
    claims[c].state_revision = windows[claims[c].window].opened_revision

(* A window that was opened keeps its revision, and never opens again.     *)
LEMMA OpenedPersists ==
  ASSUME TypeOK, [Next]_vars, NEW w \in WindowIds, windows[w].task # None
  PROVE  /\ windows'[w].task = windows[w].task
         /\ windows'[w].opened_revision = windows[w].opened_revision
         /\ windows'[w].status = "executing_action" => windows[w].status = "executing_action"
  <1>1. CASE UNCHANGED vars
    BY <1>1 DEF vars
  <1>2. CASE Next
    BY <1>2, WindowRowStep DEF SameWindow, WindowOpened, NoWindow
  <1> QED
    BY <1>1, <1>2

(* A process that recovered something goes on knowing it.                  *)
LEMMA KeepsRecovering ==
  ASSUME TypeOK, ProcsOK, AllRecovering, [Next]_vars, NEW q \in Procs,
         procs'[q].pc = procs[q].pc, procs'[q].window = procs[q].window,
         procs'[q].rev = procs[q].rev
  PROVE  Recovering(procs[q])'
  <1> SUFFICES ASSUME procs[q].pc \in {"retry", "claim"}
               PROVE  Recovering(procs[q])'
    BY DEF Recovering
  <1>1. procs[q].window \in WindowIds /\ windows[procs[q].window].task = Task
    BY DEF ProcsOK, Demands, Windowed, AllRecovering, Recovering
  <1>2. windows[procs[q].window].task # None
    BY <1>1, StoreAssumption, LifecycleAssumption
  <1> QED
    BY <1>1, <1>2, OpenedPersists DEF AllRecovering, Recovering

(* recover leaves a window to be retried only where nothing was written    *)
(* since it was opened.                                                    *)
LEMMA StepRecovering ==
  ASSUME WindowInvariant, ProcsOK, AllRecovering, [Next]_vars, NEW p \in Procs,
         Proceed(p) \/ Command(p) \/ Mishap(p)
  PROVE  AllRecovering'
  <1>1. TypeOK /\ procs \in [Procs -> Process] /\ procs[p] \in Process /\ Demands(procs[p])
    BY DEF ProcsOK, WindowInvariant, ApprovalInvariant
  <1>2. ASSUME NEW q \in Procs, q # p PROVE Recovering(procs[q])'
    BY <1>1, <1>2, OthersKeep, KeepsRecovering
  <1> SUFFICES Recovering(procs[p])'
    BY <1>2 DEF AllRecovering
  <1>3. CASE procs'[p].pc = "retry"
    <2>1. LookForWindow(p)
      BY <1>3, ComesFrom
    <2>2. ASSUME NEW label, Goto(p, label) PROVE procs'[p].pc = label
      BY <1>1, <2>2 DEF Goto, Process
    <2>3. ASSUME Exit(p) PROVE procs'[p].pc = "idle"
      BY <1>1, <2>3 DEF Exit, Become, Idle
    <2>4. PICK w \in OpenWindows, label \in {"retry", "execute", "recover"} : Adopt(p, w, label)
      BY <1>3, <2>1, <2>2, <2>3 DEF LookForWindow
    <2>5. procs'[p].window = w
      BY <1>1, <2>4 DEF Adopt, Process
    <2>6. windows'[w].task = Task
      BY <2>1 DEF LookForWindow, Quietly, vars, OpenWindows
    <2> QED
      BY <1>3, <2>5, <2>6 DEF Recovering
  <1>4. CASE procs'[p].pc = "claim"
    <2>1. Retry(p) /\ procs[p].pc = "retry"
      BY <1>4, ComesFrom DEF Retry, At
    <2>2. ASSUME NEW label, Goto(p, label) PROVE procs'[p].pc = label
      BY <1>1, <2>2 DEF Goto, Process
    <2>3. ASSUME Exit(p) PROVE procs'[p].pc = "idle"
      BY <1>1, <2>3 DEF Exit, Become, Idle
    <2>4. /\ UNCHANGED vars
          /\ procs' = [procs EXCEPT ![p].pc = "claim", ![p].rev = Revision]
          /\ \E w \in OpenWindows : RecoverState(Task, w, image[w]) = None
      BY <1>4, <2>1, <2>2, <2>3 DEF Retry
    <2>5. PICK w \in OpenWindows : RecoverState(Task, w, image[w]) = None
      BY <2>4
    <2>6. procs'[p].window = procs[p].window /\ procs'[p].rev = Revision
      BY <1>1, <2>4 DEF Process
    <2>7. procs[p].window \in WindowIds /\ windows[procs[p].window].task = Task
      BY <1>1, <2>1 DEF Demands, Windowed, AllRecovering, Recovering
    <2>8. windows[w].opened_revision = Revision
      <3>1. None # "error"
        BY StoreAssumption DEF WindowStatuses
      <3> QED
        BY <2>5, <3>1 DEF RecoverState, Consistent, Revision, Row
    <2>9. windows[procs[p].window].status = "executing_action" => procs[p].window = w
      BY <2>7, LifecycleAssumption
      DEF WindowInvariant, OneActiveWindow, IsActive, OpenWindows
    <2> QED
      BY <1>4, <2>4, <2>6, <2>7, <2>8, <2>9 DEF Recovering, vars
  <1> QED
    BY <1>3, <1>4 DEF Recovering

(* Only claim.py inserts claims, for the process at that step.             *)
LEMMA ClaimsByClaimants ==
  ASSUME TypeOK, NEW p \in Procs, Proceed(p) \/ Command(p) \/ Mishap(p)
  PROVE  \/ \A c \in ClaimIds : /\ claims'[c].task = claims[c].task
                               /\ claims'[c].window = claims[c].window
                               /\ claims'[c].state_revision = claims[c].state_revision
         \/ ClaimAttempt(p)
  <1> DEFINE Same == claims' = claims
  <1>1. UNCHANGED vars => Same
    BY DEF vars
  <1>2. CASE Loop(p)
    <2> Same
      BY <1>1, <1>2 DEF Loop, LoopHead, GiveUp, Denied, AskUser, AskEnvelope, Returned, Choose,
           ChooseFinish, Quietly, SetState, Write, UpdateTask, RequestApproval
    <2> QED
      OBVIOUS
  <1>3. CASE Verify(p)
    <2> Same
      BY <1>1, <1>3 DEF Verify, Finish, Settle, VerifyNext, Sense, Judge, Conclude, Quietly,
           SetState, Write, UpdateTask
    <2> QED
      OBVIOUS
  <1>4. CASE ExecutePatch(p)
    <2>1. ASSUME NEW n, NEW w, NEW d, RestartPatch(Task, n, w, d)
          PROVE  \A c \in ClaimIds : /\ claims'[c].task = claims[c].task
                                    /\ claims'[c].window = claims[c].window
                                    /\ claims'[c].state_revision = claims[c].state_revision
      BY <2>1 DEF RestartPatch, TypeOK, ClaimRows, NoClaim
    <2> QED
      BY <1>4, <2>1 DEF ExecutePatch, StartPatch, StartTool
  <1>5. CASE Act(p) /\ ~ExecutePatch(p) /\ ~ClaimAttempt(p)
    <2> Same
      BY <1>1, <1>5 DEF Act, LookForWindow, RecoverOther, TakePermit, OpenWindow, ExecuteRead,
           ExecuteCommand, CommandEnds, ExecuteFails, Complete, FailClose, Record, Retry, Quietly,
           Recover, CompleteWindow, FailCloseWindow, CloseWindow, CreatePermit, ConsumePermit,
           StartTool
    <2> QED
      OBVIOUS
  <1>6. CASE ExecuteApproved(p) \/ FailResume(p) \/ Command(p) \/ Mishap(p)
    <2> Same
      BY <1>1, <1>6 DEF ExecuteApproved, FailResume, Command, UserAnswers, Resume, ResumeRefused,
           Mishap, Crash, PatchBreaksOff, CommandWrites, Quietly, SetState, Write, UpdateTask,
           Approve, Reject, Answer
    <2> QED
      OBVIOUS
  <1> QED
    BY <1>2, <1>3, <1>4, <1>5, <1>6 DEF Proceed

(* A claim is inserted at the revision its window was opened at.           *)
LEMMA StepClaimed ==
  ASSUME LaunchInvariant, ProcsOK, AllRecovering, ClaimedAsOpened, [Next]_vars,
         NEW p \in Procs, Proceed(p) \/ Command(p) \/ Mishap(p)
  PROVE  ClaimedAsOpened'
  <1>1. TypeOK /\ ClaimsOnPatches /\ None \notin Tasks
    BY StoreAssumption DEF LaunchInvariant
  <1>2. ASSUME NEW c \in ClaimIds, claims[c].task # None,
               claims'[c].window = claims[c].window,
               claims'[c].state_revision = claims[c].state_revision
        PROVE  claims'[c].state_revision = windows'[claims'[c].window].opened_revision
    <2>1. claims[c].window \in WindowIds /\ windows[claims[c].window].task # None
      BY <1>1, <1>2 DEF ClaimsOnPatches
    <2> QED
      BY <1>1, <1>2, <2>1, OpenedPersists DEF ClaimedAsOpened
  <1>3. ASSUME NEW d \in ClaimIds, At(p, "claim"),
               ClaimRecoveredAttempt(Task, procs[p].window, procs[p].rev, d)
        PROVE  ClaimedAsOpened'
    <2>1. /\ claims'[d] = [task |-> Task, window |-> procs[p].window,
                           state_revision |-> procs[p].rev, consumed |-> FALSE]
          /\ \A c \in ClaimIds : c # d => claims'[c] = claims[c]
          /\ windows' = windows
      BY <1>1, <1>3 DEF ClaimRecoveredAttempt, TypeOK
    <2>2. windows[procs[p].window].opened_revision = procs[p].rev
      BY <1>3 DEF AllRecovering, Recovering, At, ClaimRecoveredAttempt
    <2> QED
      BY <1>2, <2>1, <2>2 DEF ClaimedAsOpened
  <1> QED
    BY <1>1, <1>2, <1>3, ClaimsByClaimants DEF ClaimedAsOpened, ClaimAttempt, vars

(* However many processes recover a window: they claim it once between     *)
(* them, and so its patch is applied once more at most.                    *)
THEOREM PatchesRunTwiceAtMost == LifecycleSpec => []RetriedAtMostOnce
  <1>1. LifecycleInit => LaunchInvariant /\ AllRecovering /\ ClaimedAsOpened
    <2> SUFFICES ASSUME LifecycleInit PROVE LaunchInvariant /\ AllRecovering /\ ClaimedAsOpened
      OBVIOUS
    <2>1. LaunchInvariant
      BY LaunchInductive DEF LifecycleInit
    <2>2. PICK first \in Procs :
            procs = [[p \in Procs |-> Idle] EXCEPT
                       ![first] = [Idle EXCEPT !.pc = "check", !.steps =
                                     (IF MaxSteps > 0 THEN MaxSteps ELSE 1) + 1]]
      BY DEF LifecycleInit
    <2>3. \A p \in Procs : procs[p].pc \in {"idle", "check"}
      BY <2>2 DEF Idle
    <2>4. \A c \in ClaimIds : claims[c].task = None
      BY DEF LifecycleInit, Init, EmptyTables, NoClaim
    <2> QED
      BY <2>1, <2>3, <2>4 DEF AllRecovering, Recovering, ClaimedAsOpened
  <1>2. LifecycleInvariant /\ LaunchInvariant /\ AllRecovering /\ ClaimedAsOpened
        /\ [LifecycleNext]_lifecycleVars
        => LaunchInvariant' /\ AllRecovering' /\ ClaimedAsOpened'
    <2> SUFFICES ASSUME LifecycleInvariant, LaunchInvariant, AllRecovering, ClaimedAsOpened,
                        [LifecycleNext]_lifecycleVars
                 PROVE  LaunchInvariant' /\ AllRecovering' /\ ClaimedAsOpened'
      OBVIOUS
    <2>1. TypeOK /\ WindowInvariant /\ ProcsOK
      BY DEF LifecycleInvariant, LaunchInvariant
    <2>2. CASE UNCHANGED lifecycleVars
      <3>1. LaunchInvariant'
        BY <2>2, LaunchInductive DEF lifecycleVars
      <3> QED
        BY <2>2, <3>1 DEF lifecycleVars, vars, AllRecovering, Recovering, ClaimedAsOpened
    <2>3. ASSUME NEW p \in Procs, Proceed(p) \/ Command(p) \/ Mishap(p)
          PROVE  LaunchInvariant' /\ AllRecovering' /\ ClaimedAsOpened'
      <3>1. [Next]_vars
        BY <2>3, StepObeys
      <3> QED
        BY <2>1, <2>3, <3>1, LaunchInductive, StepRecovering, StepClaimed
    <2>4. CASE OrphanWrites \/ Meddle
      <3>1. /\ UNCHANGED vars
            /\ \A p \in Procs : procs'[p] \in {procs[p], Void(procs[p])}
        BY <2>1, <2>4, OutsideKeeps
      <3>2. \A p \in Procs : /\ procs'[p].pc = procs[p].pc /\ procs'[p].rev = procs[p].rev
                             /\ procs'[p].window = procs[p].window
        BY <2>1, <3>1, Voids DEF ProcsOK
      <3>3. LaunchInvariant'
        BY <3>1, LaunchInductive
      <3> QED
        BY <3>1, <3>2, <3>3 DEF vars, AllRecovering, Recovering, ClaimedAsOpened
    <2> QED
      BY <2>2, <2>3, <2>4 DEF LifecycleNext
  <1>3. LaunchInvariant /\ ClaimedAsOpened => RetriedAtMostOnce
    <2> SUFFICES ASSUME LaunchInvariant, ClaimedAsOpened, NEW w \in WindowIds
                 PROVE  launches[w] <= 2
      BY DEF RetriedAtMostOnce
    <2>1. ASSUME NEW c \in ConsumedClaims(w), NEW d \in ConsumedClaims(w)
          PROVE  c = d
      <3>1. /\ c \in ClaimIds /\ claims[c].window = w /\ claims[c].consumed
            /\ d \in ClaimIds /\ claims[d].window = w /\ claims[d].consumed
        BY DEF ConsumedClaims
      <3>2. claims[c].task # None /\ claims[d].task # None
        BY <3>1, UnclaimedRows DEF LaunchInvariant
      <3> QED
        BY <3>1, <3>2 DEF ClaimedAsOpened, LaunchInvariant, OneClaimPerAttempt
    <2>2. Cardinality(ConsumedClaims(w)) \in {0, 1}
      <3>1. CASE ConsumedClaims(w) = {}
        BY <3>1, FS_EmptySet
      <3>2. CASE ConsumedClaims(w) # {}
        <4>1. PICK c : ConsumedClaims(w) = {c}
          BY <2>1, <3>2
        <4> QED
          BY <4>1, FS_Singleton
      <3> QED
        BY <3>1, <3>2
    <2> QED
      BY <2>2 DEF LaunchInvariant, LaunchesCounted
  <1> QED
    BY <1>1, <1>2, <1>3, LifecycleAlways, PTL DEF LifecycleSpec

================================================================================
