------------------------------- MODULE ApplyBack -------------------------------
(***************************************************************************)
(* What becomes of a succeeded task: the commands apply and discard        *)
(* (loop/service.py), workspace/apply_back.py writing the patch into the   *)
(* user's repository, workspace/discard.py removing the worktree, over the *)
(* store.  The origin repository is a handful of files, all touched by the *)
(* patch; a file is at its base content, carries the patch of a version of *)
(* the worktree, or was edited by the user, committed or not.              *)
(*                                                                         *)
(* The task starts where Lifecycle leaves it: succeeded and patch_ready,   *)
(* its revision counted from there.                                        *)
(***************************************************************************)
EXTENDS GuardedStore

CONSTANTS
  Task,       (* the task                                                  *)
  Procs,      (* slots for command-line processes                          *)
  Files       (* the files the patch touches                               *)

ASSUME ApplyBackAssumption == Task \in Tasks /\ Files # {} /\ Envelopes # {}

VARIABLES
  procs,      (* the processes                                             *)
  origin,     (* the content of each file of the origin repository         *)
  worktree,   (* the task's worktree: its version, or "gone"               *)
  artifact,   (* the patch file in the harness directory: one per task     *)
  owned,      (* the ownership record of the worktree exists               *)
  recorded    (* the fingerprint and the postimage kept in a window        *)

placeVars == <<origin, worktree, artifact, owned, recorded>>
applyBackVars == <<vars, procs, placeVars>>

Versions == {"verified", "altered"}

(* pc: the next step; rev: the revision read; shown: the fingerprint of    *)
(* the export and the marks of the worktree at the preview; patch: what    *)
(* git has read; todo: the files git has still to write.                   *)
Nothing == [fingerprint |-> None, postimage |-> None]
Idle == [pc |-> "idle", rev |-> 0, shown |-> Nothing, patch |-> None, todo |-> {}]

Row == tasks[Task]
Revision == Row.state_revision

At(p, label) == procs[p].pc = label
Goto(p, label) == procs' = [procs EXCEPT ![p].pc = label]
Become(p, r) == procs' = [procs EXCEPT ![p] = r]
Exit(p) == Become(p, Idle)
Free(p) == procs[p].pc \in {"idle", "killed"}

ApplyBackInit ==
  /\ tasks = [t \in Tasks |->
       [run_state |-> "succeeded", artifact_state |-> "patch_ready",
        envelope_hash |-> CHOOSE e \in Envelopes : TRUE,
        state_revision |-> 1, remaining_steps |-> MaxSteps]]
  /\ EmptyTables
  /\ procs = [p \in Procs |-> Idle]
  /\ origin = [f \in Files |-> "base"]
  /\ worktree = "verified" /\ artifact = "verified"
  /\ owned = TRUE
  /\ recorded = [w \in WindowIds |-> Nothing]

Pristine == \A f \in Files : origin[f] = "base"

Applying == {w \in WindowIds : windows[w].task = Task /\ windows[w].status = "applying"}

(* _matches_image compares every file, the postimage first.                *)
Bug_AnyIsPost(w) ==
  IF \E f \in Files : origin[f] = recorded[w].postimage THEN "post"
  ELSE IF Pristine THEN "pre" ELSE "neither"

Bug_AnyIsPre(w) ==
  IF \A f \in Files : origin[f] = recorded[w].postimage THEN "post"
  ELSE IF \E f \in Files : origin[f] = "base" THEN "pre" ELSE "neither"

OriginSeen(w) ==
  IF \A f \in Files : origin[f] = recorded[w].postimage THEN "post"
  ELSE IF Pristine THEN "pre" ELSE "neither"

Quietly == UNCHANGED <<vars, placeVars>>

-----------------------------------------------------------------------------
(* _handle_apply                                                           *)

Bug_NeverRecovers(p) ==
  /\ Free(p)
  /\ Become(p, [Idle EXCEPT !.rev = Revision, !.pc = "export"])
  /\ Quietly

StartApply(p) ==
  /\ Free(p)
  /\ Become(p, [Idle EXCEPT !.rev = Revision, !.pc =
       IF Row.artifact_state = "applying" THEN "recover" ELSE "export"])
  /\ Quietly

(* The worktree is exported anew, over the patch of any earlier export.    *)
Export(p) ==
  /\ At(p, "export")
  /\ IF worktree = "gone"
       THEN Exit(p) /\ UNCHANGED artifact
       ELSE /\ procs' = [procs EXCEPT ![p].pc = "preview", ![p].shown.fingerprint = worktree]
            /\ artifact' = worktree
  /\ UNCHANGED <<vars, origin, worktree, owned, recorded>>

Eligible(rev) ==
  /\ Revision = rev
  /\ Row.run_state = "succeeded"
  /\ Row.artifact_state = "patch_ready"
  /\ Pristine

(* The marks of the postimage are read from the worktree as it is now.     *)
Preview(p) ==
  /\ At(p, "preview")
  /\ IF Eligible(procs[p].rev)
       THEN \/ procs' = [procs EXCEPT ![p].pc = "enter", ![p].shown.postimage = worktree]
            \/ Exit(p)                                       \* not confirmed
       ELSE Exit(p)
  /\ Quietly

Enter(p) ==
  /\ At(p, "enter")
  /\ \/ /\ Pristine
        /\ \E w \in WindowIds :
             /\ EnterApplying(Task, procs[p].rev, w)
             /\ recorded' = [recorded EXCEPT ![w] = procs[p].shown]
        /\ Goto(p, "git")
     \/ /\ ~Eligible(procs[p].rev) \/ ~NoActiveWindow(Task)
        /\ Exit(p)
        /\ UNCHANGED <<vars, recorded>>
  /\ UNCHANGED <<origin, worktree, artifact, owned>>

(* git apply checks every file before it writes the first.                 *)
Bug_AppliesWorktree(p) ==
  /\ At(p, "git")
  /\ IF Pristine /\ worktree # "gone"
       THEN procs' = [procs EXCEPT ![p].pc = "write", ![p].patch = worktree,
                                   ![p].todo = Files]
       ELSE Goto(p, "undo")
  /\ Quietly

GitChecks(p) ==
  /\ At(p, "git")
  /\ IF Pristine
       THEN procs' = [procs EXCEPT ![p].pc = "write", ![p].patch = artifact,
                                   ![p].todo = Files]
       ELSE Goto(p, "undo")
  /\ Quietly

GitWrites(p, f) ==
  /\ At(p, "write")
  /\ f \in procs[p].todo
  /\ origin' = [origin EXCEPT ![f] = procs[p].patch]
  /\ procs' = [procs EXCEPT ![p].todo = @ \ {f},
                            ![p].pc = IF procs[p].todo = {f} THEN "finish" ELSE "write"]
  /\ UNCHANGED <<vars, worktree, artifact, owned, recorded>>

GitFails(p) ==
  /\ At(p, "write")
  /\ Goto(p, "undo")
  /\ Quietly

RecoverAt(p, expected) ==
  /\ \/ \E w \in Applying : RecoverApply(Task, expected, OriginSeen(w), w)
     \/ /\ \/ Applying = {}
           \/ Revision # expected
           \/ Row.run_state # "succeeded" \/ Row.artifact_state # "applying"
        /\ UNCHANGED vars
  /\ Exit(p)
  /\ UNCHANGED placeVars

(* git failed: the window this process opened is recovered on the spot.    *)
Undo(p) == At(p, "undo") /\ RecoverAt(p, procs[p].rev + 1)

(* apply found the task applying: an earlier process died, or is at work.  *)
RecoverCommand(p) == At(p, "recover") /\ RecoverAt(p, procs[p].rev)

Finish(p) ==
  /\ At(p, "finish")
  /\ \/ FinishApplied(Task, procs[p].rev + 1)
     \/ /\ \/ Revision # procs[p].rev + 1
           \/ Row.run_state # "succeeded" \/ Row.artifact_state # "applying"
        /\ UNCHANGED vars
  /\ Exit(p)
  /\ UNCHANGED placeVars

-----------------------------------------------------------------------------
(* _handle_discard: the task row is read first and written last.           *)

StartDiscard(p) ==
  /\ Free(p)
  /\ Become(p, [Idle EXCEPT !.rev = Revision, !.pc = "remove"])
  /\ Quietly

Bug_IgnoresRefusal(p) ==
  /\ At(p, "remove")
  /\ IF owned /\ worktree # "gone"
       THEN Goto(p, "unlink") /\ worktree' \in {worktree, "gone"}
       ELSE Exit(p) /\ UNCHANGED worktree
  /\ UNCHANGED <<vars, origin, artifact, owned, recorded>>

RemoveWorktree(p) ==
  /\ At(p, "remove")
  /\ IF owned /\ worktree # "gone"
       THEN Goto(p, "unlink") /\ worktree' = "gone"
       ELSE Exit(p) /\ UNCHANGED worktree
  /\ UNCHANGED <<vars, origin, artifact, owned, recorded>>

UnlinkRecord(p) ==
  /\ At(p, "unlink")
  /\ IF owned THEN Goto(p, "mark") ELSE Exit(p)
  /\ owned' = FALSE
  /\ UNCHANGED <<vars, origin, worktree, artifact, recorded>>

Bug_MarksBlind(p) ==
  /\ At(p, "mark")
  /\ tasks' = [tasks EXCEPT ![Task].artifact_state = "discarded"]
  /\ Exit(p)
  /\ UNCHANGED <<pendings, permits, windows, claims, verdicts, launches, placeVars>>

MarkDiscarded(p) ==
  /\ At(p, "mark")
  /\ \/ UpdateTask(Task, procs[p].rev, Row.run_state, "discarded", Row.envelope_hash)
     \/ Revision # procs[p].rev /\ UNCHANGED vars
  /\ Exit(p)
  /\ UNCHANGED placeVars

-----------------------------------------------------------------------------
(* The world around.                                                       *)

UserEdits(f) ==
  /\ origin[f] # "other"
  /\ origin' = [origin EXCEPT ![f] = "other"]
  /\ UNCHANGED <<vars, procs, worktree, artifact, owned, recorded>>

(* The user puts the repository back to its base; never while git writes.  *)
UserReverts ==
  /\ ~Pristine
  /\ \A p \in Procs : Free(p)
  /\ origin' = [f \in Files |-> "base"]
  /\ UNCHANGED <<vars, procs, worktree, artifact, owned, recorded>>

(* A command a tool left running, or the user, writes into the worktree.   *)
WorktreeAltered ==
  /\ worktree = "verified"
  /\ worktree' = "altered"
  /\ UNCHANGED <<vars, procs, origin, artifact, owned, recorded>>

Crash(p) ==
  /\ ~Free(p)
  /\ Become(p, [Idle EXCEPT !.pc = "killed"])
  /\ Quietly

Work(p) ==
  \/ Export(p) \/ Preview(p) \/ Enter(p)
  \/ GitChecks(p) \/ GitFails(p) \/ \E f \in Files : GitWrites(p, f)
  \/ Undo(p) \/ RecoverCommand(p) \/ Finish(p)
  \/ RemoveWorktree(p) \/ UnlinkRecord(p) \/ MarkDiscarded(p)

ApplyBackNext ==
  \/ \E p \in Procs : StartApply(p) \/ StartDiscard(p) \/ Work(p) \/ Crash(p)
  \/ \E f \in Files : UserEdits(f)
  \/ UserReverts
  \/ WorktreeAltered

ApplyBackSpec == ApplyBackInit /\ [][ApplyBackNext]_applyBackVars

(* The commands end, and a user whose task is left applying runs apply     *)
(* again and again; the machine is one day left in peace.                  *)
ApplyBackFairSpec ==
  /\ ApplyBackSpec
  /\ \A p \in Procs : WF_applyBackVars(Work(p)) /\ SF_applyBackVars(StartApply(p))
  /\ <>[][~ \E p \in Procs : Crash(p)]_applyBackVars

-----------------------------------------------------------------------------
Patched == {f \in Files : origin[f] \in Versions}
Resting == \A p \in Procs : Free(p)

(* Every write of apply and discard to the database is a store transaction.*)
StepsOfStore == [][Next]_vars

(* A patch that still waits to be confirmed has not touched the origin:    *)
(* neither before the first confirmation nor after a recovery that found   *)
(* the preimage.                                                           *)
PatchReadyIsUntouched == Row.artifact_state = "patch_ready" => Patched = {}

(* A task is marked applied only when no file of the patch is still at its *)
(* base: an apply that stopped between two files is not taken for a whole  *)
(* one. What the user wrote since over a file of the patch stays the       *)
(* user's: _finish_applied does not look at the files again.               *)
AppliedIsComplete ==
  [][ Row.artifact_state # "applied" /\ Row'.artifact_state = "applied"
      => \A f \in Files : origin[f] # "base" ]_applyBackVars

(* A task in applying has the window recover_apply needs, and that window  *)
(* is the last write to the task: every crash leaves something to recover. *)
ApplyingIsRecoverable ==
  Row.artifact_state = "applying" =>
    \E w \in Applying : windows[w].opened_revision = Revision

(* A discarded task has neither a worktree nor a claim on one.             *)
DiscardedIsGone ==
  Row.artifact_state = "discarded" => worktree = "gone" /\ ~owned

(* A task never stays in applying: apply, run again, settles it.           *)
ApplySettles == Row.artifact_state = "applying" ~> Row.artifact_state # "applying"

(* An origin with part of a patch in it is either still being recovered or *)
(* reported as cleanup_error.                                              *)
MixedIsReported ==
  Resting /\ Patched # {} /\ (\E f \in Files : origin[f] = "base")
    => Row.artifact_state \in {"applying", "cleanup_error"}

(* What is written to the origin is the patch whose fingerprint the open   *)
(* window recorded before the first write, the one the user was shown,     *)
(* although git reads the patch file again after the confirmation.         *)
AppliedAsRecorded ==
  \A p \in Procs : At(p, "write") =>
    \A w \in Applying : procs[p].patch = recorded[w].fingerprint
===============================================================================
