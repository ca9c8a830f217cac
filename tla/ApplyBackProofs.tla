---------------------------- MODULE ApplyBackProofs ----------------------------
(***************************************************************************)
(* What holds of apply and discard for any number of processes and files,  *)
(* kills, edits and git failures included.  The proofs separate what a     *)
(* step does to the store (Effect) from what it does to the places around. *)
(***************************************************************************)
EXTENDS ApplyBack, GuardedStoreProofs

Labels == {"idle", "killed", "recover", "export", "preview", "enter", "git", "write",
           "undo", "finish", "remove", "unlink", "mark"}

Images == Versions \cup {"gone"}
Shown == [fingerprint : Images \cup {None}, postimage : Images \cup {None}]

PlacesOK ==
  /\ procs \in [Procs -> [pc : Labels, rev : Nat, shown : Shown,
                          patch : Versions \cup {None}, todo : SUBSET Files]]
  /\ origin \in [Files -> {"base", "other"} \cup Versions]
  /\ worktree \in Images
  /\ artifact \in Versions
  /\ owned \in BOOLEAN
  /\ recorded \in [WindowIds -> Shown]

(* The five ways in which apply and discard touch the store.               *)
Effect ==
  \/ UNCHANGED vars
  \/ \E w \in WindowIds : \E rev : EnterApplying(Task, rev, w)
  \/ \E w \in Applying : \E expected : RecoverApply(Task, expected, OriginSeen(w), w)
  \/ \E expected : FinishApplied(Task, expected)
  \/ \E rev : UpdateTask(Task, rev, Row.run_state, "discarded", Row.envelope_hash)

(* Every step of the system has one of the effects named above.            *)
LEMMA StepHasEffect ==
  ASSUME ApplyBackNext
  PROVE  Effect
  <1>1. ASSUME NEW p \in Procs, StartApply(p) \/ StartDiscard(p) \/ Work(p) \/ Crash(p)
        PROVE  Effect
    <2>1. CASE StartApply(p) \/ StartDiscard(p) \/ Crash(p)
      BY <2>1 DEF StartApply, StartDiscard, Crash, Quietly, Effect
    <2>2. CASE Export(p) \/ Preview(p) \/ GitChecks(p) \/ GitFails(p) \/ \E f \in Files : GitWrites(p, f)
      BY <2>2 DEF Export, Preview, GitChecks, GitFails, GitWrites, Quietly, Effect
    <2>3. CASE Enter(p)
      BY <2>3 DEF Enter, Effect
    <2>4. CASE Undo(p) \/ RecoverCommand(p)
      BY <2>4 DEF Undo, RecoverCommand, RecoverAt, Effect
    <2>5. CASE Finish(p)
      BY <2>5 DEF Finish, Effect
    <2>6. CASE RemoveWorktree(p) \/ UnlinkRecord(p)
      BY <2>6 DEF RemoveWorktree, UnlinkRecord, Effect
    <2>7. CASE MarkDiscarded(p)
      BY <2>7 DEF MarkDiscarded, Effect
    <2> QED
      BY <1>1, <2>1, <2>2, <2>3, <2>4, <2>5, <2>6, <2>7 DEF Work
  <1>2. CASE \E f \in Files : UserEdits(f)
    BY <1>2 DEF UserEdits, Effect
  <1>3. CASE UserReverts \/ WorktreeAltered
    BY <1>3 DEF UserReverts, WorktreeAltered, Effect
  <1> QED
    BY <1>1, <1>2, <1>3 DEF ApplyBackNext

Counted == Revision # 0

(* Each of them is a transaction of the store, at the present revision.    *)
LEMMA EffectIsTransaction ==
  ASSUME TypeOK, Counted, Effect
  PROVE  [Next]_vars /\ Counted'
  <1> USE ApplyBackAssumption
  <1>1. tasks \in [Tasks -> TaskRows] /\ Row \in TaskRows
    BY DEF TypeOK, Row
  <1>2. \A expected : AtRevision(Task, expected) => expected \in Revisions
    BY <1>1, StoreAssumption DEF AtRevision, Revisions, Counted, Revision, Row, TaskRows
  <1>3. CASE UNCHANGED vars
    BY <1>3 DEF Counted, Revision, Row, vars
  <1>4. ASSUME NEW artifact_state, tasks' = Apply(Task, artifact_state)
        PROVE  Counted'
    BY <1>1, <1>4 DEF Apply, Counted, Revision, Row, TaskRows
  <1>5. CASE \E w \in WindowIds : \E rev : EnterApplying(Task, rev, w)
    <2>. PICK w \in WindowIds : \E rev : EnterApplying(Task, rev, w)
      BY <1>5
    <2>1. PICK rev : EnterApplying(Task, rev, w)
      OBVIOUS
    <2>2. rev \in Revisions
      BY <1>2, <2>1 DEF EnterApplying
    <2> QED
      BY <1>4, <2>1, <2>2 DEF Next, ApplyStep, EnterApplying
  <1>6. CASE \E w \in Applying : \E expected : RecoverApply(Task, expected, OriginSeen(w), w)
    <2>. PICK w \in Applying : \E expected : RecoverApply(Task, expected, OriginSeen(w), w)
      BY <1>6
    <2>1. PICK expected : RecoverApply(Task, expected, OriginSeen(w), w)
      OBVIOUS
    <2>2. w \in WindowIds /\ expected \in Revisions
      BY <1>2, <2>1 DEF RecoverApply, LeaveApplying, Applying
    <2>3. OriginSeen(w) \in Seen
      BY DEF OriginSeen, Seen
    <2>4. Next
      BY <2>1, <2>2, <2>3 DEF Next, ApplyStep
    <2> QED
      BY <1>4, <2>1, <2>4 DEF RecoverApply, LeaveApplying
  <1>7. CASE \E expected : FinishApplied(Task, expected)
    <2>1. PICK expected : FinishApplied(Task, expected)
      BY <1>7
    <2>2. expected \in Revisions
      BY <1>2, <2>1 DEF FinishApplied
    <2> QED
      BY <1>4, <2>1, <2>2 DEF Next, ApplyStep, FinishApplied
  <1>8. CASE \E rev : UpdateTask(Task, rev, Row.run_state, "discarded", Row.envelope_hash)
    <2>1. PICK rev : UpdateTask(Task, rev, Row.run_state, "discarded", Row.envelope_hash)
      BY <1>8
    <2>2. rev \in Revisions
      BY <1>2, <2>1 DEF UpdateTask
    <2>3. Row.envelope_hash \in Envelopes
      BY <1>1 DEF TaskRows
    <2>4. Next
      BY <2>1, <2>2, <2>3 DEF Next, UpdateStep, Row
    <2>5. Counted'
      BY <1>1, <2>1 DEF UpdateTask, Counted, Revision, Row, TaskRows
    <2> QED
      BY <2>4, <2>5
  <1> QED
    BY <1>3, <1>5, <1>6, <1>7, <1>8 DEF Effect

(* The rows apply starts from.                                             *)
LEMMA StartTypeOK ==
  ASSUME ApplyBackInit
  PROVE  TypeOK /\ Counted /\ PlacesOK
  <1> USE ApplyBackAssumption
  <1>1. (CHOOSE e \in Envelopes : TRUE) \in Envelopes
    OBVIOUS
  <1>2. tasks \in [Tasks -> TaskRows]
    BY <1>1, StoreAssumption DEF ApplyBackInit, TaskRows, RunStates, ArtifactStates
  <1>3. TypeOK
    BY <1>2 DEF ApplyBackInit, EmptyTables, TypeOK
  <1>4. Counted
    BY DEF ApplyBackInit, Counted, Revision, Row
  <1>5. PlacesOK
    BY DEF ApplyBackInit, PlacesOK, Idle, Nothing, Shown, Images, Versions, Labels
  <1> QED
    BY <1>3, <1>4, <1>5

ProcRows == [pc : Labels, rev : Nat, shown : Shown,
             patch : Versions \cup {None}, todo : SUBSET Files]

(* A process that starts, stops or goes to another label stays well formed.*)
LEMMA ProcSteps ==
  ASSUME TypeOK, PlacesOK, NEW p \in Procs
  PROVE  /\ procs[p] \in ProcRows
         /\ Exit(p) => procs' \in [Procs -> ProcRows]
         /\ \A label \in Labels :
              /\ Goto(p, label) => procs' \in [Procs -> ProcRows]
              /\ Become(p, [Idle EXCEPT !.pc = label]) => procs' \in [Procs -> ProcRows]
              /\ Become(p, [Idle EXCEPT !.rev = Revision, !.pc = label])
                   => procs' \in [Procs -> ProcRows]
  <1>1. procs \in [Procs -> ProcRows] /\ procs[p] \in ProcRows
    BY DEF PlacesOK, ProcRows
  <1>2. Idle \in ProcRows
    BY DEF Idle, Nothing, ProcRows, Shown, Labels
  <1>3. Revision \in Nat
    BY ApplyBackAssumption DEF TypeOK, Revision, Row, TaskRows
  <1>4. Exit(p) => procs' \in [Procs -> ProcRows]
    BY <1>1, <1>2 DEF Exit, Become
  <1>5. ASSUME NEW label \in Labels
        PROVE  /\ [procs[p] EXCEPT !.pc = label] \in ProcRows
               /\ [Idle EXCEPT !.pc = label] \in ProcRows
               /\ [Idle EXCEPT !.rev = Revision, !.pc = label] \in ProcRows
    BY <1>1, <1>2, <1>3 DEF ProcRows, Idle
  <1> QED
    BY <1>1, <1>4, <1>5 DEF Goto, Become

(* A file git has written, and git has written all of them at the end, is  *)
(* not at its base: the user reverts only when no command is at work.      *)
Writing ==
  \A p \in Procs :
    /\ At(p, "write") =>
         procs[p].patch \in Versions /\ \A f \in Files \ procs[p].todo : origin[f] # "base"
    /\ At(p, "finish") => \A f \in Files : origin[f] # "base"

(* Every step leaves well-formed processes, files and records.             *)
LEMMA StepPlacesOK ==
  ASSUME TypeOK, PlacesOK, Writing, ApplyBackNext
  PROVE  PlacesOK'
  <1>1. \A p \in Procs : procs[p] \in ProcRows
    BY DEF PlacesOK, ProcRows
  <1>3. ASSUME NEW p \in Procs, StartApply(p) \/ StartDiscard(p) \/ Crash(p)
        PROVE  PlacesOK'
    <2>1. procs' \in [Procs -> ProcRows]
      BY <1>3, ProcSteps DEF StartApply, StartDiscard, Crash, Labels
    <2> QED
      BY <1>3, <2>1 DEF StartApply, StartDiscard, Crash, Quietly, placeVars, PlacesOK, ProcRows
  <1>4. ASSUME NEW p \in Procs, Export(p)
        PROVE  PlacesOK'
    <2>1. CASE worktree = "gone"
      <3>1. procs' \in [Procs -> ProcRows]
        BY <1>4, <2>1, ProcSteps DEF Export
      <3> QED
        BY <1>4, <2>1, <3>1 DEF Export, PlacesOK, ProcRows
    <2>2. CASE worktree # "gone"
      <3>1. worktree \in Versions
        BY <2>2 DEF PlacesOK, Images
      <3>2. [procs[p] EXCEPT !.pc = "preview", !.shown.fingerprint = worktree] \in ProcRows
        BY <1>1, <3>1 DEF ProcRows, Shown, Images, Labels
      <3> QED
        BY <1>4, <2>2, <3>1, <3>2 DEF Export, PlacesOK, ProcRows
    <2> QED
      BY <2>1, <2>2
  <1>5. ASSUME NEW p \in Procs, Preview(p)
        PROVE  PlacesOK'
    <2>1. [procs[p] EXCEPT !.pc = "enter", !.shown.postimage = worktree] \in ProcRows
      BY <1>1 DEF ProcRows, Shown, Images, Labels, PlacesOK
    <2>2. procs' \in [Procs -> ProcRows]
      BY <1>5, <2>1, ProcSteps DEF Preview, PlacesOK, ProcRows
    <2> QED
      BY <1>5, <2>2 DEF Preview, Quietly, placeVars, PlacesOK, ProcRows
  <1>6. ASSUME NEW p \in Procs, Enter(p)
        PROVE  PlacesOK'
    <2>1. procs' \in [Procs -> ProcRows]
      BY <1>6, ProcSteps DEF Enter, Labels
    <2>2. procs[p].shown \in Shown
      BY <1>1 DEF ProcRows
    <2>3. recorded' \in [WindowIds -> Shown]
      BY <1>6, <2>2 DEF Enter, PlacesOK
    <2> QED
      BY <1>6, <2>1, <2>3 DEF Enter, PlacesOK, ProcRows
  <1>7. ASSUME NEW p \in Procs, GitChecks(p)
        PROVE  PlacesOK'
    <2>1. [procs[p] EXCEPT !.pc = "write", !.patch = artifact, !.todo = Files] \in ProcRows
      BY <1>1 DEF ProcRows, Labels, PlacesOK
    <2>2. procs' \in [Procs -> ProcRows]
      BY <1>7, <2>1, ProcSteps DEF GitChecks, PlacesOK, ProcRows, Labels
    <2> QED
      BY <1>7, <2>2 DEF GitChecks, Quietly, placeVars, PlacesOK, ProcRows
  <1>8. ASSUME NEW p \in Procs, NEW f \in Files, GitWrites(p, f), procs[p].patch \in Versions
        PROVE  PlacesOK'
    <2>1. [procs[p] EXCEPT !.todo = @ \ {f},
                           !.pc = IF procs[p].todo = {f} THEN "finish" ELSE "write"] \in ProcRows
      BY <1>1 DEF ProcRows, Labels
    <2>2. procs' \in [Procs -> ProcRows]
      BY <1>8, <2>1 DEF GitWrites, PlacesOK, ProcRows
    <2> QED
      BY <1>8, <2>2 DEF GitWrites, PlacesOK, ProcRows
  <1>9. ASSUME NEW p \in Procs, GitFails(p) \/ Undo(p) \/ RecoverCommand(p) \/ Finish(p)
        PROVE  PlacesOK'
    <2>1. procs' \in [Procs -> ProcRows]
      BY <1>9, ProcSteps DEF GitFails, Undo, RecoverCommand, RecoverAt, Finish, Labels
    <2> QED
      BY <1>9, <2>1 DEF GitFails, Undo, RecoverCommand, RecoverAt, Finish, Quietly,
                        placeVars, PlacesOK, ProcRows
  <1>10. ASSUME NEW p \in Procs, RemoveWorktree(p) \/ UnlinkRecord(p) \/ MarkDiscarded(p)
        PROVE  PlacesOK'
    <2>1. procs' \in [Procs -> ProcRows]
      BY <1>10, ProcSteps DEF RemoveWorktree, UnlinkRecord, MarkDiscarded, Labels
    <2> QED
      BY <1>10, <2>1 DEF RemoveWorktree, UnlinkRecord, MarkDiscarded, placeVars,
                         PlacesOK, ProcRows, Images
  <1>11. ASSUME NEW f \in Files, UserEdits(f)
         PROVE  PlacesOK'
    BY <1>11 DEF UserEdits, PlacesOK
  <1>12. CASE UserReverts \/ WorktreeAltered
    BY <1>12 DEF UserReverts, WorktreeAltered, PlacesOK, Images, Versions
  <1>13. ASSUME NEW p \in Procs, Work(p)
         PROVE  PlacesOK'
    <2>1. \A f \in Files : GitWrites(p, f) => procs[p].patch \in Versions
      BY DEF GitWrites, Writing
    <2> QED
      BY <1>13, <2>1, <1>4, <1>5, <1>6, <1>7, <1>8, <1>9, <1>10 DEF Work
  <1> QED
    BY <1>3, <1>11, <1>12, <1>13 DEF ApplyBackNext

(* No other process's step touches a process.                              *)
LEMMA OthersStay ==
  ASSUME PlacesOK, NEW p \in Procs, NEW q \in Procs, p # q,
         StartApply(p) \/ StartDiscard(p) \/ Work(p) \/ Crash(p)
  PROVE  procs'[q] = procs[q]
  <1>1. \A r : Become(p, r) => procs'[q] = procs[q]
    BY DEF PlacesOK, Become
  <1>2. \A label : Goto(p, label) => procs'[q] = procs[q]
    BY DEF PlacesOK, Goto
  <1>3. CASE StartApply(p) \/ StartDiscard(p) \/ Crash(p)
    BY <1>1, <1>3 DEF StartApply, StartDiscard, Crash
  <1>4. CASE Export(p) \/ Preview(p) \/ GitChecks(p) \/ \E f \in Files : GitWrites(p, f)
    BY <1>1, <1>2, <1>4 DEF Export, Preview, GitChecks, GitWrites, Exit, PlacesOK
  <1>5. CASE Enter(p) \/ GitFails(p) \/ Undo(p) \/ RecoverCommand(p) \/ Finish(p)
    BY <1>1, <1>2, <1>5 DEF Enter, GitFails, Undo, RecoverCommand, RecoverAt, Finish, Exit
  <1>6. CASE RemoveWorktree(p) \/ UnlinkRecord(p) \/ MarkDiscarded(p)
    BY <1>1, <1>2, <1>6 DEF RemoveWorktree, UnlinkRecord, MarkDiscarded, Exit
  <1> QED
    BY <1>3, <1>4, <1>5, <1>6 DEF Work

-----------------------------------------------------------------------------
(* ApplyingIsRecoverable.                                                  *)

(* Whatever writes the task but enter_applying leaves no task applying.    *)
LEMMA StepRecoverable ==
  ASSUME TypeOK, Effect, ApplyingIsRecoverable
  PROVE  ApplyingIsRecoverable'
  <1> USE ApplyBackAssumption
  <1>1. tasks \in [Tasks -> TaskRows] /\ Row \in TaskRows
    BY DEF TypeOK, Row
  <1>2. CASE UNCHANGED vars
    BY <1>2 DEF vars, ApplyingIsRecoverable, Applying, Row, Revision
  <1>3. ASSUME NEW w \in WindowIds, NEW rev, EnterApplying(Task, rev, w)
        PROVE  ApplyingIsRecoverable'
    <2>1. windows'[w] = Window(Task, None, "apply_back", "applying", rev + 1, "succeeded")
      BY <1>3 DEF EnterApplying, TypeOK
    <2>2. tasks'[Task].state_revision = rev + 1
      BY <1>1, <1>3 DEF EnterApplying, Apply, AtRevision, TaskRows
    <2> QED
      BY <2>1, <2>2 DEF Window, ApplyingIsRecoverable, Applying, Row, Revision
  <1>4. ASSUME NEW artifact_state, tasks' = Apply(Task, artifact_state), artifact_state # "applying"
        PROVE  ApplyingIsRecoverable'
    BY <1>1, <1>4 DEF Apply, ApplyingIsRecoverable, Row, TaskRows
  <1>5. ASSUME NEW w \in Applying, NEW expected, RecoverApply(Task, expected, OriginSeen(w), w)
        PROVE  ApplyingIsRecoverable'
    <2>1. ApplyOutcome(OriginSeen(w)).artifact # "applying"
      <3>1. CASE OriginSeen(w) = "post"
        BY <3>1 DEF ApplyOutcome
      <3>2. CASE OriginSeen(w) = "pre"
        BY <3>2 DEF ApplyOutcome
      <3>3. CASE OriginSeen(w) = "neither"
        BY <3>3 DEF ApplyOutcome
      <3> QED
        BY <3>1, <3>2, <3>3 DEF OriginSeen
    <2> QED
      BY <1>4, <1>5, <2>1 DEF RecoverApply, LeaveApplying
  <1>6. ASSUME NEW expected, FinishApplied(Task, expected)
        PROVE  ApplyingIsRecoverable'
    BY <1>4, <1>6 DEF FinishApplied
  <1>7. ASSUME NEW rev, UpdateTask(Task, rev, Row.run_state, "discarded", Row.envelope_hash)
        PROVE  ApplyingIsRecoverable'
    BY <1>1, <1>7 DEF UpdateTask, ApplyingIsRecoverable, Row, TaskRows
  <1> QED
    BY <1>2, <1>3, <1>5, <1>6, <1>7 DEF Effect

-----------------------------------------------------------------------------
(* DiscardedIsGone.                                                        *)

(* A discard past a removal finds what it removed still gone.              *)
Removing ==
  \A p \in Procs :
    /\ At(p, "unlink") => worktree = "gone"
    /\ At(p, "mark") => worktree = "gone" /\ ~owned

(* Nothing brings the worktree or its ownership record back.               *)
LEMMA GoneStaysGone ==
  ASSUME ApplyBackNext
  PROVE  (worktree = "gone" => worktree' = "gone") /\ (~owned => ~owned')
  <1>1. ASSUME NEW p \in Procs, Work(p)
        PROVE  (worktree = "gone" => worktree' = "gone") /\ (~owned => ~owned')
    <2>1. CASE Export(p) \/ Preview(p) \/ Enter(p)
      BY <2>1 DEF Export, Preview, Enter, Quietly, placeVars
    <2>2. CASE GitChecks(p) \/ GitFails(p)
      BY <2>2 DEF GitChecks, GitFails, Quietly, placeVars
    <2>6. ASSUME NEW f \in Files, GitWrites(p, f)
          PROVE  UNCHANGED <<worktree, owned>>
      BY <2>6 DEF GitWrites
    <2>3. CASE Undo(p) \/ RecoverCommand(p) \/ Finish(p) \/ MarkDiscarded(p)
      BY <2>3 DEF Undo, RecoverCommand, RecoverAt, Finish, MarkDiscarded, placeVars
    <2>4. CASE RemoveWorktree(p)
      BY <2>4 DEF RemoveWorktree
    <2>5. CASE UnlinkRecord(p)
      BY <2>5 DEF UnlinkRecord
    <2> QED
      BY <1>1, <2>1, <2>2, <2>3, <2>4, <2>5, <2>6 DEF Work
  <1> QED
    BY <1>1 DEF ApplyBackNext, StartApply, StartDiscard, Crash, UserEdits, UserReverts,
                WorktreeAltered, Quietly, placeVars

(* Every step keeps Removing.                                              *)
LEMMA StepRemoving ==
  ASSUME PlacesOK, Removing, ApplyBackNext
  PROVE  Removing'
  <1>1. SUFFICES ASSUME NEW q \in Procs
                 PROVE  /\ At(q, "unlink")' => worktree' = "gone"
                        /\ At(q, "mark")' => worktree' = "gone" /\ ~owned'
    BY DEF Removing
  <1>2. CASE procs'[q] = procs[q]
    BY <1>2, GoneStaysGone DEF Removing, At
  <1>3. CASE procs'[q] # procs[q]
    <2>1. StartApply(q) \/ StartDiscard(q) \/ Work(q) \/ Crash(q)
      BY <1>3, OthersStay DEF ApplyBackNext, UserEdits, UserReverts, WorktreeAltered
    <2>2. CASE RemoveWorktree(q) \/ UnlinkRecord(q)
      BY <2>2 DEF RemoveWorktree, UnlinkRecord, Removing, At, Goto, Exit, Become, Idle, PlacesOK
    <2>3. CASE ~(RemoveWorktree(q) \/ UnlinkRecord(q))
      <3>1. procs'[q].pc \notin {"unlink", "mark"}
        <4>0. \A r : Become(q, r) => procs'[q] = r
          BY DEF Become, PlacesOK
        <4>1. CASE StartApply(q) \/ StartDiscard(q) \/ Crash(q)
          BY <4>0, <4>1 DEF StartApply, StartDiscard, Crash, Idle
        <4>2. CASE Export(q) \/ Preview(q) \/ Enter(q)
          BY <4>2 DEF Export, Preview, Enter, Goto, Exit, Become, Idle, PlacesOK
        <4>3. CASE GitChecks(q) \/ GitFails(q)
          BY <4>3 DEF GitChecks, GitFails, Goto, PlacesOK
        <4>5. CASE \E f \in Files : GitWrites(q, f)
          <5>1. PICK f \in Files : GitWrites(q, f)
            BY <4>5
          <5>2. procs'[q].pc = IF procs[q].todo = {f} THEN "finish" ELSE "write"
            BY <5>1 DEF GitWrites, PlacesOK
          <5> QED
            BY <5>2
        <4>4. CASE Undo(q) \/ RecoverCommand(q) \/ Finish(q) \/ MarkDiscarded(q)
          BY <4>4 DEF Undo, RecoverCommand, RecoverAt, Finish, MarkDiscarded, Exit, Become,
                      Idle, PlacesOK
        <4> QED
          BY <2>1, <2>3, <4>1, <4>2, <4>3, <4>4, <4>5 DEF Work
      <3> QED
        BY <3>1 DEF At
    <2> QED
      BY <2>2, <2>3
  <1> QED
    BY <1>2, <1>3

(* Only the last step of a discard marks the task.                         *)
LEMMA StepDiscarded ==
  ASSUME TypeOK, Removing, DiscardedIsGone, ApplyBackNext
  PROVE  DiscardedIsGone'
  <1> USE ApplyBackAssumption
  <1>1. tasks \in [Tasks -> TaskRows]
    BY DEF TypeOK
  <1>2. CASE Row'.artifact_state # "discarded"
    BY <1>2 DEF DiscardedIsGone
  <1>3. CASE Row.artifact_state = "discarded"
    BY <1>3, GoneStaysGone DEF DiscardedIsGone
  <1>4. CASE Row'.artifact_state = "discarded" /\ Row.artifact_state # "discarded"
    <2>1. \A artifact_state : tasks' = Apply(Task, artifact_state) => Row'.artifact_state = artifact_state
      BY <1>1 DEF Apply, Row, TaskRows
    <2>2. UNCHANGED tasks => FALSE
      BY <1>4 DEF Row
    <2>3. ASSUME NEW p \in Procs, Enter(p) PROVE FALSE
      BY <1>4, <2>1, <2>2, <2>3 DEF Enter, EnterApplying, vars
    <2>4. ASSUME NEW p \in Procs, Undo(p) \/ RecoverCommand(p) PROVE FALSE
      <3>1. PICK w \in Applying : \E expected : RecoverApply(Task, expected, OriginSeen(w), w)
        BY <2>2, <2>4 DEF Undo, RecoverCommand, RecoverAt, vars
      <3>2. ApplyOutcome(OriginSeen(w)).artifact # "discarded"
        <4>1. CASE OriginSeen(w) = "post"
          BY <4>1 DEF ApplyOutcome
        <4>2. CASE OriginSeen(w) = "pre"
          BY <4>2 DEF ApplyOutcome
        <4>3. CASE OriginSeen(w) = "neither"
          BY <4>3 DEF ApplyOutcome
        <4> QED
          BY <4>1, <4>2, <4>3 DEF OriginSeen
      <3> QED
        BY <1>4, <2>1, <3>1, <3>2 DEF RecoverApply, LeaveApplying
    <2>5. ASSUME NEW p \in Procs, Finish(p) PROVE FALSE
      BY <1>4, <2>1, <2>2, <2>5 DEF Finish, FinishApplied, vars
    <2>6. PICK p \in Procs : MarkDiscarded(p)
      BY <2>2, <2>3, <2>4, <2>5 DEF ApplyBackNext, StartApply, StartDiscard, Crash, UserEdits,
         UserReverts, WorktreeAltered, Work, Export, Preview, GitChecks, GitFails, GitWrites,
         RemoveWorktree, UnlinkRecord, Quietly, vars
    <2> QED
      BY <2>6 DEF MarkDiscarded, Removing, DiscardedIsGone, placeVars
  <1> QED
    BY <1>2, <1>3, <1>4

-----------------------------------------------------------------------------
(* AppliedIsComplete.                                                      *)

(* The postimage of a window is that of a worktree, never the base: a      *)
(* process that may enter applying has one, and an open window keeps it.   *)
Imaged ==
  /\ \A p \in Procs : At(p, "enter") => procs[p].shown.postimage \in Images
  /\ \A w \in Applying : recorded[w].postimage \in Images

(* An applying window of the task appears in enter_applying alone.         *)
LEMMA OnlyEnterOpens ==
  ASSUME TypeOK, ApplyBackNext, NEW v \in Applying', v \notin Applying
  PROVE  \E p \in Procs : Enter(p) /\ recorded' = [recorded EXCEPT ![v] = procs[p].shown]
  <1> USE ApplyBackAssumption
  <1>1. /\ v \in WindowIds /\ windows'[v].task = Task /\ windows'[v].status = "applying"
        /\ ~(windows[v].task = Task /\ windows[v].status = "applying")
    BY DEF Applying
  <1>2. windows \in [WindowIds -> WindowRows \cup {NoWindow}]
    BY DEF TypeOK
  <1>3. windows' # windows
    BY <1>1
  <1>4. ASSUME NEW p \in Procs, Enter(p)
        PROVE  recorded' = [recorded EXCEPT ![v] = procs[p].shown]
    <2>1. PICK w \in WindowIds : EnterApplying(Task, procs[p].rev, w)
                                /\ recorded' = [recorded EXCEPT ![w] = procs[p].shown]
      BY <1>3, <1>4 DEF Enter, vars
    <2>2. v = w
      BY <1>1, <1>2, <2>1 DEF EnterApplying
    <2> QED
      BY <2>1, <2>2
  <1>5. ASSUME NEW p \in Procs, Undo(p) \/ RecoverCommand(p) PROVE FALSE
    <2>1. PICK w \in Applying : \E expected : RecoverApply(Task, expected, OriginSeen(w), w)
      BY <1>3, <1>5 DEF Undo, RecoverCommand, RecoverAt, vars
    <2>2. v = w
      BY <1>1, <1>2, <2>1 DEF RecoverApply, LeaveApplying
    <2> QED
      BY <1>1, <2>2
  <1>6. ASSUME NEW p \in Procs, Finish(p) PROVE FALSE
    <2>1. \E expected : FinishApplied(Task, expected)
      BY <1>3, <1>6 DEF Finish, vars
    <2> QED
      BY <1>1, <2>1 DEF FinishApplied
  <1>7. ASSUME NEW p \in Procs, MarkDiscarded(p) PROVE FALSE
    BY <1>3, <1>7 DEF MarkDiscarded, UpdateTask, vars
  <1> QED
    BY <1>3, <1>4, <1>5, <1>6, <1>7 DEF ApplyBackNext, StartApply, StartDiscard, Crash, UserEdits,
       UserReverts, WorktreeAltered, Work, Export, Preview, GitChecks, GitFails, GitWrites,
       RemoveWorktree, UnlinkRecord, Quietly, vars

(* Every step keeps Imaged.                                                *)
LEMMA StepImaged ==
  ASSUME TypeOK, PlacesOK, Imaged, ApplyBackNext
  PROVE  Imaged'
  <1> USE ApplyBackAssumption
  <1>1. ASSUME NEW q \in Procs, At(q, "enter")'
        PROVE  procs'[q].shown.postimage \in Images
    <2>1. CASE procs'[q] = procs[q]
      BY <1>1, <2>1 DEF Imaged, At
    <2>2. CASE procs'[q] # procs[q]
      <3>1. StartApply(q) \/ StartDiscard(q) \/ Work(q) \/ Crash(q)
        BY <2>2, OthersStay DEF ApplyBackNext, UserEdits, UserReverts, WorktreeAltered
      <3>0. \A r : Become(q, r) => procs'[q] = r
        BY DEF Become, PlacesOK
      <3>2. CASE StartApply(q) \/ StartDiscard(q) \/ Crash(q)
        BY <1>1, <3>0, <3>2 DEF StartApply, StartDiscard, Crash, Idle, At
      <3>3. CASE Export(q) \/ Enter(q) \/ GitChecks(q) \/ GitFails(q)
        BY <1>1, <3>0, <3>3 DEF Export, Enter, GitChecks, GitFails, Goto, Exit, Idle, PlacesOK, At
      <3>4. CASE Preview(q)
        <4>1. procs[q].shown \in Shown /\ worktree \in Images
          BY DEF PlacesOK
        <4>2. \/ Exit(q)
              \/ procs' = [procs EXCEPT ![q].pc = "enter", ![q].shown.postimage = worktree]
          BY <3>4 DEF Preview
        <4>3. CASE Exit(q)
          BY <1>1, <3>0, <4>3 DEF Exit, Idle, At
        <4>4. CASE procs' = [procs EXCEPT ![q].pc = "enter", ![q].shown.postimage = worktree]
          <5>1. procs'[q].shown = [procs[q].shown EXCEPT !.postimage = worktree]
            BY <4>4 DEF PlacesOK
          <5> QED
            BY <4>1, <5>1 DEF Shown
        <4> QED
          BY <4>2, <4>3, <4>4
      <3>5. CASE \E f \in Files : GitWrites(q, f)
        <4>1. PICK f \in Files : GitWrites(q, f)
          BY <3>5
        <4>2. procs'[q].pc = IF procs[q].todo = {f} THEN "finish" ELSE "write"
          BY <4>1 DEF GitWrites, PlacesOK
        <4> QED
          BY <1>1, <4>2 DEF At
      <3>6. CASE Undo(q) \/ RecoverCommand(q) \/ Finish(q) \/ MarkDiscarded(q)
        BY <1>1, <3>0, <3>6 DEF Undo, RecoverCommand, RecoverAt, Finish, MarkDiscarded, Exit, Idle, At
      <3>7. CASE RemoveWorktree(q) \/ UnlinkRecord(q)
        BY <1>1, <3>0, <3>7 DEF RemoveWorktree, UnlinkRecord, Goto, Exit, Idle, PlacesOK, At
      <3> QED
        BY <3>1, <3>2, <3>3, <3>4, <3>5, <3>6, <3>7 DEF Work
    <2> QED
      BY <2>1, <2>2
  <1>2. ASSUME NEW v \in Applying'
        PROVE  recorded'[v].postimage \in Images
    <2>1. CASE \E p \in Procs : Enter(p) /\ recorded' # recorded
      <3>1. PICK p \in Procs : Enter(p) /\ recorded' # recorded
        BY <2>1
      <3>2. PICK w \in WindowIds : EnterApplying(Task, procs[p].rev, w)
                                  /\ recorded' = [recorded EXCEPT ![w] = procs[p].shown]
        BY <3>1 DEF Enter
      <3>3. CASE v = w
        BY <3>1, <3>2, <3>3 DEF Enter, Imaged, PlacesOK
      <3>4. CASE v # w
        <4>1. windows'[v] = windows[v] /\ v \in Applying
          BY <1>2, <3>2, <3>4 DEF EnterApplying, TypeOK, Applying
        <4> QED
          BY <3>2, <3>4, <4>1 DEF Imaged, PlacesOK, Applying
      <3> QED
        BY <3>3, <3>4
    <2>2. CASE ~\E p \in Procs : Enter(p) /\ recorded' # recorded
      <3>1. recorded' = recorded
        BY <2>2 DEF ApplyBackNext, StartApply, StartDiscard, Crash, UserEdits, UserReverts,
           WorktreeAltered, Work, Export, Preview, GitChecks, GitFails, GitWrites, Undo,
           RecoverCommand, RecoverAt, Finish, RemoveWorktree, UnlinkRecord, MarkDiscarded,
           Quietly, placeVars
      <3>2. CASE v \in Applying
        BY <3>1, <3>2 DEF Imaged
      <3>3. CASE v \notin Applying
        <4>1. PICK p \in Procs : Enter(p) /\ recorded' = [recorded EXCEPT ![v] = procs[p].shown]
          BY <1>2, <3>3, OnlyEnterOpens
        <4>2. recorded'[v] = procs[p].shown
          BY <1>2, <4>1 DEF PlacesOK, Applying
        <4> QED
          BY <4>1, <4>2 DEF Enter, Imaged
      <3> QED
        BY <3>2, <3>3
    <2> QED
      BY <2>1, <2>2
  <1> QED
    BY <1>1, <1>2 DEF Imaged

(* No file returns to its base while a command is at work.                 *)
LEMMA TouchedStays ==
  ASSUME PlacesOK, Writing, ApplyBackNext, ~UserReverts, NEW f \in Files, origin[f] # "base"
  PROVE  origin'[f] # "base"
  <1>1. ASSUME NEW g \in Files, UserEdits(g)
        PROVE  origin'[f] # "base"
    BY <1>1 DEF UserEdits, PlacesOK
  <1>2. ASSUME NEW p \in Procs, NEW g \in Files, GitWrites(p, g)
        PROVE  origin'[f] # "base"
    <2>1. procs[p].patch # "base"
      BY <1>2 DEF GitWrites, Writing, Versions
    <2> QED
      BY <1>2, <2>1 DEF GitWrites, PlacesOK
  <1>3. \/ origin' = origin
        \/ \E g \in Files : UserEdits(g)
        \/ \E p \in Procs, g \in Files : GitWrites(p, g)
    BY DEF ApplyBackNext, StartApply, StartDiscard, Crash, WorktreeAltered, Work, Export,
           Preview, Enter, GitChecks, GitFails, Undo, RecoverCommand, RecoverAt, Finish,
           RemoveWorktree, UnlinkRecord, MarkDiscarded, Quietly, placeVars
  <1> QED
    BY <1>1, <1>2, <1>3

(* Every step keeps Writing.                                               *)
LEMMA StepWriting ==
  ASSUME PlacesOK, Writing, ApplyBackNext
  PROVE  Writing'
  <1>1. SUFFICES ASSUME NEW q \in Procs
                 PROVE  /\ At(q, "write")' =>
                             /\ procs'[q].patch \in Versions
                             /\ \A f \in Files \ procs'[q].todo : origin'[f] # "base"
                        /\ At(q, "finish")' => \A f \in Files : origin'[f] # "base"
    BY DEF Writing
  <1>2. CASE procs'[q] = procs[q]
    <2>1. At(q, "write") \/ At(q, "finish") => ~UserReverts
      BY DEF UserReverts, Free, At
    <2> QED
      BY <1>2, <2>1, TouchedStays DEF Writing, At
  <1>3. CASE procs'[q] # procs[q]
    <2>1. StartApply(q) \/ StartDiscard(q) \/ Work(q) \/ Crash(q)
      BY <1>3, OthersStay DEF ApplyBackNext, UserEdits, UserReverts, WorktreeAltered
    <2>2. \A r : Become(q, r) => procs'[q] = r
      BY DEF Become, PlacesOK
    <2>3. CASE StartApply(q) \/ StartDiscard(q) \/ Crash(q)
      BY <2>2, <2>3 DEF StartApply, StartDiscard, Crash, Idle, At
    <2>4. CASE Export(q) \/ Preview(q) \/ Enter(q) \/ GitFails(q)
      BY <2>2, <2>4 DEF Export, Preview, Enter, GitFails, Goto, Exit, Idle, PlacesOK, At
    <2>5. CASE Undo(q) \/ RecoverCommand(q) \/ Finish(q) \/ MarkDiscarded(q)
      BY <2>2, <2>5 DEF Undo, RecoverCommand, RecoverAt, Finish, MarkDiscarded, Exit, Idle, At
    <2>6. CASE RemoveWorktree(q) \/ UnlinkRecord(q)
      BY <2>2, <2>6 DEF RemoveWorktree, UnlinkRecord, Goto, Exit, Idle, PlacesOK, At
    <2>7. CASE GitChecks(q)
      <3>1. CASE Goto(q, "undo")
        BY <3>1 DEF Goto, PlacesOK, At
      <3>2. CASE procs' = [procs EXCEPT ![q].pc = "write", ![q].patch = artifact, ![q].todo = Files]
        BY <3>2 DEF PlacesOK, At
      <3> QED
        BY <2>7, <3>1, <3>2 DEF GitChecks
    <2>8. ASSUME NEW f \in Files, GitWrites(q, f)
          PROVE  /\ At(q, "write")' =>
                      /\ procs'[q].patch \in Versions
                      /\ \A g \in Files \ procs'[q].todo : origin'[g] # "base"
                 /\ At(q, "finish")' => \A g \in Files : origin'[g] # "base"
      <3>1. /\ procs'[q].todo = procs[q].todo \ {f}
            /\ procs'[q].patch = procs[q].patch
            /\ procs'[q].pc = IF procs[q].todo = {f} THEN "finish" ELSE "write"
        BY <2>8 DEF GitWrites, PlacesOK
      <3>2. procs[q].patch \in Versions /\ \A g \in Files \ procs[q].todo : origin[g] # "base"
        BY <2>8 DEF GitWrites, Writing
      <3>3. \A g \in Files : origin'[g] = IF g = f THEN procs[q].patch ELSE origin[g]
        BY <2>8 DEF GitWrites, PlacesOK
      <3>4. \A g \in Files \ procs'[q].todo : origin'[g] # "base"
        BY <3>1, <3>2, <3>3 DEF Versions
      <3>5. procs[q].todo = {f} => procs'[q].todo = {}
        BY <3>1
      <3>6. procs'[q].pc = "finish" => procs[q].todo = {f}
        BY <3>1
      <3> QED
        BY <3>1, <3>2, <3>4, <3>5, <3>6 DEF At
    <2> QED
      BY <2>1, <2>3, <2>4, <2>5, <2>6, <2>7, <2>8 DEF Work
  <1> QED
    BY <1>2, <1>3

(* A task becomes applied when recovery finds every file at the postimage, *)
(* or when the process that wrote them all says so.                        *)
LEMMA StepComplete ==
  ASSUME TypeOK, PlacesOK, Imaged, Writing, ApplyBackNext,
         Row.artifact_state # "applied", Row'.artifact_state = "applied"
  PROVE  \A f \in Files : origin[f] # "base"
  <1> USE ApplyBackAssumption
  <1>1. tasks \in [Tasks -> TaskRows]
    BY DEF TypeOK
  <1>2. \A artifact_state : tasks' = Apply(Task, artifact_state) => Row'.artifact_state = artifact_state
    BY <1>1 DEF Apply, Row, TaskRows
  <1>3. tasks' # tasks
    BY DEF Row
  <1>4. ASSUME NEW p \in Procs, Undo(p) \/ RecoverCommand(p)
        PROVE  \A f \in Files : origin[f] # "base"
    <2>1. PICK w \in Applying : \E expected : RecoverApply(Task, expected, OriginSeen(w), w)
      BY <1>3, <1>4 DEF Undo, RecoverCommand, RecoverAt, vars
    <2>2. ApplyOutcome(OriginSeen(w)).artifact = "applied"
      BY <1>2, <2>1 DEF RecoverApply, LeaveApplying
    <2>3. CASE OriginSeen(w) = "post"
      <3>1. \A f \in Files : origin[f] = recorded[w].postimage
        BY <2>3 DEF OriginSeen
      <3> QED
        BY <3>1 DEF Imaged, Images, Versions
    <2>4. CASE OriginSeen(w) = "pre"
      BY <2>2, <2>4 DEF ApplyOutcome
    <2>5. CASE OriginSeen(w) = "neither"
      BY <2>2, <2>5 DEF ApplyOutcome
    <2> QED
      BY <2>3, <2>4, <2>5 DEF OriginSeen
  <1>5. ASSUME NEW p \in Procs, Finish(p)
        PROVE  \A f \in Files : origin[f] # "base"
    BY <1>5 DEF Finish, Writing
  <1>6. ASSUME NEW p \in Procs, Enter(p) PROVE FALSE
    BY <1>2, <1>3, <1>6 DEF Enter, EnterApplying, vars
  <1>7. ASSUME NEW p \in Procs, MarkDiscarded(p) PROVE FALSE
    BY <1>1, <1>3, <1>7 DEF MarkDiscarded, UpdateTask, vars, Row, TaskRows
  <1> QED
    BY <1>3, <1>4, <1>5, <1>6, <1>7 DEF ApplyBackNext, StartApply, StartDiscard, Crash, UserEdits,
       UserReverts, WorktreeAltered, Work, Export, Preview, GitChecks, GitFails, GitWrites,
       RemoveWorktree, UnlinkRecord, Quietly, vars

-----------------------------------------------------------------------------
(* The theorems.                                                           *)

ApplyInvariant ==
  /\ TypeOK /\ Counted /\ PlacesOK
  /\ ApplyingIsRecoverable
  /\ Removing /\ DiscardedIsGone
  /\ Imaged /\ Writing

(* A task with its worktree starts in the invariant.                       *)
LEMMA ApplyStarts == ApplyBackInit => ApplyInvariant
  <1> SUFFICES ASSUME ApplyBackInit PROVE ApplyInvariant
    OBVIOUS
  <1> USE ApplyBackAssumption
  <1>1. ApplyingIsRecoverable /\ DiscardedIsGone
    BY DEF ApplyBackInit, ApplyingIsRecoverable, DiscardedIsGone, Row
  <1>2. Removing /\ Writing
    BY DEF ApplyBackInit, Removing, Writing, At, Idle
  <1>3. Imaged
    BY StoreAssumption DEF ApplyBackInit, EmptyTables, NoWindow, Imaged, Applying, At, Idle
  <1> QED
    BY <1>1, <1>2, <1>3, StartTypeOK DEF ApplyInvariant

(* Every step keeps the invariant.                                         *)
LEMMA ApplyInductive == ApplyInvariant /\ [ApplyBackNext]_applyBackVars => ApplyInvariant'
  <1> SUFFICES ASSUME ApplyInvariant, [ApplyBackNext]_applyBackVars
               PROVE  ApplyInvariant'
    OBVIOUS
  <1> USE DEF ApplyInvariant
  <1>1. CASE UNCHANGED applyBackVars
    BY <1>1 DEF applyBackVars, vars, placeVars, TypeOK, Counted, PlacesOK, ApplyingIsRecoverable,
       Removing, DiscardedIsGone, Imaged, Writing, Applying, At, Revision, Row
  <1>2. CASE ApplyBackNext
    <2>1. Effect /\ [Next]_vars /\ Counted'
      BY <1>2, StepHasEffect, EffectIsTransaction
    <2>2. TypeOK'
      BY <2>1, NextTypeOK
    <2> QED
      BY <1>2, <2>1, <2>2, StepPlacesOK, StepRecoverable, StepRemoving, StepDiscarded,
         StepImaged, StepWriting
  <1> QED
    BY <1>1, <1>2

(* So it always holds.                                                     *)
LEMMA ApplyAlways == ApplyBackSpec => []ApplyInvariant
  BY ApplyStarts, ApplyInductive, PTL DEF ApplyBackSpec

(* Whatever apply, discard, git and the user do, every write to the        *)
(* database is one of the store's transactions.                            *)
THEOREM ApplyObeysStore == ApplyBackSpec => StepsOfStore
  <1>1. ApplyInvariant /\ [ApplyBackNext]_applyBackVars => [Next]_vars
    BY StepHasEffect, EffectIsTransaction DEF ApplyInvariant, applyBackVars, vars
  <1> QED
    BY <1>1, ApplyAlways, PTL DEF ApplyBackSpec, StepsOfStore

(* A task in applying always has the window recover_apply needs.           *)
THEOREM ApplyingStaysRecoverable == ApplyBackSpec => []ApplyingIsRecoverable
  <1>1. ApplyInvariant => ApplyingIsRecoverable
    BY DEF ApplyInvariant
  <1> QED
    BY <1>1, ApplyAlways, PTL

(* A discarded task has neither a worktree nor an ownership record.        *)
THEOREM DiscardedStaysGone == ApplyBackSpec => []DiscardedIsGone
  <1>1. ApplyInvariant => DiscardedIsGone
    BY DEF ApplyInvariant
  <1> QED
    BY <1>1, ApplyAlways, PTL

(* When a task is recorded as applied, no file of the patch is still at    *)
(* its base, however many commands are at work and wherever they stopped;  *)
(* a file may be the user's by then.                                       *)
THEOREM HalfIsNeverApplied == ApplyBackSpec => AppliedIsComplete
  <1>1. ApplyInvariant /\ [ApplyBackNext]_applyBackVars =>
          [ Row.artifact_state # "applied" /\ Row'.artifact_state = "applied"
            => \A f \in Files : origin[f] # "base" ]_applyBackVars
    BY StepComplete DEF ApplyInvariant
  <1> QED
    BY <1>1, ApplyAlways, PTL DEF ApplyBackSpec, AppliedIsComplete

-----------------------------------------------------------------------------
(* One command at a time.                                                  *)

OneAtATime == \A p, q \in Procs : p = q

(* From enter_applying until it ends, a lone process finds the task        *)
(* applying; and the patch file is the one it exported.                    *)
Alone ==
  \A p \in Procs :
    /\ procs[p].pc \in {"git", "write", "finish"} => Row.artifact_state = "applying"
    /\ procs[p].pc \in {"preview", "enter"} => procs[p].shown.fingerprint = artifact
    /\ At(p, "git") => \A w \in Applying : recorded[w].fingerprint = artifact

LoneInvariant == Alone /\ PatchReadyIsUntouched /\ AppliedAsRecorded

(* The labels a process can be at after a step of each kind.               *)
LEMMA NextLabels ==
  ASSUME PlacesOK, NEW p \in Procs
  PROVE  /\ StartApply(p) => procs'[p].pc \in {"recover", "export"}
         /\ StartDiscard(p) \/ Crash(p) => procs'[p].pc \in {"remove", "killed"}
         /\ Export(p) \/ Preview(p) \/ Enter(p) => procs'[p].pc \in {"idle", "preview", "enter", "git"}
         /\ GitFails(p) => procs'[p].pc = "undo"
         /\ Undo(p) \/ RecoverCommand(p) \/ Finish(p) \/ MarkDiscarded(p) => procs'[p].pc = "idle"
         /\ RemoveWorktree(p) \/ UnlinkRecord(p) => procs'[p].pc \in {"idle", "unlink", "mark"}
  <1>1. \A r : Become(p, r) => procs'[p] = r
    BY DEF Become, PlacesOK
  <1>2. \A label : Goto(p, label) => procs'[p].pc = label
    BY DEF Goto, PlacesOK
  <1>3. StartApply(p) => procs'[p].pc \in {"recover", "export"}
    BY <1>1 DEF StartApply, Idle
  <1>4. StartDiscard(p) \/ Crash(p) => procs'[p].pc \in {"remove", "killed"}
    BY <1>1 DEF StartDiscard, Crash, Idle
  <1>5. Export(p) \/ Preview(p) \/ Enter(p) => procs'[p].pc \in {"idle", "preview", "enter", "git"}
    BY <1>1, <1>2 DEF Export, Preview, Enter, Exit, Idle, PlacesOK
  <1>6. GitFails(p) => procs'[p].pc = "undo"
    BY <1>2 DEF GitFails
  <1>7. Undo(p) \/ RecoverCommand(p) \/ Finish(p) \/ MarkDiscarded(p) => procs'[p].pc = "idle"
    BY <1>1 DEF Undo, RecoverCommand, RecoverAt, Finish, MarkDiscarded, Exit, Idle
  <1>8. RemoveWorktree(p) \/ UnlinkRecord(p) => procs'[p].pc \in {"idle", "unlink", "mark"}
    BY <1>1, <1>2 DEF RemoveWorktree, UnlinkRecord, Exit, Idle
  <1> QED
    BY <1>3, <1>4, <1>5, <1>6, <1>7, <1>8

(* Nobody is left in an apply: only the origin is at stake.                *)
LEMMA LoneLeaves ==
  ASSUME OneAtATime, NEW p \in Procs,
         procs'[p].pc \notin {"preview", "enter", "git", "write", "finish"},
         PatchReadyIsUntouched'
  PROVE  LoneInvariant'
  <1>1. \A q \in Procs : procs'[q].pc \notin {"preview", "enter", "git", "write", "finish"}
    BY DEF OneAtATime
  <1> QED
    BY <1>1 DEF LoneInvariant, Alone, AppliedAsRecorded, At

(* What a step that leaves the row and the origin alone leaves untouched.  *)
LEMMA UntouchedStays ==
  ASSUME PatchReadyIsUntouched, UNCHANGED <<vars, origin>>
  PROVE  PatchReadyIsUntouched'
  BY DEF PatchReadyIsUntouched, Patched, Row, vars

(* A recovery leaves patch_ready only where nothing was written.           *)
LEMMA RecoveryUntouched ==
  ASSUME TypeOK, PatchReadyIsUntouched, NEW p \in Procs, NEW expected, RecoverAt(p, expected)
  PROVE  PatchReadyIsUntouched'
  <1> USE ApplyBackAssumption
  <1>1. CASE UNCHANGED vars
    BY <1>1, UntouchedStays DEF RecoverAt, placeVars
  <1>2. ASSUME NEW w \in Applying, RecoverApply(Task, expected, OriginSeen(w), w)
        PROVE  PatchReadyIsUntouched'
    <2>1. Row'.artifact_state = ApplyOutcome(OriginSeen(w)).artifact
      BY <1>2 DEF RecoverApply, LeaveApplying, Apply, Row, TypeOK, TaskRows
    <2>2. CASE OriginSeen(w) = "pre"
      <3>1. Pristine
        BY <2>2 DEF OriginSeen
      <3> QED
        BY <3>1 DEF RecoverAt, placeVars, PatchReadyIsUntouched, Patched, Pristine, Versions
    <2>3. CASE OriginSeen(w) = "post"
      BY <2>1, <2>3 DEF ApplyOutcome, PatchReadyIsUntouched
    <2>4. CASE OriginSeen(w) = "neither"
      BY <2>1, <2>4 DEF ApplyOutcome, PatchReadyIsUntouched
    <2> QED
      BY <2>2, <2>3, <2>4 DEF OriginSeen
  <1> QED
    BY <1>1, <1>2 DEF RecoverAt

(* The step of a lone process.                                             *)
LEMMA LoneWork ==
  ASSUME OneAtATime, TypeOK, PlacesOK, LoneInvariant, NEW p \in Procs, Work(p)
  PROVE  LoneInvariant'
  <1> USE ApplyBackAssumption DEF LoneInvariant
  <1>0. /\ tasks \in [Tasks -> TaskRows]
        /\ \A q \in Procs : q = p
    BY DEF TypeOK, OneAtATime
  <1>1. CASE Export(p)
    <2>1. CASE worktree = "gone"
      BY <1>1, <2>1, UntouchedStays, LoneLeaves DEF Export, Exit, Become, Idle, PlacesOK
    <2>2. CASE worktree # "gone"
      <3>1. procs'[p].pc = "preview" /\ procs'[p].shown.fingerprint = artifact'
        BY <1>1, <2>2 DEF Export, PlacesOK, Shown
      <3> QED
        BY <1>0, <1>1, <2>2, <3>1, UntouchedStays DEF Export, Alone, AppliedAsRecorded, At
    <2> QED
      BY <2>1, <2>2
  <1>2. CASE Preview(p)
    <2>1. CASE Exit(p)
      BY <1>2, <2>1, UntouchedStays, LoneLeaves
      DEF Preview, Quietly, placeVars, Exit, Become, Idle, PlacesOK
    <2>2. CASE procs' = [procs EXCEPT ![p].pc = "enter", ![p].shown.postimage = worktree]
      <3>1. procs'[p].pc = "enter"
        BY <2>2 DEF PlacesOK
      <3>2. procs'[p].shown = [procs[p].shown EXCEPT !.postimage = worktree]
        BY <2>2 DEF PlacesOK
      <3>3. procs'[p].shown.fingerprint = artifact
        BY <1>2, <3>2 DEF Preview, Alone, At, PlacesOK, Shown
      <3> QED
        BY <1>0, <1>2, <3>1, <3>3, UntouchedStays DEF Preview, Quietly, placeVars, Alone, AppliedAsRecorded, At
    <2> QED
      BY <1>2, <2>1, <2>2 DEF Preview
  <1>3. CASE Enter(p)
    <2>1. CASE Exit(p) /\ UNCHANGED vars
      BY <1>3, <2>1, UntouchedStays, LoneLeaves DEF Enter, Exit, Become, Idle, PlacesOK
    <2>2. ASSUME NEW w \in WindowIds, EnterApplying(Task, procs[p].rev, w),
                 recorded' = [recorded EXCEPT ![w] = procs[p].shown], Goto(p, "git")
          PROVE  LoneInvariant'
      <3>1. procs'[p].pc = "git"
        BY <2>2 DEF Goto, PlacesOK
      <3>2. Row'.artifact_state = "applying"
        BY <1>0, <2>2 DEF EnterApplying, Apply, Row, TaskRows
      <3>3. Applying' \subseteq {w}
        BY <2>2 DEF EnterApplying, NoActiveWindow, IsActive, Applying, TypeOK
      <3>4. recorded'[w].fingerprint = artifact /\ artifact' = artifact
        BY <1>3, <2>2 DEF Enter, Alone, At, PlacesOK
      <3> QED
        BY <1>0, <3>1, <3>2, <3>3, <3>4 DEF Alone, PatchReadyIsUntouched, AppliedAsRecorded, At
    <2> QED
      BY <1>3, <2>1, <2>2 DEF Enter
  <1>4. CASE GitChecks(p)
    <2>1. CASE Goto(p, "undo")
      BY <1>4, <2>1, UntouchedStays, LoneLeaves DEF GitChecks, Quietly, placeVars, Goto, PlacesOK
    <2>2. CASE procs' = [procs EXCEPT ![p].pc = "write", ![p].patch = artifact, ![p].todo = Files]
      <3>1. procs'[p].pc = "write" /\ procs'[p].patch = artifact
        BY <2>2 DEF PlacesOK
      <3>2. /\ Row.artifact_state = "applying"
            /\ \A w \in Applying : recorded[w].fingerprint = artifact
        BY <1>4 DEF GitChecks, Alone, At
      <3>3. /\ Row' = Row /\ Applying' = Applying /\ recorded' = recorded
        BY <1>4 DEF GitChecks, Quietly, vars, placeVars, Row, Applying
      <3> QED
        BY <1>0, <3>1, <3>2, <3>3 DEF Alone, PatchReadyIsUntouched, AppliedAsRecorded, At
    <2> QED
      BY <1>4, <2>1, <2>2 DEF GitChecks
  <1>5. ASSUME NEW f \in Files, GitWrites(p, f)
        PROVE  LoneInvariant'
    <2>1. /\ procs'[p].patch = procs[p].patch
          /\ procs'[p].pc = IF procs[p].todo = {f} THEN "finish" ELSE "write"
      BY <1>5 DEF GitWrites, PlacesOK
    <2>2. /\ Row.artifact_state = "applying"
          /\ \A w \in Applying : procs[p].patch = recorded[w].fingerprint
      BY <1>5 DEF GitWrites, Alone, AppliedAsRecorded, At
    <2>3. /\ Row' = Row /\ Applying' = Applying /\ recorded' = recorded
      BY <1>5 DEF GitWrites, vars, Row, Applying
    <2>4. procs'[p].pc \in {"write", "finish"}
      BY <2>1
    <2> QED
      BY <1>0, <2>1, <2>2, <2>3, <2>4 DEF Alone, PatchReadyIsUntouched, AppliedAsRecorded, At
  <1>6. CASE GitFails(p) \/ RemoveWorktree(p) \/ UnlinkRecord(p)
    <2>1. UNCHANGED <<vars, origin>>
      BY <1>6 DEF GitFails, RemoveWorktree, UnlinkRecord, Quietly, placeVars
    <2>2. procs'[p].pc \in {"undo", "idle", "unlink", "mark"}
      BY <1>6, NextLabels
    <2> QED
      BY <2>1, <2>2, UntouchedStays, LoneLeaves
  <1>7. CASE Undo(p) \/ RecoverCommand(p)
    <2>1. PatchReadyIsUntouched'
      BY <1>7, RecoveryUntouched DEF Undo, RecoverCommand
    <2>2. procs'[p].pc = "idle"
      BY <1>7, NextLabels
    <2> QED
      BY <2>1, <2>2, LoneLeaves
  <1>8. CASE Finish(p) \/ MarkDiscarded(p)
    <2>1. UNCHANGED vars \/ Row'.artifact_state \in {"applied", "discarded"}
      BY <1>0, <1>8 DEF Finish, FinishApplied, MarkDiscarded, UpdateTask, Apply, Row, TaskRows
    <2>2. PatchReadyIsUntouched'
      BY <1>8, <2>1, UntouchedStays DEF Finish, MarkDiscarded, placeVars, PatchReadyIsUntouched
    <2>3. procs'[p].pc = "idle"
      BY <1>8, NextLabels
    <2> QED
      BY <2>2, <2>3, LoneLeaves
  <1> QED
    BY <1>1, <1>2, <1>3, <1>4, <1>5, <1>6, <1>7, <1>8 DEF Work

(* One process at a time: every step keeps the lone invariant.             *)
LEMMA StepLone ==
  ASSUME OneAtATime, TypeOK, PlacesOK, LoneInvariant, ApplyBackNext
  PROVE  LoneInvariant'
  <1> USE DEF LoneInvariant
  <1>1. ASSUME NEW p \in Procs, StartApply(p) \/ StartDiscard(p) \/ Crash(p)
        PROVE  LoneInvariant'
    <2>1. procs'[p].pc \in {"recover", "export", "remove", "killed"}
      BY <1>1, NextLabels
    <2>2. PatchReadyIsUntouched'
      BY <1>1, UntouchedStays DEF StartApply, StartDiscard, Crash, Quietly, placeVars
    <2> QED
      BY <2>1, <2>2, LoneLeaves
  <1>2. CASE WorktreeAltered \/ UserReverts \/ \E f \in Files : UserEdits(f)
    <2>1. /\ UNCHANGED <<vars, procs, artifact, recorded>>
          /\ Row' = Row /\ Applying' = Applying
      BY <1>2 DEF WorktreeAltered, UserReverts, UserEdits, vars, Row, Applying
    <2>2. Patched' \subseteq Patched
      BY <1>2 DEF WorktreeAltered, UserReverts, UserEdits, Patched, Versions, PlacesOK
    <2> QED
      BY <2>1, <2>2 DEF Alone, PatchReadyIsUntouched, AppliedAsRecorded, At
  <1> QED
    BY <1>1, <1>2, LoneWork DEF ApplyBackNext

(* So it always holds of a process that is alone.                          *)
LEMMA LoneAlways ==
  ASSUME OneAtATime
  PROVE  ApplyBackSpec => []LoneInvariant
  <1>1. ApplyBackInit => LoneInvariant
    BY DEF ApplyBackInit, LoneInvariant, Alone, PatchReadyIsUntouched, AppliedAsRecorded,
           Patched, Versions, At, Idle
  <1>2. ApplyInvariant /\ LoneInvariant /\ [ApplyBackNext]_applyBackVars => LoneInvariant'
    <2>1. UNCHANGED applyBackVars => (LoneInvariant => LoneInvariant')
      BY DEF applyBackVars, vars, placeVars, LoneInvariant, Alone, PatchReadyIsUntouched,
             AppliedAsRecorded, Patched, Applying, At, Row
    <2> QED
      BY <2>1, StepLone DEF ApplyInvariant
  <1> QED
    BY <1>1, <1>2, ApplyAlways, PTL DEF ApplyBackSpec

(* One command at a time, a task in patch_ready means that no file of the  *)
(* origin carries the patch, after any number of kills and recoveries.     *)
THEOREM PatchReadyStaysUntouched ==
  ASSUME OneAtATime
  PROVE  ApplyBackSpec => []PatchReadyIsUntouched
  <1>1. LoneInvariant => PatchReadyIsUntouched
    BY DEF LoneInvariant
  <1> QED
    BY <1>1, LoneAlways, PTL

(* One command at a time, git writes the patch the open window recorded.   *)
THEOREM WhatIsAppliedWasRecorded ==
  ASSUME OneAtATime
  PROVE  ApplyBackSpec => []AppliedAsRecorded
  <1>1. LoneInvariant => AppliedAsRecorded
    BY DEF LoneInvariant
  <1> QED
    BY <1>1, LoneAlways, PTL
================================================================================
