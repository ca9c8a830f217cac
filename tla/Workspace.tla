------------------------------- MODULE Workspace -------------------------------
(***************************************************************************)
(* What belongs to a task outside the store's transactions, and is written *)
(* piece by piece: the git worktree and its ownership record               *)
(* (workspace/worktree.py, discard.py), the task row and its envelope      *)
(* snapshot, each committed on its own, and the observations of            *)
(* task_runtime (loop/service.py).                                         *)
(*                                                                         *)
(* The command run creates all of it in order and takes back the worktree  *)
(* if it cannot; resume needs every piece; reject and every step of a loop *)
(* record an observation by reading the list and writing it back; discard  *)
(* removes the worktree of a task in any state.  Every step may fail or be *)
(* the last of its process.  What a command does to the store is left to   *)
(* Lifecycle: here it is a write of the row, and the tool run with it.     *)
(***************************************************************************)
EXTENDS Naturals, FiniteSets

CONSTANTS
  Procs,      (* slots for command-line processes                          *)
  MaxNotes,   (* bound: observations made                                  *)
  MaxFaults   (* bound: failing steps and kills                            *)

ASSUME WorkspaceAssumption == MaxNotes \in Nat /\ MaxFaults \in Nat

VARIABLES
  worktree,   (* none, there, or gone again                                *)
  record,     (* the ownership record: none, torn (cut short), whole       *)
  row,        (* the task row: none yet, or its revision and states        *)
  envelope,   (* the envelope snapshot is stored                           *)
  runtime,    (* task_runtime: none yet, or the observations               *)
  procs,
  made,       (* observations ever recorded                                *)
  faults,     (* bounded                                                   *)
  seen        (* history, see WorkInit                                     *)

workVars == <<worktree, record, row, envelope, runtime, procs, made, faults, seen>>
places == <<worktree, record>>
tables == <<row, envelope, runtime>>

NoRow == [state_revision |-> 0, run_state |-> "none", artifact_state |-> "none",
          asked |-> FALSE]

(* pc: the next step; loop: the process goes on after a recording; rev:    *)
(* the revision discard read; list: the observations read; note: the one   *)
(* to add.                                                                 *)
Idle == [pc |-> "idle", loop |-> FALSE, rev |-> 0, list |-> {}, note |-> 0]

Become(p, r) == procs' = [procs EXCEPT ![p] = r]
Goto(p, label) == procs' = [procs EXCEPT ![p].pc = label]
At(p, label) == procs[p].pc = label
Exit(p) == Become(p, Idle)

Fault == faults < MaxFaults /\ faults' = faults + 1
Cut == seen' = [seen EXCEPT !.cut = TRUE]

(* One task: the first process is about to run it, its id is new.  The     *)
(* history: overlapped, two recordings went on at once; saved, the         *)
(* observations that were in task_runtime; cut, a creation or a removal    *)
(* broke off between two pieces; overtaken, a discard lost its revision;   *)
(* refused, run gave its worktree back.                                    *)
WorkInit ==
  /\ worktree = "none" /\ record = "none"
  /\ row = NoRow /\ envelope = FALSE /\ runtime = {} /\ made = 0
  /\ procs \in {[[p \in Procs |-> Idle] EXCEPT ![first].pc = "add"] : first \in Procs}
  /\ faults = 0
  /\ seen = [overlapped |-> FALSE, saved |-> {}, cut |-> FALSE,
             overtaken |-> FALSE, refused |-> FALSE]

-----------------------------------------------------------------------------
(* create_task_worktree                                                    *)

AddWorktree(p) ==
  /\ At(p, "add")
  /\ \/ worktree' = "there" /\ Goto(p, "own") /\ UNCHANGED <<faults, seen>>
     \/ Fault /\ Exit(p) /\ seen' = [seen EXCEPT !.refused = TRUE]
        /\ UNCHANGED worktree
  /\ UNCHANGED <<record, tables, made>>

(* open("x") and write: a failing write leaves a torn record.              *)
RecordOwnership(p) ==
  /\ At(p, "own")
  /\ \/ record' = "whole" /\ Goto(p, "create") /\ UNCHANGED faults
     \/ Fault /\ record' \in {"none", "torn"} /\ Goto(p, "unadd")
  /\ UNCHANGED <<worktree, tables, made, seen>>

Bug_LeavesWorktree(p) ==
  /\ At(p, "unadd")
  /\ Exit(p) /\ seen' = [seen EXCEPT !.refused = TRUE]
  /\ UNCHANGED <<places, tables, made, faults>>

(* The worktree just added is removed again.                               *)
UndoAdd(p) ==
  /\ At(p, "unadd")
  /\ \/ /\ worktree' = "gone" /\ UNCHANGED faults
        /\ seen' = [seen EXCEPT !.refused = TRUE]
     \/ Fault /\ Cut /\ UNCHANGED worktree
  /\ Exit(p)
  /\ UNCHANGED <<record, tables, made>>

-----------------------------------------------------------------------------
(* _handle_run: the row and the snapshot are two transactions.             *)

CreateTask(p) ==
  /\ At(p, "create")
  /\ \/ /\ row' = [state_revision |-> 1, run_state |-> "running",
                   artifact_state |-> "worktree_present", asked |-> FALSE]
        /\ Goto(p, "envelope")
        /\ UNCHANGED faults
     \/ Fault /\ Goto(p, "giveback") /\ UNCHANGED row
  /\ UNCHANGED <<places, envelope, runtime, made, seen>>

Bug_RunsAnyway(p) ==
  /\ At(p, "envelope")
  /\ \/ envelope' = TRUE /\ UNCHANGED faults
     \/ Fault /\ UNCHANGED envelope
  /\ Goto(p, "runtime")
  /\ UNCHANGED <<places, row, runtime, made, seen>>

SaveEnvelope(p) ==
  /\ At(p, "envelope")
  /\ \/ envelope' = TRUE /\ Goto(p, "runtime") /\ UNCHANGED faults
     \/ Fault /\ Goto(p, "giveback") /\ UNCHANGED envelope
  /\ UNCHANGED <<places, row, runtime, made, seen>>

Working == [Idle EXCEPT !.pc = "work", !.loop = TRUE]

(* _save_runtime writes the description and an empty list.                 *)
SaveRuntime(p) ==
  /\ At(p, "runtime")
  /\ \/ runtime' = {} /\ Become(p, Working) /\ UNCHANGED faults
     \/ Fault /\ Exit(p) /\ UNCHANGED runtime
  /\ UNCHANGED <<places, row, envelope, made, seen>>

Removable == record = "whole" /\ worktree = "there"

(* What stops the run is raised again once the worktree was given back.    *)
GiveBack(p) ==
  /\ At(p, "giveback")
  /\ \/ Removable /\ worktree' = "gone" /\ Goto(p, "unlinkback") /\ UNCHANGED <<faults, seen>>
     \/ ~Removable /\ Exit(p) /\ UNCHANGED <<worktree, faults, seen>>
     \/ Fault /\ Cut /\ Exit(p) /\ UNCHANGED worktree
  /\ UNCHANGED <<record, tables, made>>

Bug_KeepsRecord(p) ==
  /\ At(p, "unlinkback")
  /\ Exit(p)
  /\ UNCHANGED <<places, tables, made, faults, seen>>

UnlinkBack(p) ==
  /\ At(p, "unlinkback")
  /\ \/ record' = "none" /\ seen' = [seen EXCEPT !.refused = TRUE] /\ UNCHANGED faults
     \/ Fault /\ Cut /\ UNCHANGED record
  /\ Exit(p)
  /\ UNCHANGED <<worktree, tables, made>>

-----------------------------------------------------------------------------
(* The work of a loop: a step writes the row and leaves an observation, or *)
(* asks the user and ends the process, or ends the task.                   *)

Live == row.run_state \in {"running", "awaiting_approval"}

Wrote(run_state) ==
  row' = [row EXCEPT !.state_revision = @ + 1, !.run_state = run_state,
                     !.asked = @ \/ run_state = "awaiting_approval"]

Observes(p, r) ==
  /\ made < MaxNotes
  /\ made' = made + 1
  /\ Become(p, [r EXCEPT !.pc = "load", !.note = made + 1])

Step(p) ==
  /\ At(p, "work")
  /\ \/ Live /\ Wrote("running") /\ Observes(p, procs[p])
     \/ /\ \/ row.run_state = "running" /\ Wrote("awaiting_approval")
           \/ Live /\ \E end \in {"succeeded", "error"} : Wrote(end)
           \/ UNCHANGED row                      \* no progress, or refused
        /\ Exit(p)
        /\ UNCHANGED made
  /\ UNCHANGED <<places, envelope, runtime, faults, seen>>

(* _handle_reject: the store's transaction first, the note afterwards.     *)
StartReject(p) ==
  /\ At(p, "idle")
  /\ row.run_state = "awaiting_approval"
  /\ Wrote("running") /\ Observes(p, Idle)
  /\ UNCHANGED <<places, envelope, runtime, faults, seen>>

Bug_LoadsOnce(p) ==
  /\ At(p, "load")
  /\ procs' = [procs EXCEPT ![p].pc = "save"]
  /\ seen' = [seen EXCEPT !.overlapped = @ \/ \E q \in Procs \ {p} : At(q, "save")]
  /\ UNCHANGED <<places, tables, made, faults>>

(* _append_observation: _load_runtime ...                                  *)
Load(p) ==
  /\ At(p, "load")
  /\ procs' = [procs EXCEPT ![p].pc = "save", ![p].list = runtime]
  /\ seen' = [seen EXCEPT !.overlapped = @ \/ \E q \in Procs \ {p} : At(q, "save")]
  /\ UNCHANGED <<places, tables, made, faults>>

(* ... and _save_runtime, of the whole list.                               *)
Save(p) ==
  /\ At(p, "save")
  /\ runtime' = procs[p].list \cup {procs[p].note}
  /\ Become(p, IF procs[p].loop THEN [procs[p] EXCEPT !.pc = "work"] ELSE Idle)
  /\ seen' = [seen EXCEPT !.saved = @ \cup {procs[p].note}]
  /\ UNCHANGED <<places, row, envelope, made, faults>>

(* _verify_resume: the pieces of the task that must be there; what else it *)
(* compares is Lifecycle's.                                                *)
Complete == envelope /\ record = "whole"

StartResume(p) ==
  /\ At(p, "idle") /\ row.asked
  /\ \/ Complete /\ Become(p, Working) /\ UNCHANGED row
     \/ UNCHANGED procs /\ Live /\ Wrote("error")
  /\ UNCHANGED <<places, envelope, runtime, made, faults, seen>>

-----------------------------------------------------------------------------
(* _handle_discard                                                         *)

StartDiscard(p) ==
  /\ At(p, "idle") /\ row # NoRow
  /\ Become(p, [Idle EXCEPT !.pc = "remove", !.rev = row.state_revision])
  /\ UNCHANGED <<places, tables, made, faults, seen>>

RemoveWorktree(p) ==
  /\ At(p, "remove")
  /\ \/ Removable /\ worktree' = "gone" /\ Goto(p, "unlink") /\ UNCHANGED faults
     \/ ~Removable /\ Exit(p) /\ UNCHANGED <<worktree, faults>>
     \/ Fault /\ Exit(p) /\ UNCHANGED worktree
  /\ UNCHANGED <<record, tables, made, seen>>

Bug_ForgetsTask(p) ==
  /\ At(p, "unlink")
  /\ record' = "none" /\ Exit(p)
  /\ UNCHANGED <<worktree, tables, made, faults, seen>>

UnlinkRecord(p) ==
  /\ At(p, "unlink")
  /\ \/ record # "none" /\ record' = "none" /\ Goto(p, "mark") /\ UNCHANGED <<faults, seen>>
     \/ record = "none" /\ Exit(p) /\ UNCHANGED <<record, faults, seen>>
     \/ Fault /\ Cut /\ Exit(p) /\ UNCHANGED record
  /\ UNCHANGED <<worktree, tables, made>>

(* Refused if the task was written since discard began.                    *)
MarkDiscarded(p) ==
  /\ At(p, "mark")
  /\ IF row.state_revision = procs[p].rev
       THEN /\ row' = [row EXCEPT !.state_revision = @ + 1,
                                  !.artifact_state = "discarded"]
            /\ UNCHANGED seen
       ELSE UNCHANGED row /\ seen' = [seen EXCEPT !.overtaken = TRUE]
  /\ Exit(p)
  /\ UNCHANGED <<places, envelope, runtime, made, faults>>

-----------------------------------------------------------------------------
(* Killed after any step.  A kill of run before its worktree is complete,  *)
(* or in a removal, cuts it.                                               *)
Kill(p) ==
  /\ ~At(p, "idle")
  /\ Fault
  /\ Exit(p)
  /\ seen' = [seen EXCEPT !.cut = @ \/ procs[p].pc \in
       {"add", "own", "unadd", "create", "giveback", "unlinkback", "unlink", "mark"}]
  /\ UNCHANGED <<places, tables, made>>

Run(p) ==
  \/ AddWorktree(p) \/ RecordOwnership(p) \/ UndoAdd(p)
  \/ CreateTask(p) \/ SaveEnvelope(p) \/ SaveRuntime(p)
  \/ GiveBack(p) \/ UnlinkBack(p)

Command(p) ==
  \/ Step(p) \/ Load(p) \/ Save(p)
  \/ StartReject(p) \/ StartResume(p)
  \/ StartDiscard(p) \/ RemoveWorktree(p) \/ UnlinkRecord(p) \/ MarkDiscarded(p)

WorkNext == \E p \in Procs : Run(p) \/ Command(p) \/ Kill(p)
WorkSpec == WorkInit /\ [][WorkNext]_workVars

-----------------------------------------------------------------------------
Nobody(labels) == \A p \in Procs : procs[p].pc \notin labels

(* A run that says it gave up has left no worktree behind, and no record   *)
(* that a later command could take for one, whatever failed elsewhere.     *)
RefusedLeavesNothing ==
  seen.refused => worktree # "there" /\ record # "whole"

(* The ownership record and the worktree stand and fall together but for   *)
(* the moment between two steps of one process: no worktree that discard   *)
(* could not find, no record of a worktree that is not there.              *)
RecordMatchesWorktree ==
  ~seen.cut =>
    /\ worktree = "there" => record = "whole" \/ ~Nobody({"own", "unadd"})
    /\ record = "whole" => worktree = "there" \/ ~Nobody({"unlink", "unlinkback"})

(* A loop works only on a task whose row and snapshot are stored, although *)
(* they were stored one by one.                                            *)
LoopHasTask == ~Nobody({"work"}) => row # NoRow /\ envelope

(* An observation that was stored disappears only when two processes       *)
(* recorded at the same time: the list is read again for every recording.  *)
LossNeedsOverlap == ~seen.overlapped => seen.saved \subseteq runtime

(* A task whose worktree is gone says discarded, unless the command that   *)
(* removed it was killed, failed or was overtaken by a write to the task,  *)
(* or run took the worktree back after the row was already there.          *)
GoneIsDiscarded ==
  /\ row # NoRow /\ worktree = "gone"
  /\ Nobody({"unlinkback", "unlink", "mark"})
  /\ ~seen.cut /\ ~seen.overtaken /\ ~seen.refused
  => row.artifact_state = "discarded"
===============================================================================
