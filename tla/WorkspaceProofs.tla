---------------------------- MODULE WorkspaceProofs ----------------------------
(***************************************************************************)
(* What the pieces of a task outside the store say of each other, for any  *)
(* number of processes, observations, failing steps and kills.             *)
(***************************************************************************)
EXTENDS Workspace, TLAPS

-----------------------------------------------------------------------------
(* The inductive invariant.                                                *)

(* Where only the process that runs the new task can be.                   *)
Creating == {"add", "own", "unadd", "create", "envelope", "runtime", "giveback",
             "unlinkback"}

(* Between the removal of the worktree and the end of the removal.         *)
Removing == {"unlink", "unlinkback", "mark"}

Labels == Creating \cup Removing \cup {"idle", "work", "load", "save", "remove"}

Rows ==
  [state_revision : Nat,
   run_state : {"none", "running", "awaiting_approval", "succeeded", "error"},
   artifact_state : {"none", "worktree_present", "discarded"},
   asked : BOOLEAN]

Slots ==
  [pc : Labels, loop : BOOLEAN, rev : Nat, list : SUBSET Nat, note : Nat]

Histories ==
  [overlapped : BOOLEAN, saved : SUBSET Nat, cut : BOOLEAN, overtaken : BOOLEAN,
   refused : BOOLEAN]

Typed ==
  /\ worktree \in {"none", "there", "gone"}
  /\ record \in {"none", "torn", "whole"}
  /\ row \in Rows
  /\ envelope \in BOOLEAN
  /\ runtime \subseteq Nat
  /\ procs \in [Procs -> Slots]
  /\ made \in Nat
  /\ seen \in Histories

(* One process creates the task, one at most removes its worktree: the     *)
(* worktree is added once.                                                 *)
OneEach ==
  \A p, q \in Procs :
    /\ procs[p].pc \in Creating /\ procs[q].pc \in Creating => p = q
    /\ procs[p].pc \in Removing /\ procs[q].pc \in Removing => p = q

(* Without a row no other command does anything.                           *)
BeforeRow ==
  IF row.state_revision = 0
    THEN /\ row = NoRow /\ seen.saved = {}
         /\ \A p \in Procs : procs[p].pc \in {"idle", "add", "own", "unadd", "create",
                                              "giveback", "unlinkback"}
    ELSE Nobody({"add", "own", "unadd", "create"})

(* What is there when a process stands where it stands.                    *)
Places ==
  \A p \in Procs :
    /\ At(p, "add") => worktree = "none" /\ record = "none"
    /\ At(p, "own") => worktree = "there" /\ record = "none"
    /\ At(p, "unadd") => worktree = "there" /\ record # "whole"
    /\ At(p, "create") => worktree = "there" /\ record = "whole"
    /\ procs[p].pc \in Removing => worktree = "gone"
    /\ procs[p].pc \in {"unlink", "unlinkback"} => record = "whole"

(* Nobody works on the task before its description is stored, and whoever  *)
(* does has found the snapshot.                                            *)
Prepared ==
  /\ ~Nobody({"envelope", "runtime"}) =>
       /\ row.run_state = "running" /\ ~row.asked /\ seen.saved = {}
       /\ Nobody({"work", "load", "save"})
  /\ ~Nobody({"runtime"}) => envelope
  /\ \A p \in Procs :
       At(p, "work") \/ (procs[p].pc \in {"load", "save"} /\ procs[p].loop) => envelope

(* After a refusal the creating process is gone.                           *)
Refused ==
  seen.refused => Nobody(Creating) /\ worktree # "there" /\ record # "whole"

(* Unless two overlapped, the one that is about to save knows the list.    *)
Observed ==
  ~seen.overlapped =>
    /\ seen.saved \subseteq runtime
    /\ \A p, q \in Procs : At(p, "save") /\ At(q, "save") => p = q
    /\ \A p \in Procs : At(p, "save") => procs[p].list = runtime

WorkInvariant ==
  /\ Typed /\ OneEach /\ BeforeRow /\ Places /\ Prepared /\ Refused /\ Observed
  /\ RecordMatchesWorktree /\ GoneIsDiscarded

-----------------------------------------------------------------------------
(* The initial states, and what one process does to the others.            *)

LEMMA WorkInitially ==
  WorkInit => WorkInvariant
  <1> SUFFICES ASSUME WorkInit PROVE WorkInvariant
    OBVIOUS
  <1>1. PICK first \in Procs : procs = [[p \in Procs |-> Idle] EXCEPT ![first].pc = "add"]
    BY DEF WorkInit
  <1>2. /\ procs[first] = [Idle EXCEPT !.pc = "add"]
        /\ \A q \in Procs \ {first} : procs[q] = Idle
        /\ procs = [p \in Procs |-> IF p = first THEN [Idle EXCEPT !.pc = "add"] ELSE Idle]
    BY <1>1
  <1>3. Typed
    BY <1>2
      DEF WorkInit, Typed, Rows, Slots, Histories, Labels, Creating, Removing, Idle, NoRow
  <1>4. OneEach
    BY <1>2 DEF WorkInit, OneEach, Creating, Removing, Idle
  <1>5. BeforeRow
    BY <1>2 DEF WorkInit, BeforeRow, NoRow, Nobody, Idle
  <1>6. Places
    BY <1>2 DEF WorkInit, Places, At, Removing, Idle
  <1>7. Prepared
    BY <1>2 DEF WorkInit, Prepared, At, Nobody, Idle
  <1>8. Refused
    BY <1>2 DEF WorkInit, Refused
  <1>9. Observed
    BY <1>2 DEF WorkInit, Observed, At, Idle
  <1>10. RecordMatchesWorktree
    BY <1>2 DEF WorkInit, RecordMatchesWorktree
  <1>11. GoneIsDiscarded
    BY <1>2 DEF WorkInit, GoneIsDiscarded
  <1> QED
    BY <1>3, <1>4, <1>5, <1>6, <1>7, <1>8, <1>9, <1>10, <1>11 DEF WorkInvariant

(* A process stands somewhere else; the others stay what they are.         *)
Goes(p, label) ==
  /\ procs' \in [Procs -> Slots]
  /\ procs'[p].pc = label
  /\ \A q \in Procs \ {p} : procs'[q] = procs[q]

LEMMA Becomes ==
  ASSUME Typed, NEW p \in Procs, NEW r \in Slots, Become(p, r)
  PROVE  Goes(p, r.pc) /\ procs'[p] = r
  BY DEF Become, Typed, Goes

LEMMA GoesTo ==
  ASSUME Typed, NEW p \in Procs, NEW label \in Labels, Goto(p, label)
  PROVE  Goes(p, label) /\ procs'[p] = [procs[p] EXCEPT !.pc = label]
  BY DEF Goto, Typed, Goes, Slots

LEMMA IdleIs ==
  Idle \in Slots /\ Idle.pc = "idle" /\ ~Idle.loop
  BY DEF Idle, Slots, Labels

LEMMA Exits ==
  ASSUME Typed, NEW p \in Procs, Exit(p)
  PROVE  Goes(p, "idle")
  BY Becomes, IdleIs DEF Exit

(* The row a step of the loop writes.                                      *)
LEMMA WroteRow ==
  ASSUME Typed, NEW run_state \in {"running", "awaiting_approval", "succeeded", "error"},
         Wrote(run_state)
  PROVE  /\ row' \in Rows /\ row'.state_revision = row.state_revision + 1
         /\ row'.artifact_state = row.artifact_state
  <1>1. PICK asked \in BOOLEAN : asked = (row.asked \/ run_state = "awaiting_approval")
    OBVIOUS
  <1>2. PICK n \in Nat : n = row.state_revision + 1
    BY DEF Typed, Rows
  <1>3. row' = [row EXCEPT !.state_revision = n, !.run_state = run_state, !.asked = asked]
    BY <1>1, <1>2 DEF Wrote
  <1>4. row \in Rows
    BY DEF Typed
  <1>5. row' \in Rows /\ row'.state_revision = n /\ row'.artifact_state = row.artifact_state
    BY <1>3, <1>4 DEF Rows
  <1> QED
    BY <1>2, <1>5

(* The process that goes on to record an observation.                      *)
LEMMA ObservesIs ==
  ASSUME Typed, NEW p \in Procs, NEW r \in Slots, Observes(p, r)
  PROVE  Goes(p, "load") /\ procs'[p].loop = r.loop /\ made' \in Nat
  <1>1. made \in Nat /\ made' = made + 1
    BY DEF Observes, Typed
  <1>2. made' \in Nat
    BY <1>1
  <1> DEFINE recording == [r EXCEPT !.pc = "load", !.note = made']
  <1>3. Become(p, recording)
    BY <1>1 DEF Observes
  <1>4. recording \in Slots /\ recording.pc = "load" /\ recording.loop = r.loop
    BY <1>2 DEF Slots, Labels
  <1> HIDE DEF recording
  <1> QED
    BY <1>2, <1>3, <1>4, Becomes

LEMMA WorkingIs ==
  Working \in Slots /\ Working.pc = "work" /\ Working.loop
  BY DEF Working, Idle, Slots, Labels

(* A process ends and leaves everything behind as it is.  Between two      *)
(* pieces, that cuts a creation or a removal.                              *)
LEMMA EndKeeps ==
  ASSUME WorkInvariant, NEW p \in Procs, Exit(p),
         UNCHANGED <<worktree, record, row, envelope, runtime, made>>,
         \/ Cut
         \/ UNCHANGED seen /\ procs[p].pc \notin {"own", "unadd"} \cup Removing
  PROVE  WorkInvariant'
  <1> USE DEF WorkInvariant
  <1>1. /\ Goes(p, "idle") /\ UNCHANGED <<worktree, record, row, envelope, runtime, made>>
        /\ \/ seen' = [seen EXCEPT !.cut = TRUE]
           \/ seen' = seen /\ procs[p].pc \notin {"own", "unadd"} \cup Removing
        /\ seen \in Histories
    BY Exits DEF Cut, Typed
  <1>2. Typed'
    BY <1>1 DEF Goes, Histories, Typed
  <1>3. OneEach'
    BY <1>1 DEF Goes, OneEach, Creating, Removing
  <1>4. BeforeRow'
    BY <1>1 DEF Goes, Histories, BeforeRow, Nobody
  <1>5. Places'
    BY <1>1 DEF Goes, At, Places, Removing
  <1>6. Prepared'
    BY <1>1 DEF Goes, At, Histories, Prepared, Nobody
  <1>7. Refused'
    BY <1>1 DEF Goes, Histories, Refused, Nobody, Creating
  <1>8. Observed'
    BY <1>1 DEF Goes, At, Histories, Observed
  <1>9. RecordMatchesWorktree'
    BY <1>1 DEF Goes, Histories, RecordMatchesWorktree, Nobody, Removing
  <1>10. GoneIsDiscarded'
    BY <1>1 DEF Goes, Histories, GoneIsDiscarded, Nobody, Removing
  <1> QED
    BY <1>2, <1>3, <1>4, <1>5, <1>6, <1>7, <1>8, <1>9, <1>10

LEMMA AddWorktreeKeeps ==
  ASSUME WorkInvariant, NEW p \in Procs, AddWorktree(p)
  PROVE  WorkInvariant'
  <1> USE DEF WorkInvariant
  <1>1. CASE /\ worktree' = "there" /\ Goto(p, "own")
             /\ UNCHANGED <<faults, seen>>
    <2>1. /\ At(p, "add") /\ Goes(p, "own") /\ worktree' = "there"
          /\ seen \in Histories /\ UNCHANGED <<record, row, envelope, runtime, made, seen>>
      BY <1>1, GoesTo, Exits DEF AddWorktree, Typed, tables, Labels, Creating, Removing
    <2>2. Typed'
      BY <2>1 DEF Goes, Typed
    <2>3. OneEach'
      BY <2>1 DEF Goes, At, OneEach, Creating, Removing
    <2>4. BeforeRow'
      BY <2>1 DEF Goes, At, BeforeRow, Nobody
    <2>5. Places'
      BY <2>1 DEF Goes, At, Places, OneEach, Creating, Removing
    <2>6. Prepared'
      BY <2>1 DEF Goes, At, Prepared, Nobody
    <2>7. Refused'
      BY <2>1 DEF At, Refused, Nobody, Creating
    <2>8. Observed'
      BY <2>1 DEF Goes, At, Observed
    <2>9. RecordMatchesWorktree'
      BY <2>1 DEF Goes, RecordMatchesWorktree, Nobody
    <2>10. GoneIsDiscarded'
      BY <2>1 DEF GoneIsDiscarded
    <2> QED
      BY <2>2, <2>3, <2>4, <2>5, <2>6, <2>7, <2>8, <2>9, <2>10
  <1>2. CASE /\ Exit(p) /\ seen' = [seen EXCEPT !.refused = TRUE]
             /\ Fault /\ UNCHANGED worktree
    <2>1. /\ At(p, "add") /\ Goes(p, "idle") /\ seen' = [seen EXCEPT !.refused = TRUE]
          /\ seen \in Histories /\ UNCHANGED <<worktree, record, row, envelope, runtime, made>>
      BY <1>2, GoesTo, Exits DEF AddWorktree, Typed, tables
    <2>2. Typed'
      BY <2>1 DEF Goes, Histories, Typed
    <2>3. OneEach'
      BY <2>1 DEF Goes, OneEach, Creating, Removing
    <2>4. BeforeRow'
      BY <2>1 DEF Goes, BeforeRow, Nobody
    <2>5. Places'
      BY <2>1 DEF Goes, At, Places, Removing
    <2>6. Prepared'
      BY <2>1 DEF Goes, At, Prepared, Nobody
    <2>7. Refused'
      BY <2>1 DEF Goes, At, Refused, OneEach, Nobody, Creating, Places
    <2>8. Observed'
      BY <2>1 DEF Goes, At, Observed
    <2>9. RecordMatchesWorktree'
      BY <2>1 DEF RecordMatchesWorktree, Places
    <2>10. GoneIsDiscarded'
      BY <2>1 DEF GoneIsDiscarded
    <2> QED
      BY <2>2, <2>3, <2>4, <2>5, <2>6, <2>7, <2>8, <2>9, <2>10
  <1> QED
    BY <1>1, <1>2 DEF AddWorktree

LEMMA RecordOwnershipKeeps ==
  ASSUME WorkInvariant, NEW p \in Procs, RecordOwnership(p)
  PROVE  WorkInvariant'
  <1> USE DEF WorkInvariant
  <1>1. CASE /\ record' = "whole" /\ Goto(p, "create")
             /\ UNCHANGED faults
    <2>1. /\ At(p, "own") /\ Goes(p, "create") /\ record' = "whole"
          /\ seen \in Histories /\ UNCHANGED <<worktree, row, envelope, runtime, made, seen>>
      BY <1>1, GoesTo, Exits DEF RecordOwnership, Typed, tables, Labels, Creating, Removing
    <2>2. Typed'
      BY <2>1 DEF Goes, Typed
    <2>3. OneEach'
      BY <2>1 DEF Goes, At, OneEach, Creating, Removing
    <2>4. BeforeRow'
      BY <2>1 DEF Goes, At, BeforeRow, Nobody
    <2>5. Places'
      BY <2>1 DEF Goes, At, Places, OneEach, Creating, Removing
    <2>6. Prepared'
      BY <2>1 DEF Goes, At, Prepared, Nobody
    <2>7. Refused'
      BY <2>1 DEF Refused, Places
    <2>8. Observed'
      BY <2>1 DEF Goes, At, Observed
    <2>9. RecordMatchesWorktree'
      BY <2>1 DEF RecordMatchesWorktree, Places
    <2>10. GoneIsDiscarded'
      BY <2>1 DEF GoneIsDiscarded, Places
    <2> QED
      BY <2>2, <2>3, <2>4, <2>5, <2>6, <2>7, <2>8, <2>9, <2>10
  <1>2. CASE /\ record' \in {"none", "torn"} /\ Goto(p, "unadd")
             /\ Fault
    <2>1. /\ At(p, "own") /\ Goes(p, "unadd") /\ record' \in {"none", "torn"}
          /\ seen \in Histories /\ UNCHANGED <<worktree, row, envelope, runtime, made, seen>>
      BY <1>2, GoesTo, Exits DEF RecordOwnership, Typed, tables, Labels, Creating, Removing
    <2>2. Typed'
      BY <2>1 DEF Goes, Typed
    <2>3. OneEach'
      BY <2>1 DEF Goes, At, OneEach, Creating, Removing
    <2>4. BeforeRow'
      BY <2>1 DEF Goes, At, BeforeRow, Nobody
    <2>5. Places'
      BY <2>1 DEF Goes, At, Places, OneEach, Creating, Removing
    <2>6. Prepared'
      BY <2>1 DEF Goes, At, Prepared, Nobody
    <2>7. Refused'
      BY <2>1 DEF Refused, Places
    <2>8. Observed'
      BY <2>1 DEF Goes, At, Observed
    <2>9. RecordMatchesWorktree'
      BY <2>1 DEF Goes, RecordMatchesWorktree, Nobody
    <2>10. GoneIsDiscarded'
      BY <2>1 DEF GoneIsDiscarded, Places
    <2> QED
      BY <2>2, <2>3, <2>4, <2>5, <2>6, <2>7, <2>8, <2>9, <2>10
  <1> QED
    BY <1>1, <1>2 DEF RecordOwnership

LEMMA UndoAddKeeps ==
  ASSUME WorkInvariant, NEW p \in Procs, UndoAdd(p)
  PROVE  WorkInvariant'
  <1> USE DEF WorkInvariant
  <1>1. CASE worktree' = "gone" /\ seen' = [seen EXCEPT !.refused = TRUE]
    <2>1. /\ At(p, "unadd") /\ Goes(p, "idle")
          /\ worktree' = "gone" /\ seen' = [seen EXCEPT !.refused = TRUE]
          /\ seen \in Histories /\ UNCHANGED <<record, row, envelope, runtime, made>>
      BY <1>1, GoesTo, Exits DEF UndoAdd, Typed, tables
    <2>2. Typed'
      BY <2>1 DEF Goes, Histories, Typed
    <2>3. OneEach'
      BY <2>1 DEF Goes, OneEach, Creating, Removing
    <2>4. BeforeRow'
      BY <2>1 DEF Goes, BeforeRow, Nobody
    <2>5. Places'
      BY <2>1 DEF Goes, At, Places, OneEach, Creating
    <2>6. Prepared'
      BY <2>1 DEF Goes, At, Prepared, Nobody
    <2>7. Refused'
      BY <2>1 DEF Goes, At, Refused, OneEach, Nobody, Creating, Places
    <2>8. Observed'
      BY <2>1 DEF Goes, At, Observed
    <2>9. RecordMatchesWorktree'
      BY <2>1 DEF RecordMatchesWorktree, Places
    <2>10. GoneIsDiscarded'
      BY <2>1 DEF GoneIsDiscarded
    <2> QED
      BY <2>2, <2>3, <2>4, <2>5, <2>6, <2>7, <2>8, <2>9, <2>10
  <1>2. CASE Fault /\ Cut /\ UNCHANGED worktree
    BY <1>2, EndKeeps DEF UndoAdd, Typed, tables
  <1> QED
    BY <1>1, <1>2 DEF UndoAdd

LEMMA CreateTaskKeeps ==
  ASSUME WorkInvariant, NEW p \in Procs, CreateTask(p)
  PROVE  WorkInvariant'
  <1> USE DEF WorkInvariant
  <1>1. CASE /\ row' = [state_revision |-> 1, run_state |-> "running",
                        artifact_state |-> "worktree_present", asked |-> FALSE]
             /\ Goto(p, "envelope") /\ UNCHANGED faults
    <2>1. /\ At(p, "create") /\ Goes(p, "envelope")
          /\ row' \in Rows /\ row'.state_revision = 1 /\ row'.run_state = "running"
          /\ row'.artifact_state = "worktree_present" /\ ~row'.asked
          /\ seen \in Histories /\ UNCHANGED <<worktree, record, envelope, runtime, made, seen>>
      BY <1>1, GoesTo, Exits DEF CreateTask, Typed, places, Rows, Labels, Creating, Removing
    <2>2. Typed'
      BY <2>1 DEF Goes, Typed
    <2>3. OneEach'
      BY <2>1 DEF Goes, At, OneEach, Creating, Removing
    <2>4. BeforeRow'
      BY <2>1 DEF Goes, At, BeforeRow, OneEach, Creating, Nobody
    <2>5. Places'
      BY <2>1 DEF Goes, At, Places, Removing
    <2>6. Prepared'
      BY <2>1 DEF Goes, At, Prepared, BeforeRow, Nobody
    <2>7. Refused'
      BY <2>1 DEF Refused, Places
    <2>8. Observed'
      BY <2>1 DEF Goes, At, Observed
    <2>9. RecordMatchesWorktree'
      BY <2>1 DEF RecordMatchesWorktree, Places
    <2>10. GoneIsDiscarded'
      BY <2>1 DEF GoneIsDiscarded, Places
    <2> QED
      BY <2>2, <2>3, <2>4, <2>5, <2>6, <2>7, <2>8, <2>9, <2>10
  <1>2. CASE Fault /\ Goto(p, "giveback") /\ UNCHANGED row
    <2>1. /\ At(p, "create") /\ Goes(p, "giveback")
          /\ seen \in Histories /\ UNCHANGED <<worktree, record, row, envelope, runtime, made, seen>>
      BY <1>2, GoesTo, Exits DEF CreateTask, Typed, places, Labels, Creating, Removing
    <2>2. Typed'
      BY <2>1 DEF Goes, Typed
    <2>3. OneEach'
      BY <2>1 DEF Goes, At, OneEach, Creating, Removing
    <2>4. BeforeRow'
      BY <2>1 DEF Goes, BeforeRow, Nobody
    <2>5. Places'
      BY <2>1 DEF Goes, At, Places, Removing
    <2>6. Prepared'
      BY <2>1 DEF Goes, At, Prepared, Nobody
    <2>7. Refused'
      BY <2>1 DEF Refused, Places
    <2>8. Observed'
      BY <2>1 DEF Goes, At, Observed
    <2>9. RecordMatchesWorktree'
      BY <2>1 DEF RecordMatchesWorktree, Places
    <2>10. GoneIsDiscarded'
      BY <2>1 DEF GoneIsDiscarded, Places
    <2> QED
      BY <2>2, <2>3, <2>4, <2>5, <2>6, <2>7, <2>8, <2>9, <2>10
  <1> QED
    BY <1>1, <1>2 DEF CreateTask

LEMMA SaveEnvelopeKeeps ==
  ASSUME WorkInvariant, NEW p \in Procs, SaveEnvelope(p)
  PROVE  WorkInvariant'
  <1> USE DEF WorkInvariant
  <1>1. CASE /\ envelope' = TRUE /\ Goto(p, "runtime")
             /\ UNCHANGED faults
    <2>1. /\ At(p, "envelope") /\ Goes(p, "runtime") /\ envelope' = TRUE
          /\ seen \in Histories /\ UNCHANGED <<worktree, record, row, runtime, made, seen>>
      BY <1>1, GoesTo, Exits DEF SaveEnvelope, Typed, places, Labels, Creating, Removing
    <2>2. Typed'
      BY <2>1 DEF Goes, Typed
    <2>3. OneEach'
      BY <2>1 DEF Goes, At, OneEach, Creating, Removing
    <2>4. BeforeRow'
      BY <2>1 DEF Goes, At, BeforeRow, Nobody
    <2>5. Places'
      BY <2>1 DEF Goes, At, Places, Removing
    <2>6. Prepared'
      BY <2>1 DEF Goes, At, Prepared, Nobody
    <2>7. Refused'
      BY <2>1 DEF At, Refused, Nobody, Creating
    <2>8. Observed'
      BY <2>1 DEF Goes, At, Observed
    <2>9. RecordMatchesWorktree'
      BY <2>1 DEF Goes, At, RecordMatchesWorktree, Nobody
    <2>10. GoneIsDiscarded'
      BY <2>1 DEF Goes, At, GoneIsDiscarded, Nobody
    <2> QED
      BY <2>2, <2>3, <2>4, <2>5, <2>6, <2>7, <2>8, <2>9, <2>10
  <1>2. CASE Fault /\ Goto(p, "giveback") /\ UNCHANGED envelope
    <2>1. /\ At(p, "envelope") /\ Goes(p, "giveback")
          /\ seen \in Histories /\ UNCHANGED <<worktree, record, row, envelope, runtime, made, seen>>
      BY <1>2, GoesTo, Exits DEF SaveEnvelope, Typed, places, Labels, Creating, Removing
    <2>2. Typed'
      BY <2>1 DEF Goes, Typed
    <2>3. OneEach'
      BY <2>1 DEF Goes, At, OneEach, Creating, Removing
    <2>4. BeforeRow'
      BY <2>1 DEF Goes, BeforeRow, Nobody
    <2>5. Places'
      BY <2>1 DEF Goes, At, Places, Removing
    <2>6. Prepared'
      BY <2>1 DEF Goes, At, Prepared, Nobody
    <2>7. Refused'
      BY <2>1 DEF At, Refused, Nobody, Creating
    <2>8. Observed'
      BY <2>1 DEF Goes, At, Observed
    <2>9. RecordMatchesWorktree'
      BY <2>1 DEF Goes, At, RecordMatchesWorktree, Nobody
    <2>10. GoneIsDiscarded'
      BY <2>1 DEF Goes, At, GoneIsDiscarded, Nobody
    <2> QED
      BY <2>2, <2>3, <2>4, <2>5, <2>6, <2>7, <2>8, <2>9, <2>10
  <1> QED
    BY <1>1, <1>2 DEF SaveEnvelope

LEMMA SaveRuntimeKeeps ==
  ASSUME WorkInvariant, NEW p \in Procs, SaveRuntime(p)
  PROVE  WorkInvariant'
  <1> USE DEF WorkInvariant
  <1>1. CASE /\ runtime' = {} /\ Become(p, Working)
             /\ UNCHANGED faults
    <2>1. /\ At(p, "runtime") /\ Goes(p, "work") /\ runtime' = {}
          /\ seen \in Histories /\ UNCHANGED <<worktree, record, row, envelope, made, seen>>
      BY <1>1, WorkingIs, Becomes DEF SaveRuntime, Typed, places
    <2>2. Typed'
      BY <2>1 DEF Goes, Typed
    <2>3. OneEach'
      BY <2>1 DEF Goes, OneEach, Creating, Removing
    <2>4. BeforeRow'
      BY <2>1 DEF Goes, At, BeforeRow, Nobody
    <2>5. Places'
      BY <2>1 DEF Goes, At, Places, Removing
    <2>6. Prepared'
      BY <2>1 DEF Goes, At, Prepared, OneEach, Nobody, Creating
    <2>7. Refused'
      BY <2>1 DEF At, Refused, Nobody, Creating
    <2>8. Observed'
      BY <2>1 DEF Goes, At, Observed, Prepared, Nobody
    <2>9. RecordMatchesWorktree'
      BY <2>1 DEF Goes, At, RecordMatchesWorktree, Nobody
    <2>10. GoneIsDiscarded'
      BY <2>1 DEF Goes, At, GoneIsDiscarded, Nobody
    <2> QED
      BY <2>2, <2>3, <2>4, <2>5, <2>6, <2>7, <2>8, <2>9, <2>10
  <1>2. CASE Fault /\ Exit(p) /\ UNCHANGED runtime
    BY <1>2, EndKeeps DEF SaveRuntime, Typed, places, At, Removing
  <1> QED
    BY <1>1, <1>2 DEF SaveRuntime

LEMMA GiveBackKeeps ==
  ASSUME WorkInvariant, NEW p \in Procs, GiveBack(p)
  PROVE  WorkInvariant'
  <1> USE DEF WorkInvariant
  <1>1. CASE /\ Removable /\ worktree' = "gone"
             /\ Goto(p, "unlinkback") /\ UNCHANGED <<faults, seen>>
    <2>1. /\ At(p, "giveback") /\ Goes(p, "unlinkback")
          /\ record = "whole" /\ worktree = "there" /\ worktree' = "gone"
          /\ seen \in Histories /\ UNCHANGED <<record, row, envelope, runtime, made, seen>>
      BY <1>1, GoesTo, Exits
        DEF GiveBack, Typed, Removable, tables, Labels, Creating, Removing
    <2>2. Typed'
      BY <2>1 DEF Goes, Typed
    <2>3. OneEach'
      BY <2>1 DEF Goes, At, OneEach, Places, Creating
    <2>4. BeforeRow'
      BY <2>1 DEF Goes, BeforeRow, Nobody
    <2>5. Places'
      BY <2>1 DEF Goes, At, Places, OneEach, Creating
    <2>6. Prepared'
      BY <2>1 DEF Goes, At, Prepared, Nobody
    <2>7. Refused'
      BY <2>1 DEF Refused
    <2>8. Observed'
      BY <2>1 DEF Goes, At, Observed
    <2>9. RecordMatchesWorktree'
      BY <2>1 DEF Goes, RecordMatchesWorktree, Nobody
    <2>10. GoneIsDiscarded'
      BY <2>1 DEF Goes, GoneIsDiscarded, Nobody
    <2> QED
      BY <2>2, <2>3, <2>4, <2>5, <2>6, <2>7, <2>8, <2>9, <2>10
  <1>2. CASE ~Removable /\ Exit(p) /\ UNCHANGED <<worktree, faults, seen>>
    BY <1>2, EndKeeps DEF GiveBack, Typed, tables, At, Removing
  <1>3. CASE Fault /\ Cut /\ Exit(p) /\ UNCHANGED worktree
    BY <1>3, EndKeeps DEF GiveBack, Typed, tables
  <1> QED
    BY <1>1, <1>2, <1>3 DEF GiveBack

LEMMA UnlinkBackKeeps ==
  ASSUME WorkInvariant, NEW p \in Procs, UnlinkBack(p)
  PROVE  WorkInvariant'
  <1> USE DEF WorkInvariant
  <1>1. CASE /\ record' = "none" /\ seen' = [seen EXCEPT !.refused = TRUE]
             /\ UNCHANGED faults
    <2>1. /\ At(p, "unlinkback") /\ Goes(p, "idle")
          /\ record' = "none" /\ seen' = [seen EXCEPT !.refused = TRUE]
          /\ seen \in Histories /\ UNCHANGED <<worktree, row, envelope, runtime, made>>
      BY <1>1, GoesTo, Exits DEF UnlinkBack, Typed, tables
    <2>2. Typed'
      BY <2>1 DEF Goes, Histories, Typed
    <2>3. OneEach'
      BY <2>1 DEF Goes, OneEach, Creating, Removing
    <2>4. BeforeRow'
      BY <2>1 DEF Goes, BeforeRow, Nobody
    <2>5. Places'
      BY <2>1 DEF Goes, At, Places, OneEach, Removing
    <2>6. Prepared'
      BY <2>1 DEF Goes, At, Prepared, Nobody
    <2>7. Refused'
      BY <2>1 DEF Goes, At, Refused, OneEach, Nobody, Creating, Removing, Places
    <2>8. Observed'
      BY <2>1 DEF Goes, At, Observed
    <2>9. RecordMatchesWorktree'
      BY <2>1 DEF At, RecordMatchesWorktree, Places, Removing
    <2>10. GoneIsDiscarded'
      BY <2>1 DEF GoneIsDiscarded
    <2> QED
      BY <2>2, <2>3, <2>4, <2>5, <2>6, <2>7, <2>8, <2>9, <2>10
  <1>2. CASE Fault /\ Cut /\ UNCHANGED record
    BY <1>2, EndKeeps DEF UnlinkBack, Typed, tables
  <1> QED
    BY <1>1, <1>2 DEF UnlinkBack

LEMMA StepKeeps ==
  ASSUME WorkInvariant, NEW p \in Procs, Step(p)
  PROVE  WorkInvariant'
  <1> USE DEF WorkInvariant
  <1>1. CASE Live /\ Wrote("running") /\ Observes(p, procs[p])
    <2>1. /\ At(p, "work") /\ Goes(p, "load") /\ procs'[p].loop = procs[p].loop
          /\ row' \in Rows /\ row'.state_revision = row.state_revision + 1
          /\ row'.artifact_state = row.artifact_state
          /\ made' \in Nat
          /\ seen \in Histories /\ UNCHANGED <<worktree, record, envelope, runtime, seen>>
      BY <1>1, ObservesIs, WroteRow DEF Step, Typed, places
    <2>2. Typed'
      BY <2>1 DEF Goes, Typed
    <2>3. OneEach'
      BY <2>1 DEF Goes, OneEach, Creating, Removing
    <2>4. BeforeRow'
      BY <2>1 DEF Goes, At, BeforeRow, Typed, Rows, Nobody
    <2>5. Places'
      BY <2>1 DEF Goes, At, Places, Removing
    <2>6. Prepared'
      BY <2>1 DEF Goes, At, Prepared, Nobody
    <2>7. Refused'
      BY <2>1 DEF Goes, Refused, Nobody, Creating
    <2>8. Observed'
      BY <2>1 DEF Goes, At, Observed
    <2>9. RecordMatchesWorktree'
      BY <2>1 DEF Goes, At, RecordMatchesWorktree, Nobody
    <2>10. GoneIsDiscarded'
      BY <2>1 DEF Goes, At, GoneIsDiscarded, Nobody, BeforeRow, NoRow
    <2> QED
      BY <2>2, <2>3, <2>4, <2>5, <2>6, <2>7, <2>8, <2>9, <2>10
  <1>2. CASE /\ \/ row.run_state = "running" /\ Wrote("awaiting_approval")
                \/ Live /\ \E end \in {"succeeded", "error"} : Wrote(end)
             /\ Exit(p) /\ UNCHANGED made
    <2>1. /\ At(p, "work") /\ Goes(p, "idle")
          /\ row' \in Rows /\ row'.state_revision = row.state_revision + 1
          /\ row'.artifact_state = row.artifact_state
          /\ seen \in Histories /\ UNCHANGED <<worktree, record, envelope, runtime, made, seen>>
      BY <1>2, Exits, WroteRow DEF Step, Typed, places
    <2>2. Typed'
      BY <2>1 DEF Goes, Typed
    <2>3. OneEach'
      BY <2>1 DEF Goes, OneEach, Creating, Removing
    <2>4. BeforeRow'
      BY <2>1 DEF Goes, At, BeforeRow, Typed, Rows, Nobody
    <2>5. Places'
      BY <2>1 DEF Goes, At, Places, Removing
    <2>6. Prepared'
      BY <2>1 DEF Goes, At, Prepared, Nobody
    <2>7. Refused'
      BY <2>1 DEF Goes, Refused, Nobody, Creating
    <2>8. Observed'
      BY <2>1 DEF Goes, At, Observed
    <2>9. RecordMatchesWorktree'
      BY <2>1 DEF Goes, At, RecordMatchesWorktree, Nobody
    <2>10. GoneIsDiscarded'
      BY <2>1 DEF Goes, At, GoneIsDiscarded, Nobody, BeforeRow, NoRow
    <2> QED
      BY <2>2, <2>3, <2>4, <2>5, <2>6, <2>7, <2>8, <2>9, <2>10
  <1>3. CASE UNCHANGED row /\ Exit(p) /\ UNCHANGED made
    BY <1>3, EndKeeps DEF Step, Typed, places, At, Removing
  <1> QED
    BY <1>1, <1>2, <1>3 DEF Step

LEMMA StartRejectKeeps ==
  ASSUME WorkInvariant, NEW p \in Procs, StartReject(p)
  PROVE  WorkInvariant'
  <1> USE DEF WorkInvariant
  <1>1. /\ At(p, "idle") /\ Goes(p, "load") /\ ~procs'[p].loop
        /\ row.run_state = "awaiting_approval"
        /\ row' \in Rows /\ row'.state_revision = row.state_revision + 1
        /\ row'.artifact_state = row.artifact_state
        /\ made' \in Nat
        /\ seen \in Histories /\ UNCHANGED <<worktree, record, envelope, runtime, seen>>
    BY IdleIs, ObservesIs, WroteRow DEF StartReject, Typed, places
  <1>2. Typed'
    BY <1>1 DEF Goes, Typed
  <1>3. OneEach'
    BY <1>1 DEF Goes, OneEach, Creating, Removing
  <1>4. BeforeRow'
    BY <1>1 DEF Goes, BeforeRow, Typed, Rows, NoRow, Nobody
  <1>5. Places'
    BY <1>1 DEF Goes, At, Places, Removing
  <1>6. Prepared'
    BY <1>1 DEF Goes, At, Prepared, Nobody
  <1>7. Refused'
    BY <1>1 DEF Goes, Refused, Nobody, Creating
  <1>8. Observed'
    BY <1>1 DEF Goes, At, Observed
  <1>9. RecordMatchesWorktree'
    BY <1>1 DEF Goes, At, RecordMatchesWorktree, Nobody
  <1>10. GoneIsDiscarded'
    BY <1>1 DEF Goes, At, GoneIsDiscarded, Nobody, NoRow
  <1> QED
    BY <1>2, <1>3, <1>4, <1>5, <1>6, <1>7, <1>8, <1>9, <1>10

LEMMA LoadKeeps ==
  ASSUME WorkInvariant, NEW p \in Procs, Load(p)
  PROVE  WorkInvariant'
  <1> USE DEF WorkInvariant
  <1>1. /\ At(p, "load") /\ Goes(p, "save") /\ procs'[p].loop = procs[p].loop
        /\ procs'[p].list = runtime
        /\ seen' \in Histories /\ seen'.saved = seen.saved /\ seen'.cut = seen.cut
        /\ seen'.overtaken = seen.overtaken /\ seen'.refused = seen.refused
        /\ ~seen'.overlapped =>
             ~seen.overlapped /\ \A q \in Procs \ {p} : ~At(q, "save")
        /\ UNCHANGED <<worktree, record, row, envelope, runtime, made>>
    <2> DEFINE another == \E q \in Procs \ {p} : At(q, "save")
    <2>1. /\ At(p, "load") /\ UNCHANGED <<worktree, record, row, envelope, runtime, made>>
          /\ seen' = [seen EXCEPT !.overlapped = seen.overlapped \/ another]
          /\ Become(p, [procs[p] EXCEPT !.pc = "save", !.list = runtime])
      BY DEF Load, Become, places, tables, Typed
    <2>2. /\ Goes(p, "save") /\ procs'[p].loop = procs[p].loop
          /\ procs'[p].list = runtime
      <3> DEFINE reader == [procs[p] EXCEPT !.pc = "save", !.list = runtime]
      <3>1. /\ reader \in Slots /\ reader.pc = "save" /\ reader.loop = procs[p].loop
            /\ reader.list = runtime
        BY DEF Typed, Slots, Labels
      <3> QED
        BY <2>1, <3>1, Becomes
    <2>3. another \in BOOLEAN /\ seen \in Histories
      BY DEF Typed
    <2>4. another \/ \A q \in Procs \ {p} : ~At(q, "save")
      OBVIOUS
    <2> HIDE DEF another
    <2>5. /\ seen' \in Histories /\ seen'.saved = seen.saved /\ seen'.cut = seen.cut
          /\ seen'.overtaken = seen.overtaken /\ seen'.refused = seen.refused
          /\ ~seen'.overlapped => ~seen.overlapped /\ ~another
      BY <2>1, <2>3 DEF Histories
    <2> QED
      BY <2>1, <2>2, <2>4, <2>5
  <1>2. Typed'
    BY <1>1 DEF Goes, Typed
  <1>3. OneEach'
    BY <1>1 DEF Goes, OneEach, Creating, Removing
  <1>4. BeforeRow'
    BY <1>1 DEF Goes, At, BeforeRow, Nobody
  <1>5. Places'
    BY <1>1 DEF Goes, At, Places, Removing
  <1>6. Prepared'
    BY <1>1 DEF Goes, At, Prepared, Nobody
  <1>7. Refused'
    BY <1>1 DEF Goes, Refused, Nobody, Creating
  <1>8. Observed'
    BY <1>1 DEF Goes, At, Observed
  <1>9. RecordMatchesWorktree'
    BY <1>1 DEF Goes, At, RecordMatchesWorktree, Nobody
  <1>10. GoneIsDiscarded'
    BY <1>1 DEF Goes, At, GoneIsDiscarded, Nobody
  <1> QED
    BY <1>2, <1>3, <1>4, <1>5, <1>6, <1>7, <1>8, <1>9, <1>10

LEMMA SaveKeeps ==
  ASSUME WorkInvariant, NEW p \in Procs, Save(p)
  PROVE  WorkInvariant'
  <1> USE DEF WorkInvariant
  <1>1. /\ At(p, "save") /\ procs[p] \in Slots
        /\ Goes(p, IF procs[p].loop THEN "work" ELSE "idle")
        /\ runtime' = procs[p].list \cup {procs[p].note}
        /\ seen' = [seen EXCEPT !.saved = @ \cup {procs[p].note}]
        /\ seen \in Histories /\ UNCHANGED <<worktree, record, row, envelope, made>>
    BY IdleIs, Becomes
      DEF Save, Typed, places, tables, Slots, Goes, Labels, Creating, Removing
  <1>2. Typed'
    BY <1>1 DEF Goes, Histories, Slots, Typed
  <1>3. OneEach'
    BY <1>1 DEF Goes, OneEach, Creating, Removing
  <1>4. BeforeRow'
    BY <1>1 DEF Goes, At, BeforeRow, Nobody
  <1>5. Places'
    BY <1>1 DEF Goes, At, Places, Removing
  <1>6. Prepared'
    BY <1>1 DEF Goes, At, Prepared, Nobody
  <1>7. Refused'
    BY <1>1 DEF Goes, Refused, Nobody, Creating
  <1>8. Observed'
    BY <1>1 DEF Goes, At, Observed
  <1>9. RecordMatchesWorktree'
    BY <1>1 DEF Goes, At, RecordMatchesWorktree, Nobody
  <1>10. GoneIsDiscarded'
    BY <1>1 DEF Goes, At, GoneIsDiscarded, Nobody
  <1> QED
    BY <1>2, <1>3, <1>4, <1>5, <1>6, <1>7, <1>8, <1>9, <1>10

LEMMA StartResumeKeeps ==
  ASSUME WorkInvariant, NEW p \in Procs, StartResume(p)
  PROVE  WorkInvariant'
  <1> USE DEF WorkInvariant
  <1>1. CASE Complete /\ Become(p, Working) /\ UNCHANGED row
    <2>1. /\ At(p, "idle") /\ Goes(p, "work") /\ envelope /\ row.asked
          /\ seen \in Histories /\ UNCHANGED <<worktree, record, row, envelope, runtime, made, seen>>
      BY <1>1, WorkingIs, Becomes DEF StartResume, Typed, Complete, places
    <2>2. Typed'
      BY <2>1 DEF Goes, Typed
    <2>3. OneEach'
      BY <2>1 DEF Goes, OneEach, Creating, Removing
    <2>4. BeforeRow'
      BY <2>1 DEF Goes, BeforeRow, NoRow, Nobody
    <2>5. Places'
      BY <2>1 DEF Goes, At, Places, Removing
    <2>6. Prepared'
      BY <2>1 DEF Goes, Prepared, Nobody
    <2>7. Refused'
      BY <2>1 DEF Goes, Refused, Nobody, Creating
    <2>8. Observed'
      BY <2>1 DEF Goes, At, Observed
    <2>9. RecordMatchesWorktree'
      BY <2>1 DEF Goes, At, RecordMatchesWorktree, Nobody
    <2>10. GoneIsDiscarded'
      BY <2>1 DEF Goes, At, GoneIsDiscarded, Nobody
    <2> QED
      BY <2>2, <2>3, <2>4, <2>5, <2>6, <2>7, <2>8, <2>9, <2>10
  <1>2. CASE UNCHANGED procs /\ Live /\ Wrote("error")
    <2>1. /\ row.asked /\ UNCHANGED procs
          /\ row' \in Rows /\ row'.state_revision = row.state_revision + 1
          /\ row'.artifact_state = row.artifact_state
          /\ seen \in Histories /\ UNCHANGED <<worktree, record, envelope, runtime, made, seen>>
      BY <1>2, WroteRow DEF StartResume, Typed, places
    <2>2. Typed'
      BY <2>1 DEF Typed
    <2>3. OneEach'
      BY <2>1 DEF OneEach
    <2>4. BeforeRow'
      BY <2>1 DEF BeforeRow, Typed, Rows, NoRow, Nobody
    <2>5. Places'
      BY <2>1 DEF At, Places
    <2>6. Prepared'
      BY <2>1 DEF At, Prepared, Nobody
    <2>7. Refused'
      BY <2>1 DEF Refused, Nobody
    <2>8. Observed'
      BY <2>1 DEF At, Observed
    <2>9. RecordMatchesWorktree'
      BY <2>1 DEF RecordMatchesWorktree, Nobody
    <2>10. GoneIsDiscarded'
      BY <2>1 DEF GoneIsDiscarded, Nobody, NoRow
    <2> QED
      BY <2>2, <2>3, <2>4, <2>5, <2>6, <2>7, <2>8, <2>9, <2>10
  <1> QED
    BY <1>1, <1>2 DEF StartResume

LEMMA StartDiscardKeeps ==
  ASSUME WorkInvariant, NEW p \in Procs, StartDiscard(p)
  PROVE  WorkInvariant'
  <1> USE DEF WorkInvariant
  <1>1. /\ At(p, "idle") /\ Goes(p, "remove") /\ row # NoRow
        /\ seen \in Histories /\ UNCHANGED <<worktree, record, row, envelope, runtime, made, seen>>
    <2> DEFINE discarding == [Idle EXCEPT !.pc = "remove", !.rev = row.state_revision]
    <2>1. discarding \in Slots /\ discarding.pc = "remove"
      BY DEF Typed, Rows, Slots, Labels, Idle
    <2> QED
      BY <2>1, Becomes DEF StartDiscard, Typed, places, tables
  <1>2. Typed'
    BY <1>1 DEF Goes, Typed
  <1>3. OneEach'
    BY <1>1 DEF Goes, OneEach, Creating, Removing
  <1>4. BeforeRow'
    BY <1>1 DEF Goes, BeforeRow, Nobody
  <1>5. Places'
    BY <1>1 DEF Goes, At, Places, Removing
  <1>6. Prepared'
    BY <1>1 DEF Goes, At, Prepared, Nobody
  <1>7. Refused'
    BY <1>1 DEF Goes, Refused, Nobody, Creating
  <1>8. Observed'
    BY <1>1 DEF Goes, At, Observed
  <1>9. RecordMatchesWorktree'
    BY <1>1 DEF Goes, At, RecordMatchesWorktree, Nobody
  <1>10. GoneIsDiscarded'
    BY <1>1 DEF Goes, At, GoneIsDiscarded, Nobody
  <1> QED
    BY <1>2, <1>3, <1>4, <1>5, <1>6, <1>7, <1>8, <1>9, <1>10

LEMMA RemoveWorktreeKeeps ==
  ASSUME WorkInvariant, NEW p \in Procs, RemoveWorktree(p)
  PROVE  WorkInvariant'
  <1> USE DEF WorkInvariant
  <1>1. CASE /\ Removable /\ worktree' = "gone"
             /\ Goto(p, "unlink") /\ UNCHANGED faults
    <2>1. /\ At(p, "remove") /\ Goes(p, "unlink")
          /\ record = "whole" /\ worktree = "there" /\ worktree' = "gone"
          /\ seen \in Histories /\ UNCHANGED <<record, row, envelope, runtime, made, seen>>
      BY <1>1, GoesTo, Exits
        DEF RemoveWorktree, Typed, Removable, tables, Labels, Creating, Removing
    <2>2. Typed'
      BY <2>1 DEF Goes, Typed
    <2>3. OneEach'
      BY <2>1 DEF Goes, OneEach, Places, Creating
    <2>4. BeforeRow'
      BY <2>1 DEF Goes, At, BeforeRow, Nobody
    <2>5. Places'
      BY <2>1 DEF Goes, At, Places, BeforeRow, Nobody
    <2>6. Prepared'
      BY <2>1 DEF Goes, At, Prepared, Nobody
    <2>7. Refused'
      BY <2>1 DEF Refused
    <2>8. Observed'
      BY <2>1 DEF Goes, At, Observed
    <2>9. RecordMatchesWorktree'
      BY <2>1 DEF Goes, RecordMatchesWorktree, Nobody
    <2>10. GoneIsDiscarded'
      BY <2>1 DEF Goes, GoneIsDiscarded, Nobody
    <2> QED
      BY <2>2, <2>3, <2>4, <2>5, <2>6, <2>7, <2>8, <2>9, <2>10
  <1>2. CASE ~Removable /\ Exit(p) /\ UNCHANGED <<worktree, faults>>
    BY <1>2, EndKeeps DEF RemoveWorktree, Typed, tables, At, Removing
  <1>3. CASE Fault /\ Exit(p) /\ UNCHANGED worktree
    BY <1>3, EndKeeps DEF RemoveWorktree, Typed, tables, At, Removing
  <1> QED
    BY <1>1, <1>2, <1>3 DEF RemoveWorktree

LEMMA UnlinkRecordKeeps ==
  ASSUME WorkInvariant, NEW p \in Procs, UnlinkRecord(p)
  PROVE  WorkInvariant'
  <1> USE DEF WorkInvariant
  <1>1. CASE /\ record # "none" /\ record' = "none"
             /\ Goto(p, "mark") /\ UNCHANGED <<faults, seen>>
    <2>1. /\ At(p, "unlink") /\ Goes(p, "mark") /\ record' = "none"
          /\ seen \in Histories /\ UNCHANGED <<worktree, row, envelope, runtime, made, seen>>
      BY <1>1, GoesTo, Exits DEF UnlinkRecord, Typed, tables, Labels, Creating, Removing
    <2>2. Typed'
      BY <2>1 DEF Goes, Typed
    <2>3. OneEach'
      BY <2>1 DEF Goes, At, OneEach, Creating, Removing
    <2>4. BeforeRow'
      BY <2>1 DEF Goes, At, BeforeRow, Nobody
    <2>5. Places'
      BY <2>1 DEF Goes, At, Places, OneEach, Removing
    <2>6. Prepared'
      BY <2>1 DEF Goes, At, Prepared, Nobody
    <2>7. Refused'
      BY <2>1 DEF At, Refused, Places
    <2>8. Observed'
      BY <2>1 DEF Goes, At, Observed
    <2>9. RecordMatchesWorktree'
      BY <2>1 DEF At, RecordMatchesWorktree, Places, Removing
    <2>10. GoneIsDiscarded'
      BY <2>1 DEF Goes, GoneIsDiscarded, Nobody
    <2> QED
      BY <2>2, <2>3, <2>4, <2>5, <2>6, <2>7, <2>8, <2>9, <2>10
  <1>2. CASE record = "none" /\ Exit(p) /\ UNCHANGED <<record, faults, seen>>
    BY <1>2, EndKeeps DEF UnlinkRecord, Typed, tables, At, Places
  <1>3. CASE Fault /\ Cut /\ Exit(p) /\ UNCHANGED record
    BY <1>3, EndKeeps DEF UnlinkRecord, Typed, tables
  <1> QED
    BY <1>1, <1>2, <1>3 DEF UnlinkRecord

LEMMA MarkDiscardedKeeps ==
  ASSUME WorkInvariant, NEW p \in Procs, MarkDiscarded(p)
  PROVE  WorkInvariant'
  <1> USE DEF WorkInvariant
  <1>1. CASE row.state_revision = procs[p].rev
    <2>1. /\ At(p, "mark") /\ Goes(p, "idle")
          /\ row' \in Rows /\ row'.state_revision = row.state_revision + 1
          /\ row'.artifact_state = "discarded" /\ row'.run_state = row.run_state
          /\ row'.asked = row.asked
          /\ seen \in Histories /\ UNCHANGED <<worktree, record, envelope, runtime, made, seen>>
      <3>1. PICK n \in Nat : n = row.state_revision + 1
        BY DEF Typed, Rows
      <3>2. row' = [row EXCEPT !.state_revision = n, !.artifact_state = "discarded"]
        BY <1>1, <3>1 DEF MarkDiscarded
      <3>3. row \in Rows
        BY DEF Typed
      <3>4. /\ row' \in Rows /\ row'.state_revision = n /\ row'.asked = row.asked
            /\ row'.artifact_state = "discarded" /\ row'.run_state = row.run_state
        BY <3>2, <3>3 DEF Rows
      <3> QED
        BY <1>1, <3>1, <3>4, Exits DEF MarkDiscarded, Typed, places
    <2>2. Typed'
      BY <2>1 DEF Goes, Typed
    <2>3. OneEach'
      BY <2>1 DEF Goes, OneEach, Creating, Removing
    <2>4. BeforeRow'
      BY <2>1 DEF Goes, At, BeforeRow, Typed, Rows, Nobody
    <2>5. Places'
      BY <2>1 DEF Goes, At, Places, Removing
    <2>6. Prepared'
      BY <2>1 DEF Goes, At, Prepared, Nobody
    <2>7. Refused'
      BY <2>1 DEF Goes, Refused, Nobody, Creating
    <2>8. Observed'
      BY <2>1 DEF Goes, At, Observed
    <2>9. RecordMatchesWorktree'
      BY <2>1 DEF At, RecordMatchesWorktree, Nobody, Places, OneEach, Removing
    <2>10. GoneIsDiscarded'
      BY <2>1 DEF GoneIsDiscarded
    <2> QED
      BY <2>2, <2>3, <2>4, <2>5, <2>6, <2>7, <2>8, <2>9, <2>10
  <1>2. CASE row.state_revision # procs[p].rev
    <2>1. /\ At(p, "mark") /\ Goes(p, "idle") /\ seen' = [seen EXCEPT !.overtaken = TRUE]
          /\ seen \in Histories /\ UNCHANGED <<worktree, record, row, envelope, runtime, made>>
      BY <1>2, GoesTo, Exits DEF MarkDiscarded, Typed, places
    <2>2. Typed'
      BY <2>1 DEF Goes, Histories, Typed
    <2>3. OneEach'
      BY <2>1 DEF Goes, OneEach, Creating, Removing
    <2>4. BeforeRow'
      BY <2>1 DEF Goes, BeforeRow, Nobody
    <2>5. Places'
      BY <2>1 DEF Goes, At, Places, Removing
    <2>6. Prepared'
      BY <2>1 DEF Goes, At, Prepared, Nobody
    <2>7. Refused'
      BY <2>1 DEF Goes, Refused, Nobody, Creating
    <2>8. Observed'
      BY <2>1 DEF Goes, At, Observed
    <2>9. RecordMatchesWorktree'
      BY <2>1 DEF At, RecordMatchesWorktree, Nobody, Places, OneEach, Removing
    <2>10. GoneIsDiscarded'
      BY <2>1 DEF GoneIsDiscarded
    <2> QED
      BY <2>2, <2>3, <2>4, <2>5, <2>6, <2>7, <2>8, <2>9, <2>10
  <1> QED
    BY <1>1, <1>2 DEF MarkDiscarded

LEMMA KillKeeps ==
  ASSUME WorkInvariant, NEW p \in Procs, Kill(p)
  PROVE  WorkInvariant'
  <1> USE DEF WorkInvariant
  <1>1. CASE procs[p].pc \in {"add", "own", "unadd", "create", "giveback", "unlinkback",
                                  "unlink", "mark"}
    BY <1>1, EndKeeps DEF Kill, Typed, Cut, Histories, places, tables
  <1>2. CASE procs[p].pc \notin {"add", "own", "unadd", "create", "giveback", "unlinkback",
                                     "unlink", "mark"}
    BY <1>2, EndKeeps DEF Kill, Typed, Histories, places, tables, Removing
  <1> QED
    BY <1>1, <1>2 DEF Kill

-----------------------------------------------------------------------------
(* Every step keeps it.                                                    *)
LEMMA WorkInductive ==
  WorkInvariant /\ [WorkNext]_workVars => WorkInvariant'
  <1> SUFFICES ASSUME WorkInvariant, [WorkNext]_workVars
               PROVE  WorkInvariant'
    OBVIOUS
  <1>1. CASE UNCHANGED workVars
    BY <1>1
      DEF workVars, WorkInvariant, Typed, OneEach, BeforeRow, Places, Prepared, Refused,
                Observed, RecordMatchesWorktree, GoneIsDiscarded, At, Nobody
  <1>2. ASSUME NEW p \in Procs, Run(p)
        PROVE  WorkInvariant'
    BY <1>2, AddWorktreeKeeps, RecordOwnershipKeeps, UndoAddKeeps, CreateTaskKeeps,
       SaveEnvelopeKeeps, SaveRuntimeKeeps, GiveBackKeeps, UnlinkBackKeeps DEF Run
  <1>3. ASSUME NEW p \in Procs, Command(p)
        PROVE  WorkInvariant'
    BY <1>3, StepKeeps, LoadKeeps, SaveKeeps, StartRejectKeeps, StartResumeKeeps,
       StartDiscardKeeps, RemoveWorktreeKeeps, UnlinkRecordKeeps, MarkDiscardedKeeps
       DEF Command
  <1> QED
    BY <1>1, <1>2, <1>3, KillKeeps DEF WorkNext

LEMMA WorkAlways ==
  WorkSpec => []WorkInvariant
  BY WorkInitially, WorkInductive, PTL DEF WorkSpec

-----------------------------------------------------------------------------
(* What it is worth.                                                       *)

(* Whatever stopped run, once it says so there is no worktree, and no      *)
(* record of one: of create_task_worktree's undoing and of _handle_run's   *)
(* giving back.                                                            *)
THEOREM RefusalLeavesNothing ==
  WorkSpec => []RefusedLeavesNothing
  <1>1. WorkInvariant => RefusedLeavesNothing
    BY DEF WorkInvariant, Refused, RefusedLeavesNothing
  <1> QED
    BY <1>1, WorkAlways, PTL

(* While nothing broke off between two pieces, the worktree and its        *)
(* ownership record stand and fall together.                               *)
THEOREM RecordAndWorktreeAgree ==
  WorkSpec => []RecordMatchesWorktree
  <1>1. WorkInvariant => RecordMatchesWorktree
    BY DEF WorkInvariant
  <1> QED
    BY <1>1, WorkAlways, PTL

(* Whoever works on the task finds its row and its envelope snapshot,      *)
(* which were committed one by one.                                        *)
THEOREM WorkIsPrepared ==
  WorkSpec => []LoopHasTask
  <1>1. WorkInvariant => LoopHasTask
    BY DEF WorkInvariant, BeforeRow, Prepared, At, Nobody, LoopHasTask, NoRow
  <1> QED
    BY <1>1, WorkAlways, PTL

(* Observations are lost only where _append_observation ran twice at the   *)
(* same time.                                                              *)
THEOREM OnlyOverlapsLose ==
  WorkSpec => []LossNeedsOverlap
  <1>1. WorkInvariant => LossNeedsOverlap
    BY DEF WorkInvariant, Observed, LossNeedsOverlap
  <1> QED
    BY <1>1, WorkAlways, PTL

(* A task that lost its worktree says so, but for the four ways the        *)
(* property names.                                                         *)
THEOREM GoneSaysDiscarded ==
  WorkSpec => []GoneIsDiscarded
  <1>1. WorkInvariant => GoneIsDiscarded
    BY DEF WorkInvariant
  <1> QED
    BY <1>1, WorkAlways, PTL

================================================================================
