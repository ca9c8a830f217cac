--------------------------- MODULE StoreSafetyProofs ---------------------------
(***************************************************************************)
(* The safety properties of GuardedStore, proved for every set of tasks,   *)
(* rows and clients: approvals, permits, windows and the budget, and how   *)
(* often a tool is let through - once per window, and once more for every  *)
(* recovery claim, of which an attempt has one.                            *)
(***************************************************************************)
EXTENDS GuardedStoreProofs

-----------------------------------------------------------------------------
(* Nothing is bound to a revision the task has not reached, and an answer  *)
(* is recorded exactly when the pending action is consumed.                *)

PendingsBounded ==
  \A q \in PendingIds, t \in Tasks :
    pendings[q].task = t => pendings[q].state_revision <= tasks[t].state_revision

PermitsBounded ==
  \A p \in PermitIds, t \in Tasks :
    permits[p].task = t => permits[p].state_revision <= tasks[t].state_revision

WindowsBounded ==
  \A w \in WindowIds, t \in Tasks :
    windows[w].task = t => windows[w].opened_revision <= tasks[t].state_revision

AnsweredIsConsumed ==
  \A q \in PendingIds : verdicts[q] # None <=> pendings[q].consumed

Bounds == PendingsBounded /\ PermitsBounded /\ WindowsBounded /\ AnsweredIsConsumed

(* An empty store is bound to nothing.                                     *)
LEMMA InitBounds == Init => Bounds
  <1> SUFFICES ASSUME Init PROVE Bounds
    OBVIOUS
  <1>1. PendingsBounded /\ AnsweredIsConsumed
    BY StoreAssumption DEF Init, EmptyTables, NoPending, PendingsBounded, AnsweredIsConsumed
  <1>2. PermitsBounded
    BY StoreAssumption DEF Init, EmptyTables, NoPermit, PermitsBounded
  <1>3. WindowsBounded
    BY StoreAssumption DEF Init, EmptyTables, NoWindow, WindowsBounded
  <1> QED
    BY <1>1, <1>2, <1>3 DEF Bounds

(* A revision never goes back.                                             *)
LEMMA RevisionGrows ==
  ASSUME TypeOK, Next, NEW t \in Tasks
  PROVE  /\ tasks[t].state_revision \in Nat
         /\ tasks'[t].state_revision \in Nat
         /\ tasks[t].state_revision <= tasks'[t].state_revision
  <1>1. tasks[t].state_revision \in Nat
    BY DEF TypeOK, TaskRows
  <1> QED
    BY <1>1, TaskStep DEF TaskVersioned

(* A row is inserted at the revision its transaction writes, and revisions *)
(* only grow.                                                              *)
LEMMA StepBounds ==
  ASSUME TypeOK, TypeOK', Bounds, Next
  PROVE  Bounds'
  <1>1. ASSUME NEW q \in PendingIds, NEW t \in Tasks, pendings'[q].task = t
        PROVE  pendings'[q].state_revision <= tasks'[t].state_revision
    <2>1. CASE PendingKept(q)
      <3>1. pendings[q] \in PendingRows
        BY <1>1, <2>1, InsertedRows DEF PendingKept
      <3> QED
        BY <1>1, <2>1, <3>1, RevisionGrows
        DEF PendingKept, PendingRows, Bounds, PendingsBounded
    <2>2. CASE PendingAsked(q)
      BY <1>1, <2>2, RevisionGrows DEF PendingAsked
    <2>3. CASE PendingAnswered(q)
      <3>1. pendings[q] \in PendingRows
        BY <2>3, InsertedRows DEF PendingAnswered
      <3>2. /\ pendings'[q].task = pendings[q].task
            /\ pendings'[q].state_revision = pendings[q].state_revision
        BY <2>3, <3>1 DEF PendingAnswered, PendingRows
      <3> QED
        BY <1>1, <3>1, <3>2, RevisionGrows DEF PendingRows, Bounds, PendingsBounded
    <2> QED
      BY <2>1, <2>2, <2>3, PendingStep DEF PendingStepped
  <1>2. ASSUME NEW q \in PendingIds
        PROVE  verdicts'[q] # None <=> pendings'[q].consumed
    <2>1. CASE PendingKept(q) \/ PendingAsked(q)
      BY <2>1 DEF PendingKept, PendingAsked, NoPending, Bounds, AnsweredIsConsumed
    <2>2. CASE PendingAnswered(q)
      <3>1. pendings[q] \in PendingRows
        BY <2>2, InsertedRows DEF PendingAnswered
      <3> QED
        BY <2>2, <3>1, StoreAssumption DEF PendingAnswered, PendingRows
    <2> QED
      BY <2>1, <2>2, PendingStep DEF PendingStepped
  <1>3. ASSUME NEW p \in PermitIds, NEW t \in Tasks, permits'[p].task = t
        PROVE  permits'[p].state_revision <= tasks'[t].state_revision
    <2>0. permits \in [PermitIds -> PermitRows \cup {NoPermit}]
      BY DEF TypeOK
    <2>1. CASE permits'[p] = permits[p]
      <3>1. permits[p] \in PermitRows
        BY <1>3, <2>1, InsertedRows
      <3> QED
        BY <1>3, <2>1, <3>1, RevisionGrows DEF PermitRows, Bounds, PermitsBounded
    <2>2. ASSUME NEW u \in Tasks, PermitMinted(u, p)
          PROVE  permits'[p].state_revision <= tasks'[t].state_revision
      BY <1>3, <2>2, RevisionGrows DEF PermitMinted
    <2>3. ASSUME NEW u \in Tasks, PermitSpent(u, p)
          PROVE  permits'[p].state_revision <= tasks'[t].state_revision
      <3>1. /\ permits'[p].task = permits[p].task
            /\ permits'[p].state_revision = permits[p].state_revision
        BY <2>0, <2>3 DEF PermitSpent, PermitRows, NoPermit
      <3> QED
        BY <1>3, <2>3, <3>1, RevisionGrows DEF PermitSpent
    <2>4. permits'[p] # permits[p] => \E u \in Tasks : PermitMinted(u, p) \/ PermitSpent(u, p)
      BY <2>0, PermitsStep DEF PermitsStepped, PermitMinted, PermitSpent
    <2> QED
      BY <2>1, <2>2, <2>3, <2>4
  <1>4. ASSUME NEW w \in WindowIds, NEW t \in Tasks, windows'[w].task = t
        PROVE  windows'[w].opened_revision <= tasks'[t].state_revision
    <2>1. CASE SameWindow(w)
      <3>1. windows[w] \in WindowRows
        BY <1>4, <2>1, InsertedRows DEF SameWindow
      <3> QED
        BY <1>4, <2>1, <3>1, RevisionGrows DEF SameWindow, WindowRows, Bounds, WindowsBounded
    <2>2. ASSUME NEW u \in Tasks, WindowOpened(u, w)
          PROVE  windows'[w].opened_revision <= tasks'[t].state_revision
      BY <1>4, <2>2, RevisionGrows DEF WindowOpened
    <2> QED
      BY <2>1, <2>2, WindowStep DEF WindowStepped, WindowKept, WindowClosed
  <1> QED
    BY <1>1, <1>2, <1>3, <1>4
    DEF Bounds, PendingsBounded, PermitsBounded, WindowsBounded, AnsweredIsConsumed
-----------------------------------------------------------------------------
(* The user's question.                                                    *)

(* An empty store has no question and no permit.                           *)
LEMMA InitPending == Init => LivePendingIsAwaited /\ ApprovalBuysOnePermit
  BY StoreAssumption
  DEF Init, EmptyTables, NoPending, NoPermit, LivePendingIsAwaited, ApprovalBuysOnePermit

(* A step keeps LivePendingIsAwaited: an old question stays old, a new one *)
(* waits, and a reject moves the revision on.                              *)
LEMMA StepPending ==
  ASSUME TypeOK, TypeOK', Bounds, LivePendingIsAwaited, Next
  PROVE  LivePendingIsAwaited'
  <1> SUFFICES ASSUME NEW q \in PendingIds, NEW t \in Tasks,
                      pendings'[q].task = t,
                      pendings'[q].state_revision = tasks'[t].state_revision
               PROVE  /\ tasks'[t].run_state = "awaiting_approval"
                      /\ verdicts'[q] # "rejected"
    BY DEF LivePendingIsAwaited
  <1>1. CASE PendingKept(q) \/ PendingAnswered(q)
    <2>1. /\ pendings[q].task = t
          /\ pendings[q].state_revision = tasks'[t].state_revision
      <3>1. CASE PendingKept(q)
        BY <3>1 DEF PendingKept
      <3>2. CASE PendingAnswered(q)
        BY <3>2, InsertedRows DEF PendingAnswered, PendingRows
      <3> QED
        BY <1>1, <3>1, <3>2
    <2>2. tasks[t].state_revision = tasks'[t].state_revision
      BY <2>1, RevisionGrows DEF Bounds, PendingsBounded
    <2>3. tasks'[t] = tasks[t]
      BY <2>2, TaskStep, RevisionGrows DEF TaskVersioned
    <2>4. tasks[t].run_state = "awaiting_approval" /\ verdicts[q] # "rejected"
      BY <2>1, <2>2 DEF LivePendingIsAwaited
    <2>5. verdicts'[q] # "rejected"
      BY <1>1, <2>1, <2>2, <2>4, RevisionGrows DEF PendingKept, PendingAnswered
    <2> QED
      BY <2>3, <2>4, <2>5
  <1>2. CASE PendingAsked(q)
    <2>1. verdicts'[q] = None
      BY <1>2 DEF PendingAsked, NoPending, Bounds, AnsweredIsConsumed
    <2> QED
      BY <1>2, <2>1, StoreAssumption DEF PendingAsked, Answers
  <1> QED
    BY <1>1, <1>2, PendingStep DEF PendingStepped

(* An answered pending action stays as it is.                              *)
LEMMA AnsweredStays ==
  ASSUME TypeOK, Bounds, Next, NEW q \in PendingIds, verdicts[q] # None
  PROVE  verdicts'[q] = verdicts[q] /\ pendings'[q] = pendings[q]
  <1>1. pendings[q].consumed
    BY DEF Bounds, AnsweredIsConsumed
  <1>2. ~PendingAsked(q) /\ ~PendingAnswered(q)
    BY <1>1 DEF PendingAsked, PendingAnswered, NoPending
  <1> QED
    BY <1>2, PendingStep DEF PendingStepped, PendingKept

(* A step keeps ApprovalBuysOnePermit: only create_permit names a question,*)
(* and it was answered, live and unspent, hence approved.                  *)
LEMMA StepApproval ==
  ASSUME TypeOK, TypeOK', Bounds, LivePendingIsAwaited, ApprovalBuysOnePermit, Next
  PROVE  ApprovalBuysOnePermit'
  <1>0. /\ permits \in [PermitIds -> PermitRows \cup {NoPermit}]
        /\ verdicts \in [PendingIds -> Answers \cup {None}]
    BY DEF TypeOK
  <1>1. \A p \in PermitIds : permits[p].pending # None => permits[p].pending \in PendingIds
    BY <1>0 DEF PermitRows, NoPermit
  <1>2. CASE \A p \in PermitIds : /\ permits'[p].pending = permits[p].pending
                                  /\ permits'[p].task = permits[p].task
                                  /\ permits'[p].fingerprint = permits[p].fingerprint
    <2> SUFFICES ASSUME NEW p \in PermitIds, permits'[p].pending # None
                 PROVE  /\ verdicts'[permits'[p].pending] = "approved"
                        /\ pendings'[permits'[p].pending].task = permits'[p].task
                        /\ pendings'[permits'[p].pending].fingerprint = permits'[p].fingerprint
                        /\ \A r \in PermitIds : permits'[r].pending = permits'[p].pending => r = p
      BY DEF ApprovalBuysOnePermit
    <2>1. permits[p].pending \in PendingIds /\ verdicts[permits[p].pending] = "approved"
      BY <1>1, <1>2 DEF ApprovalBuysOnePermit
    <2>2. verdicts[permits[p].pending] # None
      BY <2>1, StoreAssumption DEF Answers
    <2> QED
      BY <1>2, <2>1, <2>2, AnsweredStays DEF ApprovalBuysOnePermit
  <1>3. ASSUME NEW t \in Tasks, NEW m \in PermitIds, PermitMinted(t, m)
        PROVE  ApprovalBuysOnePermit'
    <2> SUFFICES ASSUME NEW p \in PermitIds, permits'[p].pending # None
                 PROVE  /\ verdicts'[permits'[p].pending] = "approved"
                        /\ pendings'[permits'[p].pending].task = permits'[p].task
                        /\ pendings'[permits'[p].pending].fingerprint = permits'[p].fingerprint
                        /\ \A r \in PermitIds : permits'[r].pending = permits'[p].pending => r = p
      BY DEF ApprovalBuysOnePermit
    <2>0. /\ pendings' = pendings /\ verdicts' = verdicts
          /\ \A r \in PermitIds : r # m => permits'[r] = permits[r]
      BY <1>3 DEF PermitMinted
    <2>1. CASE p = m
      <3> DEFINE q == permits'[m].pending
      <3>1. q \in PendingIds
        BY <2>1 DEF TypeOK, PermitRows, NoPermit
      <3>2. PendingBacks(t, permits'[m].fingerprint, tasks[t].state_revision, q) /\ PendingUnspent(q)
        BY <1>3, <2>1 DEF PermitMinted
      <3>3. verdicts[q] \in Answers
        BY <1>0, <3>1, <3>2 DEF PendingBacks, Bounds, AnsweredIsConsumed
      <3>4. verdicts[q] = "approved"
        BY <3>1, <3>2, <3>3 DEF PendingBacks, LivePendingIsAwaited, Answers
      <3>5. \A r \in PermitIds : permits'[r].pending = q => r = m
        BY <2>0, <3>2 DEF PendingUnspent
      <3> QED
        BY <1>3, <2>0, <2>1, <3>2, <3>4, <3>5 DEF PendingBacks, PermitMinted
    <2>2. CASE p # m
      <3>1. \A r \in PermitIds : permits[r].pending = permits[p].pending => r = p
        BY <2>0, <2>2 DEF ApprovalBuysOnePermit
      <3>2. permits'[m].pending # permits[p].pending
        BY <1>3, <2>0, <2>2 DEF PermitMinted, PendingUnspent
      <3> QED
        BY <2>0, <2>2, <3>1, <3>2 DEF ApprovalBuysOnePermit
    <2> QED
      BY <2>1, <2>2
  <1>4. ASSUME NEW t \in Tasks, NEW s \in PermitIds, PermitSpent(t, s)
        PROVE  ApprovalBuysOnePermit'
    BY <1>0, <1>2, <1>4 DEF PermitSpent, PermitRows, NoPermit
  <1> QED
    BY <1>2, <1>3, <1>4, PermitsStep DEF PermitsStepped

(* The inductive invariant behind the approval properties: what a question *)
(* or a permit is bound to lies in the past, so a fresh revision makes old *)
(* rows dead, and a consumed question is an answered one.                  *)
ApprovalInvariant ==
  TypeOK /\ Bounds /\ LivePendingIsAwaited /\ ApprovalBuysOnePermit

(* The approval invariant survives every step.                             *)
LEMMA ApprovalInductive ==
  /\ Init => ApprovalInvariant
  /\ ApprovalInvariant /\ [Next]_vars => ApprovalInvariant'
  <1>1. Init => ApprovalInvariant
    BY InitTypeOK, InitBounds, InitPending DEF ApprovalInvariant
  <1>2. ASSUME ApprovalInvariant, Next PROVE ApprovalInvariant'
    <2>1. TypeOK'
      BY <1>2, NextTypeOK DEF ApprovalInvariant
    <2> QED
      BY <1>2, <2>1, StepBounds, StepPending, StepApproval DEF ApprovalInvariant
  <1>3. ASSUME ApprovalInvariant, UNCHANGED vars PROVE ApprovalInvariant'
    BY <1>3
    DEF vars, ApprovalInvariant, TypeOK, Bounds, PendingsBounded, PermitsBounded,
        WindowsBounded, AnsweredIsConsumed, LivePendingIsAwaited, ApprovalBuysOnePermit
  <1> QED
    BY <1>1, <1>2, <1>3

(* The approval invariant holds in every reachable state.                  *)
LEMMA ApprovalAlways == Spec => []ApprovalInvariant
  BY ApprovalInductive, PTL DEF Spec

(* A pending action of the task's present revision belongs to a waiting    *)
(* task and was not rejected: an approval dies with any other write.       *)
THEOREM PendingIsAwaited == Spec => []LivePendingIsAwaited
  <1>1. ApprovalInvariant => LivePendingIsAwaited
    BY DEF ApprovalInvariant
  <1> QED
    BY <1>1, ApprovalAlways, PTL

(* However many processes resume, a permit that names a pending action was *)
(* minted for what the user approved, and each approval backs one permit.  *)
THEOREM OnePermitPerApproval == Spec => []ApprovalBuysOnePermit
  <1>1. ApprovalInvariant => ApprovalBuysOnePermit
    BY DEF ApprovalInvariant
  <1> QED
    BY <1>1, ApprovalAlways, PTL

-----------------------------------------------------------------------------
(* Permits and windows.                                                    *)

(* A step changes a permit row only by minting or spending it.             *)
LEMMA PermitRowStep ==
  ASSUME TypeOK, Next, NEW p \in PermitIds
  PROVE  \/ permits'[p] = permits[p]
         \/ \E t \in Tasks : PermitMinted(t, p) \/ PermitSpent(t, p)
  BY PermitsStep DEF PermitsStepped, PermitMinted, PermitSpent, TypeOK

(* A permit of an older revision is out of reach of the only write to an   *)
(* existing permit, and a consumed question of any answer.                 *)
LEMMA OvertakenStep ==
  ASSUME TypeOK, Bounds, Next
  PROVE  /\ \A p \in PermitIds, t \in Tasks :
              /\ permits[p].task = t
              /\ permits[p].state_revision < tasks[t].state_revision
              => permits'[p] = permits[p]
         /\ \A q \in PendingIds : verdicts[q] # None => verdicts'[q] = verdicts[q]
  <1>1. ASSUME NEW p \in PermitIds, NEW t \in Tasks, permits[p].task = t,
               permits[p].state_revision < tasks[t].state_revision
        PROVE  permits'[p] = permits[p]
    <2>1. permits[p] # NoPermit
      BY <1>1, StoreAssumption DEF NoPermit
    <2>2. \A u \in Tasks : ~PermitMinted(u, p)
      BY <2>1 DEF PermitMinted
    <2>3. \A u \in Tasks : ~PermitSpent(u, p)
      BY <1>1, RevisionGrows DEF PermitSpent
    <2> QED
      BY <2>2, <2>3, PermitRowStep
  <1> QED
    BY <1>1, AnsweredStays

(* A permit overtaken by any write to its task is never consumed after it, *)
(* and an answer of the user is never changed.                             *)
THEOREM OvertakenStaysDead == Spec => OvertakenIsDead
  <1>1. ApprovalInvariant /\ [Next]_vars =>
          [ /\ \A p \in PermitIds, t \in Tasks :
                 /\ permits[p].task = t
                 /\ permits[p].state_revision < tasks[t].state_revision
                 => permits'[p] = permits[p]
            /\ \A q \in PendingIds : verdicts[q] # None => verdicts'[q] = verdicts[q]
          ]_vars
    BY OvertakenStep DEF ApprovalInvariant
  <1> QED
    BY <1>1, ApprovalAlways, PTL DEF Spec, OvertakenIsDead

(* An empty store has no window to violate anything.                       *)
LEMMA InitWindows == Init => OneActiveWindow /\ LivePermitIsUsable /\ LiveWindowIsConsistent
  BY StoreAssumption
  DEF Init, EmptyTables, NoWindow, NoPermit, WindowStatuses, IsActive, OneActiveWindow,
      LivePermitIsUsable, LiveWindowIsConsistent

(* A window active after a step was active before it, or was just opened   *)
(* on a task that had none.                                                *)
LEMMA ActiveStep ==
  ASSUME TypeOK, Next, NEW w \in WindowIds, NEW t \in Tasks, IsActive(w, t)'
  PROVE  IsActive(w, t) \/ WindowOpened(t, w)
  BY WindowStep
  DEF WindowStepped, WindowKept, WindowClosed, WindowOpened, SameWindow, IsActive

(* A step keeps one active window: a window is opened only where none is   *)
(* active, and no status becomes active again.                             *)
LEMMA StepOneActive ==
  ASSUME TypeOK, OneActiveWindow, Next
  PROVE  OneActiveWindow'
  <1> SUFFICES ASSUME NEW t \in Tasks, NEW v \in WindowIds, NEW w \in WindowIds,
                      IsActive(v, t)', IsActive(w, t)', v # w
               PROVE  FALSE
    BY DEF OneActiveWindow
  <1>1. ASSUME NEW x \in WindowIds, NEW y \in WindowIds, x # y, IsActive(x, t)', WindowOpened(t, y)
        PROVE  FALSE
    <2>1. IsActive(x, t)
      BY <1>1 DEF WindowOpened, IsActive
    <2> QED
      BY <1>1, <2>1 DEF WindowOpened, NoActiveWindow
  <1> QED
    BY <1>1, ActiveStep DEF OneActiveWindow

(* A step keeps live permits usable: whatever opens a window or changes a  *)
(* state overtakes the permit.                                             *)
LEMMA StepLivePermit ==
  ASSUME TypeOK, TypeOK', Bounds, LivePermitIsUsable, Next
  PROVE  LivePermitIsUsable'
  <1> SUFFICES ASSUME NEW p \in PermitIds, NEW t \in Tasks, permits'[p].task = t,
                      ~permits'[p].consumed,
                      permits'[p].state_revision = tasks'[t].state_revision
               PROVE  /\ NoActiveWindow(t)'
                      /\ tasks'[t].run_state \in {"running", "verifying", "awaiting_approval"}
    BY DEF LivePermitIsUsable
  <1>1. CASE permits'[p] = permits[p]
    <2>1. tasks'[t].state_revision = tasks[t].state_revision
      BY <1>1, RevisionGrows DEF Bounds, PermitsBounded
    <2>2. tasks'[t] = tasks[t]
      BY <2>1, TaskStep, RevisionGrows DEF TaskVersioned
    <2>3. /\ NoActiveWindow(t)
          /\ tasks[t].run_state \in {"running", "verifying", "awaiting_approval"}
      BY <1>1, <2>1 DEF LivePermitIsUsable
    <2>4. \A w \in WindowIds : ~WindowOpened(t, w)
      BY <2>1, RevisionGrows DEF WindowOpened
    <2> QED
      BY <2>2, <2>3, <2>4, ActiveStep DEF NoActiveWindow
  <1>2. ASSUME NEW u \in Tasks, PermitMinted(u, p)
        PROVE  /\ NoActiveWindow(t)'
               /\ tasks'[t].run_state \in {"running", "verifying", "awaiting_approval"}
    <2>1. t = u /\ windows' = windows
      BY <1>2 DEF PermitMinted
    <2>2. tasks'[t].run_state = tasks[t].run_state
      BY <1>2, <2>1 DEF PermitMinted, Debited, TypeOK, TaskRows
    <2> QED
      BY <1>2, <2>1, <2>2 DEF PermitMinted, MayPermit, NoActiveWindow, IsActive
  <1>3. ASSUME NEW u \in Tasks, PermitSpent(u, p)
        PROVE  FALSE
    BY <1>3 DEF PermitSpent, TypeOK, PermitRows, NoPermit
  <1> QED
    BY <1>1, <1>2, <1>3, PermitRowStep

(* A tool's window names a permit and a task.                              *)
PermittedWindows ==
  \A w \in WindowIds : windows[w].kind \in ToolKinds =>
    windows[w].permit \in PermitIds /\ windows[w].task \in Tasks

(* A window that is no tool's names no permit.                             *)
UnpermittedWindows ==
  \A w \in WindowIds : windows[w].kind \notin ToolKinds => windows[w].permit = None

(* Only a tool's window is executing an action.                            *)
ExecutingIsTool ==
  \A w \in WindowIds : windows[w].status = "executing_action" => windows[w].kind \in ToolKinds

(* The inductive invariant behind the window properties: a window is one   *)
(* consumed permit's, and the present revision tells what is live.         *)
WindowInvariant ==
  /\ ApprovalInvariant
  /\ PermittedWindows /\ UnpermittedWindows /\ ExecutingIsTool
  /\ OneActiveWindow /\ LivePermitIsUsable
  /\ LiveWindowIsConsistent /\ PermitBuysOneWindow

(* An empty store has no window without its permit.                        *)
LEMMA InitPermitted == Init => PermittedWindows /\ UnpermittedWindows /\ ExecutingIsTool /\ PermitBuysOneWindow
  BY StoreAssumption
  DEF Init, EmptyTables, NoWindow, WindowStatuses, PermittedWindows, UnpermittedWindows, ExecutingIsTool,
      PermitBuysOneWindow

(* The row-step lemmas apply to every step from a state of the window      *)
(* invariant.                                                              *)
LEMMA WindowRowStep ==
  ASSUME TypeOK, Next, NEW w \in WindowIds
  PROVE  \/ SameWindow(w) /\ (windows'[w].status = "executing_action"
                              => windows[w].status = "executing_action")
         \/ \E t \in Tasks : WindowOpened(t, w)
  BY WindowStep DEF WindowStepped, WindowKept, WindowClosed

(* A step keeps windows on consumed permits: a window is opened by spending*)
(* one, and a spent permit never changes.                                  *)
LEMMA StepPermitted ==
  ASSUME TypeOK, PermittedWindows, UnpermittedWindows, ExecutingIsTool, Next
  PROVE  PermittedWindows' /\ UnpermittedWindows' /\ ExecutingIsTool'
  <1> DEFINE Fine(w) ==
        /\ windows[w].kind \in ToolKinds =>
             windows[w].permit \in PermitIds /\ windows[w].task \in Tasks
        /\ windows[w].kind \notin ToolKinds => windows[w].permit = None
        /\ windows[w].status = "executing_action" => windows[w].kind \in ToolKinds
  <1>1. ASSUME NEW w \in WindowIds
        PROVE  Fine(w)'
    <2>1. CASE SameWindow(w) /\ (windows'[w].status = "executing_action"
                                 => windows[w].status = "executing_action")
      BY <2>1 DEF SameWindow, PermittedWindows, UnpermittedWindows, ExecutingIsTool
    <2>2. ASSUME NEW t \in Tasks, WindowOpened(t, w)
          PROVE  Fine(w)'
      BY <2>2 DEF WindowOpened, ToolKinds
    <2> QED
      BY <2>1, <2>2, WindowRowStep
  <1> QED
    BY <1>1 DEF PermittedWindows, UnpermittedWindows, ExecutingIsTool

(* What a consumed permit says never changes again.                        *)
LEMMA ConsumedStays ==
  ASSUME TypeOK, Next, NEW p \in PermitIds, permits[p].consumed
  PROVE  permits'[p] = permits[p]
  <1>1. \A t \in Tasks : ~PermitMinted(t, p) /\ ~PermitSpent(t, p)
    BY DEF PermitMinted, PermitSpent, NoPermit
  <1> QED
    BY <1>1, PermitRowStep

(* A step keeps windows and permits one to one: the permit a new window    *)
(* spends was unconsumed, so no other window names it.                     *)
LEMMA StepBoughtWindow ==
  ASSUME TypeOK, PermittedWindows, UnpermittedWindows, PermitBuysOneWindow, Next
  PROVE  PermitBuysOneWindow'
  <1> DEFINE Bought(w) ==
        /\ permits[windows[w].permit].task = windows[w].task
        /\ permits[windows[w].permit].consumed
        /\ windows[w].opened_revision = permits[windows[w].permit].state_revision + 1
      Alone(w) == \A v \in WindowIds : windows[v].permit = windows[w].permit => v = w
  <1>1. \A w \in WindowIds : windows[w].kind \in ToolKinds =>
          Bought(w) /\ Alone(w) /\ windows[w].permit \in PermitIds
    BY DEF PermitBuysOneWindow, PermittedWindows
  <1>2. SUFFICES \A w \in WindowIds : windows'[w].kind \in ToolKinds => Bought(w)' /\ Alone(w)'
    BY DEF PermitBuysOneWindow
  <1>3. ASSUME NEW w \in WindowIds, windows[w].kind \in ToolKinds, SameWindow(w)
        PROVE  Bought(w)'
    <2>1. permits'[windows[w].permit] = permits[windows[w].permit]
      BY <1>1, <1>3, ConsumedStays
    <2> QED
      BY <1>1, <1>3, <2>1 DEF SameWindow
  <1>4. CASE \A w \in WindowIds : SameWindow(w)
    BY <1>1, <1>3, <1>4 DEF SameWindow
  <1>5. ASSUME NEW t \in Tasks, NEW n \in WindowIds, WindowOpened(t, n)
        PROVE  \A w \in WindowIds : windows'[w].kind \in ToolKinds => Bought(w)' /\ Alone(w)'
    <2>1. \A v \in WindowIds : v # n => windows'[v] = windows[v] /\ SameWindow(v)
      BY <1>5 DEF WindowOpened, SameWindow
    <2>2. CASE windows'[n].kind = "apply_back" /\ windows'[n].permit = None
      <3>1. windows'[n].kind \notin ToolKinds
        BY <2>2 DEF ToolKinds
      <3> QED
        BY <1>1, <1>3, <2>1, <2>2, <3>1, StoreAssumption
    <2>3. ASSUME NEW p \in PermitIds,
                 windows'[n].permit = p,
                 PermitFits(t, p, tasks[t].state_revision),
                 permits' = [permits EXCEPT ![p].consumed = TRUE]
          PROVE  \A w \in WindowIds : windows'[w].kind \in ToolKinds => Bought(w)' /\ Alone(w)'
      <3>1. ~permits[p].consumed /\ permits[p].task = t
            /\ permits[p].state_revision = tasks[t].state_revision
        BY <2>3 DEF PermitFits
      <3>2. /\ permits'[p].consumed /\ permits'[p].task = t
            /\ permits'[p].state_revision = tasks[t].state_revision
        BY <2>3, <3>1 DEF TypeOK, PermitRows, NoPermit
      <3>3. Bought(n)'
        BY <1>5, <2>3, <3>2 DEF WindowOpened
      <3>4. \A v \in WindowIds : v # n => windows'[v].permit # p
        BY <1>1, <2>1, <3>1, StoreAssumption DEF UnpermittedWindows
      <3> QED
        BY <1>1, <1>3, <2>1, <2>3, <3>3, <3>4
    <2> QED
      BY <1>5, <2>2, <2>3 DEF WindowOpened
  <1> QED
    BY <1>4, <1>5, WindowRowStep

(* A step keeps live windows consistent: an opened one is consistent with  *)
(* the row written with it, any other write overtakes it.                  *)
LEMMA StepLiveWindow ==
  ASSUME TypeOK, TypeOK', Bounds, PermittedWindows, UnpermittedWindows, ExecutingIsTool,
         PermitBuysOneWindow, LivePermitIsUsable, LiveWindowIsConsistent, Next
  PROVE  LiveWindowIsConsistent'
  <1> SUFFICES ASSUME NEW w \in WindowIds, NEW t \in Tasks, windows'[w].task = t,
                      windows'[w].status = "executing_action",
                      windows'[w].opened_revision = tasks'[t].state_revision
               PROVE  /\ LivePair(windows'[w].source_run_state, tasks'[t].run_state)
                      /\ permits'[windows'[w].permit].envelope_hash = tasks'[t].envelope_hash
    BY DEF LiveWindowIsConsistent, LivePair
  <1>1. CASE SameWindow(w) /\ windows[w].status = "executing_action"
    <2>1. tasks'[t].state_revision = tasks[t].state_revision
      BY <1>1, RevisionGrows DEF SameWindow, Bounds, WindowsBounded
    <2>2. tasks'[t] = tasks[t]
      BY <2>1, TaskStep, RevisionGrows DEF TaskVersioned
    <2>3. /\ LivePair(windows[w].source_run_state, tasks[t].run_state)
          /\ permits[windows[w].permit].envelope_hash = tasks[t].envelope_hash
      BY <1>1, <2>1 DEF SameWindow, LiveWindowIsConsistent
    <2>4. windows[w].permit \in PermitIds /\ permits[windows[w].permit].consumed
      BY <1>1 DEF ExecutingIsTool, PermittedWindows, PermitBuysOneWindow
    <2>5. permits'[windows[w].permit] = permits[windows[w].permit]
      BY <2>4, ConsumedStays
    <2> QED
      BY <1>1, <2>2, <2>3, <2>5 DEF SameWindow
  <1>2. ASSUME NEW u \in Tasks, WindowOpened(u, w)
        PROVE  /\ LivePair(windows'[w].source_run_state, tasks'[t].run_state)
               /\ permits'[windows'[w].permit].envelope_hash = tasks'[t].envelope_hash
    <2>1. u = t
      BY <1>2 DEF WindowOpened
    <2>2. PICK p \in PermitIds :
            /\ windows'[w].permit = p
            /\ windows'[w].source_run_state = tasks[t].run_state
            /\ PermitFits(t, p, tasks[t].state_revision)
            /\ permits' = [permits EXCEPT ![p].consumed = TRUE]
            /\ tasks' = Moved(t, WindowState(tasks[t].run_state))
      BY <1>2, <2>1 DEF WindowOpened
    <2>3. tasks[t].run_state \in {"running", "verifying", "awaiting_approval"}
      BY <2>2 DEF PermitFits, LivePermitIsUsable
    <2>4. /\ tasks'[t].run_state = WindowState(tasks[t].run_state)
          /\ tasks'[t].envelope_hash = tasks[t].envelope_hash
      BY <2>2 DEF Moved, TypeOK, TaskRows
    <2>5. permits'[p].envelope_hash = permits[p].envelope_hash
      BY <2>2 DEF TypeOK, PermitRows, NoPermit
    <2>6. LivePair(tasks[t].run_state, WindowState(tasks[t].run_state))
      BY <2>3 DEF LivePair, WindowState
    <2> QED
      BY <2>2, <2>4, <2>5, <2>6 DEF PermitFits
  <1> QED
    BY <1>1, <1>2, WindowRowStep

(* The window invariant survives every step.                               *)
LEMMA WindowInductive ==
  /\ Init => WindowInvariant
  /\ WindowInvariant /\ [Next]_vars => WindowInvariant'
  <1>1. Init => WindowInvariant
    BY ApprovalInductive, InitWindows, InitPermitted DEF WindowInvariant
  <1>2. ASSUME WindowInvariant, Next PROVE WindowInvariant'
    <2>1. ApprovalInvariant'
      BY <1>2, ApprovalInductive DEF WindowInvariant
    <2>2. TypeOK /\ TypeOK' /\ Bounds
      BY <1>2, <2>1 DEF WindowInvariant, ApprovalInvariant
    <2> QED
      BY <1>2, <2>1, <2>2, StepPermitted, StepOneActive, StepLivePermit, StepBoughtWindow,
         StepLiveWindow
      DEF WindowInvariant
  <1>3. ASSUME WindowInvariant, UNCHANGED vars PROVE WindowInvariant'
    <2>1. ApprovalInvariant'
      BY <1>3, ApprovalInductive DEF WindowInvariant
    <2>2. PermittedWindows' /\ UnpermittedWindows' /\ ExecutingIsTool'
      BY <1>3 DEF vars, WindowInvariant, PermittedWindows, UnpermittedWindows, ExecutingIsTool
    <2>3. OneActiveWindow' /\ LivePermitIsUsable'
      <3>1. \A w \in WindowIds, t \in Tasks : IsActive(w, t)' <=> IsActive(w, t)
        BY <1>3 DEF vars, IsActive
      <3>2. \A t \in Tasks : NoActiveWindow(t)' <=> NoActiveWindow(t)
        BY <3>1 DEF NoActiveWindow
      <3> QED
        BY <1>3, <3>1, <3>2 DEF vars, WindowInvariant, OneActiveWindow, LivePermitIsUsable
    <2>4. PermitBuysOneWindow'
      BY <1>3 DEF vars, WindowInvariant, PermitBuysOneWindow
    <2>5. LiveWindowIsConsistent'
      BY <1>3 DEF vars, WindowInvariant, LiveWindowIsConsistent, LivePair
    <2> QED
      BY <2>1, <2>2, <2>3, <2>4, <2>5 DEF WindowInvariant
  <1> QED
    BY <1>1, <1>2, <1>3

(* The window invariant holds in every reachable state.                    *)
LEMMA WindowAlways == Spec => []WindowInvariant
  BY WindowInductive, PTL DEF Spec

(* No two processes ever have a window open on the same task.              *)
THEOREM WindowsAreExclusive == Spec => []OneActiveWindow
  <1>1. WindowInvariant => OneActiveWindow
    BY DEF WindowInvariant
  <1> QED
    BY <1>1, WindowAlways, PTL

(* A tool's window was opened with a consumed permit of its task, at the   *)
(* revision that follows the permit's, and no other window with it.        *)
THEOREM OneWindowPerPermit == Spec => []PermitBuysOneWindow
  <1>1. WindowInvariant => PermitBuysOneWindow
    BY DEF WindowInvariant
  <1> QED
    BY <1>1, WindowAlways, PTL

(* A permit that nothing has overtaken can be consumed: no window is open  *)
(* and the task is in a state that may run a tool.                         *)
THEOREM PermitIsUsable == Spec => []LivePermitIsUsable
  <1>1. WindowInvariant => LivePermitIsUsable
    BY DEF WindowInvariant
  <1> QED
    BY <1>1, WindowAlways, PTL

(* A window that nothing has overtaken agrees with its task's run_state    *)
(* and with the envelope in force.                                         *)
THEOREM WindowIsConsistent == Spec => []LiveWindowIsConsistent
  <1>1. WindowInvariant => LiveWindowIsConsistent
    BY DEF WindowInvariant
  <1> QED
    BY <1>1, WindowAlways, PTL

-----------------------------------------------------------------------------
(* The budget.                                                             *)

(* Before the first permit the whole budget is left.                       *)
LEMMA InitBudget == Init => BudgetConserved
  <1> SUFFICES ASSUME Init, NEW t \in Tasks
               PROVE  tasks[t].remaining_steps + Cardinality(PermitsOf(t)) = MaxSteps
    BY DEF BudgetConserved
  <1>1. PermitsOf(t) = {}
    BY StoreAssumption DEF Init, EmptyTables, NoPermit, PermitsOf
  <1>2. tasks[t].remaining_steps = MaxSteps
    BY DEF Init
  <1> QED
    BY <1>1, <1>2, FS_EmptySet, StoreAssumption

(* A step keeps steps and permits in balance: a debit comes with one new   *)
(* permit, and nothing else touches either.                                *)
LEMMA StepBudget ==
  ASSUME TypeOK, BudgetConserved, Next
  PROVE  BudgetConserved'
  <1> SUFFICES ASSUME NEW t \in Tasks
               PROVE  tasks'[t].remaining_steps + Cardinality(PermitsOf(t)') = MaxSteps
    BY DEF BudgetConserved
  <1>1. tasks[t].remaining_steps + Cardinality(PermitsOf(t)) = MaxSteps
    BY DEF BudgetConserved
  <1>2. permits \in [PermitIds -> PermitRows \cup {NoPermit}]
    BY DEF TypeOK
  <1>3. CASE permits' = permits /\ tasks'[t].remaining_steps = tasks[t].remaining_steps
    BY <1>1, <1>3 DEF PermitsOf
  <1>4. ASSUME NEW u \in Tasks, NEW p \in PermitIds, PermitSpent(u, p)
        PROVE  tasks'[t].remaining_steps + Cardinality(PermitsOf(t)') = MaxSteps
    <2>1. \A r \in PermitIds : permits'[r].task = permits[r].task
      BY <1>2, <1>4 DEF PermitSpent, PermitRows, NoPermit
    <2>2. PermitsOf(t)' = PermitsOf(t)
      BY <2>1 DEF PermitsOf
    <2> QED
      BY <1>1, <1>4, <2>2 DEF PermitSpent
  <1>5. ASSUME NEW u \in Tasks, NEW p \in PermitIds, PermitMinted(u, p)
        PROVE  tasks'[t].remaining_steps + Cardinality(PermitsOf(t)') = MaxSteps
    <2>1. /\ permits[p].task = None /\ permits'[p].task = u
          /\ \A r \in PermitIds : r # p => permits'[r] = permits[r]
      BY <1>5 DEF PermitMinted, NoPermit
    <2>2. p \notin PermitsOf(t)
      BY <2>1, StoreAssumption DEF PermitsOf
    <2>3. CASE t = u
      <3>1. PermitsOf(t)' = PermitsOf(t) \cup {p}
        BY <2>1, <2>3, <2>2 DEF PermitsOf
      <3>2. IsFiniteSet(PermitsOf(t))
        BY StoreAssumption, FS_Subset DEF PermitsOf
      <3>3. Cardinality(PermitsOf(t)') = Cardinality(PermitsOf(t)) + 1
        BY <2>2, <3>1, <3>2, FS_AddElement
      <3>4. /\ tasks'[t].remaining_steps = tasks[t].remaining_steps - 1
            /\ tasks[t].remaining_steps \in Nat
        BY <1>5, <2>3 DEF PermitMinted, Debited, TypeOK, TaskRows
      <3>5. Cardinality(PermitsOf(t)) \in Nat
        BY <3>2, FS_CardinalityType
      <3> QED
        BY <1>1, <3>3, <3>4, <3>5, StoreAssumption
    <2>4. CASE t # u
      <3>1. PermitsOf(t)' = PermitsOf(t)
        BY <2>1, <2>2, <2>4 DEF PermitsOf
      <3>2. tasks'[t].remaining_steps = tasks[t].remaining_steps
        BY <1>5, <2>4 DEF PermitMinted, Debited, TypeOK
      <3> QED
        BY <1>1, <3>1, <3>2
    <2> QED
      BY <2>3, <2>4
  <1> QED
    BY <1>3, <1>4, <1>5, PermitsStep DEF PermitsStepped

(* Every step gone from the budget bought exactly one permit, whatever     *)
(* calls of create_permit raced for it.                                    *)
THEOREM StepsBuyPermits == Spec => []BudgetConserved
  <1>1. TypeOK /\ BudgetConserved /\ [Next]_vars => BudgetConserved'
    <2>1. ASSUME BudgetConserved, UNCHANGED vars PROVE BudgetConserved'
      BY <2>1 DEF vars, BudgetConserved, PermitsOf
    <2> QED
      BY <2>1, StepBudget
  <1> QED
    BY <1>1, InitBudget, TypeCorrect, PTL DEF Spec

-----------------------------------------------------------------------------
(* What a step does to claims and launches.                                *)

NothingLaunched ==
  /\ claims' = claims /\ launches' = launches
  /\ \A w \in WindowIds : windows'[w].started = windows[w].started

(* A window never gets another kind or task, unless it is opened.          *)
WindowsPersist ==
  \A w \in WindowIds : windows[w] # NoWindow =>
    windows'[w].kind = windows[w].kind /\ windows'[w].task = windows[w].task

(* Only the transactions of the executor and of claim.py touch claims,     *)
(* launches or the started flag of a window.                               *)
LEMMA LaunchStep ==
  ASSUME TypeOK, Next
  PROVE  \/ NothingLaunched
         \/ \E t \in Tasks, w \in WindowIds :
              \/ \E p \in PermitIds, kind \in ToolKinds : StartTool(t, p, w, kind)
              \/ \E p \in PermitIds, c \in ClaimIds : RestartPatch(t, p, w, c)
              \/ \E c \in ClaimIds, expected \in Revisions :
                   ClaimRecoveredAttempt(t, w, expected, c)
  <1>1. PICK u \in Tasks : \/ ApprovalStep(u) \/ PermitStep(u) \/ ToolStep(u)
                           \/ CloseStep(u)    \/ UpdateStep(u) \/ ApplyStep(u)
    BY DEF Next
  <1>2. windows \in [WindowIds -> WindowRows \cup {NoWindow}]
    BY DEF TypeOK
  <1>3. \A w \in WindowIds : windows[w].task = None => windows[w] = NoWindow
    BY <1>2, StoreAssumption DEF WindowRows
  <1> USE DEF NothingLaunched
  <1>4. CASE ApprovalStep(u)
    BY <1>4 DEF ApprovalStep, RequestApproval, InsertPending, Approve, Reject, Answer
  <1>5. CASE PermitStep(u)
    <2>1. ASSUME NEW p \in PermitIds, NEW expected \in Revisions, NEW kind \in ToolKinds,
                 NEW v \in WindowIds, ConsumePermit(u, p, expected, kind, v)
          PROVE  NothingLaunched
      <3>1. windows[v].started = FALSE
        BY <1>3, <2>1 DEF ConsumePermit, NoWindow
      <3>2. /\ windows'[v].started = FALSE
            /\ \A w \in WindowIds : w # v => windows'[w] = windows[w]
        BY <1>2, <2>1 DEF ConsumePermit, Window
      <3> QED
        BY <2>1, <3>1, <3>2 DEF ConsumePermit
    <2> QED
      BY <1>5, <2>1 DEF PermitStep, CreatePermit
  <1>6. CASE ToolStep(u)
    BY <1>6 DEF ToolStep
  <1>7. CASE CloseStep(u)
    BY <1>2, <1>7, CloseStepCloses DEF CloseWindow, WindowRows, NoWindow
  <1>8. CASE UpdateStep(u)
    BY <1>8 DEF UpdateStep, UpdateTask
  <1>9. CASE ApplyStep(u)
    <2>1. ASSUME NEW expected \in Revisions, NEW v \in WindowIds, EnterApplying(u, expected, v)
          PROVE  NothingLaunched
      <3>1. windows[v].started = FALSE
        BY <1>3, <2>1 DEF EnterApplying, NoWindow
      <3>2. /\ windows'[v].started = FALSE
            /\ \A w \in WindowIds : w # v => windows'[w] = windows[w]
        BY <1>2, <2>1 DEF EnterApplying, Window
      <3> QED
        BY <2>1, <3>1, <3>2 DEF EnterApplying
    <2>2. ASSUME NEW expected \in Revisions, NEW v \in WindowIds, NEW seen \in Seen,
                 RecoverApply(u, expected, seen, v)
          PROVE  NothingLaunched
      BY <1>2, <2>2 DEF RecoverApply, LeaveApplying, WindowRows, NoWindow
    <2>3. ASSUME NEW expected \in Revisions, FinishApplied(u, expected)
          PROVE  NothingLaunched
      BY <1>2, <2>3 DEF FinishApplied, WindowRows, NoWindow
    <2> QED
      BY <1>9, <2>1, <2>2, <2>3 DEF ApplyStep
  <1> QED
    BY <1>1, <1>4, <1>5, <1>6, <1>7, <1>8, <1>9

(* A window in the table keeps its kind and its task.                      *)
LEMMA WindowsPersistStep ==
  ASSUME TypeOK, Next
  PROVE  WindowsPersist
  BY WindowStep DEF WindowsPersist, WindowStepped, WindowKept, WindowClosed, WindowOpened,
     SameWindow

-----------------------------------------------------------------------------
(* Claims.                                                                 *)

(* A claim is of a patch that was started, in a window of the claim's task.*)
ClaimsOnPatches ==
  \A c \in ClaimIds : claims[c].task # None =>
    /\ claims[c].window \in WindowIds
    /\ windows[claims[c].window].kind = "apply_patch"
    /\ windows[claims[c].window].task = claims[c].task

(* A row of the claims table that was not inserted names no window.        *)
LEMMA UnclaimedRows ==
  ASSUME TypeOK, NEW c \in ClaimIds, claims[c].task = None
  PROVE  claims[c] = NoClaim /\ claims[c].window \notin WindowIds /\ ~claims[c].consumed
  BY StoreAssumption DEF TypeOK, ClaimRows, NoClaim

(* Only claim_recovered_attempt inserts a claim, and it looks at the       *)
(* window first.                                                           *)
LEMMA StepClaimsOnPatches ==
  ASSUME TypeOK, ClaimsOnPatches, Next
  PROVE  ClaimsOnPatches'
  <1> USE DEF ClaimsOnPatches
  <1>1. /\ claims \in [ClaimIds -> ClaimRows \cup {NoClaim}]
        /\ windows \in [WindowIds -> WindowRows \cup {NoWindow}]
    BY DEF TypeOK
  <1>2. ASSUME NEW c \in ClaimIds, claims[c].task # None,
               claims'[c].task = claims[c].task, claims'[c].window = claims[c].window
        PROVE  /\ claims'[c].window \in WindowIds
               /\ windows'[claims'[c].window].kind = "apply_patch"
               /\ windows'[claims'[c].window].task = claims'[c].task
    <2>1. windows[claims[c].window] # NoWindow
      BY <1>2, StoreAssumption DEF NoWindow, ToolKinds
    <2> QED
      BY <1>2, <2>1, WindowsPersistStep DEF WindowsPersist
  <1>3. CASE claims' = claims
    BY <1>2, <1>3
  <1>4. ASSUME NEW t \in Tasks, NEW p \in PermitIds, NEW w \in WindowIds, NEW d \in ClaimIds,
               RestartPatch(t, p, w, d)
        PROVE  ClaimsOnPatches'
    <2>1. \A c \in ClaimIds : claims'[c].task = claims[c].task
                              /\ claims'[c].window = claims[c].window
      BY <1>1, <1>4 DEF RestartPatch, ClaimRows, NoClaim
    <2> QED
      BY <1>2, <2>1
  <1>5. ASSUME NEW t \in Tasks, NEW w \in WindowIds, NEW d \in ClaimIds,
               NEW expected \in Revisions, ClaimRecoveredAttempt(t, w, expected, d)
        PROVE  ClaimsOnPatches'
    <2>1. /\ claims'[d] = [task |-> t, window |-> w, state_revision |-> expected,
                           consumed |-> FALSE]
          /\ \A c \in ClaimIds : c # d => claims'[c] = claims[c]
          /\ windows' = windows /\ windows[w].kind = "apply_patch" /\ windows[w].task = t
      BY <1>1, <1>5 DEF ClaimRecoveredAttempt
    <2> QED
      BY <1>2, <2>1
  <1> QED
    BY <1>3, <1>4, <1>5, LaunchStep DEF NothingLaunched, StartTool

(* An interrupted attempt is claimed once per revision: the unique index   *)
(* again, for the window fixes the task.                                   *)
OneClaimPerAttempt ==
  \A c, d \in ClaimIds :
    /\ claims[c].task # None
    /\ claims[c].window = claims[d].window
    /\ claims[c].state_revision = claims[d].state_revision
    => c = d

(* The unique index refuses a second claim of an attempt: the window       *)
(* fixes the task, so window and revision are as good as all three.        *)
LEMMA StepOneClaim ==
  ASSUME TypeOK, ClaimsOnPatches, OneClaimPerAttempt, Next
  PROVE  OneClaimPerAttempt'
  <1> USE DEF OneClaimPerAttempt
  <1>1. claims \in [ClaimIds -> ClaimRows \cup {NoClaim}]
    BY DEF TypeOK
  <1>2. CASE claims' = claims
    BY <1>2
  <1>3. ASSUME NEW t \in Tasks, NEW p \in PermitIds, NEW w \in WindowIds, NEW e \in ClaimIds,
               RestartPatch(t, p, w, e)
        PROVE  OneClaimPerAttempt'
    <2>1. \A c \in ClaimIds : /\ claims'[c].task = claims[c].task
                              /\ claims'[c].window = claims[c].window
                              /\ claims'[c].state_revision = claims[c].state_revision
      BY <1>1, <1>3 DEF RestartPatch, ClaimRows, NoClaim
    <2> QED
      BY <2>1
  <1>4. ASSUME NEW t \in Tasks, NEW w \in WindowIds, NEW e \in ClaimIds,
               NEW expected \in Revisions, ClaimRecoveredAttempt(t, w, expected, e)
        PROVE  OneClaimPerAttempt'
    <2>1. /\ claims'[e] = [task |-> t, window |-> w, state_revision |-> expected,
                           consumed |-> FALSE]
          /\ \A c \in ClaimIds : c # e => claims'[c] = claims[c]
          /\ windows[w].task = t
          /\ ClaimFree(t, w, expected)
      BY <1>1, <1>4 DEF ClaimRecoveredAttempt
    <2>2. ASSUME NEW c \in ClaimIds, claims[c].window = w,
                 claims[c].state_revision = expected
          PROVE  FALSE
      BY <2>1, <2>2, UnclaimedRows DEF ClaimsOnPatches, ClaimFree
    <2> QED
      BY <2>1, <2>2
  <1> QED
    BY <1>2, <1>3, <1>4, LaunchStep DEF NothingLaunched, StartTool

-----------------------------------------------------------------------------
(* Launches.                                                               *)

LaunchesCounted ==
  \A w \in WindowIds :
    launches[w] = (IF windows[w].started THEN 1 ELSE 0) + Cardinality(ConsumedClaims(w))

(* There are finitely many claims.                                         *)
LEMMA ConsumedClaimsFinite ==
  ASSUME NEW w \in WindowIds
  PROVE  /\ IsFiniteSet(ConsumedClaims(w))
         /\ Cardinality(ConsumedClaims(w)) \in Nat
  BY StoreAssumption, FS_Subset, FS_CardinalityType DEF ConsumedClaims

(* A window that was never claimed, as that of a command, was launched     *)
(* once at most.                                                           *)
LEMMA CountedIsAccounted ==
  ASSUME TypeOK, ClaimsOnPatches, LaunchesCounted
  PROVE  LaunchesAccounted
  <1> SUFFICES ASSUME NEW w \in WindowIds, windows[w].kind # "apply_patch"
               PROVE  launches[w] <= 1
    BY DEF LaunchesAccounted, LaunchesCounted
  <1>1. ConsumedClaims(w) = {}
    BY UnclaimedRows DEF ConsumedClaims, ClaimsOnPatches
  <1> QED
    BY <1>1, FS_EmptySet DEF LaunchesCounted

(* The started flag is set once, and a recovered patch is let through by   *)
(* consuming a claim that was not consumed.                                *)
LEMMA StepCounted ==
  ASSUME TypeOK, LaunchesCounted, Next
  PROVE  LaunchesCounted'
  <1> USE DEF LaunchesCounted
  <1>1. /\ claims \in [ClaimIds -> ClaimRows \cup {NoClaim}]
        /\ windows \in [WindowIds -> WindowRows \cup {NoWindow}]
        /\ launches \in [WindowIds -> Nat]
    BY DEF TypeOK
  <1>2. CASE NothingLaunched
    BY <1>2 DEF NothingLaunched, ConsumedClaims
  <1>3. ASSUME NEW t \in Tasks, NEW p \in PermitIds, NEW v \in WindowIds,
               NEW kind \in ToolKinds, StartTool(t, p, v, kind)
        PROVE  LaunchesCounted'
    <2>1. /\ claims' = claims /\ ~windows[v].started /\ windows'[v].started
          /\ launches'[v] = launches[v] + 1
          /\ \A w \in WindowIds : w # v => /\ windows'[w] = windows[w]
                                           /\ launches'[w] = launches[w]
      BY <1>1, <1>3 DEF StartTool, NotStarted, Launch, WindowRows, NoWindow
    <2>2. \A w \in WindowIds : ConsumedClaims(w)' = ConsumedClaims(w)
      BY <2>1 DEF ConsumedClaims
    <2> QED
      BY <2>1, <2>2, ConsumedClaimsFinite
  <1>4. ASSUME NEW t \in Tasks, NEW p \in PermitIds, NEW v \in WindowIds, NEW d \in ClaimIds,
               RestartPatch(t, p, v, d)
        PROVE  LaunchesCounted'
    <2>1. /\ windows[v].started /\ windows'[v].started
          /\ launches'[v] = launches[v] + 1
          /\ \A w \in WindowIds : w # v => /\ windows'[w] = windows[w]
                                           /\ launches'[w] = launches[w]
      BY <1>1, <1>4 DEF RestartPatch, Launch, WindowRows, NoWindow
    <2>2. /\ claims[d].window = v /\ ~claims[d].consumed
          /\ claims'[d].window = v /\ claims'[d].consumed
          /\ \A c \in ClaimIds : c # d => claims'[c] = claims[c]
      BY <1>1, <1>4 DEF RestartPatch, ClaimFits, ClaimRows, NoClaim
    <2>3. \A w \in WindowIds : w # v => ConsumedClaims(w)' = ConsumedClaims(w)
      BY <2>2 DEF ConsumedClaims
    <2>4. ConsumedClaims(v)' = ConsumedClaims(v) \cup {d} /\ d \notin ConsumedClaims(v)
      BY <2>2 DEF ConsumedClaims
    <2>5. Cardinality(ConsumedClaims(v)') = Cardinality(ConsumedClaims(v)) + 1
      BY <2>4, ConsumedClaimsFinite, FS_AddElement
    <2> QED
      BY <2>1, <2>3, <2>5, ConsumedClaimsFinite
  <1>5. ASSUME NEW t \in Tasks, NEW v \in WindowIds, NEW d \in ClaimIds,
               NEW expected \in Revisions, ClaimRecoveredAttempt(t, v, expected, d)
        PROVE  LaunchesCounted'
    <2>1. /\ ~claims'[d].consumed /\ claims[d].task = None
          /\ \A c \in ClaimIds : c # d => claims'[c] = claims[c]
          /\ windows' = windows /\ launches' = launches
      BY <1>1, <1>5 DEF ClaimRecoveredAttempt
    <2>2. \A w \in WindowIds : ConsumedClaims(w)' = ConsumedClaims(w)
      BY <2>1, UnclaimedRows DEF ConsumedClaims
    <2> QED
      BY <2>1, <2>2
  <1> QED
    BY <1>2, <1>3, <1>4, <1>5, LaunchStep

-----------------------------------------------------------------------------
(* The inductive invariant of claims and launches.                         *)
LaunchInvariant == TypeOK /\ ClaimsOnPatches /\ OneClaimPerAttempt /\ LaunchesCounted

(* It holds of the empty tables and survives every step.                   *)
LEMMA LaunchInductive ==
  /\ Init => LaunchInvariant
  /\ LaunchInvariant /\ [Next]_vars => LaunchInvariant'
  <1>1. ASSUME Init PROVE LaunchInvariant
    <2>1. TypeOK
      BY <1>1, InitTypeOK
    <2>2. \A c \in ClaimIds : claims[c].task = None /\ ~claims[c].consumed
      BY <1>1 DEF Init, EmptyTables, NoClaim
    <2>3. \A w \in WindowIds : /\ ConsumedClaims(w) = {}
                               /\ launches[w] = 0 /\ ~windows[w].started
      BY <1>1, <2>2 DEF Init, EmptyTables, NoWindow, ConsumedClaims
    <2>4. ClaimsOnPatches /\ OneClaimPerAttempt
      BY <2>2 DEF ClaimsOnPatches, OneClaimPerAttempt
    <2>5. ASSUME NEW w \in WindowIds
          PROVE  launches[w] = (IF windows[w].started THEN 1 ELSE 0)
                               + Cardinality(ConsumedClaims(w))
      <3>1. Cardinality(ConsumedClaims(w)) = 0
        BY <2>3, FS_EmptySet
      <3> QED
        BY <2>3, <3>1
    <2> QED
      BY <2>1, <2>4, <2>5 DEF LaunchInvariant, LaunchesCounted
  <1>2. ASSUME LaunchInvariant, Next PROVE LaunchInvariant'
    BY <1>2, NextTypeOK, StepClaimsOnPatches, StepOneClaim, StepCounted DEF LaunchInvariant
  <1>3. ASSUME LaunchInvariant, UNCHANGED vars PROVE LaunchInvariant'
    BY <1>3 DEF vars, LaunchInvariant, TypeOK, ClaimsOnPatches, OneClaimPerAttempt,
                LaunchesCounted, ConsumedClaims
  <1> QED
    BY <1>1, <1>2, <1>3

(* It holds in every reachable state.                                      *)
LEMMA LaunchAlways == Spec => []LaunchInvariant
  BY LaunchInductive, PTL DEF Spec

(* A tool is let through once per window and once more per consumed claim; *)
(* a command, which cannot be claimed, is never let through again.         *)
THEOREM LaunchesAreAccounted == Spec => []LaunchesAccounted
  <1>1. LaunchInvariant => LaunchesAccounted
    BY CountedIsAccounted DEF LaunchInvariant
  <1> QED
    BY <1>1, LaunchAlways, PTL
===============================================================================
