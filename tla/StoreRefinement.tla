---------------------------- MODULE StoreRefinement ----------------------------
(* The store read as the one-shot attempts it promises: a permit is an      *)
(* attempt, its window is the attempt under way.                            *)
EXTENDS GuardedStore

WindowOpen(p) ==
  \E w \in WindowIds : windows[w].permit = p /\ windows[w].status = "executing_action"

WindowStarted(p) ==
  \E w \in WindowIds : windows[w].permit = p /\ windows[w].started

AnswerOf(q) ==
  IF pendings[q].task = None THEN None
  ELSE IF verdicts[q] = None THEN "open" ELSE verdicts[q]

Phase(p) ==
  IF permits[p].task = None THEN "unused"
  ELSE IF ~permits[p].consumed THEN "reserved"
  ELSE IF WindowOpen(p) THEN "open" ELSE "closed"

Attempt(p) ==
  [task |-> permits[p].task, fingerprint |-> permits[p].fingerprint,
   approval |-> permits[p].pending, phase |-> Phase(p),
   launched |-> WindowStarted(p)]

Question(q) ==
  [task |-> pendings[q].task, fingerprint |-> pendings[q].fingerprint,
   answer |-> AnswerOf(q)]

StepsLeft == [t \in Tasks |-> tasks[t].remaining_steps]
Questions == [q \in PendingIds |-> Question(q)]
Attempts  == [p \in PermitIds |-> Attempt(p)]

OS == INSTANCE OneShot WITH
  Approvals <- PendingIds,
  Attempts  <- PermitIds,
  steps     <- StepsLeft,
  asked     <- Questions,
  attempts  <- Attempts

(* Whatever the clients do, and in whatever order, the store behaves as    *)
(* the one-shot promise: every transaction is one of its steps or none.    *)
KeepsOneShotPromise == OS!Spec
===============================================================================
