-------------------------------- MODULE OneShot --------------------------------
(***************************************************************************)
(* What the governed store promises, without revisions, permits, windows   *)
(* or a database: an action runs only as an attempt; an attempt costs one  *)
(* step of its task's budget; one attempt of a task is under way at a      *)
(* time; an attempt made in the name of an approval is for the very action *)
(* the user approved, and there is no second one.                          *)
(***************************************************************************)
EXTENDS Naturals

CONSTANTS Tasks, Fingerprints, Approvals, Attempts, None, MaxSteps

VARIABLES
  steps,      (* the budget each task has left                             *)
  asked,      (* the questions put to the user, and the answers            *)
  attempts    (* the attempts to run an action                             *)

oneShotVars == <<steps, asked, attempts>>

NotAsked  == [task |-> None, fingerprint |-> None, answer |-> None]
NoAttempt == [task |-> None, fingerprint |-> None, approval |-> None,
              phase |-> "unused", launched |-> FALSE]

Init ==
  /\ steps = [t \in Tasks |-> MaxSteps]
  /\ asked = [q \in Approvals |-> NotAsked]
  /\ attempts = [a \in Attempts |-> NoAttempt]

Ask(t, fp, q) ==
  /\ asked[q] = NotAsked
  /\ asked' = [asked EXCEPT ![q] =
       [task |-> t, fingerprint |-> fp, answer |-> "open"]]
  /\ UNCHANGED <<steps, attempts>>

Answer(q, answer) ==
  /\ asked[q].answer = "open"
  /\ asked' = [asked EXCEPT ![q].answer = answer]
  /\ UNCHANGED <<steps, attempts>>

Approved(t, fp, q) ==
  /\ asked[q] = [task |-> t, fingerprint |-> fp, answer |-> "approved"]
  /\ \A a \in Attempts : attempts[a].approval # q

Reserve(t, fp, q, a) ==
  /\ steps[t] > 0
  /\ attempts[a] = NoAttempt
  /\ q # None => Approved(t, fp, q)
  /\ steps' = [steps EXCEPT ![t] = @ - 1]
  /\ attempts' = [attempts EXCEPT ![a] =
       [task |-> t, fingerprint |-> fp, approval |-> q,
        phase |-> "reserved", launched |-> FALSE]]
  /\ UNCHANGED asked

Open(a) ==
  /\ attempts[a].phase = "reserved"
  /\ \A b \in Attempts : attempts[b].task = attempts[a].task
                         => attempts[b].phase # "open"
  /\ attempts' = [attempts EXCEPT ![a].phase = "open"]
  /\ UNCHANGED <<steps, asked>>

Launch(a) ==
  /\ attempts[a].phase = "open"
  /\ attempts' = [attempts EXCEPT ![a].launched = TRUE]
  /\ UNCHANGED <<steps, asked>>

Close(a) ==
  /\ attempts[a].phase = "open"
  /\ attempts' = [attempts EXCEPT ![a].phase = "closed"]
  /\ UNCHANGED <<steps, asked>>

Next ==
  \/ \E t \in Tasks, fp \in Fingerprints, q \in Approvals : Ask(t, fp, q)
  \/ \E q \in Approvals, answer \in {"approved", "rejected"} : Answer(q, answer)
  \/ \E t \in Tasks, fp \in Fingerprints, q \in Approvals \cup {None}, a \in Attempts :
        Reserve(t, fp, q, a)
  \/ \E a \in Attempts : Open(a) \/ Launch(a) \/ Close(a)

Spec == Init /\ [][Next]_oneShotVars
===============================================================================
