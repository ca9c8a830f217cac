------------------------------ MODULE AtomicPatch ------------------------------
(***************************************************************************)
(* What the loop and the recovery believe of a patch: it is applied as a   *)
(* whole or not at all.  There are no temporaries here, no attempt under   *)
(* way and no rollback: the only steps that leave the files in between are *)
(* a kill, which leaves each file old or new, and a rollback that was      *)
(* itself cut short.  Nothing is promised once another program has written *)
(* into the worktree or a write fell short unnoticed, until the next       *)
(* proposal takes the files as they are.                                   *)
(***************************************************************************)
CONSTANTS Paths, Contents, Torn

VARIABLES
  files,      (* the worktree                                              *)
  pre, post,  (* the images of the window: what a patch finds and leaves   *)
  result,     (* what the window says: none until it is closed             *)
  broken,     (* a rollback was cut short since the proposal               *)
  trusted     (* no other program wrote since, and no write fell short     *)

atomicVars == <<files, pre, post, result, broken, trusted>>

Trees == [Paths -> Contents]
Results == {"none", "applied", "already", "refused", "failed", "error"}

Init ==
  /\ files \in Trees
  /\ pre = <<>> /\ post = <<>>
  /\ result = "none" /\ broken = FALSE /\ trusted = TRUE

Open == DOMAIN post # {} /\ result = "none"

Holds(image) == \A p \in DOMAIN image : files[p] = image[p]

Propose ==
  /\ ~Open
  /\ DOMAIN post' \subseteq Paths /\ DOMAIN post' # {}
  /\ post' \in [DOMAIN post' -> Contents]
  /\ pre' = [p \in DOMAIN post' |-> files[p]]
  /\ result' = "none" /\ broken' = FALSE /\ trusted' = TRUE
  /\ UNCHANGED files

Settle(answer) ==
  /\ Open /\ trusted
  /\ result' = answer
  /\ UNCHANGED <<pre, post, broken, trusted>>

(* The whole patch at once, on the very files it was proposed on.          *)
Apply ==
  /\ Holds(pre)
  /\ files' = [p \in Paths |-> IF p \in DOMAIN post THEN post[p] ELSE files[p]]
  /\ Settle("applied")

Recognise == Holds(post) /\ UNCHANGED files /\ Settle("already")

Refuse == ~Holds(pre) /\ ~Holds(post) /\ UNCHANGED files /\ Settle("refused")

(* It could not be written, and every file is as it was; or all but the    *)
(* temporaries, which is an error.                                         *)
Fail == Holds(pre) /\ UNCHANGED files /\ (Settle("failed") \/ Settle("error"))

(* Files of the patch, and no others, change to such contents.             *)
Become(contents) ==
  /\ files' \in Trees
  /\ \A p \in Paths :
       \/ files'[p] = files[p]
       \/ p \in DOMAIN post /\ files'[p] \in {post[p]} \cup contents

(* Killed: some files are new, the others old; the window stays open.      *)
Interrupt ==
  /\ Open /\ trusted /\ Holds(pre)
  /\ Become({})
  /\ UNCHANGED <<pre, post, result, broken, trusted>>

(* The way back was cut short: a file may be torn.                         *)
Break ==
  /\ Open /\ trusted /\ Holds(pre)
  /\ Become({Torn})
  /\ result' \in {"none", "error"} /\ broken' = TRUE
  /\ UNCHANGED <<pre, post, trusted>>

(* Anything, from here to the next proposal.                               *)
Distrust ==
  /\ trusted' = FALSE
  /\ files' \in Trees /\ result' \in Results /\ broken' \in BOOLEAN
  /\ UNCHANGED <<pre, post>>

Next ==
  \/ Propose \/ Apply \/ Recognise \/ Refuse \/ Fail
  \/ Interrupt \/ Break \/ Distrust

Spec == Init /\ [][Next]_atomicVars
================================================================================
