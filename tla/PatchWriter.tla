------------------------------ MODULE PatchWriter ------------------------------
(***************************************************************************)
(* tools/apply_patch.py and the images that guard it in tools/executor.py: *)
(* a patch is planned against the worktree, its images are stored with the *)
(* window, and the executor, perhaps a later process, checks the images,   *)
(* plans again, and writes file by file, restoring what it replaced when a *)
(* write fails.                                                            *)
(*                                                                         *)
(* One attempt runs at a time: execute holds the write lock of the         *)
(* database from the check to the last file.  What may come between two    *)
(* file operations is a kill, a failing or short write of the operating    *)
(* system, and another program (a command that outlived its step, the      *)
(* user) writing into the worktree.  A path here is one that passed the    *)
(* fence; the size limits of a diff, and symbolic links, are left out.     *)
(***************************************************************************)
EXTENDS Naturals, Sequences, FiniteSets

CONSTANTS
  Paths,        (* paths inside the fence                                  *)
  Edits,        (* hunks; a hunk fits a file that does not hold it yet     *)
  MaxSections,  (* MAX_FILES: file sections of one diff                    *)
  MaxPatches,   (* bound: patches proposed                                 *)
  MaxKills,     (* bound: processes killed                                 *)
  MaxMeddling,  (* bound: writes of other programs                         *)
  Absent,       (* no such file; no path on this side of a section         *)
  Torn          (* a truncated or partly written file                      *)

ASSUME PatchAssumption ==
  /\ Absent \notin Paths \cup {Torn}
  /\ \A text \in SUBSET Edits : text # Absent /\ text # Torn
  /\ MaxSections \in Nat \ {0}

VARIABLES
  tree,     (* the worktree: the content of each path                      *)
  temps,    (* the .gc-patch-tmp file beside each path                     *)
  patch,    (* the diff in the window, allow_delete, and its two images    *)
  job,      (* the attempt under way                                       *)
  result,   (* of the window: none until it is closed                      *)
  seen,     (* history, see below                                          *)
  spent     (* counters of the bounds                                      *)

patchVars == <<tree, temps, patch, job, result, seen, spent>>

(* A file holds the hunks applied to it.                                   *)
Files == {Absent, Torn} \cup SUBSET Edits

(* _FilePatch: old is Absent in a creation, new in a deletion; hunk is the *)
(* hunk of the section, or none for a pure rename.                         *)
Sections == {s \in [old : Paths \cup {Absent}, new : Paths \cup {Absent},
                    hunk : {{}} \cup {{e} : e \in Edits}] :
               s.old # Absent \/ s.new # Absent}
Diffs == UNION {[1..n -> Sections] : n \in 1..MaxSections}

NoPatch == [diff |-> <<>>, allow_delete |-> FALSE,
            pre |-> <<>>, post |-> <<>>]

(* planned, originals: as in the code; todo: the paths the present loop    *)
(* has still to visit; made: the temporaries the rollback knows of.        *)
NoJob == [pc |-> "none", planned |-> <<>>, originals |-> <<>>,
          todo |-> {}, made |-> {}]

(* start: the tree when the patch was proposed; before: when the attempt   *)
(* planned; alone: no other program wrote since the proposal; whole: no    *)
(* write was short since; spoiled: paths whose temporary was left behind   *)
(* by a failed write or a kill; undone: a restoring write was interrupted  *)
(* or failed.                                                              *)
Fresh(t) == [start |-> t, before |-> t, alone |-> TRUE, whole |-> TRUE,
             spoiled |-> seen.spoiled, undone |-> FALSE]

PatchInit ==
  /\ tree \in [Paths -> {Absent, {}}]
  /\ temps = [p \in Paths |-> Absent]
  /\ patch = NoPatch /\ job = NoJob /\ result = "none"
  /\ seen = [start |-> tree, before |-> tree, alone |-> TRUE, whole |-> TRUE,
             spoiled |-> {}, undone |-> FALSE]
  /\ spent = [patches |-> 0, kills |-> 0, meddling |-> 0]

-----------------------------------------------------------------------------
(* _plan_patch                                                             *)

Involved(s) == {s.old, s.new} \ {Absent}
AllPaths(diff) == UNION {Involved(diff[i]) : i \in DOMAIN diff}

Creating(s) == s.old = Absent
Deleting(s) == s.new = Absent
Renaming(s) == ~Creating(s) /\ ~Deleting(s) /\ s.old # s.new

Original(t, s) == IF Creating(s) THEN {} ELSE t[s.old]

(* _apply_hunks: no hunk of ours fits a torn file.                         *)
HunkFits(content, hunk) ==
  hunk # {} => content \notin {Absent, Torn} /\ content \cap hunk = {}

WithHunk(content, hunk) == IF hunk = {} THEN content ELSE content \cup hunk

Bug_RenameIsNoDelete(t, s, allow_delete) ==
  /\ Deleting(s) => allow_delete
  /\ Creating(s) \/ Renaming(s) => t[s.new] = Absent
  /\ ~Creating(s) => t[s.old] # Absent
  /\ HunkFits(Original(t, s), s.hunk)

Applies(t, s, allow_delete) ==
  /\ Deleting(s) \/ Renaming(s) => allow_delete
  /\ Creating(s) \/ Renaming(s) => t[s.new] = Absent
  /\ ~Creating(s) => t[s.old] # Absent
  /\ HunkFits(Original(t, s), s.hunk)

(* What the section writes, path by path.                                  *)
Writes(t, s) ==
  [p \in Involved(s) |-> IF p = s.new THEN WithHunk(Original(t, s), s.hunk)
                         ELSE Absent]

Plannable(t, diff, allow_delete) ==
  \A i \in DOMAIN diff : Applies(t, diff[i], allow_delete)

(* Every section is planned on the files as they are on disk; where two    *)
(* write one path, the later one stands.                                   *)
Planned(t, diff) ==
  [p \in AllPaths(diff) |->
     LET last == CHOOSE i \in DOMAIN diff :
                   /\ p \in Involved(diff[i])
                   /\ \A j \in DOMAIN diff : p \in Involved(diff[j]) => j <= i
     IN Writes(t, diff[last])[p]]

Image(t, diff) == [p \in AllPaths(diff) |-> t[p]]

Matches(image) == \A p \in DOMAIN image : tree[p] = image[p]

-----------------------------------------------------------------------------
(* preview_patch, before the permit: the images go into the window.        *)

Propose(diff, allow_delete) ==
  /\ job.pc = "none"
  /\ spent.patches < MaxPatches
  /\ Plannable(tree, diff, allow_delete)
  /\ patch' = [diff |-> diff, allow_delete |-> allow_delete,
               pre |-> Image(tree, diff), post |-> Planned(tree, diff)]
  /\ job' = [NoJob EXCEPT !.pc = "check"]
  /\ result' = "none"
  /\ seen' = Fresh(tree)
  /\ spent' = [spent EXCEPT !.patches = @ + 1]
  /\ UNCHANGED <<tree, temps>>

Close(outcome) ==
  /\ result' = outcome
  /\ job' = NoJob

Bug_PreimageOnly ==
  /\ job.pc = "check"
  /\ IF ~Matches(patch.pre) THEN Close("refused")
     ELSE job' = [job EXCEPT !.pc = "plan"] /\ UNCHANGED result
  /\ UNCHANGED <<tree, temps, patch, seen, spent>>

(* _apply_authorized: the postimage first, then the preimage.              *)
Check ==
  /\ job.pc = "check"
  /\ IF Matches(patch.post) THEN Close("already")
     ELSE IF ~Matches(patch.pre) THEN Close("refused")
     ELSE job' = [job EXCEPT !.pc = "plan"] /\ UNCHANGED result
  /\ UNCHANGED <<tree, temps, patch, seen, spent>>

(* apply_patch plans again, then reads the originals.                      *)
Plan ==
  /\ job.pc = "plan"
  /\ IF Plannable(tree, patch.diff, patch.allow_delete)
       THEN LET planned == Planned(tree, patch.diff) IN
            /\ job' = [job EXCEPT !.pc = "prepare", !.planned = planned,
                 !.originals = Image(tree, patch.diff),
                 !.todo = {p \in DOMAIN planned : planned[p] # Absent}]
            /\ seen' = [seen EXCEPT !.before = tree]
            /\ UNCHANGED result
       ELSE Close("refused") /\ UNCHANGED seen
  /\ UNCHANGED <<tree, temps, patch, spent>>

(* os.write may write less than it was given, and its answer is not read.  *)
Written(content) == {content, Torn}

(* A stale temporary is unlinked first, then the new one is written.       *)
Prepare(p) ==
  /\ job.pc = "prepare" /\ p \in job.todo
  /\ \E c \in Written(job.planned[p]) :
       /\ temps' = [temps EXCEPT ![p] = c]
       /\ seen' = [seen EXCEPT !.whole = @ /\ c = job.planned[p],
                               !.spoiled = @ \ {p}]
  /\ job' = [job EXCEPT !.todo = @ \ {p}, !.made = @ \cup {p}]
  /\ UNCHANGED <<tree, patch, result, spent>>

Prepared ==
  /\ job.pc = "prepare" /\ job.todo = {}
  /\ job' = [job EXCEPT !.pc = "replace", !.todo = job.made]
  /\ UNCHANGED <<tree, temps, patch, result, seen, spent>>

Bug_WritesInPlace(p) ==
  /\ job.pc = "replace" /\ p \in job.todo
  /\ \/ tree[p] # Torn /\ tree' = [tree EXCEPT ![p] = Torn] /\ UNCHANGED <<temps, job>>
     \/ /\ tree' = [tree EXCEPT ![p] = temps[p]]
        /\ temps' = [temps EXCEPT ![p] = Absent]
        /\ job' = [job EXCEPT !.todo = @ \ {p}]
  /\ UNCHANGED <<patch, result, seen, spent>>

Replace(p) ==
  /\ job.pc = "replace" /\ p \in job.todo
  /\ tree' = [tree EXCEPT ![p] = temps[p]]
  /\ temps' = [temps EXCEPT ![p] = Absent]
  /\ job' = [job EXCEPT !.todo = @ \ {p}]
  /\ UNCHANGED <<patch, result, seen, spent>>

Bug_KeepsSource ==
  /\ job.pc = "replace" /\ job.todo = {}
  /\ job' = [job EXCEPT !.pc = "unlink"]
  /\ UNCHANGED <<tree, temps, patch, result, seen, spent>>

Replaced ==
  /\ job.pc = "replace" /\ job.todo = {}
  /\ job' = [job EXCEPT !.pc = "unlink",
                        !.todo = DOMAIN job.planned \ job.made]
  /\ UNCHANGED <<tree, temps, patch, result, seen, spent>>

Unlink(p) ==
  /\ job.pc = "unlink" /\ p \in job.todo
  /\ tree' = [tree EXCEPT ![p] = Absent]
  /\ job' = [job EXCEPT !.todo = @ \ {p}]
  /\ UNCHANGED <<temps, patch, result, seen, spent>>

Succeed ==
  /\ job.pc = "unlink" /\ job.todo = {}
  /\ Close("applied")
  /\ UNCHANGED <<tree, temps, patch, seen, spent>>

-----------------------------------------------------------------------------
(* The except clause: every planned file is put back, then the temporaries *)
(* go.                                                                     *)

Bug_RestoresAll == [job EXCEPT !.pc = "restore", !.todo = Paths]

RollBack == [job EXCEPT !.pc = "restore", !.todo = DOMAIN job.originals]

(* The failing write has opened its file, but is not yet in temps; or the  *)
(* stale temporary is gone, and the new one was never opened; or neither.  *)
PrepareFails(p) ==
  /\ job.pc = "prepare" /\ p \in job.todo
  /\ \/ temps' = [temps EXCEPT ![p] = Torn]
        /\ seen' = [seen EXCEPT !.spoiled = @ \cup {p}]
     \/ temps' = [temps EXCEPT ![p] = Absent]
        /\ seen' = [seen EXCEPT !.spoiled = @ \ {p}]
     \/ UNCHANGED <<temps, seen>>
  /\ job' = RollBack
  /\ UNCHANGED <<tree, patch, result, spent>>

StepFails ==
  /\ job.pc \in {"replace", "unlink"} /\ job.todo # {}
  /\ job' = RollBack
  /\ UNCHANGED <<tree, temps, patch, result, seen, spent>>

Bug_RestoresReplaced(p) ==
  /\ job.pc = "restore" /\ p \in job.todo
  /\ \E c \in IF job.originals[p] = Absent THEN {tree[p]} ELSE Written(job.originals[p]) :
       /\ tree' = [tree EXCEPT ![p] = c]
       /\ seen' = [seen EXCEPT !.whole = @ /\ c # Torn]
  /\ job' = [job EXCEPT !.todo = @ \ {p}]
  /\ UNCHANGED <<temps, patch, result, spent>>

Restore(p) ==
  /\ job.pc = "restore" /\ p \in job.todo
  /\ \E c \in IF job.originals[p] = Absent THEN {Absent} ELSE Written(job.originals[p]) :
       /\ tree' = [tree EXCEPT ![p] = c]
       /\ seen' = [seen EXCEPT !.whole = @ /\ c = job.originals[p]]
  /\ job' = [job EXCEPT !.todo = @ \ {p}]
  /\ UNCHANGED <<temps, patch, result, spent>>

(* Nothing catches what a restoring write raises; O_TRUNC has emptied the  *)
(* file unless it could not even be opened.                                *)
RestoreFails(p) ==
  /\ job.pc = "restore" /\ p \in job.todo
  /\ \/ job.originals[p] # Absent /\ tree' = [tree EXCEPT ![p] = Torn]
     \/ UNCHANGED tree
  /\ seen' = [seen EXCEPT !.undone = TRUE,
                          !.spoiled = @ \cup {q \in job.made : temps[q] # Absent}]
  /\ Close("error")
  /\ UNCHANGED <<temps, patch, spent>>

Bug_KeepsTemps ==
  /\ job.pc = "restore" /\ job.todo = {}
  /\ Close("failed")
  /\ UNCHANGED <<tree, temps, patch, seen, spent>>

Restored ==
  /\ job.pc = "restore" /\ job.todo = {}
  /\ temps' = [p \in Paths |-> IF p \in job.made THEN Absent ELSE temps[p]]
  /\ Close("failed")
  /\ UNCHANGED <<tree, patch, seen, spent>>

CleaningFails ==
  /\ job.pc = "restore" /\ job.todo = {}
  /\ \E kept \in SUBSET {p \in job.made : temps[p] # Absent} :
       /\ kept # {}
       /\ temps' = [p \in Paths |-> IF p \in job.made \ kept THEN Absent ELSE temps[p]]
       /\ seen' = [seen EXCEPT !.spoiled = @ \cup kept]
  /\ Close("error")
  /\ UNCHANGED <<tree, patch, spent>>

-----------------------------------------------------------------------------
(* Killed: the transaction is rolled back, so the window is open and not   *)
(* started, and the next process begins with the check.                    *)
Kill ==
  /\ job.pc \notin {"none", "check"}
  /\ spent.kills < MaxKills
  /\ spent' = [spent EXCEPT !.kills = @ + 1]
  /\ \/ /\ job.pc = "restore"
        /\ \E p \in job.todo : job.originals[p] # Absent
                               /\ tree' = [tree EXCEPT ![p] = Torn]
     \/ UNCHANGED tree
  /\ \/ /\ job.pc = "prepare"
        /\ \E p \in job.todo, c \in {Absent, Torn} : temps' = [temps EXCEPT ![p] = c]
     \/ UNCHANGED temps
  /\ seen' = [seen EXCEPT !.undone = @ \/ job.pc = "restore",
                          !.spoiled = {p \in Paths : temps'[p] # Absent}]
  /\ job' = [NoJob EXCEPT !.pc = "check"]
  /\ UNCHANGED <<patch, result>>

Meddle(p, content) ==
  /\ spent.meddling < MaxMeddling
  /\ content # tree[p]
  /\ tree' = [tree EXCEPT ![p] = content]
  /\ spent' = [spent EXCEPT !.meddling = @ + 1]
  /\ seen' = [seen EXCEPT !.alone = FALSE]
  /\ UNCHANGED <<temps, patch, job, result>>

Write ==
  \/ Check \/ Plan \/ Prepared \/ Replaced \/ Succeed \/ StepFails
  \/ Restored \/ CleaningFails
  \/ \E p \in Paths :
       \/ Prepare(p) \/ Replace(p) \/ Unlink(p)
       \/ PrepareFails(p) \/ Restore(p) \/ RestoreFails(p)

PatchNext ==
  \/ \E diff \in Diffs, allow_delete \in BOOLEAN : Propose(diff, allow_delete)
  \/ Write
  \/ Kill
  \/ \E p \in Paths, content \in {Absent, {}} : Meddle(p, content)

PatchSpec == PatchInit /\ [][PatchNext]_patchVars

-----------------------------------------------------------------------------
TypeOK ==
  /\ tree \in [Paths -> Files]
  /\ temps \in [Paths -> Files]
  /\ job.pc \in {"none", "check", "plan", "prepare", "replace", "unlink", "restore"}
  /\ job.todo \cup job.made \subseteq DOMAIN job.planned
  /\ DOMAIN job.planned \subseteq Paths /\ DOMAIN job.originals = DOMAIN job.planned
  /\ result \in {"none", "applied", "already", "refused", "failed", "error"}

Undisturbed == seen.alone /\ seen.whole

(* At every instant, so also when the process is killed there, a file of   *)
(* the patch is the old one or the new one, never part of one, and no      *)
(* other file has changed: the images can always tell how far it came.     *)
(* Only a kill or a failure inside the rollback breaks this.               *)
FilesAreOldOrNew ==
  Undisturbed /\ ~seen.undone =>
    \A p \in Paths :
      IF p \in DOMAIN patch.pre THEN tree[p] \in {patch.pre[p], patch.post[p]}
                                ELSE tree[p] = seen.start[p]

(* A temporary that outlives its attempt is one whose write failed, whose  *)
(* unlinking failed, or whose process was killed.  The export of the       *)
(* worktree would take it for a file of the patch.                         *)
TempsAreAccounted ==
  job.pc \in {"none", "check"} => {p \in Paths : temps[p] # Absent} \subseteq seen.spoiled

(* No file disappears without allow_delete, whatever fails or is killed.   *)
DeletionIsAllowed ==
  seen.alone /\ ~patch.allow_delete =>
    \A p \in Paths : seen.start[p] # Absent => tree[p] # Absent

(* What one section makes of a tree, and a diff section by section.        *)
Applied(t, s) ==
  [p \in Paths |-> IF p \in Involved(s) THEN Writes(t, s)[p] ELSE t[p]]

OneByOne(t, diff) ==
  LET after[n \in 0..Len(diff)] ==
        IF n = 0 THEN t ELSE Applied(after[n - 1], diff[n])
  IN after[Len(diff)]

(* No path is named by two sections.                                       *)
Disjoint(diff) ==
  \A i, j \in DOMAIN diff : i # j => Involved(diff[i]) \cap Involved(diff[j]) = {}

(* A patch reported as applied, at once or by a later process after kills, *)
(* is in the worktree exactly once and whole: the tree is what the         *)
(* sections make of the tree the patch was proposed on.  Of two sections   *)
(* for one path the code keeps only the last, hence Disjoint.              *)
AppliedIsWhole ==
  result \in {"applied", "already"} /\ Undisturbed /\ Disjoint(patch.diff)
    => tree = OneByOne(seen.start, patch.diff)

-----------------------------------------------------------------------------
(* The patch as one step: while an attempt writes, the abstract files are  *)
(* those it found.                                                         *)

Writing == job.pc \in {"prepare", "replace", "unlink", "restore"}

Found == IF Writing THEN seen.before ELSE tree

AP == INSTANCE AtomicPatch WITH
  Contents <- Files,
  files    <- Found,
  pre      <- patch.pre,
  post     <- patch.post,
  broken   <- seen.undone,
  trusted  <- Undisturbed

(* File by file, through temporaries, with failing writes, rollbacks,      *)
(* kills and second attempts by later processes, a patch is what the loop  *)
(* and the recovery take it for: applied as a whole or not at all, but for *)
(* a kill, which leaves each file old or new, and a rollback cut short.    *)
KeepsPatchPromise == AP!Spec
===============================================================================
