--------------------------- MODULE PatchWriterProofs ---------------------------
(***************************************************************************)
(* What holds of the worktree while a patch is written, for every set of   *)
(* files and hunks, every diff and any number of kills, short writes and   *)
(* writes of other programs.                                               *)
(***************************************************************************)
EXTENDS PatchWriter, WellFoundedInduction, TLAPS

-----------------------------------------------------------------------------
(* Induction over numbers.  The library's principles quantify over a       *)
(* predicate; a set does as well, and the provers can instantiate it.      *)

(* A set of numbers that is not empty has a least one.                     *)
LEMMA LeastNumber ==
  ASSUME NEW T, T \subseteq Nat, T # {}
  PROVE  \E m \in T : \A n \in T : m <= n
  <1> DEFINE R == OpToRel(<, Nat)
  <1>1. IsWellFoundedOn(R, Nat)
    BY NatLessThanWellFounded
  <1>2. \A x, y \in Nat : <<x, y>> \in R <=> x < y
    BY DEF OpToRel
  <1> HIDE DEF R
  <1>3. PICK m \in T : \A n \in T : ~(<<n, m>> \in R)
    BY <1>1, WFMin
  <1>4. ASSUME NEW n \in T
        PROVE  m <= n
    <2>1. m \in Nat /\ n \in Nat /\ ~(n < m)
      BY <1>2, <1>3
    <2> QED
      BY <2>1
  <1> QED
    BY <1>4

(* What holds of 0 and is handed on from each number to the next holds of  *)
(* all.                                                                    *)
LEMMA Induction ==
  ASSUME NEW T, 0 \in T, \A n \in Nat : n \in T => n + 1 \in T
  PROVE  \A n \in Nat : n \in T
  <1> SUFFICES ASSUME Nat \ T # {} PROVE FALSE
    OBVIOUS
  <1>1. PICK m \in Nat \ T : \A n \in Nat \ T : m <= n
    BY LeastNumber
  <1>2. m # 0 /\ m - 1 \in Nat /\ m - 1 < m /\ (m - 1) + 1 = m
    BY <1>1
  <1>3. m - 1 \in T
    BY <1>1, <1>2
  <1> QED
    BY <1>1, <1>2, <1>3

(* A non-empty set of positions has a last one.                            *)
LEMMA LastPosition ==
  ASSUME NEW n \in Nat, NEW S, S \subseteq 1..n, S # {}
  PROVE  \E i \in S : \A j \in S : j <= i
  <1> DEFINE T == {k \in Nat : n - k \in S}
  <1>1. T \subseteq Nat /\ T # {}
    <2>1. PICK i \in S : TRUE
      OBVIOUS
    <2>2. i \in 1..n
      BY <2>1
    <2>3. n - i \in Nat /\ n - (n - i) = i
      BY <2>2
    <2> QED
      BY <2>1, <2>3
  <1>2. PICK m \in T : \A k \in T : m <= k
    BY <1>1, LeastNumber
  <1>3. \A j \in S : n - j \in T
    <2> TAKE j \in S
    <2>1. j \in 1..n
      OBVIOUS
    <2> QED
      BY <2>1
  <1>4. ASSUME NEW j \in S
        PROVE  j <= n - m
    <2>1. m \in Nat /\ j \in 1..n /\ m <= n - j
      BY <1>2, <1>3
    <2> QED
      BY <2>1
  <1> QED
    BY <1>2, <1>4

-----------------------------------------------------------------------------
(* Diffs, and what is planned for them.                                    *)

LEMMA DiffShape ==
  ASSUME NEW diff \in Diffs
  PROVE  /\ \E n \in Nat : n >= 1 /\ DOMAIN diff = 1..n /\ diff \in [1..n -> Sections]
         /\ \A i \in DOMAIN diff : diff[i] \in Sections
         /\ Len(diff) \in Nat /\ DOMAIN diff = 1..Len(diff)
         /\ AllPaths(diff) \subseteq Paths
  <1>1. PICK n \in 1..MaxSections : diff \in [1..n -> Sections]
    BY PatchAssumption DEF Diffs
  <1>2. n \in Nat /\ n >= 1
    BY <1>1, PatchAssumption
  <1>3. diff \in Seq(Sections) /\ Len(diff) = n
    BY <1>1, <1>2
  <1>4. \A s \in Sections : Involved(s) \subseteq Paths
    BY DEF Sections, Involved
  <1>5. AllPaths(diff) \subseteq Paths
    BY <1>1, <1>4 DEF AllPaths
  <1> QED
    BY <1>1, <1>2, <1>3, <1>5

(* The section that stands for a path is one that names it, and the only   *)
(* one if no two sections share a path.                                    *)
LastOf(diff, p) ==
  CHOOSE i \in DOMAIN diff :
    /\ p \in Involved(diff[i])
    /\ \A j \in DOMAIN diff : p \in Involved(diff[j]) => j <= i

LEMMA LastNames ==
  ASSUME NEW diff \in Diffs, NEW p \in AllPaths(diff)
  PROVE  LastOf(diff, p) \in DOMAIN diff /\ p \in Involved(diff[LastOf(diff, p)])
  <1> DEFINE S == {i \in DOMAIN diff : p \in Involved(diff[i])}
  <1>1. PICK n \in Nat : DOMAIN diff = 1..n
    BY DiffShape
  <1>2. S \subseteq 1..n /\ S # {}
    BY <1>1 DEF AllPaths
  <1>3. \E i \in S : \A j \in S : j <= i
    BY <1>2, LastPosition
  <1> QED
    BY <1>3 DEF LastOf

LEMMA PlannedIs ==
  ASSUME NEW t, NEW diff
  PROVE  /\ DOMAIN Planned(t, diff) = AllPaths(diff)
         /\ \A p \in AllPaths(diff) :
              Planned(t, diff)[p] = Writes(t, diff[LastOf(diff, p)])[p]
  BY DEF Planned, LastOf

Trees == [Paths -> Files]

(* Hunks that fit make a file of a file.                                   *)
LEMMA WritesFiles ==
  ASSUME NEW t \in Trees, NEW s \in Sections, NEW allow_delete,
         Applies(t, s, allow_delete)
  PROVE  \A p \in Involved(s) : Writes(t, s)[p] \in Files
  <1>1. CASE Creating(s)
    BY <1>1 DEF Sections, Involved, Writes, Original, WithHunk, Creating, Files
  <1>2. CASE ~Creating(s)
    <2>1. Original(t, s) = t[s.old] /\ s.old \in Paths /\ t[s.old] \in Files
      BY <1>2 DEF Original, Creating, Sections, Trees
    <2>2. WithHunk(t[s.old], s.hunk) \in Files
      <3>1. CASE s.hunk = {}
        BY <2>1, <3>1 DEF WithHunk
      <3>2. CASE s.hunk # {}
        <4>1. t[s.old] \in SUBSET Edits
          BY <2>1, <3>2 DEF Applies, HunkFits, Files
        <4>2. s.hunk \in SUBSET Edits
          BY DEF Sections
        <4> QED
          BY <3>2, <4>1, <4>2 DEF WithHunk, Files
      <3> QED
        BY <3>1, <3>2
    <2> QED
      BY <2>1, <2>2 DEF Writes, Files
  <1> QED
    BY <1>1, <1>2

LEMMA PlannedFiles ==
  ASSUME NEW t \in Trees, NEW diff \in Diffs, NEW allow_delete,
         Plannable(t, diff, allow_delete)
  PROVE  Planned(t, diff) \in [AllPaths(diff) -> Files]
  <1>1. ASSUME NEW p \in AllPaths(diff)
        PROVE  Planned(t, diff)[p] \in Files
    <2>1. /\ LastOf(diff, p) \in DOMAIN diff
          /\ p \in Involved(diff[LastOf(diff, p)])
          /\ diff[LastOf(diff, p)] \in Sections
      BY LastNames, DiffShape
    <2>2. Writes(t, diff[LastOf(diff, p)])[p] \in Files
      BY <2>1, WritesFiles DEF Plannable
    <2> QED
      BY <2>2, PlannedIs
  <1> QED
    BY <1>1, PlannedIs DEF Planned

(* Without allow_delete nothing is planned to disappear.                   *)
LEMMA NothingDeleted ==
  ASSUME NEW t \in Trees, NEW diff \in Diffs, Plannable(t, diff, FALSE),
         NEW p \in AllPaths(diff)
  PROVE  Planned(t, diff)[p] # Absent
  <1> DEFINE s == diff[LastOf(diff, p)]
  <1>1. LastOf(diff, p) \in DOMAIN diff /\ p \in Involved(s) /\ s \in Sections
    BY LastNames, DiffShape
  <1>2. Applies(t, s, FALSE)
    BY <1>1 DEF Plannable
  <1> HIDE DEF s
  <1>3. p = s.new /\ (Creating(s) \/ s.old = s.new)
    BY <1>1, <1>2 DEF Applies, Deleting, Renaming, Creating, Involved
  <1>4. Original(t, s) # Absent
    BY <1>2, PatchAssumption DEF Applies, Original
  <1>5. WithHunk(Original(t, s), s.hunk) # Absent
    <2>1. CASE s.hunk = {}
      BY <1>4, <2>1 DEF WithHunk
    <2>2. CASE s.hunk # {}
      <3>1. Original(t, s) \in SUBSET Edits
        BY <1>1, <1>2, <2>2 DEF Applies, HunkFits, Original, Trees, Files, Sections, Creating
      <3>2. s.hunk \in SUBSET Edits
        BY <1>1 DEF Sections
      <3>3. Original(t, s) \cup s.hunk \in SUBSET Edits
        BY <3>1, <3>2
      <3> QED
        BY <2>2, <3>3, PatchAssumption DEF WithHunk
    <2> QED
      BY <2>1, <2>2
  <1>6. Planned(t, diff)[p] = Writes(t, s)[p]
    BY PlannedIs DEF s
  <1> QED
    BY <1>1, <1>3, <1>5, <1>6 DEF Writes

(* What is planned depends on the files the diff names and on no other.    *)
LEMMA PlannedLooksAtItsFiles ==
  ASSUME NEW t, NEW u, NEW diff \in Diffs, \A p \in AllPaths(diff) : t[p] = u[p]
  PROVE  Planned(t, diff) = Planned(u, diff)
  <1>1. ASSUME NEW p \in AllPaths(diff)
        PROVE  Planned(t, diff)[p] = Planned(u, diff)[p]
    <2> DEFINE s == diff[LastOf(diff, p)]
    <2>1. LastOf(diff, p) \in DOMAIN diff /\ p \in Involved(s)
      BY LastNames
    <2>2. ~Creating(s) => s.old \in AllPaths(diff)
      BY <2>1 DEF Creating, AllPaths, Involved
    <2>3. Writes(t, s)[p] = Writes(u, s)[p]
      BY <2>1, <2>2 DEF Writes, Original
    <2> QED
      BY <2>3, PlannedIs
  <1> QED
    BY <1>1 DEF Planned

-----------------------------------------------------------------------------
(* The inductive invariant.                                                *)

Labels == {"none", "check", "plan", "prepare", "replace", "unlink", "restore"}
Images == UNION {[D -> Files] : D \in SUBSET Paths}

Typed ==
  /\ tree \in Trees /\ temps \in Trees
  /\ patch \in [diff : Diffs \cup {<<>>}, allow_delete : BOOLEAN,
                pre : Images, post : Images]
  /\ job \in [pc : Labels, planned : Images, originals : Images,
              todo : SUBSET Paths, made : SUBSET Paths]
  /\ result \in {"none", "applied", "already", "refused", "failed", "error"}
  /\ seen \in [start : Trees, before : Trees, alone : BOOLEAN, whole : BOOLEAN,
               spoiled : SUBSET Paths, undone : BOOLEAN]

Touched == AllPaths(patch.diff)

(* The window's images are those of the tree it was proposed on.           *)
Proposed ==
  /\ job.pc # "none" => patch.diff \in Diffs /\ result = "none"
  /\ job.pc = "none" => patch.diff = <<>> \/ result # "none"
  /\ \/ patch.diff = <<>> /\ DOMAIN patch.pre = {} /\ DOMAIN patch.post = {}
     \/ /\ patch.diff \in Diffs
        /\ Plannable(seen.start, patch.diff, patch.allow_delete)
        /\ patch.pre = Image(seen.start, patch.diff)
        /\ patch.post = Planned(seen.start, patch.diff)

(* The files that are to be written, and not unlinked.                     *)
ToWrite == {p \in Touched : job.planned[p] # Absent}

(* What the attempt under way has in hand.                                 *)
Planning ==
  /\ ~Writing => job = [NoJob EXCEPT !.pc = job.pc]
  /\ Writing => /\ job.planned = Planned(seen.before, patch.diff)
                /\ job.originals = Image(seen.before, patch.diff)
                /\ job.todo \subseteq Touched /\ job.made \subseteq ToWrite
  /\ job.pc = "prepare" => job.todo = ToWrite \ job.made
  /\ job.pc \in {"replace", "unlink"} => job.made = ToWrite
  /\ job.pc = "replace" => job.todo \subseteq job.made
  /\ job.pc = "unlink" => job.todo \cap job.made = {}

(* Where the temporaries are, and that those of the attempt are what was   *)
(* planned, unless a write was short.                                      *)
Temporaries ==
  /\ \A p \in Paths : temps[p] # Absent => p \in seen.spoiled \cup job.made
  /\ job.pc = "prepare" => \A p \in job.made : temps[p] \in {job.planned[p], Torn}
  /\ job.pc = "prepare" /\ seen.whole => \A p \in job.made : temps[p] = job.planned[p]
  /\ job.pc = "replace" =>
       \A p \in job.made : IF p \in job.todo
                             THEN /\ temps[p] \in {job.planned[p], Torn}
                                  /\ seen.whole => temps[p] = job.planned[p]
                             ELSE temps[p] = Absent
  /\ job.pc = "unlink" => \A p \in job.made : temps[p] = Absent

Old(p) == tree[p] = patch.pre[p]
New(p) == tree[p] = patch.post[p] \/ (~seen.whole /\ tree[p] = Torn)

(* How far the tree has come, if nobody else writes.                       *)
Progress ==
  seen.alone =>
    /\ seen.before = seen.start
    /\ \A p \in Paths \ Touched : tree[p] = seen.start[p]
    /\ \A p \in Touched : /\ tree[p] \in {patch.pre[p], patch.post[p], Torn}
                          /\ seen.whole /\ ~seen.undone => Old(p) \/ New(p)
    /\ job.pc \in {"plan", "prepare"} => \A p \in Touched : Old(p)
    /\ job.pc = "replace" =>
         \A p \in Touched : IF p \in job.made \ job.todo THEN New(p) ELSE Old(p)
    /\ job.pc = "unlink" => \A p \in Touched : IF p \in job.todo THEN Old(p) ELSE New(p)
    /\ job.pc = "restore" => \A p \in Touched \ job.todo : seen.whole => Old(p)

(* What a closed window says of the tree.                                  *)
Reported ==
  Undisturbed =>
    /\ result = "failed" => tree = seen.before
    /\ result \in {"applied", "already"} => \A p \in Touched : tree[p] = patch.post[p]

PatchInvariant == Typed /\ Proposed /\ Planning /\ Temporaries /\ Progress /\ Reported

-----------------------------------------------------------------------------
(* What the invariant says of the images and of the plan.                  *)

LEMMA EmptyImage == <<>> \in Images
  <1>1. <<>> \in [{} -> Files]
    OBVIOUS
  <1> QED
    BY <1>1 DEF Images

LEMMA ImageIs ==
  ASSUME NEW t \in Trees, NEW diff \in Diffs
  PROVE  /\ Image(t, diff) \in [AllPaths(diff) -> Files]
         /\ Image(t, diff) \in Images
         /\ \A p \in AllPaths(diff) : Image(t, diff)[p] = t[p]
  <1>1. AllPaths(diff) \subseteq Paths
    BY DiffShape
  <1>2. Image(t, diff) \in [AllPaths(diff) -> Files]
    BY <1>1 DEF Image, Trees
  <1> QED
    BY <1>1, <1>2 DEF Images, Image

LEMMA FileFacts ==
  /\ Absent \in Files /\ Torn \in Files /\ {} \in Files /\ Absent # Torn
  BY PatchAssumption DEF Files

LEMMA TouchedFacts ==
  ASSUME PatchInvariant
  PROVE  /\ Touched \subseteq Paths
         /\ patch.pre \in [Touched -> Files] /\ patch.post \in [Touched -> Files]
         /\ \A p \in Touched : patch.pre[p] = seen.start[p]
  <1>1. CASE patch.diff = <<>> /\ DOMAIN patch.pre = {} /\ DOMAIN patch.post = {}
    <2>1. Touched = {}
      BY <1>1 DEF Touched, AllPaths
    <2>2. patch.pre \in Images /\ patch.post \in Images
      BY DEF PatchInvariant, Typed
    <2> QED
      BY <1>1, <2>1, <2>2 DEF Images
  <1>2. CASE /\ patch.diff \in Diffs
             /\ Plannable(seen.start, patch.diff, patch.allow_delete)
             /\ patch.pre = Image(seen.start, patch.diff)
             /\ patch.post = Planned(seen.start, patch.diff)
    <2>1. seen.start \in Trees
      BY DEF PatchInvariant, Typed
    <2> QED
      BY <1>2, <2>1, DiffShape, ImageIs, PlannedFiles DEF Touched
  <1> QED
    BY <1>1, <1>2 DEF PatchInvariant, Proposed

LEMMA WritingFacts ==
  ASSUME PatchInvariant, Writing
  PROVE  /\ patch.diff \in Diffs
         /\ job.planned \in [Touched -> Files] /\ job.originals \in [Touched -> Files]
         /\ \A p \in Touched : job.originals[p] = seen.before[p]
         /\ seen.alone => job.planned = patch.post /\ job.originals = patch.pre
  <1>1. patch.diff \in Diffs /\ seen.before \in Trees /\ seen.start \in Trees
    BY DEF PatchInvariant, Proposed, Writing, Typed
  <1>2. /\ job.planned = Planned(seen.before, patch.diff) /\ job.planned \in Images
        /\ job.originals = Image(seen.before, patch.diff)
    BY DEF PatchInvariant, Planning, Typed
  <1>3. job.planned \in [Touched -> Files]
    BY <1>2, PlannedIs DEF Images, Touched
  <1>4. patch.diff # <<>>
    BY <1>1, DiffShape
  <1>5. /\ patch.pre = Image(seen.start, patch.diff)
        /\ patch.post = Planned(seen.start, patch.diff)
    BY <1>4 DEF PatchInvariant, Proposed
  <1>6. seen.alone => seen.before = seen.start
    BY DEF PatchInvariant, Progress
  <1> QED
    BY <1>1, <1>2, <1>3, <1>5, <1>6, ImageIs DEF Touched

-----------------------------------------------------------------------------
(* The steps keep the invariant.                                           *)

(* A proposal starts from the tree as it is.                               *)
LEMMA ProposeKeeps ==
  ASSUME PatchInvariant, NEW diff \in Diffs, NEW allow_delete \in BOOLEAN,
         Propose(diff, allow_delete)
  PROVE  PatchInvariant'
  <1>1. tree \in Trees /\ Image(tree, diff) \in Images /\ Planned(tree, diff) \in Images
    BY ImageIs, PlannedFiles, DiffShape DEF PatchInvariant, Typed, Propose, Images
  <1>2. /\ patch' = [diff |-> diff, allow_delete |-> allow_delete,
                     pre |-> Image(tree, diff), post |-> Planned(tree, diff)]
        /\ job' = [NoJob EXCEPT !.pc = "check"] /\ result' = "none"
        /\ seen' = Fresh(tree) /\ tree' = tree /\ temps' = temps
        /\ Plannable(tree, diff, allow_delete)
    BY DEF Propose
  <1>3. /\ job'.pc = "check" /\ job'.made = {} /\ job'.todo = {}
        /\ job'.planned = <<>> /\ job'.originals = <<>>
    BY <1>2 DEF NoJob
  <1>4. /\ seen'.start = tree /\ seen'.before = tree /\ seen'.alone /\ seen'.whole
        /\ seen'.spoiled = seen.spoiled /\ ~seen'.undone
    BY <1>2 DEF Fresh
  <1>5. Typed'
    BY <1>1, <1>2, EmptyImage DEF PatchInvariant, Typed, NoJob, Labels, Fresh
  <1>6. Proposed'
    BY <1>2, <1>4 DEF Proposed
  <1>7. Planning'
    BY <1>2, <1>3 DEF Planning, Writing, NoJob
  <1>8. job.made = {}
    BY DEF Propose, PatchInvariant, Planning, Writing, NoJob
  <1>9. Temporaries'
    BY <1>2, <1>3, <1>4, <1>8 DEF PatchInvariant, Temporaries
  <1>10. Progress'
    <2>1. \A p \in AllPaths(diff) : tree[p] = Image(tree, diff)[p]
      BY <1>1, ImageIs
    <2> QED
      BY <1>2, <1>3, <1>4, <2>1 DEF Progress, Touched, Old, New
  <1>11. Reported'
    BY <1>2 DEF Reported
  <1> QED
    BY <1>5, <1>6, <1>7, <1>9, <1>10, <1>11 DEF PatchInvariant

(* Checking changes nothing but the place of the attempt, or closes it.    *)
LEMMA CheckKeeps ==
  ASSUME PatchInvariant, Check
  PROVE  PatchInvariant'
  <1> USE DEF Check
  <1>1. /\ job.pc = "check" /\ ~Writing /\ job.made = {} /\ job.todo = {}
        /\ job = [NoJob EXCEPT !.pc = "check"]
    BY DEF PatchInvariant, Planning, Writing, NoJob
  <1>2. /\ job' = [NoJob EXCEPT !.pc = job'.pc] /\ job'.pc \in {"none", "plan"}
        /\ job'.made = {}
        /\ job'.pc = "plan" <=> result' = "none"
        /\ result' \in {"none", "already", "refused"}
        /\ result' = "already" => Matches(patch.post)
        /\ job'.pc = "plan" => Matches(patch.pre)
    <2>1. result = "none"
      BY <1>1 DEF PatchInvariant, Proposed
    <2>2. CASE Matches(patch.post)
      <3>1. job' = NoJob /\ result' = "already"
        BY <2>2 DEF Close
      <3> QED
        BY <2>2, <3>1 DEF NoJob
    <2>3. CASE ~Matches(patch.post) /\ ~Matches(patch.pre)
      <3>1. job' = NoJob /\ result' = "refused"
        BY <2>3 DEF Close
      <3> QED
        BY <3>1 DEF NoJob
    <2>4. CASE ~Matches(patch.post) /\ Matches(patch.pre)
      <3>1. job' = [job EXCEPT !.pc = "plan"] /\ result' = "none"
        BY <2>1, <2>4
      <3> QED
        BY <1>1, <2>4, <3>1 DEF NoJob
    <2> QED
      BY <2>2, <2>3, <2>4
  <1>3. /\ Typed' /\ Proposed' /\ Planning' /\ Temporaries'
    BY <1>1, <1>2, EmptyImage
    DEF PatchInvariant, Typed, Proposed, Planning, Temporaries, NoJob, Labels, Writing
  <1>4. \A p \in Touched : p \in DOMAIN patch.pre /\ p \in DOMAIN patch.post
    BY TouchedFacts
  <1>5. Touched' = Touched
    BY DEF Touched
  <1>6. Progress'
    BY <1>2, <1>4, <1>5 DEF PatchInvariant, Progress, Matches, Old, New
  <1>7. Reported'
    BY <1>2, <1>4, <1>5 DEF Reported, Matches
  <1> QED
    BY <1>3, <1>6, <1>7 DEF PatchInvariant

(* Planning again on the tree the images matched gives what was previewed. *)
LEMMA PlanKeeps ==
  ASSUME PatchInvariant, Plan
  PROVE  PatchInvariant'
  <1>1. /\ job.pc = "plan" /\ job.made = {} /\ job.todo = {}
        /\ job = [NoJob EXCEPT !.pc = "plan"] /\ patch.diff \in Diffs
        /\ tree \in Trees
    BY DEF Plan, PatchInvariant, Planning, Writing, NoJob, Proposed, Typed
  <1>2. CASE ~Plannable(tree, patch.diff, patch.allow_delete)
    <2>1. /\ job' = NoJob /\ result' = "refused"
          /\ UNCHANGED <<tree, temps, patch, seen>>
      BY <1>2 DEF Plan, Close
    <2>2. Typed' /\ Proposed' /\ Planning' /\ Temporaries' /\ Progress' /\ Reported'
      BY <1>1, <2>1, EmptyImage
      DEF PatchInvariant, Typed, Proposed, Planning, Temporaries, Progress, Reported,
          NoJob, Labels, Writing, Touched, Old, New
    <2> QED
      BY <2>2 DEF PatchInvariant
  <1>3. CASE Plannable(tree, patch.diff, patch.allow_delete)
    <2> DEFINE planned == Planned(tree, patch.diff)
    <2>1. /\ job' = [job EXCEPT !.pc = "prepare", !.planned = planned,
                       !.originals = Image(tree, patch.diff),
                       !.todo = {p \in DOMAIN planned : planned[p] # Absent}]
          /\ seen' = [seen EXCEPT !.before = tree]
          /\ UNCHANGED <<tree, temps, patch, result>>
      BY <1>3 DEF Plan
    <2>2. planned \in [Touched -> Files]
      BY <1>1, <1>3, PlannedFiles DEF Touched
    <2>3. Touched \subseteq Paths
      BY TouchedFacts
    <2>4. planned \in Images /\ Image(tree, patch.diff) \in Images
      BY <1>1, <2>2, <2>3, ImageIs DEF Images
    <2> HIDE DEF planned
    <2>5. Typed'
      BY <2>1, <2>2, <2>3, <2>4, <1>1 DEF PatchInvariant, Typed, Labels
    <2>6. /\ job'.pc = "prepare" /\ job'.planned = planned /\ job'.made = {}
          /\ job'.originals = Image(tree, patch.diff)
          /\ job'.todo = {p \in Touched : planned[p] # Absent}
          /\ seen'.before = tree /\ seen'.start = seen.start /\ seen'.alone = seen.alone
          /\ seen'.whole = seen.whole /\ seen'.spoiled = seen.spoiled
          /\ seen'.undone = seen.undone /\ Touched' = Touched
      BY <1>1, <2>1, <2>2 DEF PatchInvariant, Typed, Touched
    <2>7. Proposed' /\ Planning' /\ Temporaries' /\ Reported'
      BY <1>1, <2>1, <2>6
      DEF PatchInvariant, Proposed, Planning, Temporaries, Reported, Writing, Touched,
          ToWrite, planned
    <2>8. seen.alone => tree = seen.start
      <3>1. seen.alone => \A p \in Paths : tree[p] = seen.start[p]
        BY <1>1, TouchedFacts DEF PatchInvariant, Progress, Old
      <3> QED
        BY <3>1 DEF PatchInvariant, Typed, Trees
    <2>9. Progress'
      BY <1>1, <2>1, <2>6, <2>8 DEF PatchInvariant, Progress, Old, New
    <2> QED
      BY <2>5, <2>7, <2>9 DEF PatchInvariant
  <1> QED
    BY <1>2, <1>3

(* One temporary is written.                                               *)
LEMMA PrepareKeeps ==
  ASSUME PatchInvariant, NEW p \in Paths, Prepare(p)
  PROVE  PatchInvariant'
  <1>1. job.pc = "prepare" /\ Writing /\ p \in job.todo /\ job.todo = ToWrite \ job.made
    BY DEF Prepare, Writing, PatchInvariant, Planning
  <1>2. p \in Touched /\ p \in ToWrite /\ job.planned[p] \in Files
    BY <1>1, WritingFacts DEF ToWrite
  <1>3. PICK c \in {job.planned[p], Torn} :
          /\ temps' = [temps EXCEPT ![p] = c]
          /\ seen' = [seen EXCEPT !.whole = @ /\ c = job.planned[p],
                                  !.spoiled = @ \ {p}]
    BY DEF Prepare, Written
  <1>4. /\ job' = [job EXCEPT !.todo = @ \ {p}, !.made = @ \cup {p}]
        /\ UNCHANGED <<tree, patch, result>>
    BY DEF Prepare
  <1>5. c \in Files
    BY <1>2, FileFacts
  <1>6. /\ job'.pc = "prepare" /\ job'.planned = job.planned
        /\ job'.originals = job.originals
        /\ job'.todo = job.todo \ {p} /\ job'.made = job.made \cup {p}
        /\ seen'.start = seen.start /\ seen'.before = seen.before
        /\ seen'.alone = seen.alone /\ seen'.undone = seen.undone
        /\ seen'.whole = (seen.whole /\ c = job.planned[p])
        /\ seen'.spoiled = seen.spoiled \ {p}
        /\ temps'[p] = c /\ \A q \in Paths : q # p => temps'[q] = temps[q]
    BY <1>1, <1>3, <1>4 DEF PatchInvariant, Typed, Trees
  <1>7. Typed'
    BY <1>3, <1>4, <1>5 DEF PatchInvariant, Typed, Trees
  <1>8. Touched' = Touched /\ ToWrite' = ToWrite /\ ToWrite \subseteq Paths
    BY <1>4, <1>6, TouchedFacts DEF Touched, ToWrite
  <1>9. Proposed' /\ Planning'
    BY <1>1, <1>2, <1>4, <1>6, <1>8 DEF PatchInvariant, Proposed, Planning, Writing
  <1>10. Temporaries'
    BY <1>1, <1>6, <1>8 DEF PatchInvariant, Temporaries, Planning
  <1>11. Progress'
    BY <1>1, <1>4, <1>6, <1>8 DEF PatchInvariant, Progress, Old, New
  <1>12. Reported'
    BY <1>1, <1>4 DEF PatchInvariant, Proposed, Reported
  <1> QED
    BY <1>7, <1>9, <1>10, <1>11, <1>12 DEF PatchInvariant

(* From one phase of the writing to the next.                              *)
LEMMA PhaseKeeps ==
  ASSUME PatchInvariant, Prepared \/ Replaced
  PROVE  PatchInvariant'
  <1>1. Writing /\ UNCHANGED <<tree, temps, patch, result, seen>>
    BY DEF Prepared, Replaced, Writing
  <1>2. Touched \subseteq Paths /\ Touched' = Touched
        /\ DOMAIN job.planned = Touched /\ ToWrite \subseteq Touched
        /\ job.made \subseteq ToWrite /\ job.todo \subseteq Paths /\ job.made \subseteq Paths
    BY <1>1, TouchedFacts, WritingFacts
    DEF Touched, ToWrite, PatchInvariant, Planning, Typed
  <1>3. CASE Prepared
    <2>1. /\ job'.pc = "replace" /\ job'.todo = job.made /\ job'.made = job.made
          /\ job'.planned = job.planned /\ job'.originals = job.originals
          /\ job.pc = "prepare" /\ job.made = ToWrite
      BY <1>3, <1>2 DEF Prepared, PatchInvariant, Typed, Planning
    <2>2. Typed'
      BY <1>1, <1>3 DEF Prepared, PatchInvariant, Typed, Labels
    <2>3. ToWrite' = ToWrite
      BY <1>2, <2>1 DEF ToWrite
    <2>4. Proposed' /\ Planning' /\ Temporaries' /\ Progress' /\ Reported'
      BY <1>1, <1>2, <2>1, <2>3
      DEF PatchInvariant, Proposed, Planning, Temporaries, Progress, Reported, Writing,
          Old, New, Undisturbed
    <2> QED
      BY <2>2, <2>4 DEF PatchInvariant
  <1>4. CASE Replaced
    <2>1. /\ job'.pc = "unlink" /\ job'.todo = Touched \ job.made /\ job'.made = job.made
          /\ job'.planned = job.planned /\ job'.originals = job.originals
          /\ job.pc = "replace" /\ job.todo = {} /\ job.made = ToWrite
      BY <1>4, <1>2 DEF Replaced, PatchInvariant, Typed, Planning
    <2>2. Typed'
      BY <1>1, <1>2, <1>4 DEF Replaced, PatchInvariant, Typed, Labels
    <2>3. ToWrite' = ToWrite
      BY <1>2, <2>1 DEF ToWrite
    <2>4. Proposed' /\ Planning' /\ Temporaries' /\ Progress' /\ Reported'
      BY <1>1, <1>2, <2>1, <2>3
      DEF PatchInvariant, Proposed, Planning, Temporaries, Progress, Reported, Writing,
          Old, New, Undisturbed
    <2> QED
      BY <2>2, <2>4 DEF PatchInvariant
  <1> QED
    BY <1>3, <1>4

(* One temporary takes the place of its file.                              *)
LEMMA ReplaceKeeps ==
  ASSUME PatchInvariant, NEW p \in Paths, Replace(p)
  PROVE  PatchInvariant'
  <1>1. /\ job.pc = "replace" /\ Writing /\ p \in job.todo
        /\ job.todo \subseteq job.made /\ job.made = ToWrite
        /\ UNCHANGED <<patch, result, seen>>
    BY DEF Replace, Writing, PatchInvariant, Planning
  <1>2. /\ p \in Touched /\ Touched \subseteq Paths
        /\ temps[p] \in {job.planned[p], Torn}
        /\ seen.whole => temps[p] = job.planned[p]
        /\ seen.alone => job.planned[p] = patch.post[p]
    BY <1>1, WritingFacts, TouchedFacts DEF ToWrite, PatchInvariant, Temporaries
  <1>3. /\ tree'[p] = temps[p] /\ temps'[p] = Absent
        /\ \A q \in Paths : q # p => tree'[q] = tree[q] /\ temps'[q] = temps[q]
        /\ job'.pc = "replace" /\ job'.todo = job.todo \ {p} /\ job'.made = job.made
        /\ job'.planned = job.planned /\ job'.originals = job.originals
    BY <1>1 DEF Replace, PatchInvariant, Typed, Trees
  <1>4. Typed'
    BY <1>1, FileFacts DEF Replace, PatchInvariant, Typed, Trees
  <1>5. Touched' = Touched /\ ToWrite' = ToWrite /\ ToWrite \subseteq Touched
    BY <1>1, <1>3 DEF Touched, ToWrite
  <1>6. Proposed' /\ Planning'
    BY <1>1, <1>3, <1>5 DEF PatchInvariant, Proposed, Planning, Writing
  <1>7. Temporaries'
    BY <1>1, <1>2, <1>3, <1>5 DEF PatchInvariant, Temporaries
  <1>8. Progress'
    BY <1>1, <1>2, <1>3, <1>5 DEF PatchInvariant, Progress, Old, New
  <1>9. Reported'
    BY <1>1 DEF PatchInvariant, Proposed, Reported
  <1> QED
    BY <1>4, <1>6, <1>7, <1>8, <1>9 DEF PatchInvariant

(* One deleted file goes.                                                  *)
LEMMA UnlinkKeeps ==
  ASSUME PatchInvariant, NEW p \in Paths, Unlink(p)
  PROVE  PatchInvariant'
  <1>1. /\ job.pc = "unlink" /\ Writing /\ p \in job.todo /\ p \in Touched
        /\ job.todo \cap job.made = {} /\ job.made = ToWrite
        /\ UNCHANGED <<temps, patch, result, seen>>
    BY DEF Unlink, Writing, PatchInvariant, Planning
  <1>2. /\ job.planned[p] = Absent /\ Touched \subseteq Paths
        /\ seen.alone => patch.post[p] = Absent
    BY <1>1, WritingFacts, TouchedFacts DEF ToWrite
  <1>3. /\ tree'[p] = Absent
        /\ \A q \in Paths : q # p => tree'[q] = tree[q]
        /\ job'.pc = "unlink" /\ job'.todo = job.todo \ {p} /\ job'.made = job.made
        /\ job'.planned = job.planned /\ job'.originals = job.originals
    BY <1>1 DEF Unlink, PatchInvariant, Typed, Trees
  <1>4. Typed'
    BY <1>1, FileFacts DEF Unlink, PatchInvariant, Typed, Trees
  <1>5. Touched' = Touched /\ ToWrite' = ToWrite
    BY <1>1, <1>3 DEF Touched, ToWrite
  <1>6. Proposed' /\ Planning' /\ Temporaries'
    BY <1>1, <1>3, <1>5 DEF PatchInvariant, Proposed, Planning, Temporaries, Writing
  <1>7. Progress'
    BY <1>1, <1>2, <1>3, <1>5 DEF PatchInvariant, Progress, Old, New
  <1>8. Reported'
    BY <1>1 DEF PatchInvariant, Proposed, Reported
  <1> QED
    BY <1>4, <1>6, <1>7, <1>8 DEF PatchInvariant

(* When no file is left, the patch is there.                               *)
LEMMA SucceedKeeps ==
  ASSUME PatchInvariant, Succeed
  PROVE  PatchInvariant'
  <1>1. /\ job.pc = "unlink" /\ job.todo = {} /\ Writing
        /\ job' = NoJob /\ result' = "applied"
        /\ UNCHANGED <<tree, temps, patch, seen>>
    BY DEF Succeed, Close, Writing
  <1>2. /\ job'.pc = "none" /\ job'.made = {} /\ Touched' = Touched
    BY <1>1 DEF NoJob, Touched
  <1>3. \A p \in Paths : temps[p] # Absent => p \in seen.spoiled
    BY <1>1 DEF PatchInvariant, Temporaries
  <1>4. Typed' /\ Proposed' /\ Planning' /\ Temporaries' /\ Progress'
    BY <1>1, <1>2, <1>3, EmptyImage
    DEF PatchInvariant, Typed, Proposed, Planning, Temporaries, Progress, Writing, NoJob,
        Labels, Old, New
  <1>5. Reported'
    BY <1>1, <1>2 DEF PatchInvariant, Progress, Reported, Undisturbed, New
  <1> QED
    BY <1>4, <1>5 DEF PatchInvariant

-----------------------------------------------------------------------------
(* The way back.                                                           *)

LEMMA RollBackIs ==
  ASSUME PatchInvariant, Writing, job' = RollBack
  PROVE  /\ job'.pc = "restore" /\ job'.todo = Touched /\ job'.made = job.made
         /\ job'.planned = job.planned /\ job'.originals = job.originals
         /\ job' \in [pc : Labels, planned : Images, originals : Images,
                      todo : SUBSET Paths, made : SUBSET Paths]
  BY WritingFacts, TouchedFacts DEF RollBack, PatchInvariant, Typed, Labels

(* Whatever fails before the rollback, every file of the patch is to be    *)
(* put back.                                                               *)
LEMMA FailureKeeps ==
  ASSUME PatchInvariant, StepFails \/ \E p \in Paths : PrepareFails(p)
  PROVE  PatchInvariant'
  <1>1. /\ Writing /\ job' = RollBack /\ UNCHANGED <<tree, patch, result>>
    BY DEF StepFails, PrepareFails, Writing
  <1>2. /\ temps' \in Trees /\ seen'.spoiled \subseteq Paths
        /\ seen' = [seen EXCEPT !.spoiled = seen'.spoiled]
        /\ \A p \in Paths : temps'[p] # Absent => p \in seen'.spoiled \cup job.made
    <2>1. CASE UNCHANGED <<temps, seen>>
      BY <2>1 DEF PatchInvariant, Typed, Temporaries
    <2>2. CASE ~UNCHANGED <<temps, seen>>
      <3>1. PICK p \in Paths :
              \/ /\ temps' = [temps EXCEPT ![p] = Torn]
                 /\ seen' = [seen EXCEPT !.spoiled = @ \cup {p}]
              \/ /\ temps' = [temps EXCEPT ![p] = Absent]
                 /\ seen' = [seen EXCEPT !.spoiled = @ \ {p}]
        BY <2>2 DEF StepFails, PrepareFails
      <3>2. CASE /\ temps' = [temps EXCEPT ![p] = Torn]
                 /\ seen' = [seen EXCEPT !.spoiled = @ \cup {p}]
        BY <3>2, FileFacts DEF PatchInvariant, Typed, Temporaries, Trees
      <3>3. CASE /\ temps' = [temps EXCEPT ![p] = Absent]
                 /\ seen' = [seen EXCEPT !.spoiled = @ \ {p}]
        BY <3>3, FileFacts DEF PatchInvariant, Typed, Temporaries, Trees
      <3> QED
        BY <3>1, <3>2, <3>3
    <2> QED
      BY <2>1, <2>2
  <1>3. /\ seen'.start = seen.start /\ seen'.before = seen.before
        /\ seen'.alone = seen.alone /\ seen'.whole = seen.whole
        /\ seen'.undone = seen.undone
    BY <1>2 DEF PatchInvariant, Typed
  <1>4. Typed'
    BY <1>1, <1>2, RollBackIs DEF PatchInvariant, Typed
  <1>5. Touched' = Touched /\ ToWrite' = ToWrite
    BY <1>1, RollBackIs DEF Touched, ToWrite
  <1>6. Proposed' /\ Planning' /\ Temporaries' /\ Progress' /\ Reported'
    BY <1>1, <1>2, <1>3, <1>5, RollBackIs
    DEF PatchInvariant, Proposed, Planning, Temporaries, Progress, Reported, Writing,
        Old, New, Undisturbed
  <1> QED
    BY <1>4, <1>6 DEF PatchInvariant

(* One file is put back, perhaps cut short.                                *)
LEMMA RestoreKeeps ==
  ASSUME PatchInvariant, NEW p \in Paths, Restore(p)
  PROVE  PatchInvariant'
  <1>1. /\ job.pc = "restore" /\ Writing /\ p \in job.todo /\ p \in Touched
        /\ UNCHANGED <<temps, patch, result>>
    BY DEF Restore, Writing, PatchInvariant, Planning
  <1>2. PICK c \in {job.originals[p], Torn} :
          /\ tree' = [tree EXCEPT ![p] = c]
          /\ seen' = [seen EXCEPT !.whole = @ /\ c = job.originals[p]]
    BY DEF Restore, Written
  <1>3. /\ c \in Files /\ Touched \subseteq Paths
        /\ seen.alone => job.originals[p] = patch.pre[p]
    BY <1>1, WritingFacts, TouchedFacts, FileFacts
  <1>4. /\ tree'[p] = c /\ \A q \in Paths : q # p => tree'[q] = tree[q]
        /\ job'.pc = "restore" /\ job'.todo = job.todo \ {p} /\ job'.made = job.made
        /\ job'.planned = job.planned /\ job'.originals = job.originals
        /\ seen'.start = seen.start /\ seen'.before = seen.before
        /\ seen'.alone = seen.alone /\ seen'.undone = seen.undone
        /\ seen'.spoiled = seen.spoiled
        /\ seen'.whole = (seen.whole /\ c = job.originals[p])
    BY <1>1, <1>2 DEF Restore, PatchInvariant, Typed, Trees
  <1>5. Typed'
    BY <1>1, <1>2, <1>3 DEF Restore, PatchInvariant, Typed, Trees
  <1>6. Touched' = Touched /\ ToWrite' = ToWrite
    BY <1>1, <1>4 DEF Touched, ToWrite
  <1>7. Proposed' /\ Planning' /\ Temporaries'
    BY <1>1, <1>4, <1>6 DEF PatchInvariant, Proposed, Planning, Temporaries, Writing
  <1>8. Progress'
    <2> SUFFICES ASSUME seen.alone PROVE Progress'
      BY <1>4 DEF Progress
    <2>1. c = patch.pre[p] \/ (c = Torn /\ (seen'.whole => c = patch.pre[p]))
      BY <1>3, <1>4
    <2>2. ASSUME NEW q \in Touched
          PROVE  /\ tree'[q] \in {patch.pre[q], patch.post[q], Torn}
                 /\ seen'.whole /\ ~seen.undone =>
                      tree'[q] \in {patch.pre[q], patch.post[q]}
                 /\ q \notin job'.todo /\ seen'.whole => tree'[q] = patch.pre[q]
      <3>1. CASE q = p
        BY <1>4, <2>1, <3>1
      <3>2. CASE q # p
        BY <1>1, <1>3, <1>4, <3>2 DEF PatchInvariant, Progress, Old, New
      <3> QED
        BY <3>1, <3>2
    <2>3. \A q \in Paths \ Touched : tree'[q] = seen.start[q]
      BY <1>1, <1>4 DEF PatchInvariant, Progress
    <2>4. seen.before = seen.start
      BY DEF PatchInvariant, Progress
    <2> QED
      BY <1>1, <1>4, <1>6, <2>2, <2>3, <2>4 DEF Progress, Old, New
  <1>9. Reported'
    BY <1>1 DEF PatchInvariant, Proposed, Reported
  <1> QED
    BY <1>5, <1>7, <1>8, <1>9 DEF PatchInvariant

(* The rollback itself fails: a file may be torn, and the temporaries stay.*)
LEMMA RestoreFailsKeeps ==
  ASSUME PatchInvariant, NEW p \in Paths, RestoreFails(p)
  PROVE  PatchInvariant'
  <1>1. /\ job.pc = "restore" /\ Writing /\ p \in job.todo /\ p \in Touched
        /\ job' = NoJob /\ result' = "error" /\ UNCHANGED <<temps, patch>>
        /\ seen' = [seen EXCEPT !.undone = TRUE,
                      !.spoiled = @ \cup {q \in job.made : temps[q] # Absent}]
    BY DEF RestoreFails, Close, Writing, PatchInvariant, Planning
  <1>2. tree' \in Trees /\ \A q \in Paths : tree'[q] = tree[q] \/ (q = p /\ tree'[q] = Torn)
    BY FileFacts DEF RestoreFails, PatchInvariant, Typed, Trees
  <1>3. /\ job'.pc = "none" /\ job'.made = {} /\ Touched' = Touched
        /\ seen'.start = seen.start /\ seen'.before = seen.before
        /\ seen'.alone = seen.alone /\ seen'.whole = seen.whole /\ seen'.undone
        /\ seen'.spoiled = seen.spoiled \cup {q \in job.made : temps[q] # Absent}
        /\ Touched \subseteq Paths
    BY <1>1, TouchedFacts DEF NoJob, Touched, PatchInvariant, Typed
  <1>4. Typed'
    BY <1>1, <1>2, EmptyImage DEF PatchInvariant, Typed, NoJob, Labels
  <1>5. Proposed' /\ Planning' /\ Temporaries'
    BY <1>1, <1>3 DEF PatchInvariant, Proposed, Planning, Temporaries, Writing, NoJob
  <1>6. Progress'
    BY <1>1, <1>2, <1>3 DEF PatchInvariant, Progress, Old, New
  <1>7. Reported'
    BY <1>1 DEF Reported
  <1> QED
    BY <1>4, <1>5, <1>6, <1>7 DEF PatchInvariant

(* Everything is back; the temporaries go, or some stay.                   *)
LEMMA RestoredKeeps ==
  ASSUME PatchInvariant, Restored \/ CleaningFails
  PROVE  PatchInvariant'
  <1>1. /\ job.pc = "restore" /\ Writing /\ job.todo = {} /\ job' = NoJob
        /\ result' \in {"failed", "error"} /\ UNCHANGED <<tree, patch>>
    BY DEF Restored, CleaningFails, Close, Writing
  <1>2. /\ temps' \in Trees /\ seen'.spoiled \subseteq Paths
        /\ seen' = [seen EXCEPT !.spoiled = seen'.spoiled]
        /\ \A p \in Paths : temps'[p] # Absent => p \in seen'.spoiled
    <2>1. CASE Restored
      BY <2>1, FileFacts DEF Restored, PatchInvariant, Typed, Temporaries, Trees
    <2>2. CASE CleaningFails
      <3>1. PICK kept \in SUBSET {p \in job.made : temps[p] # Absent} :
              /\ temps' = [p \in Paths |-> IF p \in job.made \ kept THEN Absent
                                                                    ELSE temps[p]]
              /\ seen' = [seen EXCEPT !.spoiled = @ \cup kept]
        BY <2>2 DEF CleaningFails
      <3>2. kept \subseteq Paths
        BY DEF PatchInvariant, Typed
      <3> QED
        BY <3>1, <3>2, FileFacts DEF PatchInvariant, Typed, Temporaries, Trees
    <2> QED
      BY <2>1, <2>2
  <1>3. /\ job'.pc = "none" /\ job'.made = {} /\ Touched' = Touched
        /\ seen'.start = seen.start /\ seen'.before = seen.before
        /\ seen'.alone = seen.alone /\ seen'.whole = seen.whole
        /\ seen'.undone = seen.undone
    BY <1>1, <1>2 DEF NoJob, Touched, PatchInvariant, Typed
  <1>4. Typed'
    BY <1>1, <1>2, EmptyImage DEF PatchInvariant, Typed, NoJob, Labels
  <1>5. Proposed' /\ Planning' /\ Temporaries' /\ Progress'
    BY <1>1, <1>2, <1>3
    DEF PatchInvariant, Proposed, Planning, Temporaries, Progress, Writing, NoJob, Old, New
  <1>6. Reported'
    <2>1. ASSUME Undisturbed
          PROVE  tree = seen.before
      <3>1. \A p \in Paths : tree[p] = seen.before[p]
        BY <1>1, <2>1, TouchedFacts DEF Undisturbed, PatchInvariant, Progress, Old
      <3> QED
        BY <3>1 DEF PatchInvariant, Typed, Trees
    <2> QED
      BY <1>1, <1>3, <2>1 DEF Reported, Undisturbed
  <1> QED
    BY <1>4, <1>5, <1>6 DEF PatchInvariant

-----------------------------------------------------------------------------
(* What comes from outside.                                                *)

(* The next process starts over; what the killed one was writing is torn.  *)
LEMMA KillKeeps ==
  ASSUME PatchInvariant, Kill
  PROVE  PatchInvariant'
  <1>1. /\ job.pc # "none" /\ job' = [NoJob EXCEPT !.pc = "check"]
        /\ UNCHANGED <<patch, result>>
        /\ patch.diff \in Diffs /\ result = "none"
    BY DEF Kill, PatchInvariant, Proposed
  <1>2. /\ job'.pc = "check" /\ job'.made = {} /\ job'.todo = {} /\ Touched' = Touched
    BY <1>1 DEF NoJob, Touched
  <1>3. /\ seen'.start = seen.start /\ seen'.before = seen.before
        /\ seen'.alone = seen.alone /\ seen'.whole = seen.whole
        /\ seen'.undone = (seen.undone \/ job.pc = "restore")
        /\ seen'.spoiled = {p \in Paths : temps'[p] # Absent}
        /\ seen' = [seen EXCEPT !.undone = seen'.undone, !.spoiled = seen'.spoiled]
    BY DEF Kill, PatchInvariant, Typed
  <1>4. /\ tree' \in Trees
        /\ \/ tree' = tree
           \/ /\ job.pc = "restore"
              /\ \E p \in Touched :
                   /\ tree'[p] = Torn
                   /\ \A q \in Paths : q # p => tree'[q] = tree[q]
    <2>1. CASE tree' = tree
      BY <2>1 DEF PatchInvariant, Typed
    <2>2. CASE tree' # tree
      <3>1. PICK p \in job.todo : job.pc = "restore" /\ tree' = [tree EXCEPT ![p] = Torn]
        BY <2>2 DEF Kill
      <3>2. p \in Touched /\ Touched \subseteq Paths
        BY <3>1, TouchedFacts DEF PatchInvariant, Planning, Writing
      <3> QED
        BY <3>1, <3>2, FileFacts DEF PatchInvariant, Typed, Trees
    <2> QED
      BY <2>1, <2>2
  <1>5. temps' \in Trees
    BY FileFacts DEF Kill, PatchInvariant, Typed, Trees
  <1>6. Typed'
    BY <1>1, <1>3, <1>4, <1>5, EmptyImage DEF PatchInvariant, Typed, NoJob, Labels
  <1>7. Proposed' /\ Planning' /\ Temporaries' /\ Reported'
    BY <1>1, <1>2, <1>3
    DEF PatchInvariant, Proposed, Planning, Temporaries, Reported, Writing, NoJob
  <1>8. Progress'
    <2> SUFFICES ASSUME seen.alone PROVE Progress'
      BY <1>3 DEF Progress
    <2>1. /\ seen.before = seen.start
          /\ \A p \in Paths \ Touched : tree[p] = seen.start[p]
          /\ \A p \in Touched : /\ tree[p] \in {patch.pre[p], patch.post[p], Torn}
                                /\ seen.whole /\ ~seen.undone =>
                                     tree[p] \in {patch.pre[p], patch.post[p]}
      BY DEF PatchInvariant, Progress, Old, New
    <2>2. /\ \A p \in Paths \ Touched : tree'[p] = seen.start[p]
          /\ \A p \in Touched : /\ tree'[p] \in {patch.pre[p], patch.post[p], Torn}
                                /\ seen'.whole /\ ~seen'.undone =>
                                     tree'[p] \in {patch.pre[p], patch.post[p]}
      <3>1. CASE tree' = tree
        BY <1>3, <2>1, <3>1
      <3>2. CASE tree' # tree
        <4>1. PICK p \in Touched : /\ tree'[p] = Torn
                                   /\ \A q \in Paths : q # p => tree'[q] = tree[q]
          BY <1>4, <3>2
        <4>2. seen'.undone /\ Touched \subseteq Paths
          BY <1>3, <1>4, <3>2, TouchedFacts
        <4> QED
          BY <2>1, <4>1, <4>2
      <3> QED
        BY <3>1, <3>2
    <2> QED
      BY <1>1, <1>2, <1>3, <2>1, <2>2 DEF Progress, Old, New
  <1> QED
    BY <1>6, <1>7, <1>8 DEF PatchInvariant

(* After the write of another program only the temporaries are accounted   *)
(* for.                                                                    *)
LEMMA MeddleKeeps ==
  ASSUME PatchInvariant, NEW p \in Paths, NEW content \in {Absent, {}}, Meddle(p, content)
  PROVE  PatchInvariant'
  <1>1. /\ UNCHANGED <<temps, patch, job, result>> /\ seen' = [seen EXCEPT !.alone = FALSE]
        /\ tree' \in Trees /\ Touched' = Touched /\ ToWrite' = ToWrite
    BY FileFacts DEF Meddle, PatchInvariant, Typed, Trees, Touched, ToWrite
  <1>2. /\ ~seen'.alone /\ seen'.start = seen.start /\ seen'.before = seen.before
        /\ seen'.spoiled = seen.spoiled /\ seen'.whole = seen.whole
    BY <1>1 DEF PatchInvariant, Typed
  <1>3. Typed'
    BY <1>1 DEF PatchInvariant, Typed
  <1>4. Proposed' /\ Planning' /\ Temporaries'
    BY <1>1, <1>2 DEF PatchInvariant, Proposed, Planning, Temporaries, Writing
  <1>5. Progress' /\ Reported'
    BY <1>2 DEF Progress, Reported, Undisturbed
  <1> QED
    BY <1>3, <1>4, <1>5 DEF PatchInvariant

LEMMA PatchInductive == PatchInvariant /\ [PatchNext]_patchVars => PatchInvariant'
  <1> SUFFICES ASSUME PatchInvariant, [PatchNext]_patchVars PROVE PatchInvariant'
    OBVIOUS
  <1>1. ASSUME NEW diff \in Diffs, NEW allow_delete \in BOOLEAN, Propose(diff, allow_delete)
        PROVE  PatchInvariant'
    BY <1>1, ProposeKeeps
  <1>2. CASE Check \/ Plan \/ Prepared \/ Replaced \/ Succeed
    BY <1>2, CheckKeeps, PlanKeeps, PhaseKeeps, SucceedKeeps
  <1>3. ASSUME NEW p \in Paths, Prepare(p) \/ Replace(p) \/ Unlink(p)
        PROVE  PatchInvariant'
    BY <1>3, PrepareKeeps, ReplaceKeeps, UnlinkKeeps
  <1>4. ASSUME StepFails \/ \E p \in Paths : PrepareFails(p)
        PROVE  PatchInvariant'
    BY <1>4, FailureKeeps
  <1>5. ASSUME NEW p \in Paths, Restore(p) \/ RestoreFails(p)
        PROVE  PatchInvariant'
    BY <1>5, RestoreKeeps, RestoreFailsKeeps
  <1>6. CASE Restored \/ CleaningFails
    BY <1>6, RestoredKeeps
  <1>7. CASE Kill
    BY <1>7, KillKeeps
  <1>8. ASSUME NEW p \in Paths, NEW content \in {Absent, {}}, Meddle(p, content)
        PROVE  PatchInvariant'
    BY <1>8, MeddleKeeps
  <1>9. CASE UNCHANGED patchVars
    BY <1>9
    DEF patchVars, PatchInvariant, Typed, Proposed, Planning, Temporaries, Progress,
        Reported, Writing, Undisturbed, Touched, ToWrite, Old, New
  <1> QED
    BY <1>1, <1>2, <1>3, <1>4, <1>5, <1>6, <1>7, <1>8, <1>9 DEF PatchNext, Write

LEMMA PatchAlways == PatchSpec => []PatchInvariant
  <1>1. PatchInit => PatchInvariant
    <2> SUFFICES ASSUME PatchInit PROVE PatchInvariant
      OBVIOUS
    <2>1. /\ Touched = {} /\ job.pc = "none" /\ job.made = {} /\ DOMAIN <<>> = {}
          /\ patch.diff = <<>> /\ DOMAIN patch.pre = {} /\ DOMAIN patch.post = {}
      BY DEF PatchInit, NoPatch, NoJob, Touched, AllPaths
    <2>2. tree \in Trees /\ temps \in Trees
      BY FileFacts DEF PatchInit, Trees
    <2>3. Typed
      BY <2>2, EmptyImage DEF PatchInit, Typed, NoPatch, NoJob, Labels
    <2>4. Proposed /\ Planning /\ Temporaries /\ Progress /\ Reported
      BY <2>1
      DEF PatchInit, NoJob, Proposed, Planning, Temporaries, Progress, Reported, Writing
    <2> QED
      BY <2>3, <2>4 DEF PatchInvariant
  <1> QED
    BY <1>1, PatchInductive, PTL DEF PatchSpec

-----------------------------------------------------------------------------
(* The plan and the sections one after the other.                          *)

(* The first n sections of the diff, planned at once on t.                 *)
AtOnce(t, diff, n) ==
  [p \in Paths |-> IF \E i \in 1..n : p \in Involved(diff[i]) THEN Planned(t, diff)[p]
                                                              ELSE t[p]]

(* If no two sections share a path, what is planned for a path is what the *)
(* section that names it writes.                                           *)
LEMMA OwnSection ==
  ASSUME NEW t, NEW diff, Disjoint(diff), NEW i \in DOMAIN diff, DOMAIN diff \subseteq Nat,
         NEW p \in Involved(diff[i])
  PROVE  p \in AllPaths(diff) /\ Planned(t, diff)[p] = Writes(t, diff[i])[p]
  <1>1. p \in AllPaths(diff)
    BY DEF AllPaths
  <1>2. \A j \in DOMAIN diff : p \in Involved(diff[j]) => j = i
    BY DEF Disjoint
  <1>3. LastOf(diff, p) = i
    <2>1. i \in Nat
      OBVIOUS
    <2>2. /\ p \in Involved(diff[i])
          /\ \A j \in DOMAIN diff : p \in Involved(diff[j]) => j <= i
      BY <1>2, <2>1
    <2>3. LastOf(diff, p) \in DOMAIN diff /\ p \in Involved(diff[LastOf(diff, p)])
      BY <2>2 DEF LastOf
    <2> QED
      BY <1>2, <2>3
  <1> QED
    BY <1>1, <1>3, PlannedIs

(* One more section, written on what the earlier ones made.                *)
LEMMA OneMoreSection ==
  ASSUME NEW t, NEW diff, NEW length \in Nat, DOMAIN diff = 1..length, Disjoint(diff),
         \A i \in 1..length : diff[i] \in Sections, NEW n \in 1..length
  PROVE  Applied(AtOnce(t, diff, n - 1), diff[n]) = AtOnce(t, diff, n)
  <1> DEFINE s == diff[n]
             before == AtOnce(t, diff, n - 1)
  <1>1. ASSUME NEW p \in Paths, p \in Involved(s)
        PROVE  ~\E i \in 1..(n - 1) : p \in Involved(diff[i])
    <2>1. \A i \in 1..(n - 1) : i \in DOMAIN diff /\ i # n
      OBVIOUS
    <2> QED
      BY <1>1, <2>1 DEF Disjoint
  <1>2. ASSUME NEW p \in Paths, p \in Involved(s)
        PROVE  Applied(before, s)[p] = AtOnce(t, diff, n)[p]
    <2>1. Applied(before, s)[p] = Writes(before, s)[p]
      BY <1>2 DEF Applied
    <2>2. ~Creating(s) => before[s.old] = t[s.old]
      <3>1. ~Creating(s) => s.old \in Involved(s) /\ s.old \in Paths
        BY DEF Sections, Creating, Involved
      <3> QED
        BY <1>1, <3>1 DEF AtOnce
    <2> HIDE DEF before
    <2>3. Writes(before, s)[p] = Writes(t, s)[p]
      BY <1>2, <2>2 DEF Writes, Original
    <2>4. AtOnce(t, diff, n)[p] = Planned(t, diff)[p]
      <3>1. n \in 1..n
        OBVIOUS
      <3> QED
        BY <1>2, <3>1 DEF AtOnce
    <2>5. Planned(t, diff)[p] = Writes(t, s)[p]
      BY <1>2, OwnSection
    <2> QED
      BY <2>1, <2>3, <2>4, <2>5
  <1>3. ASSUME NEW p \in Paths, p \notin Involved(s)
        PROVE  Applied(before, s)[p] = AtOnce(t, diff, n)[p]
    <2>1. (\E i \in 1..n : p \in Involved(diff[i]))
            <=> \E i \in 1..(n - 1) : p \in Involved(diff[i])
      BY <1>3
    <2> QED
      BY <1>3, <2>1 DEF Applied, AtOnce
  <1>4. /\ DOMAIN Applied(before, s) = Paths /\ DOMAIN AtOnce(t, diff, n) = Paths
        /\ Applied(before, s) = [p \in Paths |-> Applied(before, s)[p]]
        /\ AtOnce(t, diff, n) = [p \in Paths |-> AtOnce(t, diff, n)[p]]
    BY DEF Applied, AtOnce
  <1> HIDE DEF s, before
  <1>5. Applied(before, s) = AtOnce(t, diff, n)
    BY <1>2, <1>3, <1>4
  <1> QED
    BY <1>5 DEF s, before

(* The sections of a diff whose paths are all different make the same tree *)
(* one after the other as planned at once.                                 *)
LEMMA OneByOneIsAtOnce ==
  ASSUME NEW t \in Trees, NEW diff, NEW length \in Nat, Len(diff) = length,
         DOMAIN diff = 1..length, Disjoint(diff),
         \A i \in 1..length : diff[i] \in Sections
  PROVE  OneByOne(t, diff) = AtOnce(t, diff, length)
  <1> DEFINE trees == [n \in 0..length |-> AtOnce(t, diff, n)]
             step(f) == [n \in 0..length |-> IF n = 0 THEN t
                                                      ELSE Applied(f[n - 1], diff[n])]
             after == CHOOSE f : f = step(f)
  <1>1. AtOnce(t, diff, 0) = t
    <2>1. \A p \in Paths : ~\E i \in 1..0 : p \in Involved(diff[i])
      OBVIOUS
    <2> QED
      BY <2>1 DEF AtOnce, Trees
  <1>2. trees = step(trees)
    <2>1. \A n \in 1..length : n - 1 \in 0..length
      OBVIOUS
    <2> QED
      BY <1>1, <2>1, OneMoreSection
  <1>3. OneByOne(t, diff) = after[length]
    BY DEF OneByOne
  <1> HIDE DEF trees
  <1>4. after = step(after)
    BY <1>2
  <1> HIDE DEF after
  <1> DEFINE agreeing == {n \in Nat : n \in 0..length => after[n] = AtOnce(t, diff, n)}
  <1>5. 0 \in agreeing
    BY <1>1, <1>4
  <1>6. ASSUME NEW n \in Nat, n \in agreeing
        PROVE  n + 1 \in agreeing
    <2> SUFFICES ASSUME n + 1 \in 0..length
                 PROVE  after[n + 1] = AtOnce(t, diff, n + 1)
      OBVIOUS
    <2>1. n \in 0..length /\ n + 1 \in 1..length /\ (n + 1) - 1 = n /\ n + 1 # 0
      OBVIOUS
    <2>2. after[n + 1] = Applied(after[n], diff[n + 1])
      BY <1>4, <2>1
    <2>3. after[n] = AtOnce(t, diff, n)
      BY <1>6, <2>1
    <2>4. Applied(AtOnce(t, diff, (n + 1) - 1), diff[n + 1]) = AtOnce(t, diff, n + 1)
      BY <2>1, OneMoreSection
    <2> QED
      BY <2>1, <2>2, <2>3, <2>4
  <1>7. length \in agreeing
    <2> HIDE DEF agreeing
    <2> QED
      BY <1>5, <1>6, Induction
  <1> QED
    BY <1>3, <1>7

-----------------------------------------------------------------------------
(* The theorems.                                                           *)

(* The variables of the patch writer keep their types.                     *)
THEOREM PatchTypeCorrect == PatchSpec => []TypeOK
  <1>1. PatchInvariant => TypeOK
    <2> SUFFICES ASSUME PatchInvariant PROVE TypeOK
      OBVIOUS
    <2>1. CASE Writing
      <3>1. job.todo \cup job.made \subseteq Touched
        BY <2>1 DEF PatchInvariant, Planning, ToWrite
      <3> QED
        BY <2>1, <3>1, WritingFacts, TouchedFacts
        DEF PatchInvariant, Typed, TypeOK, Trees, Labels
    <2>2. CASE ~Writing
      <3>1. /\ job.planned = <<>> /\ job.originals = <<>> /\ job.todo = {} /\ job.made = {}
            /\ DOMAIN job.planned = {}
        BY <2>2 DEF PatchInvariant, Planning, NoJob
      <3> QED
        BY <3>1 DEF PatchInvariant, Typed, TypeOK, Trees, Labels
    <2> QED
      BY <2>1, <2>2
  <1> QED
    BY <1>1, PatchAlways, PTL

(* A write that failed and was rolled back leaves every file of the        *)
(* worktree as the attempt found it.  TLC checks it as the Fail of         *)
(* AtomicPatch; here it needs no refinement.                               *)
FailedIsUntouched ==
  result = "failed" /\ Undisturbed => tree = seen.before

(* A patch that failed and was rolled back has left no trace, whichever of *)
(* its files failed.                                                       *)
THEOREM FailureLeavesNothing == PatchSpec => []FailedIsUntouched
  <1>1. PatchInvariant => FailedIsUntouched
    BY DEF PatchInvariant, Reported, FailedIsUntouched
  <1> QED
    BY <1>1, PatchAlways, PTL

(* Between any two writes, and after a kill, the images tell each file's   *)
(* state.                                                                  *)
THEOREM FilesStayOldOrNew == PatchSpec => []FilesAreOldOrNew
  <1>1. PatchInvariant => FilesAreOldOrNew
    BY TouchedFacts
    DEF PatchInvariant, Progress, FilesAreOldOrNew, Undisturbed, Old, New
  <1> QED
    BY <1>1, PatchAlways, PTL

(* No temporary outlives its attempt unnoticed.                            *)
THEOREM TempsStayAccounted == PatchSpec => []TempsAreAccounted
  <1>1. PatchInvariant => TempsAreAccounted
    <2> SUFFICES ASSUME PatchInvariant, job.pc \in {"none", "check"}
                 PROVE  {p \in Paths : temps[p] # Absent} \subseteq seen.spoiled
      BY DEF TempsAreAccounted
    <2>1. job.made = {}
      BY DEF PatchInvariant, Planning, Writing, NoJob
    <2> QED
      BY <2>1 DEF PatchInvariant, Temporaries
  <1> QED
    BY <1>1, PatchAlways, PTL

(* Nothing disappears without allow_delete: not by a rename, not in a      *)
(* rollback, and not when either is killed.                                *)
THEOREM NothingGoesUnasked == PatchSpec => []DeletionIsAllowed
  <1>1. PatchInvariant => DeletionIsAllowed
    <2> SUFFICES ASSUME PatchInvariant, seen.alone, ~patch.allow_delete, NEW p \in Paths,
                        seen.start[p] # Absent
                 PROVE  tree[p] # Absent
      BY DEF DeletionIsAllowed
    <2>1. CASE p \notin Touched
      BY <2>1 DEF PatchInvariant, Progress
    <2>2. CASE p \in Touched
      <3>1. patch.diff # <<>>
        BY <2>2 DEF Touched, AllPaths
      <3>2. /\ patch.diff \in Diffs /\ seen.start \in Trees /\ patch.allow_delete = FALSE
            /\ Plannable(seen.start, patch.diff, patch.allow_delete)
            /\ patch.post = Planned(seen.start, patch.diff)
        BY <3>1 DEF PatchInvariant, Typed, Proposed
      <3>3. patch.post[p] # Absent
        BY <2>2, <3>2, NothingDeleted DEF Touched
      <3>4. patch.pre[p] # Absent
        BY <2>2, TouchedFacts
      <3> QED
        BY <2>2, <3>3, <3>4, FileFacts DEF PatchInvariant, Progress
    <2> QED
      BY <2>1, <2>2
  <1> QED
    BY <1>1, PatchAlways, PTL

(* What is reported as applied is the patch, once and whole, whatever      *)
(* attempts came before: every section's work, one after the other, on the *)
(* tree the patch was proposed on.                                         *)
THEOREM AppliedStaysWhole == PatchSpec => []AppliedIsWhole
  <1>1. PatchInvariant => AppliedIsWhole
    <2> SUFFICES ASSUME PatchInvariant, result \in {"applied", "already"}, Undisturbed,
                        Disjoint(patch.diff)
                 PROVE  tree = OneByOne(seen.start, patch.diff)
      BY DEF AppliedIsWhole
    <2> DEFINE length == Len(patch.diff)
    <2>1. /\ length \in Nat /\ DOMAIN patch.diff = 1..length
          /\ \A i \in 1..length : patch.diff[i] \in Sections
      <3>1. CASE patch.diff = <<>>
        BY <3>1
      <3>2. CASE patch.diff \in Diffs
        BY <3>2, DiffShape
      <3> QED
        BY <3>1, <3>2 DEF PatchInvariant, Typed
    <2>2. seen.start \in Trees /\ tree \in Trees
      BY DEF PatchInvariant, Typed
    <2>3. OneByOne(seen.start, patch.diff) = AtOnce(seen.start, patch.diff, length)
      BY <2>1, <2>2, OneByOneIsAtOnce
    <2>4. ASSUME NEW p \in Paths
          PROVE  tree[p] = AtOnce(seen.start, patch.diff, length)[p]
      <3>1. (\E i \in 1..length : p \in Involved(patch.diff[i])) <=> p \in Touched
        BY <2>1 DEF Touched, AllPaths
      <3>2. CASE p \in Touched
        <4>1. patch.post = Planned(seen.start, patch.diff)
          BY <3>2 DEF PatchInvariant, Proposed, Touched, AllPaths
        <4> QED
          BY <3>1, <3>2, <4>1 DEF PatchInvariant, Reported, AtOnce
      <3>3. CASE p \notin Touched
        BY <3>1, <3>3 DEF PatchInvariant, Progress, Undisturbed, AtOnce
      <3> QED
        BY <3>2, <3>3
    <2>5. tree = AtOnce(seen.start, patch.diff, length)
      BY <2>2, <2>4 DEF Trees, AtOnce
    <2> QED
      BY <2>3, <2>5
  <1> QED
    BY <1>1, PatchAlways, PTL

-----------------------------------------------------------------------------
(* The refinement of AtomicPatch, step by step.                            *)

(* A diff names a file.                                                    *)
LEMMA DiffNames ==
  ASSUME NEW diff \in Diffs
  PROVE  AllPaths(diff) # {}
  <1>1. 1 \in DOMAIN diff /\ diff[1] \in Sections
    BY DiffShape
  <1>2. Involved(diff[1]) # {}
    BY <1>1 DEF Sections, Involved
  <1> QED
    BY <1>1, <1>2 DEF AllPaths

(* The files as the abstract patch has them, and when its window is open.  *)
LEMMA FoundFacts ==
  ASSUME PatchInvariant
  PROVE  /\ Found \in [Paths -> Files] /\ seen.undone \in BOOLEAN
         /\ Undisturbed \in BOOLEAN
         /\ DOMAIN patch.pre = Touched /\ DOMAIN patch.post = Touched
         /\ Writing /\ Undisturbed => \A p \in Touched : Found[p] = patch.pre[p]
         /\ AP!Open <=> job.pc # "none"
  <1>1. Found \in [Paths -> Files] /\ seen.undone \in BOOLEAN /\ Undisturbed \in BOOLEAN
    BY DEF PatchInvariant, Typed, Trees, Found, Undisturbed
  <1>2. DOMAIN patch.pre = Touched /\ DOMAIN patch.post = Touched
    BY TouchedFacts
  <1>3. Writing /\ Undisturbed => \A p \in Touched : Found[p] = patch.pre[p]
    BY TouchedFacts DEF Found, Undisturbed, PatchInvariant, Progress
  <1>4. AP!Open <=> job.pc # "none"
    <2>1. patch.diff = <<>> => Touched = {}
      BY DEF Touched, AllPaths
    <2>2. patch.diff \in Diffs => Touched # {}
      BY DiffNames DEF Touched
    <2> QED
      BY <1>2, <2>1, <2>2 DEF AP!Open, PatchInvariant, Proposed, Typed
  <1> QED
    BY <1>1, <1>2, <1>3, <1>4

(* Whatever happens to a patch nobody vouches for any more is allowed.     *)
LEMMA DistrustIsAtomic ==
  ASSUME PatchInvariant', patch' = patch, ~Undisturbed'
  PROVE  AP!Distrust
  <1>1. Found' \in [Paths -> Files] /\ seen'.undone \in BOOLEAN
    BY DEF PatchInvariant, Typed, Trees, Found
  <1> QED
    BY <1>1
    DEF AP!Distrust, AP!Trees, AP!Results, PatchInvariant, Typed

LEMMA ProposeIsAtomic ==
  ASSUME PatchInvariant, PatchInvariant', NEW diff \in Diffs, NEW allow_delete \in BOOLEAN,
         Propose(diff, allow_delete)
  PROVE  AP!Propose
  <1>1. ~AP!Open
    BY FoundFacts DEF Propose
  <1>2. /\ patch'.pre = Image(tree, diff) /\ patch'.post = Planned(tree, diff)
        /\ result' = "none" /\ ~seen'.undone /\ Undisturbed'
    BY DEF Propose, Fresh, Undisturbed
  <1>3. Found = tree /\ Found' = tree
    BY DEF Propose, Found, Writing, NoJob
  <1>4. /\ AllPaths(diff) \subseteq Paths /\ AllPaths(diff) # {}
        /\ patch'.post \in [AllPaths(diff) -> Files]
    BY <1>2, DiffShape, DiffNames, PlannedFiles DEF Propose, PatchInvariant, Typed
  <1>5. patch'.pre = [p \in DOMAIN patch'.post |-> Found[p]]
    BY <1>2, <1>3, <1>4 DEF Image
  <1>6. seen'.undone = FALSE /\ Undisturbed' = TRUE
    BY DEF Propose, Fresh, Undisturbed
  <1> QED
    BY <1>1, <1>2, <1>3, <1>4, <1>5, <1>6 DEF AP!Propose

(* What the images say decides, and nothing is written.                    *)
LEMMA CheckIsAtomic ==
  ASSUME PatchInvariant, Check, Undisturbed
  PROVE  [AP!Next]_(AP!atomicVars)
  <1>1. /\ job.pc = "check" /\ AP!Open /\ Found = tree
        /\ UNCHANGED <<tree, patch, seen>> /\ Undisturbed' = Undisturbed
        /\ Undisturbed = TRUE
    BY FoundFacts DEF Check, Found, Writing, Undisturbed, PatchInvariant, Typed
  <1>2. Found' = Found
    BY <1>1 DEF Check, Close, NoJob, Found, Writing, PatchInvariant, Typed
  <1>3. /\ AP!Holds(patch.post) <=> Matches(patch.post)
        /\ AP!Holds(patch.pre) <=> Matches(patch.pre)
    BY <1>1 DEF AP!Holds, Matches
  <1>4. CASE Matches(patch.post)
    BY <1>1, <1>2, <1>3, <1>4 DEF Check, Close, AP!Next, AP!Recognise, AP!Settle
  <1>5. CASE ~Matches(patch.post) /\ ~Matches(patch.pre)
    BY <1>1, <1>2, <1>3, <1>5 DEF Check, Close, AP!Next, AP!Refuse, AP!Settle
  <1>6. CASE ~Matches(patch.post) /\ Matches(patch.pre)
    BY <1>1, <1>2, <1>6 DEF Check, AP!atomicVars
  <1> QED
    BY <1>4, <1>5, <1>6

(* Planning is invisible: on the files that matched it cannot be refused.  *)
LEMMA PlanIsAtomic ==
  ASSUME PatchInvariant, Plan, Undisturbed
  PROVE  UNCHANGED AP!atomicVars
  <1>1. job.pc = "plan" /\ Found = tree /\ patch.diff \in Diffs /\ patch.diff # <<>>
    <2>1. job.pc = "plan" /\ patch.diff \in Diffs
      BY DEF Plan, PatchInvariant, Proposed
    <2> QED
      BY <2>1, DiffShape DEF Found, Writing
  <1>2. tree = seen.start
    <2>1. \A p \in Paths : tree[p] = seen.start[p]
      BY <1>1, TouchedFacts DEF PatchInvariant, Progress, Old, Undisturbed
    <2> QED
      BY <2>1 DEF PatchInvariant, Typed, Trees
  <1>3. Plannable(tree, patch.diff, patch.allow_delete)
    BY <1>1, <1>2 DEF PatchInvariant, Proposed
  <1>4. /\ job'.pc = "prepare" /\ seen' = [seen EXCEPT !.before = tree]
        /\ UNCHANGED <<tree, patch, result>>
    BY <1>3 DEF Plan, PatchInvariant, Typed
  <1>5. /\ seen'.before = tree /\ seen'.undone = seen.undone
        /\ seen'.alone = seen.alone /\ seen'.whole = seen.whole
    BY <1>4 DEF PatchInvariant, Typed
  <1> QED
    BY <1>1, <1>4, <1>5 DEF AP!atomicVars, Found, Writing, Undisturbed

(* The writing itself, and the way back, are invisible.                    *)
LEMMA WritingIsAtomic ==
  ASSUME PatchInvariant, Undisturbed, Undisturbed',
         \/ Prepared \/ Replaced \/ StepFails
         \/ \E p \in Paths : \/ Prepare(p) \/ Replace(p) \/ Unlink(p)
                             \/ PrepareFails(p) \/ Restore(p)
  PROVE  UNCHANGED AP!atomicVars
  <1>1. Writing /\ Writing' /\ patch' = patch /\ result' = result
    BY DEF Writing, Prepared, Replaced, StepFails, Prepare, Replace, Unlink, PrepareFails,
           Restore, RollBack, PatchInvariant, Typed
  <1>2. seen'.before = seen.before /\ seen'.undone = seen.undone
    BY DEF Prepared, Replaced, StepFails, Prepare, Replace, Unlink, PrepareFails,
           Restore, PatchInvariant, Typed
  <1>3. Undisturbed' = Undisturbed
    BY DEF Undisturbed, PatchInvariant, Typed, Prepared, Replaced, StepFails, Prepare,
           Replace, Unlink, PrepareFails, Restore
  <1> QED
    BY <1>1, <1>2, <1>3 DEF AP!atomicVars, Found

(* When the last file is written the whole patch is there at once.         *)
LEMMA SucceedIsAtomic ==
  ASSUME PatchInvariant, Succeed, Undisturbed
  PROVE  AP!Apply
  <1>1. /\ job.pc = "unlink" /\ job.todo = {} /\ Writing /\ ~Writing'
        /\ result' = "applied" /\ UNCHANGED <<tree, patch, seen>>
    BY DEF Succeed, Close, Writing, NoJob
  <1>2. AP!Open /\ Found = seen.before /\ Found' = tree /\ Undisturbed' = Undisturbed
    BY <1>1, FoundFacts DEF Found, Undisturbed
  <1>3. AP!Holds(patch.pre)
    BY <1>1, FoundFacts DEF AP!Holds
  <1>4. /\ \A p \in Touched : tree[p] = patch.post[p]
        /\ \A p \in Paths \ Touched : tree[p] = seen.before[p]
    BY <1>1 DEF PatchInvariant, Progress, Undisturbed, New
  <1>5. tree = [p \in Paths |-> IF p \in DOMAIN patch.post THEN patch.post[p]
                                                           ELSE seen.before[p]]
    BY <1>4, FoundFacts DEF PatchInvariant, Typed, Trees
  <1> QED
    BY <1>1, <1>2, <1>3, <1>5 DEF AP!Apply, AP!Settle

(* When the last file is put back nothing has happened.                    *)
LEMMA RestoredIsAtomic ==
  ASSUME PatchInvariant, Restored \/ CleaningFails, Undisturbed, Undisturbed'
  PROVE  AP!Fail
  <1>1. /\ job.pc = "restore" /\ job.todo = {} /\ Writing /\ ~Writing'
        /\ result' \in {"failed", "error"} /\ UNCHANGED <<tree, patch>>
        /\ seen'.undone = seen.undone
    BY DEF Restored, CleaningFails, Close, Writing, NoJob, PatchInvariant, Typed
  <1>2. AP!Open /\ Found = seen.before /\ Found' = tree
    BY <1>1, FoundFacts DEF Found
  <1>3. AP!Holds(patch.pre)
    BY <1>1, FoundFacts DEF AP!Holds
  <1>4. tree = seen.before
    <2>1. \A p \in Paths : tree[p] = seen.before[p]
      BY <1>1, TouchedFacts DEF PatchInvariant, Progress, Undisturbed, Old
    <2> QED
      BY <2>1 DEF PatchInvariant, Typed, Trees
  <1>5. Undisturbed' = Undisturbed
    BY DEF Undisturbed, Restored, CleaningFails, PatchInvariant, Typed
  <1> QED
    BY <1>1, <1>2, <1>3, <1>4, <1>5 DEF AP!Fail, AP!Settle

(* What is left between the files, seen from what the attempt found.       *)
LEMMA BetweenFiles ==
  ASSUME PatchInvariant, Undisturbed, job.pc # "none", job.pc # "check"
  PROVE  /\ AP!Open /\ AP!Holds(patch.pre)
         /\ \A p \in Paths \ Touched : tree[p] = Found[p]
         /\ \A p \in Touched : tree[p] \in {Found[p], patch.post[p], Torn}
         /\ job.pc # "restore" => \A p \in Touched : tree[p] \in {Found[p], patch.post[p]}
  <1>1. seen.alone /\ seen.whole /\ seen.before = seen.start
    BY DEF Undisturbed, PatchInvariant, Progress
  <1>2. \A p \in Touched : patch.pre[p] = Found[p]
    <2>1. CASE Writing
      BY <2>1, FoundFacts
    <2>2. CASE ~Writing
      BY <1>1, <2>2 DEF PatchInvariant, Typed, Labels, Writing, Found, Progress, Old
    <2> QED
      BY <2>1, <2>2
  <1>3. AP!Open /\ AP!Holds(patch.pre)
    BY <1>2, FoundFacts DEF AP!Holds
  <1>4. \A p \in Paths \ Touched : tree[p] = Found[p]
    BY <1>1 DEF PatchInvariant, Progress, Found
  <1>5. \A p \in Touched : tree[p] \in {Found[p], patch.post[p], Torn}
    BY <1>1, <1>2 DEF PatchInvariant, Progress
  <1>6. job.pc # "restore" => \A p \in Touched : tree[p] \in {Found[p], patch.post[p]}
    BY <1>1, <1>2 DEF PatchInvariant, Typed, Labels, Progress, Old, New
  <1> QED
    BY <1>3, <1>4, <1>5, <1>6

LEMMA RestoreFailsIsAtomic ==
  ASSUME PatchInvariant, PatchInvariant', NEW p \in Paths, RestoreFails(p),
         Undisturbed, Undisturbed'
  PROVE  AP!Break
  <1>1. /\ job.pc = "restore" /\ ~Writing' /\ result' = "error" /\ patch' = patch
        /\ seen'.undone = TRUE /\ Found' = tree'
    BY DEF RestoreFails, Close, Writing, NoJob, Found, PatchInvariant, Typed
  <1>2. p \in Touched
    BY DEF RestoreFails, PatchInvariant, Planning, Writing
  <1>3. \A q \in Paths : tree'[q] = tree[q] \/ (q = p /\ tree'[q] = Torn)
    BY DEF RestoreFails, PatchInvariant, Typed, Trees
  <1>4. \A q \in Paths : \/ tree'[q] = Found[q]
                         \/ q \in Touched /\ tree'[q] \in {patch.post[q], Torn}
    BY <1>1, <1>2, <1>3, BetweenFiles
  <1>5. Undisturbed' = Undisturbed
    BY DEF Undisturbed, RestoreFails, PatchInvariant, Typed
  <1> QED
    BY <1>1, <1>4, <1>5, BetweenFiles, FoundFacts
    DEF AP!Break, AP!Become, AP!Trees, PatchInvariant, Typed, Trees

(* A kill leaves old and new side by side, or breaks a rollback.           *)
LEMMA KillIsAtomic ==
  ASSUME PatchInvariant, PatchInvariant', Kill, Undisturbed, Undisturbed'
  PROVE  AP!Interrupt \/ AP!Break
  <1>1. /\ job.pc # "none" /\ job.pc # "check" /\ patch' = patch /\ result' = result
        /\ result = "none" /\ Found' = tree'
        /\ seen'.undone = (seen.undone \/ job.pc = "restore")
    BY DEF Kill, Found, Writing, NoJob, PatchInvariant, Proposed, Typed
  <1>2. tree' \in [Paths -> Files] /\ Undisturbed' = Undisturbed
    BY DEF Kill, PatchInvariant, Typed, Trees, Undisturbed
  <1>3. CASE job.pc # "restore"
    <2>1. tree' = tree /\ seen'.undone = seen.undone
      BY <1>1, <1>3 DEF Kill, PatchInvariant, Typed
    <2>2. \A q \in Paths : tree'[q] = Found[q] \/ (q \in Touched /\ tree'[q] = patch.post[q])
      BY <1>1, <1>3, <2>1, BetweenFiles
    <2> QED
      BY <1>1, <1>2, <2>1, <2>2, BetweenFiles, FoundFacts
      DEF AP!Interrupt, AP!Become, AP!Trees
  <1>4. CASE job.pc = "restore"
    <2>1. \A q \in Paths : tree'[q] = tree[q] \/ (q \in Touched /\ tree'[q] = Torn)
      <3>1. job.todo \subseteq Touched
        BY <1>4 DEF PatchInvariant, Planning, Writing
      <3>2. tree' = tree \/ \E p \in job.todo : tree' = [tree EXCEPT ![p] = Torn]
        BY DEF Kill
      <3> QED
        BY <3>1, <3>2 DEF PatchInvariant, Typed, Trees
    <2>2. \A q \in Paths : \/ tree'[q] = Found[q]
                           \/ q \in Touched /\ tree'[q] \in {patch.post[q], Torn}
      BY <1>1, <2>1, BetweenFiles
    <2>3. seen'.undone = TRUE
      BY <1>4 DEF Kill, PatchInvariant, Typed
    <2> QED
      BY <1>1, <1>2, <2>2, <2>3, BetweenFiles, FoundFacts
      DEF AP!Break, AP!Become, AP!Trees
  <1> QED
    BY <1>3, <1>4

(* Only a proposal takes the worktree as it is.                            *)
LEMMA TrustIsNotRegained ==
  ASSUME PatchInvariant, Undisturbed',
         Write \/ Kill \/ \E p \in Paths, content \in {Absent, {}} : Meddle(p, content)
  PROVE  Undisturbed
  <1> USE DEF Undisturbed, PatchInvariant, Typed
  <1>1. CASE Check \/ Plan \/ Prepared \/ Replaced \/ Succeed \/ StepFails
    BY <1>1 DEF Check, Plan, Prepared, Replaced, Succeed, StepFails
  <1>2. CASE Restored \/ CleaningFails \/ Kill
    BY <1>2 DEF Restored, CleaningFails, Kill
  <1>3. ASSUME NEW p \in Paths, Prepare(p) \/ Replace(p) \/ Unlink(p)
        PROVE  Undisturbed
    BY <1>3 DEF Prepare, Replace, Unlink
  <1>4. ASSUME NEW p \in Paths, PrepareFails(p) \/ Restore(p) \/ RestoreFails(p)
        PROVE  Undisturbed
    BY <1>4 DEF PrepareFails, Restore, RestoreFails
  <1>5. ASSUME NEW p \in Paths, NEW content \in {Absent, {}}, Meddle(p, content)
        PROVE  Undisturbed
    BY <1>5 DEF Meddle
  <1> QED
    BY <1>1, <1>2, <1>3, <1>4, <1>5 DEF Write

LEMMA StepIsAtomic ==
  PatchInvariant /\ PatchInvariant' /\ [PatchNext]_patchVars => [AP!Next]_(AP!atomicVars)
  <1> SUFFICES ASSUME PatchInvariant, PatchInvariant', [PatchNext]_patchVars
               PROVE  [AP!Next]_(AP!atomicVars)
    OBVIOUS
  <1> USE DEF AP!Next
  <1>1. ASSUME NEW diff \in Diffs, NEW allow_delete \in BOOLEAN, Propose(diff, allow_delete)
        PROVE  AP!Next
    BY <1>1, ProposeIsAtomic
  <1>2. ASSUME Write \/ Kill \/ \E p \in Paths, content \in {Absent, {}} : Meddle(p, content)
        PROVE  [AP!Next]_(AP!atomicVars)
    <2>1. patch' = patch
      BY <1>2 DEF Write, Check, Plan, Prepared, Replaced, Succeed, StepFails, Restored,
                  CleaningFails, Prepare, Replace, Unlink, PrepareFails, Restore,
                  RestoreFails, Kill, Meddle
    <2>2. CASE ~Undisturbed'
      BY <2>1, <2>2, DistrustIsAtomic
    <2>3. CASE Undisturbed'
      <3>1. Undisturbed
        BY <1>2, <2>3, TrustIsNotRegained
      <3>2. \A p \in Paths, content \in {Absent, {}} : ~Meddle(p, content)
        BY <2>3 DEF Undisturbed, Meddle, PatchInvariant, Typed
      <3>3. CASE Check \/ Plan
        BY <3>1, <3>3, CheckIsAtomic, PlanIsAtomic
      <3>4. CASE Succeed
        BY <3>1, <3>4, SucceedIsAtomic
      <3>5. CASE Restored \/ CleaningFails
        BY <2>3, <3>1, <3>5, RestoredIsAtomic
      <3>6. ASSUME NEW p \in Paths, RestoreFails(p)
            PROVE  AP!Next
        BY <2>3, <3>1, <3>6, RestoreFailsIsAtomic
      <3>7. CASE Kill
        BY <2>3, <3>1, <3>7, KillIsAtomic
      <3>8. CASE \/ Prepared \/ Replaced \/ StepFails
                 \/ \E p \in Paths : \/ Prepare(p) \/ Replace(p) \/ Unlink(p)
                                     \/ PrepareFails(p) \/ Restore(p)
        BY <2>3, <3>1, <3>8, WritingIsAtomic
      <3> QED
        BY <1>2, <3>2, <3>3, <3>4, <3>5, <3>6, <3>7, <3>8 DEF Write
    <2> QED
      BY <2>2, <2>3
  <1>3. CASE UNCHANGED patchVars
    BY <1>3 DEF patchVars, AP!atomicVars, Found, Writing, Undisturbed
  <1> QED
    BY <1>1, <1>2, <1>3 DEF PatchNext

(* A patch is one step, for every set of files, every diff, any number of  *)
(* attempts and kills: the loop and the recovery may take it so.           *)
THEOREM PatchIsAtomic == PatchSpec => KeepsPatchPromise
  <1>1. PatchInit => AP!Init
    <2> SUFFICES ASSUME PatchInit PROVE AP!Init
      OBVIOUS
    <2>1. Found = tree /\ Undisturbed = TRUE
      BY DEF PatchInit, Found, Writing, NoJob, Undisturbed
    <2>2. tree \in [Paths -> Files]
      BY FileFacts DEF PatchInit
    <2> QED
      BY <2>1, <2>2 DEF PatchInit, NoPatch, AP!Init, AP!Trees
  <1> QED
    BY <1>1, StepIsAtomic, PatchAlways, PTL DEF PatchSpec, KeepsPatchPromise, AP!Spec
================================================================================
