------------------------------ MODULE MemoryProofs ------------------------------
(***************************************************************************)
(* The history of decisions holds for every set of repositories, records   *)
(* and drafts: a superseded decision has one successor, its own.  That     *)
(* alone is not inductive: a record must never name one that is absent, or *)
(* whoever takes the free id would be born superseded.                     *)
(***************************************************************************)
EXTENDS Memory, FiniteSetTheorems, SequenceTheorems, TLAPS

NamedArePresent ==
  \A i \in Ids : memory[i].supersedes # None => memory[i].supersedes \in Present

MemoryInvariant == MemoryTypeOK /\ NamedArePresent /\ SupersededByOne

(* Where there is a record, it has the type of a record.                   *)
LEMMA RecordType ==
  ASSUME MemoryTypeOK, NEW i \in Ids
  PROVE  /\ i \in Present <=> memory[i] \in Records
         /\ i \in Present <=> memory[i] # NoRecord
         /\ memory[i].supersedes \in Ids \cup {None}
         /\ memory[i].supersedes # None => i \in Present
  BY MemoryAssumption DEF MemoryTypeOK, Present, Records, NoRecord

(* A record that replaces nothing starts a history of its own.             *)
LEMMA AddsAlone ==
  ASSUME MemoryInvariant, NEW repo \in Repos, NEW type \in Types, NEW draft \in Drafts,
         NEW i \in Ids, memory[i] = NoRecord,
         memory' = [memory EXCEPT ![i] = Record(repo, type, draft, None)], UNCHANGED now
  PROVE  MemoryInvariant'
  <1>1. Record(repo, type, draft, None) \in Records
    BY DEF Record, Records, MemoryInvariant, MemoryTypeOK
  <1>2. MemoryTypeOK'
    BY <1>1 DEF MemoryInvariant, MemoryTypeOK
  <1>3. i \notin Present /\ Present' = Present \cup {i}
    BY MemoryAssumption DEF Present, NoRecord, Record, MemoryInvariant, MemoryTypeOK
  <1>4. memory'[i].supersedes = None /\ \A j \in Ids : j # i => memory'[j] = memory[j]
    BY DEF Record, MemoryInvariant, MemoryTypeOK
  <1>5. NamedArePresent'
    BY <1>3, <1>4 DEF NamedArePresent, MemoryInvariant
  <1>6. \A j \in Present : memory[j].supersedes # i
    BY <1>3, MemoryAssumption DEF MemoryInvariant, NamedArePresent, Present
  <1>7. memory'[i].status = "active"
    BY DEF Record, MemoryInvariant, MemoryTypeOK
  <1>8. \A j \in Present : j # i /\ j \in Ids
    BY <1>3 DEF Present
  <1>9. i # None
    BY MemoryAssumption
  <1>10. SupersededByOne'
    <2>1. ASSUME NEW j \in Present'
          PROVE  memory'[j].status = "superseded" =>
                   \E k \in Present' : memory'[k].supersedes = j
      BY <1>3, <1>4, <1>7, <1>8, <2>1 DEF MemoryInvariant, SupersededByOne
    <2>2. ASSUME NEW j \in Present', NEW k \in Present', memory'[k].supersedes = j
          PROVE  j \in Present /\ k \in Present
      BY <1>3, <1>4, <1>6, <1>8, <2>2, MemoryAssumption DEF Present
    <2> QED
      BY <1>3, <1>4, <1>8, <2>1, <2>2 DEF MemoryInvariant, SupersededByOne
  <1> QED
    BY <1>2, <1>5, <1>10 DEF MemoryInvariant

(* A decision that replaces an active one becomes its one successor.       *)
LEMMA Replaces ==
  ASSUME MemoryInvariant, NEW repo \in Repos, NEW draft \in Drafts, NEW old \in Ids,
         NEW i \in Ids, AddDecision(repo, draft, old, i)
  PROVE  MemoryInvariant'
  <1>1. memory[old].repo = repo /\ memory[old].type = "decision"
        /\ memory[old].status = "active" /\ memory[i] = NoRecord
    BY MemoryAssumption DEF AddDecision, Replaceable
  <1>2. old \in Present /\ i \notin Present /\ old # i
    BY <1>1, MemoryAssumption DEF Present, NoRecord
  <1>3. /\ memory'[i] = Record(repo, "decision", draft, old)
        /\ memory'[old] = [memory[old] EXCEPT !.status = "superseded"]
        /\ \A j \in Ids : j # i /\ j # old => memory'[j] = memory[j]
    BY <1>2 DEF AddDecision
  <1>4. memory[old] \in Records
    BY <1>2, RecordType DEF MemoryInvariant
  <1>5. /\ memory'[old].status = "superseded" /\ memory'[old].repo = repo
        /\ memory'[old].type = "decision" /\ memory'[old].supersedes = memory[old].supersedes
        /\ memory'[old] \in Records
    BY <1>1, <1>3, <1>4 DEF Records
  <1>6. /\ memory'[i].status = "active" /\ memory'[i].repo = repo
        /\ memory'[i].type = "decision" /\ memory'[i].supersedes = old
        /\ memory'[i] \in Records
    BY <1>3 DEF Record, Records, Types, MemoryInvariant, MemoryTypeOK
  <1>7. MemoryTypeOK'
    BY <1>3, <1>5, <1>6 DEF AddDecision, MemoryInvariant, MemoryTypeOK
  <1>8. Present' = Present \cup {i}
    <2>1. ASSUME NEW j \in Ids
          PROVE  memory'[j].repo # None <=> j = i \/ memory[j].repo # None
      <3>1. repo # None
        BY MemoryAssumption
      <3>2. CASE j = i
        BY <1>6, <3>1, <3>2
      <3>3. CASE j = old
        BY <1>1, <1>5, <3>1, <3>3
      <3>4. CASE j # i /\ j # old
        BY <1>3, <3>4
      <3> QED
        BY <3>2, <3>3, <3>4
    <2> QED
      BY <2>1 DEF Present
  <1>9. \A j \in Ids : j # i => memory'[j].supersedes = memory[j].supersedes
                                /\ memory'[j].repo = memory[j].repo
                                /\ memory'[j].type = memory[j].type
    BY <1>1, <1>3, <1>5
  <1>10. NamedArePresent'
    BY <1>2, <1>6, <1>8, <1>9 DEF NamedArePresent, MemoryInvariant
  <1>11. \A j \in Present : memory[j].supersedes # i /\ memory[j].supersedes # old
    BY <1>1, <1>2, MemoryAssumption
    DEF MemoryInvariant, NamedArePresent, SupersededByOne, Present
  <1>12. \A j \in Present : j # i /\ j \in Ids
    BY <1>2 DEF Present
  <1>13. SupersededByOne'
    <2>1. ASSUME NEW j \in Present'
          PROVE  memory'[j].status = "superseded" =>
                   \E k \in Present' : memory'[k].supersedes = j
      <3>1. CASE j = old
        BY <1>6, <1>8, <3>1
      <3>2. CASE j # old
        BY <1>3, <1>6, <1>8, <1>9, <1>12, <3>2 DEF MemoryInvariant, SupersededByOne
      <3> QED
        BY <3>1, <3>2
    <2>2. ASSUME NEW j \in Present', NEW k \in Present', memory'[k].supersedes = j
          PROVE  /\ memory'[j].status = "superseded"
                 /\ memory'[j].type = "decision" /\ memory'[k].type = "decision"
                 /\ memory'[j].repo = memory'[k].repo
                 /\ \A l \in Present' : memory'[l].supersedes = j => l = k
      <3>1. CASE k = i
        <4>1. j = old
          BY <1>6, <2>2, <3>1
        <4>2. \A l \in Present' : memory'[l].supersedes = old => l = i
          BY <1>8, <1>9, <1>11, <1>12
        <4> QED
          BY <1>5, <1>6, <3>1, <4>1, <4>2
      <3>2. CASE k # i
        <4>1. k \in Present /\ k \in Ids /\ memory[k].supersedes = j
          BY <1>8, <1>9, <1>12, <2>2, <3>2
        <4>2. j \in Present /\ j \in Ids /\ j # i /\ j # old
          BY <1>8, <1>11, <1>12, <4>1
        <4>3. /\ memory[j].status = "superseded" /\ memory[j].type = "decision"
              /\ memory[k].type = "decision" /\ memory[j].repo = memory[k].repo
              /\ \A l \in Present : memory[l].supersedes = j => l = k
          BY <4>1, <4>2 DEF MemoryInvariant, SupersededByOne
        <4>4. memory'[j].status = "superseded"
          BY <1>3, <4>2, <4>3
        <4>5. \A l \in Present' : memory'[l].supersedes = j => l = k
          BY <1>6, <1>8, <1>9, <1>12, <4>2, <4>3
        <4> QED
          BY <1>9, <3>2, <4>1, <4>2, <4>3, <4>4, <4>5
      <3> QED
        BY <3>1, <3>2
    <2> QED
      BY <2>1, <2>2 DEF SupersededByOne
  <1> QED
    BY <1>7, <1>10, <1>13 DEF MemoryInvariant

(* What goes takes no successor from a decision that stays.                *)
LEMMA Deletes ==
  ASSUME MemoryInvariant, NEW gone \in SUBSET Ids, Delete(gone), UNCHANGED now,
         \A i, j \in Present : memory[j].supersedes = i /\ j \in gone => i \in gone
  PROVE  MemoryInvariant'
  <1>1. ASSUME NEW i \in Ids, i \in gone
        PROVE  memory'[i] = NoRecord /\ i \notin Present'
    BY <1>1 DEF Delete, Present, NoRecord
  <1>2. ASSUME NEW i \in Ids, i \notin gone
        PROVE  memory'[i] = IF memory[i].supersedes \in gone
                              THEN [memory[i] EXCEPT !.supersedes = None] ELSE memory[i]
    BY <1>2 DEF Delete
  <1>3. ASSUME NEW i \in Ids, i \notin gone
        PROVE  /\ memory'[i] \in Records \cup {NoRecord}
               /\ memory'[i].repo = memory[i].repo /\ memory'[i].type = memory[i].type
               /\ memory'[i].status = memory[i].status
               /\ memory'[i].supersedes = IF memory[i].supersedes \in gone
                                            THEN None ELSE memory[i].supersedes
    <2>1. CASE memory[i].supersedes \in gone
      <3>1. memory[i] \in Records
        BY <2>1, RecordType, MemoryAssumption DEF MemoryInvariant
      <3>2. memory'[i] = [memory[i] EXCEPT !.supersedes = None]
        BY <1>2, <1>3, <2>1
      <3> QED
        BY <2>1, <3>1, <3>2 DEF Records
    <2>2. CASE memory[i].supersedes \notin gone
      BY <1>2, <1>3, <2>2 DEF MemoryInvariant, MemoryTypeOK
    <2> QED
      BY <2>1, <2>2
  <1>4. MemoryTypeOK'
    BY <1>1, <1>3 DEF Delete, MemoryInvariant, MemoryTypeOK
  <1>5. Present' = Present \ gone
    BY <1>1, <1>3 DEF Present
  <1>6. ASSUME NEW j \in Ids, memory'[j].supersedes # None
        PROVE  /\ j \notin gone /\ memory'[j].supersedes = memory[j].supersedes
               /\ memory[j].supersedes \notin gone /\ memory[j].supersedes # None
    <2>1. j \notin gone
      BY <1>1, <1>6 DEF NoRecord
    <2> QED
      BY <1>3, <1>6, <2>1
  <1>7. NamedArePresent'
    BY <1>5, <1>6 DEF NamedArePresent, MemoryInvariant
  <1>8. None \notin Present /\ Present \subseteq Ids
    BY MemoryAssumption DEF Present
  <1>9. SupersededByOne'
    <2>1. ASSUME NEW i \in Present', memory'[i].status = "superseded"
          PROVE  \E j \in Present' : memory'[j].supersedes = i
      <3>1. i \in Present /\ i \notin gone /\ memory[i].status = "superseded"
        BY <1>3, <1>5, <1>8, <2>1
      <3>2. PICK j \in Present : memory[j].supersedes = i
        BY <3>1 DEF MemoryInvariant, SupersededByOne
      <3>3. j \notin gone
        BY <3>1, <3>2
      <3> QED
        BY <1>3, <1>5, <1>8, <3>1, <3>2, <3>3
    <2>2. ASSUME NEW i \in Present', NEW j \in Present', memory'[j].supersedes = i
          PROVE  /\ memory'[i].status = "superseded"
                 /\ memory'[i].type = "decision" /\ memory'[j].type = "decision"
                 /\ memory'[i].repo = memory'[j].repo
                 /\ \A k \in Present' : memory'[k].supersedes = i => k = j
      <3>1. /\ i \in Present /\ i \in Ids /\ i \notin gone /\ i # None
            /\ j \in Present /\ j \in Ids /\ j \notin gone
        BY <1>5, <1>8
      <3>2. memory[j].supersedes = i
        BY <1>6, <2>2, <3>1
      <3>3. /\ memory[i].status = "superseded" /\ memory[i].type = "decision"
            /\ memory[j].type = "decision" /\ memory[i].repo = memory[j].repo
            /\ \A k \in Present : memory[k].supersedes = i => k = j
        BY <3>1, <3>2 DEF MemoryInvariant, SupersededByOne
      <3>4. \A k \in Present' : memory'[k].supersedes = i => k = j
        BY <1>5, <1>6, <1>8, <3>1, <3>3
      <3> QED
        BY <1>3, <3>1, <3>3, <3>4
    <2> QED
      BY <2>1, <2>2 DEF SupersededByOne
  <1> QED
    BY <1>4, <1>7, <1>9 DEF MemoryInvariant

(* Every write of the notebook keeps the invariant.                        *)
LEMMA MemoryInductive == MemoryInvariant /\ [MemoryNext]_memoryVars => MemoryInvariant'
  <1> SUFFICES ASSUME MemoryInvariant, [MemoryNext]_memoryVars PROVE MemoryInvariant'
    OBVIOUS
  <1>1. ASSUME NEW repo \in Repos, NEW draft \in Drafts, NEW i \in Ids,
               AddConstraint(repo, draft, i) \/ AddTaskSummary(repo, draft, i)
        PROVE  MemoryInvariant'
    BY <1>1, AddsAlone DEF AddConstraint, AddTaskSummary, Types
  <1>2. ASSUME NEW repo \in Repos, NEW draft \in Drafts, NEW i \in Ids,
               NEW old \in Ids \cup {None}, AddDecision(repo, draft, old, i)
        PROVE  MemoryInvariant'
    <2>1. CASE old \in Ids
      BY <1>2, <2>1, Replaces
    <2>2. CASE old = None
      <3>1. memory' = [memory EXCEPT ![i] = Record(repo, "decision", draft, None)]
        BY <1>2, <2>2, MemoryAssumption DEF AddDecision, MemoryInvariant, MemoryTypeOK
      <3> QED
        BY <1>2, <3>1, AddsAlone DEF AddDecision, Types
    <2> QED
      BY <2>1, <2>2
  <1>3. ASSUME NEW repo \in Repos, GcTaskSummaries(repo)
        PROVE  MemoryInvariant'
    <2> DEFINE gone == Summaries(repo) \ Kept(repo)
    <2>1. gone \in SUBSET Ids /\ \A i \in gone : memory[i].type = "task_summary"
      BY DEF Summaries, In
    <2>2. ASSUME NEW i \in Present, NEW j \in Present, memory[j].supersedes = i
          PROVE  j \notin gone
      BY <2>1, <2>2 DEF MemoryInvariant, SupersededByOne
    <2>3. Delete(gone) /\ UNCHANGED now
      BY <1>3 DEF GcTaskSummaries
    <2> HIDE DEF gone
    <2> QED
      BY <2>1, <2>2, <2>3, Deletes
  <1>4. ASSUME NEW repo \in Repos, ClearRepo(repo)
        PROVE  MemoryInvariant'
    <2>1. In(repo) \in SUBSET Ids
      BY DEF In
    <2>2. ASSUME NEW i \in Present, NEW j \in Present, memory[j].supersedes = i, j \in In(repo)
          PROVE  i \in In(repo)
      BY <2>2 DEF MemoryInvariant, SupersededByOne, In, Present
    <2>3. Delete(In(repo)) /\ UNCHANGED now
      BY <1>4 DEF ClearRepo
    <2> QED
      BY <2>1, <2>2, <2>3, Deletes
  <1>5. CASE Tick
    BY <1>5 DEF Tick, MemoryInvariant, MemoryTypeOK, NamedArePresent, SupersededByOne, Present
  <1>6. CASE UNCHANGED memoryVars
    BY <1>6 DEF memoryVars, MemoryInvariant, MemoryTypeOK, NamedArePresent,
                SupersededByOne, Present
  <1> QED
    BY <1>1, <1>2, <1>3, <1>4, <1>5, <1>6 DEF MemoryNext

LEMMA MemoryAlways == MemorySpec => []MemoryInvariant
  <1>1. MemoryInit => MemoryInvariant
    BY MemoryAssumption
    DEF MemoryInit, MemoryInvariant, MemoryTypeOK, NamedArePresent, SupersededByOne, Present,
        NoRecord
  <1> QED
    BY <1>1, MemoryInductive, PTL DEF MemorySpec

(* A decision is superseded exactly when one decision of its repository    *)
(* names it, and two never do, however users add, replace, clear and clean *)
(* up.                                                                     *)
THEOREM OneSuccessor == MemorySpec => []SupersededByOne
  <1>1. MemoryInvariant => SupersededByOne
    BY DEF MemoryInvariant
  <1> QED
    BY <1>1, MemoryAlways, PTL

-----------------------------------------------------------------------------
(* Numbers.                                                                *)

(* A set of numbers that is not empty has a least one.                     *)
LEMMA LeastNumber ==
  ASSUME NEW T, T \subseteq Nat, T # {}
  PROVE  \E m \in T : \A n \in T : m <= n
  <1> DEFINE R == OpToRel(<, Nat)
  <1>1. IsWellFoundedOn(R, Nat)
    BY NatLessThanWellFounded
  <1>2. \A x, y \in Nat : <<x, y>> \in R <=> x < y
    BY DEF OpToRel
  <1> HIDE DEF R
  <1>3. PICK m \in T : \A n \in T : ~(<<n, m>> \in R)
    BY <1>1, WFMin
  <1>4. ASSUME NEW n \in T
        PROVE  m <= n
    <2>1. m \in Nat /\ n \in Nat /\ ~(n < m)
      BY <1>2, <1>3
    <2> QED
      BY <2>1
  <1> QED
    BY <1>4

(* What holds of 0 and is handed on from each number to the next holds of  *)
(* all.                                                                    *)
LEMMA Induction ==
  ASSUME NEW T, 0 \in T, \A n \in Nat : n \in T => n + 1 \in T
  PROVE  \A n \in Nat : n \in T
  <1> SUFFICES ASSUME Nat \ T # {} PROVE FALSE
    OBVIOUS
  <1>1. PICK m \in Nat \ T : \A n \in Nat \ T : m <= n
    BY LeastNumber
  <1>2. m # 0 /\ m - 1 \in Nat /\ m - 1 < m /\ (m - 1) + 1 = m
    BY <1>1
  <1>3. m - 1 \in T
    BY <1>1, <1>2
  <1> QED
    BY <1>1, <1>2, <1>3

-----------------------------------------------------------------------------
(* Counting what comes before.  A relation is a set of pairs here, which   *)
(* the provers can instantiate.                                            *)

(* The place of each member of a finite set in a strict total order.       *)
Rank(Y, R) == [i \in Y |-> Cardinality({j \in Y : <<j, i>> \in R})]

StrictOrder(Y, R) ==
  /\ \A i \in Y : <<i, i>> \notin R
  /\ \A i, j, k \in Y : <<i, j>> \in R /\ <<j, k>> \in R => <<i, k>> \in R
  /\ \A i, j \in Y : i # j => <<i, j>> \in R \/ <<j, i>> \in R

(* The places are 0, 1, 2 and so on, each taken once.                      *)
LEMMA Ranks ==
  ASSUME NEW Y, IsFiniteSet(Y), NEW R, StrictOrder(Y, R)
  PROVE  /\ Cardinality(Y) \in Nat
         /\ Rank(Y, R) \in [Y -> 0..(Cardinality(Y) - 1)]
         /\ \A i, j \in Y : <<i, j>> \in R <=> Rank(Y, R)[i] < Rank(Y, R)[j]
         /\ \A n \in 0..(Cardinality(Y) - 1) : \E i \in Y : Rank(Y, R)[i] = n
  <1> DEFINE before(i) == {j \in Y : <<j, i>> \in R}
             rank == Rank(Y, R)
             n == Cardinality(Y)
  <1>1. n \in Nat
    BY FS_CardinalityType
  <1>2. rank = [i \in Y |-> Cardinality(before(i))]
    BY DEF Rank
  <1>3. ASSUME NEW i \in Y
        PROVE  /\ IsFiniteSet(before(i)) /\ Cardinality(before(i)) \in Nat
               /\ Cardinality(before(i)) <= n - 1
    <2>1. before(i) \in SUBSET (Y \ {i})
      BY DEF StrictOrder
    <2>2. IsFiniteSet(Y \ {i}) /\ Cardinality(Y \ {i}) = n - 1
      BY FS_RemoveElement
    <2>3. IsFiniteSet(before(i)) /\ Cardinality(before(i)) <= n - 1
      <3> HIDE DEF before, n
      <3> QED
        BY <2>1, <2>2, FS_Subset
    <2> HIDE DEF before, n
    <2> QED
      BY <2>3, FS_CardinalityType
  <1>4. ASSUME NEW i \in Y, NEW j \in Y, <<i, j>> \in R
        PROVE  Cardinality(before(i)) < Cardinality(before(j))
    <2>1. before(i) \in SUBSET before(j) /\ i \in before(j) /\ i \notin before(i)
      BY <1>4 DEF StrictOrder
    <2> HIDE DEF before, n
    <2>2. /\ Cardinality(before(i)) <= Cardinality(before(j))
          /\ Cardinality(before(i)) # Cardinality(before(j))
      BY <1>3, <2>1, FS_Subset
    <2>3. Cardinality(before(i)) \in Nat /\ Cardinality(before(j)) \in Nat
      BY <1>3
    <2> QED
      BY <2>2, <2>3
  <1> HIDE DEF before, n, rank
  <1>5. rank \in [Y -> 0..(n - 1)]
    BY <1>1, <1>2, <1>3
  <1>6. ASSUME NEW i \in Y, NEW j \in Y
        PROVE  /\ <<i, j>> \in R <=> rank[i] < rank[j]
               /\ rank[i] = rank[j] => i = j
    <2>1. rank[i] \in Int /\ rank[j] \in Int
      BY <1>1, <1>5
    <2>2. i = j \/ <<i, j>> \in R \/ <<j, i>> \in R
      BY DEF StrictOrder
    <2>3. /\ <<i, j>> \in R => rank[i] < rank[j]
          /\ <<j, i>> \in R => rank[j] < rank[i]
      BY <1>2, <1>4
    <2>4. <<i, i>> \notin R
      BY DEF StrictOrder
    <2> QED
      BY <2>1, <2>2, <2>3, <2>4
  <1>7. \A m \in 0..(n - 1) : \E i \in Y : rank[i] = m
    <2>1. rank \in Injection(Y, 0..(n - 1))
      BY <1>5, <1>6 DEF Injection, IsInjective
    <2>2. IsFiniteSet(0..(n - 1)) /\ Cardinality(0..(n - 1)) = n
      BY <1>1, FS_Interval
    <2>3. rank \in Surjection(Y, 0..(n - 1))
      BY <2>1, <2>2, FS_Injection DEF n
    <2> QED
      BY <2>3 DEF Surjection
  <1> QED
    BY <1>1, <1>5, <1>6, <1>7 DEF rank, n

(* Before the one in place n or later there are n others.                  *)
LEMMA AsManyBefore ==
  ASSUME NEW Y, IsFiniteSet(Y), NEW R, StrictOrder(Y, R), NEW i \in Y,
         NEW n \in Nat, Rank(Y, R)[i] >= n, NEW D, IsFiniteSet(D),
         \A j \in Y : Rank(Y, R)[j] < n => j \in D
  PROVE  Cardinality(D) >= n
  <1> DEFINE rank == Rank(Y, R)
             at == [m \in 0..(n - 1) |-> CHOOSE j \in Y : rank[j] = m]
  <1>1. /\ Cardinality(Y) \in Nat /\ rank[i] \in 0..(Cardinality(Y) - 1)
        /\ \A m \in 0..(Cardinality(Y) - 1) : \E j \in Y : rank[j] = m
    BY Ranks
  <1> HIDE DEF rank
  <1>2. ASSUME NEW m \in 0..(n - 1)
        PROVE  at[m] \in Y /\ rank[at[m]] = m /\ at[m] \in D
    <2>1. m \in 0..(Cardinality(Y) - 1) /\ m < n
      BY <1>1 DEF rank
    <2>2. at[m] \in Y /\ rank[at[m]] = m
      BY <1>1, <2>1
    <2> QED
      BY <2>1, <2>2 DEF rank
  <1>3. at \in Injection(0..(n - 1), D)
    BY <1>2 DEF Injection, IsInjective
  <1>4. Cardinality(0..(n - 1)) = n
    BY FS_Interval
  <1>5. Cardinality(0..(n - 1)) <= Cardinality(D)
    BY <1>3, FS_Injection
  <1>6. Cardinality(D) \in Nat
    BY FS_CardinalityType
  <1> QED
    BY <1>4, <1>5, <1>6

-----------------------------------------------------------------------------
(* What may go.                                                            *)

(* A summary names no other record.                                        *)
LEMMA SummariesNameNone ==
  ASSUME MemoryInvariant, NEW i \in Ids, memory[i].type = "task_summary"
  PROVE  memory[i].supersedes = None
  <1> SUFFICES ASSUME memory[i].supersedes # None PROVE FALSE
    OBVIOUS
  <1>1. i \in Present /\ memory[i].supersedes \in Present
    BY RecordType DEF MemoryInvariant, NamedArePresent
  <1> QED
    BY <1>1 DEF MemoryInvariant, SupersededByOne

(* The young summaries of a repository, the newest first.                  *)
Young(repo) == {j \in Summaries(repo) : ~Aged(j)}
NewerOf == {pair \in Ids \X Ids : Newer(pair[1], pair[2])}

LEMMA YoungAreOrdered ==
  ASSUME MemoryInvariant, NEW repo \in Repos
  PROVE  IsFiniteSet(Young(repo)) /\ StrictOrder(Young(repo), NewerOf)
  <1>1. Young(repo) \in SUBSET Ids
    BY DEF Young, Summaries, In
  <1>2. IsFiniteSet(Young(repo))
    BY <1>1, MemoryAssumption, FS_Subset
  <1>3. ASSUME NEW i \in Ids
        PROVE  i \in Nat /\ memory[i].created \in Nat
    BY MemoryAssumption DEF MemoryInvariant, MemoryTypeOK, Records, NoRecord
  <1>4. \A i, j \in Ids : <<i, j>> \in NewerOf <=> Newer(i, j)
    BY DEF NewerOf
  <1>5. /\ \A i \in Ids : ~Newer(i, i)
        /\ \A i, j, k \in Ids : Newer(i, j) /\ Newer(j, k) => Newer(i, k)
        /\ \A i, j \in Ids : i # j => Newer(i, j) \/ Newer(j, i)
    BY <1>3 DEF Newer
  <1> HIDE DEF NewerOf
  <1> QED
    BY <1>1, <1>2, <1>4, <1>5 DEF StrictOrder

(* Collecting takes a young summary only where enough newer ones stay.     *)
LEMMA CollectsStale ==
  ASSUME MemoryInvariant, NEW repo \in Repos, GcTaskSummaries(repo),
         NEW i \in Summaries(repo) \ Kept(repo), ~Aged(i)
  PROVE  Cardinality({j \in Summaries(repo) : Newer(j, i) /\ memory'[j] = memory[j]})
           >= MaxSummaries
  <1> DEFINE D == {j \in Summaries(repo) : Newer(j, i) /\ memory'[j] = memory[j]}
             rank == Rank(Young(repo), NewerOf)
  <1>1. /\ IsFiniteSet(Young(repo)) /\ StrictOrder(Young(repo), NewerOf)
        /\ i \in Young(repo) /\ Young(repo) \subseteq Summaries(repo)
        /\ Summaries(repo) \in SUBSET Ids
    BY YoungAreOrdered DEF Young, Summaries, In
  <1>2. ASSUME NEW j \in Young(repo)
        PROVE  rank[j] = Cardinality({k \in Summaries(repo) : ~Aged(k) /\ Newer(k, j)})
    <2>1. {k \in Young(repo) : <<k, j>> \in NewerOf}
            = {k \in Summaries(repo) : ~Aged(k) /\ Newer(k, j)}
      BY <1>1 DEF Young, NewerOf
    <2> QED
      BY <2>1 DEF Rank
  <1>3. /\ \A j \in Young(repo) : j \in Kept(repo) <=> rank[j] < MaxSummaries
        /\ \A j \in Young(repo) : rank[j] \in Int
        /\ \A j, k \in Young(repo) : <<j, k>> \in NewerOf <=> rank[j] < rank[k]
    <2>1. \A j \in Young(repo) : j \in Kept(repo) <=> rank[j] < MaxSummaries
      BY <1>2 DEF Kept, Young
    <2>2. Cardinality(Young(repo)) \in Nat /\ rank \in [Young(repo) -> 0..(Cardinality(Young(repo)) - 1)]
      BY <1>1, Ranks
    <2>3. \A j, k \in Young(repo) : <<j, k>> \in NewerOf <=> rank[j] < rank[k]
      BY <1>1, Ranks
    <2> HIDE DEF rank
    <2>4. \A j \in Young(repo) : rank[j] \in Int
      BY <2>2
    <2> QED
      BY <2>1, <2>3, <2>4
  <1> HIDE DEF rank
  <1>4. rank[i] >= MaxSummaries
    BY <1>1, <1>3, MemoryAssumption
  <1>5. ASSUME NEW j \in Young(repo), rank[j] < MaxSummaries
        PROVE  j \in D
    <2>1. j \in Kept(repo) /\ j \in Ids /\ memory[j].type = "task_summary"
      BY <1>1, <1>3, <1>5 DEF Summaries
    <2>2. memory[j].supersedes = None
      BY <2>1, SummariesNameNone
    <2>3. memory'[j] = memory[j]
      <3>1. Delete(Summaries(repo) \ Kept(repo)) /\ None \notin Summaries(repo) \ Kept(repo)
        BY <1>1, MemoryAssumption DEF GcTaskSummaries
      <3> QED
        BY <2>1, <2>2, <3>1 DEF Delete
    <2>4. <<j, i>> \in NewerOf
      BY <1>1, <1>3, <1>4, <1>5, MemoryAssumption
    <2> QED
      BY <1>1, <2>3, <2>4 DEF NewerOf
  <1>6. IsFiniteSet(D)
    <2>1. D \in SUBSET Ids
      BY <1>1
    <2> QED
      BY <2>1, MemoryAssumption, FS_Subset
  <1> HIDE DEF D
  <1>7. Cardinality(D) >= MaxSummaries
    BY <1>1, <1>4, <1>5, <1>6, MemoryAssumption, AsManyBefore DEF rank
  <1> QED
    BY <1>7 DEF D


(* What a step may take from the notebook.                                 *)
MayGo(i) ==
  \/ \A j \in In(memory[i].repo) : memory'[j].repo = None
  \/ /\ memory[i].type = "task_summary"
     /\ \/ Aged(i)
        \/ Cardinality({j \in Summaries(memory[i].repo) :
               Newer(j, i) /\ memory'[j] = memory[j]}) >= MaxSummaries

LEMMA StepsTakeStale ==
  ASSUME MemoryInvariant, MemoryNext, NEW i \in Present, memory'[i].repo = None
  PROVE  MayGo(i)
  <1>1. i \in Ids /\ memory[i].repo # None /\ memory[i] # NoRecord
    BY DEF Present, NoRecord
  <1>2. \A repo \in Repos : repo # None
    BY MemoryAssumption
  <1>3. ASSUME NEW repo \in Repos, NEW draft \in Drafts, NEW k \in Ids,
               AddConstraint(repo, draft, k) \/ AddTaskSummary(repo, draft, k)
        PROVE  FALSE
    BY <1>1, <1>2, <1>3 DEF AddConstraint, AddTaskSummary, Record, MemoryInvariant,
       MemoryTypeOK
  <1>4. ASSUME NEW repo \in Repos, NEW draft \in Drafts, NEW k \in Ids,
               NEW old \in Ids \cup {None}, AddDecision(repo, draft, old, k)
        PROVE  FALSE
    <2>1. i # k
      BY <1>1, <1>4 DEF AddDecision
    <2>2. memory'[i] = memory[i] \/ memory'[i] = [memory[i] EXCEPT !.status = "superseded"]
      BY <1>1, <1>4, <2>1 DEF AddDecision
    <2>3. memory[i] \in Records
      BY <1>1, RecordType DEF MemoryInvariant
    <2> QED
      BY <1>1, <2>2, <2>3 DEF Records
  <1>5. ASSUME NEW gone \in SUBSET Ids, Delete(gone)
        PROVE  i \in gone
    <2> SUFFICES ASSUME i \notin gone PROVE FALSE
      OBVIOUS
    <2>1. memory'[i] = memory[i] \/ memory'[i] = [memory[i] EXCEPT !.supersedes = None]
      BY <1>1, <1>5 DEF Delete
    <2>2. memory[i] \in Records
      BY <1>1, RecordType DEF MemoryInvariant
    <2> QED
      BY <1>1, <2>1, <2>2 DEF Records
  <1>6. ASSUME NEW repo \in Repos, GcTaskSummaries(repo)
        PROVE  MayGo(i)
    <2>1. i \in Summaries(repo) \ Kept(repo)
      <3>1. Summaries(repo) \ Kept(repo) \in SUBSET Ids
        BY DEF Summaries, In
      <3> QED
        BY <1>5, <1>6, <3>1 DEF GcTaskSummaries
    <2>2. memory[i].type = "task_summary" /\ memory[i].repo = repo
      BY <2>1 DEF Summaries, In
    <2> QED
      BY <1>6, <2>1, <2>2, CollectsStale DEF MayGo
  <1>7. ASSUME NEW repo \in Repos, ClearRepo(repo)
        PROVE  MayGo(i)
    <2>1. In(repo) \in SUBSET Ids /\ Delete(In(repo))
      BY <1>7 DEF ClearRepo, In
    <2>2. memory[i].repo = repo
      BY <1>5, <2>1 DEF In
    <2>3. \A j \in In(repo) : memory'[j].repo = None
      BY <2>1 DEF Delete, NoRecord
    <2> QED
      BY <2>2, <2>3 DEF MayGo
  <1>8. CASE Tick
    BY <1>1, <1>8 DEF Tick
  <1> QED
    BY <1>3, <1>4, <1>6, <1>7, <1>8 DEF MemoryNext

(* A record goes with its whole repository, or as a summary that is too    *)
(* old or has MaxSummaries newer ones that stay: of gc_task_summaries and  *)
(* clear_repo, and of every other write.                                   *)
THEOREM OnlyStaleGo == MemorySpec => OnlyStaleSummariesGo
  <1>1. MemoryInvariant /\ [MemoryNext]_memoryVars =>
          [\A i \in Present : memory'[i].repo = None =>
             \/ \A j \in In(memory[i].repo) : memory'[j].repo = None
             \/ /\ memory[i].type = "task_summary"
                /\ \/ Aged(i)
                   \/ Cardinality({j \in Summaries(memory[i].repo) :
                          Newer(j, i) /\ memory'[j] = memory[j]}) >= MaxSummaries
          ]_memoryVars
    BY StepsTakeStale DEF MayGo
  <1> QED
    BY <1>1, MemoryAlways, PTL DEF MemorySpec, OnlyStaleSummariesGo

-----------------------------------------------------------------------------
(* The ranking.                                                            *)

LEMMA LeastIs ==
  ASSUME NEW m \in Nat, NEW n \in Nat
  PROVE  Least(m, n) \in Nat /\ Least(m, n) <= m /\ Least(m, n) <= n
         /\ (Least(m, n) = m \/ Least(m, n) = n)
  BY DEF Least

LEMMA ScoreIsNumber ==
  ASSUME NEW query \in Queries, NEW draft \in Drafts
  PROVE  Score(query, draft) \in Nat
  <1> DEFINE pairs == draft.paths \X query.paths
             related == {pq \in pairs : pq[1] # pq[2] /\ Related(pq[1], pq[2])}
  <1>1. /\ IsFiniteSet(draft.paths) /\ IsFiniteSet(draft.tags) /\ IsFiniteSet(draft.terms)
        /\ IsFiniteSet(query.paths)
    BY DraftAssumption, QueryAssumption
  <1>2. Cardinality(draft.paths \cap query.paths) \in Nat
    BY <1>1, FS_Intersection, FS_CardinalityType
  <1>3. Cardinality(draft.tags \cap query.tags) \in Nat
    BY <1>1, FS_Intersection, FS_CardinalityType
  <1>4. Cardinality(draft.terms \cap query.terms) \in Nat
    BY <1>1, FS_Intersection, FS_CardinalityType
  <1>5. Cardinality(related) \in Nat
    <2>1. IsFiniteSet(pairs)
      BY <1>1, FS_Product
    <2>2. related \in SUBSET pairs
      OBVIOUS
    <2> HIDE DEF pairs, related
    <2> QED
      BY <2>1, <2>2, FS_Subset, FS_CardinalityType
  <1>6. Score(query, draft)
          = 100 * Cardinality(draft.paths \cap query.paths) + 20 * Cardinality(related)
            + 10 * Cardinality(draft.tags \cap query.tags)
            + Cardinality(draft.terms \cap query.terms)
    BY DEF Score
  <1> HIDE DEF related
  <1> QED
    BY <1>2, <1>3, <1>4, <1>5, <1>6

Best(query) == {pair \in Ids \X Ids : Above(query, pair[1], pair[2])}

LEMMA CandidatesAreOrdered ==
  ASSUME MemoryTypeOK, NEW query \in Queries
  PROVE  /\ Candidates(query) \in SUBSET Ids
         /\ IsFiniteSet(Candidates(query)) /\ StrictOrder(Candidates(query), Best(query))
         /\ \A i, j \in Ids : <<i, j>> \in Best(query) <=> Above(query, i, j)
         /\ \A i \in Candidates(query) : memory[i] \in Records
  <1>1. /\ Candidates(query) \in SUBSET Ids
        /\ \A i \in Candidates(query) : memory[i] \in Records
    BY QueryAssumption, MemoryAssumption
    DEF Candidates, In, MemoryTypeOK, NoRecord
  <1>2. IsFiniteSet(Candidates(query))
    BY <1>1, MemoryAssumption, FS_Subset
  <1>3. \A i, j \in Ids : <<i, j>> \in Best(query) <=> Above(query, i, j)
    BY DEF Best
  <1>4. ASSUME NEW i \in Candidates(query)
        PROVE  i \in Nat /\ memory[i].created \in Nat /\ Score(query, memory[i].draft) \in Nat
    BY <1>1, ScoreIsNumber, MemoryAssumption DEF Records
  <1>5. /\ \A i \in Candidates(query) : ~Above(query, i, i)
        /\ \A i, j, k \in Candidates(query) :
             Above(query, i, j) /\ Above(query, j, k) => Above(query, i, k)
        /\ \A i, j \in Candidates(query) : i # j => Above(query, i, j) \/ Above(query, j, i)
    BY <1>4 DEF Above
  <1> HIDE DEF Best
  <1>6. StrictOrder(Candidates(query), Best(query))
    BY <1>1, <1>3, <1>5 DEF StrictOrder
  <1> QED
    BY <1>1, <1>2, <1>3, <1>6

(* The place of a candidate in the ranking.                                *)
Place(query) == Rank(Candidates(query), Best(query))

LEMMA Places ==
  ASSUME MemoryTypeOK, NEW query \in Queries
  PROVE  /\ Cardinality(Candidates(query)) \in Nat
         /\ Place(query) \in [Candidates(query) -> 0..(Cardinality(Candidates(query)) - 1)]
         /\ \A i, j \in Candidates(query) :
              Above(query, i, j) <=> Place(query)[i] < Place(query)[j]
         /\ \A n \in 0..(Cardinality(Candidates(query)) - 1) :
              \E i \in Candidates(query) : Place(query)[i] = n
         /\ \A i, j \in Candidates(query) : Place(query)[i] = Place(query)[j] => i = j
  <1>1. /\ Candidates(query) \subseteq Ids /\ IsFiniteSet(Candidates(query))
        /\ StrictOrder(Candidates(query), Best(query))
        /\ \A i, j \in Ids : <<i, j>> \in Best(query) <=> Above(query, i, j)
    BY CandidatesAreOrdered
  <1>2. /\ Cardinality(Candidates(query)) \in Nat
        /\ Place(query) \in [Candidates(query) -> 0..(Cardinality(Candidates(query)) - 1)]
        /\ \A i, j \in Candidates(query) :
             <<i, j>> \in Best(query) <=> Place(query)[i] < Place(query)[j]
        /\ \A n \in 0..(Cardinality(Candidates(query)) - 1) :
             \E i \in Candidates(query) : Place(query)[i] = n
    BY <1>1, Ranks DEF Place
  <1>3. ASSUME NEW i \in Candidates(query), NEW j \in Candidates(query),
               Place(query)[i] = Place(query)[j]
        PROVE  i = j
    <2>1. Place(query)[i] \in Int
      BY <1>2
    <2>2. ~(<<i, j>> \in Best(query)) /\ ~(<<j, i>> \in Best(query))
      BY <1>2, <1>3, <2>1
    <2> QED
      BY <1>1, <2>2 DEF StrictOrder
  <1> QED
    BY <1>1, <1>2, <1>3

(* The first top_n of the ranking are the candidates in the first places,  *)
(* in order.                                                               *)
LEMMA TopIs ==
  ASSUME MemoryTypeOK, NEW query \in Queries
  PROVE  \E m \in Nat :
           /\ m = Least(query.top_n, Cardinality(Candidates(query)))
           /\ Len(Top(query)) = m /\ Top(query) \in [1..m -> Candidates(query)]
           /\ \A n \in 1..m : Place(query)[Top(query)[n]] = n - 1
           /\ \A i \in Candidates(query) :
                Place(query)[i] < m => i = Top(query)[Place(query)[i] + 1]
  <1> DEFINE size == Cardinality(Candidates(query))
             m == Least(query.top_n, size)
             ranked == Ranked(query)
  <1>1. size \in Nat /\ query.top_n \in Nat /\ m \in Nat /\ m <= size
    BY Places, QueryAssumption, LeastIs
  <1>2. \A i \in Candidates(query) :
          Place(query)[i] = Cardinality({j \in Candidates(query) : Above(query, j, i)})
    <2>1. ASSUME NEW i \in Candidates(query)
          PROVE  {j \in Candidates(query) : <<j, i>> \in Best(query)}
                   = {j \in Candidates(query) : Above(query, j, i)}
      BY CandidatesAreOrdered
    <2> QED
      BY <2>1 DEF Place, Rank
  <1>3. ASSUME NEW n \in 1..size
        PROVE  ranked[n] \in Candidates(query) /\ Place(query)[ranked[n]] = n - 1
    <2>1. n - 1 \in 0..(size - 1)
      BY <1>1
    <2>2. PICK i \in Candidates(query) : Place(query)[i] = n - 1
      BY <2>1, Places
    <2>3. ranked[n] = CHOOSE c \in Candidates(query) :
             Cardinality({j \in Candidates(query) : Above(query, j, c)}) = n - 1
      BY DEF Ranked
    <2> HIDE DEF ranked
    <2> QED
      BY <1>2, <2>2, <2>3
  <1>4. ranked \in Seq(Candidates(query)) /\ Len(ranked) = size
    <2>1. ranked \in [1..size -> Candidates(query)]
      BY <1>3 DEF Ranked
    <2> HIDE DEF ranked
    <2> QED
      BY <1>1, <2>1
  <1>5. Top(query) = SubSeq(ranked, 1, m)
    BY <1>4 DEF Top
  <1> HIDE DEF ranked, m, size
  <1>6. /\ Len(Top(query)) = m /\ Top(query) \in [1..m -> Candidates(query)]
        /\ \A n \in 1..m : Top(query)[n] = ranked[n]
    <2>1. \A n \in 1..m : ranked[n] \in Candidates(query)
      BY <1>1, <1>3
    <2>2. /\ SubSeq(ranked, 1, m) \in Seq(Candidates(query))
          /\ Len(SubSeq(ranked, 1, m)) = IF 1 <= m THEN m - 1 + 1 ELSE 0
          /\ \A n \in 1..(m - 1 + 1) : SubSeq(ranked, 1, m)[n] = ranked[1 + n - 1]
      BY <1>1, <2>1, SubSeqProperties
    <2>3. m - 1 + 1 = m /\ (IF 1 <= m THEN m - 1 + 1 ELSE 0) = m
      BY <1>1
    <2>4. Len(Top(query)) = m /\ Top(query) \in Seq(Candidates(query))
      BY <1>5, <2>2, <2>3
    <2>5. \A n \in 1..m : Top(query)[n] = ranked[n]
      BY <1>1, <1>5, <2>2, <2>3
    <2> QED
      BY <2>4, <2>5
  <1>7. \A n \in 1..m : Place(query)[Top(query)[n]] = n - 1
    BY <1>1, <1>3, <1>6
  <1>8. ASSUME NEW i \in Candidates(query), Place(query)[i] < m
        PROVE  i = Top(query)[Place(query)[i] + 1]
    <2>1. Place(query)[i] \in Nat
      BY Places
    <2>2. PICK n \in 1..m : n = Place(query)[i] + 1 /\ n - 1 = Place(query)[i]
      BY <1>1, <1>8, <2>1
    <2>3. Top(query)[n] \in Candidates(query) /\ Place(query)[Top(query)[n]] = n - 1
      BY <1>6, <1>7
    <2> QED
      BY <2>2, <2>3, Places
  <1> QED
    BY <1>1, <1>6, <1>7, <1>8 DEF m, size

-----------------------------------------------------------------------------
(* The budgets.                                                            *)

(* The first steps of a function that is given from each number to the     *)
(* next.                                                                   *)
Steps(f, first, next, k) ==
  f \in [0..k -> Nat] /\ f[0] = first /\ \A n \in 1..k : f[n] = next[n][f[n - 1]]

LEMMA OneStepMore ==
  ASSUME NEW m \in Nat, NEW first \in Nat, NEW next \in [1..m -> [Nat -> Nat]],
         NEW k \in Nat, k + 1 <= m, NEW f, Steps(f, first, next, k)
  PROVE  \E g : Steps(g, first, next, k + 1)
  <1> DEFINE g == [n \in 0..(k + 1) |-> IF n = k + 1 THEN next[k + 1][f[k]] ELSE f[n]]
  <1>1. /\ f \in [0..k -> Nat] /\ f[0] = first
        /\ \A n \in 1..k : f[n] = next[n][f[n - 1]]
    BY DEF Steps
  <1>2. k + 1 \in 1..m /\ f[k] \in Nat
    BY <1>1
  <1>3. next[k + 1][f[k]] \in Nat
    BY <1>2
  <1>4. g \in [0..(k + 1) -> Nat]
    <2>1. ASSUME NEW n \in 0..(k + 1)
          PROVE  (IF n = k + 1 THEN next[k + 1][f[k]] ELSE f[n]) \in Nat
      <3>1. n = k + 1 \/ n \in 0..k
        OBVIOUS
      <3> QED
        BY <1>1, <1>3, <3>1
    <2> QED
      BY <2>1
  <1>5. g[0] = first /\ \A n \in 0..k : g[n] = f[n]
    BY <1>1
  <1>6. g[k + 1] = next[k + 1][f[k]]
    OBVIOUS
  <1> HIDE DEF g
  <1>7. ASSUME NEW n \in 1..(k + 1)
        PROVE  g[n] = next[n][g[n - 1]]
    <2>1. CASE n = k + 1
      <3>1. n - 1 = k /\ k \in 0..k
        BY <2>1
      <3> QED
        BY <1>5, <1>6, <2>1, <3>1
    <2>2. CASE n # k + 1
      <3>1. n \in 1..k /\ n \in 0..k /\ n - 1 \in 0..k
        BY <2>2
      <3> QED
        BY <1>1, <1>5, <3>1
    <2> QED
      BY <2>1, <2>2
  <1> QED
    BY <1>4, <1>5, <1>7 DEF Steps

LEMMA Recursion ==
  ASSUME NEW m \in Nat, NEW first \in Nat, NEW next \in [1..m -> [Nat -> Nat]]
  PROVE  \E f : Steps(f, first, next, m)
  <1> DEFINE defined == {k \in Nat : k <= m => \E f : Steps(f, first, next, k)}
  <1>1. 0 \in defined
    <2>1. Steps([n \in 0..0 |-> first], first, next, 0)
      BY DEF Steps
    <2> QED
      BY <2>1
  <1>2. ASSUME NEW k \in Nat, k \in defined
        PROVE  k + 1 \in defined
    <2> SUFFICES ASSUME k + 1 <= m
                 PROVE  \E f : Steps(f, first, next, k + 1)
      OBVIOUS
    <2>1. k <= m
      OBVIOUS
    <2>2. PICK f : Steps(f, first, next, k)
      BY <1>2, <2>1
    <2> QED
      BY <2>2, OneStepMore
  <1>3. m \in defined
    <2> HIDE DEF defined
    <2> QED
      BY <1>1, <1>2, Induction
  <1> QED
    BY <1>3

(* What is left of a budget when one after the other takes from it.        *)
LeftOf(m, cut, total) ==
  LET left[n \in 0..m] == IF n = 0 THEN total ELSE left[n - 1] - Least(cut[n], left[n - 1])
  IN left

LEMMA Spending ==
  ASSUME NEW m \in Nat, NEW cut \in [1..m -> Nat], NEW total \in Nat
  PROVE  \E left \in [0..m -> Nat] :
           /\ left = LeftOf(m, cut, total) /\ left[0] = total
           /\ \A n \in 1..m : left[n] = left[n - 1] - Least(cut[n], left[n - 1])
  <1> DEFINE step(f) == [n \in 0..m |->
               IF n = 0 THEN total ELSE f[n - 1] - Least(cut[n], f[n - 1])]
             next == [n \in 1..m |-> [v \in Nat |-> v - Least(cut[n], v)]]
             left == CHOOSE f : f = step(f)
  <1>1. \A n \in 1..m, v \in Nat : v - Least(cut[n], v) \in Nat
    BY DEF Least
  <1>2. next \in [1..m -> [Nat -> Nat]] /\ \A n \in 1..m, v \in Nat :
          next[n][v] = v - Least(cut[n], v)
    BY <1>1
  <1> HIDE DEF next
  <1>3. PICK w : Steps(w, total, next, m)
    BY <1>2, Recursion
  <1>4. w = step(w)
    <2>1. ASSUME NEW n \in 1..m
          PROVE  w[n] = w[n - 1] - Least(cut[n], w[n - 1])
      <3>1. n - 1 \in 0..m /\ w[n - 1] \in Nat
        BY <1>3 DEF Steps
      <3> QED
        BY <1>2, <1>3, <3>1 DEF Steps
    <2>2. \A n \in 0..m : n = 0 \/ n \in 1..m
      OBVIOUS
    <2> QED
      BY <1>3, <2>1, <2>2 DEF Steps
  <1>5. left = step(left)
    BY <1>4
  <1>6. left = LeftOf(m, cut, total)
    BY DEF LeftOf
  <1> HIDE DEF left
  <1>7. left[0] = total /\ \A n \in 1..m : left[n] = left[n - 1] - Least(cut[n], left[n - 1])
    BY <1>5
  <1> DEFINE numbers == {n \in Nat : n <= m => left[n] \in Nat}
  <1>8. 0 \in numbers
    BY <1>7
  <1>9. ASSUME NEW n \in Nat, n \in numbers
        PROVE  n + 1 \in numbers
    <2> SUFFICES ASSUME n + 1 <= m
                 PROVE  left[n + 1] \in Nat
      OBVIOUS
    <2>1. left[n] \in Nat /\ n + 1 \in 1..m /\ (n + 1) - 1 = n
      BY <1>9
    <2>2. left[n + 1] = left[n] - Least(cut[n + 1], left[n])
      BY <1>7, <2>1
    <2> QED
      BY <1>1, <2>1, <2>2
  <1>10. \A n \in Nat : n \in numbers
    <2> HIDE DEF numbers
    <2> QED
      BY <1>8, <1>9, Induction
  <1>11. left \in [0..m -> Nat]
    <2>1. \A n \in 0..m : left[n] \in Nat
      BY <1>10
    <2> QED
      BY <1>5, <2>1
  <1> QED
    BY <1>6, <1>7, <1>11

(* How much the first say, one after the other.                            *)
Sums(said, answer, m) ==
  /\ said \in [0..m -> Nat] /\ said[0] = 0 /\ Said(answer, m) = said[m]
  /\ \A n \in 1..m :
       said[n] = IF n \in DOMAIN answer THEN said[n - 1] + answer[n].length ELSE said[n - 1]

LEMMA SaidIs ==
  ASSUME NEW answer, NEW m \in Nat, \A n \in DOMAIN answer : answer[n].length \in Nat
  PROVE  \E said : Sums(said, answer, m)
  <1> DEFINE step(f) == [k \in 0..m |->
               IF k = 0 THEN 0
               ELSE IF k \in DOMAIN answer THEN f[k - 1] + answer[k].length ELSE f[k - 1]]
             next == [n \in 1..m |-> [v \in Nat |->
               IF n \in DOMAIN answer THEN v + answer[n].length ELSE v]]
             said == CHOOSE f : f = step(f)
  <1>1. next \in [1..m -> [Nat -> Nat]] /\ \A n \in 1..m, v \in Nat :
          next[n][v] = IF n \in DOMAIN answer THEN v + answer[n].length ELSE v
    OBVIOUS
  <1> HIDE DEF next
  <1>2. PICK w : Steps(w, 0, next, m)
    BY <1>1, Recursion
  <1>3. w = step(w)
    <2>1. ASSUME NEW n \in 1..m
          PROVE  w[n] = IF n \in DOMAIN answer THEN w[n - 1] + answer[n].length ELSE w[n - 1]
      <3>1. n - 1 \in 0..m /\ w[n - 1] \in Nat
        BY <1>2 DEF Steps
      <3> QED
        BY <1>1, <1>2, <3>1 DEF Steps
    <2>2. \A n \in 0..m : n = 0 \/ n \in 1..m
      OBVIOUS
    <2> QED
      BY <1>2, <2>1, <2>2 DEF Steps
  <1>4. said = step(said)
    BY <1>3
  <1>5. Said(answer, m) = said[m]
    BY DEF Said
  <1> HIDE DEF said
  <1>6. /\ said[0] = 0
        /\ \A n \in 1..m :
             said[n] = IF n \in DOMAIN answer THEN said[n - 1] + answer[n].length
                                              ELSE said[n - 1]
    BY <1>4
  <1> DEFINE numbers == {n \in Nat : n <= m => said[n] \in Nat}
  <1>7. 0 \in numbers
    BY <1>6
  <1>8. ASSUME NEW n \in Nat, n \in numbers
        PROVE  n + 1 \in numbers
    <2> SUFFICES ASSUME n + 1 <= m
                 PROVE  said[n + 1] \in Nat
      OBVIOUS
    <2>1. said[n] \in Nat /\ n + 1 \in 1..m /\ (n + 1) - 1 = n
      BY <1>8
    <2>2. said[n + 1] = IF n + 1 \in DOMAIN answer THEN said[n] + answer[n + 1].length
                                                   ELSE said[n]
      BY <1>6, <2>1
    <2> QED
      BY <2>1, <2>2
  <1>9. \A n \in Nat : n \in numbers
    <2> HIDE DEF numbers
    <2> QED
      BY <1>7, <1>8, Induction
  <1>10. said \in [0..m -> Nat]
    <2>1. \A n \in 0..m : said[n] \in Nat
      BY <1>9
    <2> QED
      BY <1>4, <2>1
  <1> QED
    BY <1>5, <1>6, <1>10 DEF Sums

(* The parts of an answer.                                                 *)
Cuts(query) ==
  [n \in DOMAIN Top(query) |-> Least(memory[Top(query)[n]].draft.length, query.per_record)]

Lefts(query) == LeftOf(Len(Top(query)), Cuts(query), query.total)

Shown(query) == {n \in DOMAIN Top(query) : Least(Cuts(query)[n], Lefts(query)[n - 1]) > 0}

LEMMA RetrieveIs ==
  ASSUME NEW query
  PROVE  Retrieve(query)
           = [n \in Shown(query) |->
                [id |-> Top(query)[n], length |-> Least(Cuts(query)[n], Lefts(query)[n - 1])]]
  BY DEF Retrieve, Shown, Lefts, LeftOf, Cuts

LEMMA CutsAre ==
  ASSUME MemoryTypeOK, NEW query \in Queries, NEW m \in Nat, Len(Top(query)) = m,
         Top(query) \in [1..m -> Candidates(query)]
  PROVE  /\ Cuts(query) \in [1..m -> Nat]
         /\ query.per_record # 0 => \A n \in 1..m : Cuts(query)[n] > 0
         /\ query.per_record = 0 => \A n \in 1..m : Cuts(query)[n] = 0
  <1>1. query.per_record \in Nat
    BY QueryAssumption
  <1>2. ASSUME NEW n \in 1..m
        PROVE  /\ Cuts(query)[n] \in Nat
               /\ query.per_record # 0 => Cuts(query)[n] > 0
               /\ query.per_record = 0 => Cuts(query)[n] = 0
    <2>1. Top(query)[n] \in Candidates(query)
      OBVIOUS
    <2>2. memory[Top(query)[n]].draft.length \in Nat \ {0}
      BY <2>1, CandidatesAreOrdered, DraftAssumption DEF Records
    <2>3. Cuts(query)[n] = Least(memory[Top(query)[n]].draft.length, query.per_record)
      BY DEF Cuts
    <2> QED
      BY <1>1, <2>2, <2>3 DEF Least
  <1>3. DOMAIN Cuts(query) = 1..m /\ Cuts(query) = [n \in 1..m |-> Cuts(query)[n]]
    BY DEF Cuts
  <1> QED
    BY <1>2, <1>3

(* What is left shrinks from record to record, and what is said is what is *)
(* no longer left.                                                         *)
LEMMA Budget ==
  ASSUME MemoryTypeOK, NEW query \in Queries, NEW m \in Nat, Len(Top(query)) = m,
         Top(query) \in [1..m -> Candidates(query)], m <= query.top_n
  PROVE  /\ Lefts(query) \in [0..m -> Nat] /\ Lefts(query)[0] = query.total
         /\ \A k, n \in 0..m : k <= n => Lefts(query)[n] <= Lefts(query)[k]
         /\ \A n \in 1..m : n \in Shown(query)
                              <=> query.per_record # 0 /\ Lefts(query)[n - 1] > 0
         /\ Said(Retrieve(query), query.top_n) = query.total - Lefts(query)[m]
  <1> DEFINE cut == Cuts(query)
             left == Lefts(query)
             answer == Retrieve(query)
  <1>1. /\ cut \in [1..m -> Nat]
        /\ query.per_record # 0 => \A n \in 1..m : cut[n] > 0
        /\ query.per_record = 0 => \A n \in 1..m : cut[n] = 0
    BY CutsAre
  <1>2. query.total \in Nat /\ query.top_n \in Nat
    BY QueryAssumption
  <1>3. /\ left \in [0..m -> Nat] /\ left[0] = query.total
        /\ \A n \in 1..m : left[n] = left[n - 1] - Least(cut[n], left[n - 1])
    <2> HIDE DEF cut
    <2>1. PICK l \in [0..m -> Nat] :
            /\ l = LeftOf(m, cut, query.total) /\ l[0] = query.total
            /\ \A n \in 1..m : l[n] = l[n - 1] - Least(cut[n], l[n - 1])
      <3>1. cut \in [1..m -> Nat]
        BY <1>1
      <3>2. query.total \in Nat
        BY <1>2
      <3> QED
        BY <3>1, <3>2, Spending
    <2>2. left = l
      BY <2>1 DEF Lefts, cut
    <2> QED
      BY <2>1, <2>2
  <1>4. /\ answer = [n \in Shown(query) |->
                       [id |-> Top(query)[n], length |-> Least(cut[n], left[n - 1])]]
        /\ Shown(query) = {n \in 1..m : Least(cut[n], left[n - 1]) > 0}
    BY RetrieveIs DEF Shown
  <1> HIDE DEF cut, left, answer
  <1>5. ASSUME NEW n \in 1..m
        PROVE  /\ n - 1 \in 0..m /\ n \in 0..m /\ cut[n] \in Nat
               /\ left[n - 1] \in Nat /\ left[n] \in Nat
               /\ left[n] = left[n - 1] - Least(cut[n], left[n - 1])
               /\ Least(cut[n], left[n - 1]) \in Nat
               /\ left[n] <= left[n - 1]
    <2>1. n - 1 \in 0..m /\ n \in 0..m
      OBVIOUS
    <2>2. cut[n] \in Nat /\ left[n - 1] \in Nat /\ left[n] \in Nat
          /\ left[n] = left[n - 1] - Least(cut[n], left[n - 1])
      BY <1>1, <1>3, <2>1
    <2>3. Least(cut[n], left[n - 1]) \in Nat
      BY <2>2, LeastIs
    <2> QED
      BY <2>1, <2>2, <2>3
  <1>6. ASSUME NEW k \in 0..m
        PROVE  \A n \in 0..m : k <= n => left[n] <= left[k]
    <2> DEFINE lower == {d \in Nat : k + d <= m => left[k + d] <= left[k]}
    <2>1. 0 \in lower
      BY <1>3
    <2>2. ASSUME NEW d \in Nat, d \in lower
          PROVE  d + 1 \in lower
      <3> SUFFICES ASSUME k + (d + 1) <= m
                   PROVE  left[k + (d + 1)] <= left[k]
        OBVIOUS
      <3>1. k + d <= m /\ k + (d + 1) \in 1..m /\ (k + (d + 1)) - 1 = k + d
        OBVIOUS
      <3>2. left[k + d] <= left[k]
        BY <2>2, <3>1
      <3>3. left[k + (d + 1)] <= left[k + d] /\ left[k + (d + 1)] \in Nat /\ left[k + d] \in Nat
        BY <1>5, <3>1
      <3>4. left[k] \in Nat
        BY <1>3
      <3> QED
        BY <3>2, <3>3, <3>4
    <2>3. \A d \in Nat : d \in lower
      <3> HIDE DEF lower
      <3> QED
        BY <2>1, <2>2, Induction
    <2>4. ASSUME NEW n \in 0..m, k <= n
          PROVE  left[n] <= left[k]
      <3>1. n - k \in Nat /\ k + (n - k) = n /\ n <= m
        BY <2>4
      <3> QED
        BY <2>3, <3>1
    <2> QED
      BY <2>4
  <1>7. \A n \in 1..m : n \in Shown(query) <=> query.per_record # 0 /\ left[n - 1] > 0
    <2> TAKE n \in 1..m
    <2>1. n \in Shown(query) <=> Least(cut[n], left[n - 1]) > 0
      BY <1>4
    <2>2. cut[n] \in Nat /\ left[n - 1] \in Nat /\ (cut[n] > 0 <=> query.per_record # 0)
      BY <1>1, <1>5
    <2> QED
      BY <2>1, <2>2 DEF Least
  <1>8. \A n \in DOMAIN answer : n \in 1..m /\ answer[n].length = Least(cut[n], left[n - 1])
                                 /\ answer[n].length \in Nat
    BY <1>4, <1>5
  <1>9. PICK said : Sums(said, answer, query.top_n)
    <2>1. \A n \in DOMAIN answer : answer[n].length \in Nat
      BY <1>8
    <2> QED
      BY <1>2, <2>1, SaidIs
  <1>10. ASSUME NEW n \in 1..m
         PROVE  said[n] = said[n - 1] + Least(cut[n], left[n - 1])
    <2>1. n \in 1..query.top_n /\ n - 1 \in 0..query.top_n
      BY <1>2
    <2>2. said[n - 1] \in Nat
      BY <1>9, <2>1 DEF Sums
    <2>3. CASE n \in DOMAIN answer
      BY <1>8, <1>9, <2>1, <2>3 DEF Sums
    <2>4. CASE n \notin DOMAIN answer
      <3>1. Least(cut[n], left[n - 1]) = 0
        BY <1>4, <1>5, <2>4
      <3> QED
        BY <1>9, <2>1, <2>2, <2>4, <3>1 DEF Sums
    <2> QED
      BY <2>3, <2>4
  <1>11. said[m] = query.total - left[m]
    <2> DEFINE balanced == {n \in Nat : n <= m => said[n] + left[n] = query.total}
    <2>1. 0 \in balanced
      BY <1>2, <1>3, <1>9 DEF Sums
    <2>2. ASSUME NEW n \in Nat, n \in balanced
          PROVE  n + 1 \in balanced
      <3> SUFFICES ASSUME n + 1 <= m
                   PROVE  said[n + 1] + left[n + 1] = query.total
        OBVIOUS
      <3>1. n + 1 \in 1..m /\ (n + 1) - 1 = n /\ n \in 0..query.top_n
        BY <1>2
      <3>2. said[n] + left[n] = query.total /\ said[n] \in Nat
        BY <1>9, <2>2, <3>1 DEF Sums
      <3>3. said[n + 1] = said[n] + Least(cut[n + 1], left[n])
        BY <1>10, <3>1
      <3>4. /\ left[n + 1] = left[n] - Least(cut[n + 1], left[n])
            /\ Least(cut[n + 1], left[n]) \in Nat /\ left[n] \in Nat
        BY <1>5, <3>1
      <3> QED
        BY <1>2, <3>2, <3>3, <3>4
    <2>3. m \in balanced
      <3> HIDE DEF balanced
      <3> QED
        BY <2>1, <2>2, Induction
    <2>4. m \in 0..m /\ m \in 0..query.top_n
      BY <1>2
    <2>5. said[m] \in Nat /\ left[m] \in Nat
      BY <1>3, <1>9, <2>4 DEF Sums
    <2> QED
      BY <1>2, <2>3, <2>5
  <1>12. said[query.top_n] = said[m]
    <2> DEFINE silent == {d \in Nat : m + d <= query.top_n => said[m + d] = said[m]}
    <2>1. 0 \in silent
      OBVIOUS
    <2>2. ASSUME NEW d \in Nat, d \in silent
          PROVE  d + 1 \in silent
      <3> SUFFICES ASSUME m + (d + 1) <= query.top_n
                   PROVE  said[m + (d + 1)] = said[m]
        OBVIOUS
      <3>1. /\ m + d <= query.top_n /\ m + (d + 1) \in 1..query.top_n
            /\ (m + (d + 1)) - 1 = m + d /\ m + (d + 1) \notin 1..m
        BY <1>2
      <3>2. m + (d + 1) \notin DOMAIN answer
        BY <1>8, <3>1
      <3> QED
        BY <1>9, <2>2, <3>1, <3>2 DEF Sums
    <2>3. query.top_n - m \in silent
      <3>1. query.top_n - m \in Nat
        BY <1>2
      <3> HIDE DEF silent
      <3> QED
        BY <2>1, <2>2, <3>1, Induction
    <2> QED
      BY <1>2, <2>3
  <1> QED
    BY <1>3, <1>6, <1>7, <1>9, <1>11, <1>12 DEF left, answer, Sums

-----------------------------------------------------------------------------
(* The best answer.                                                        *)
LEMMA AnswersBest ==
  ASSUME MemoryInvariant, NEW query \in Queries
  PROVE  LET answer == Retrieve(query)
             shown == {answer[n].id : n \in DOMAIN answer}
             out == Candidates(query) \ shown
             length == Said(answer, query.top_n)
         IN /\ length <= query.total
            /\ Cardinality(shown) <= query.top_n
            /\ \A i \in shown : /\ memory[i].repo = query.repo /\ memory[i].status = "active"
                                /\ memory[i].supersedes \notin shown
            /\ \A m, n \in DOMAIN answer : m < n => Above(query, answer[m].id, answer[n].id)
            /\ \A i \in shown, j \in out : Above(query, i, j)
            /\ out # {} => \/ Cardinality(shown) = query.top_n
                           \/ length = query.total \/ query.per_record = 0
  <1> DEFINE answer == Retrieve(query)
             shown == {answer[n].id : n \in DOMAIN answer}
             out == Candidates(query) \ shown
             top == Top(query)
             left == Lefts(query)
             place == Place(query)
  <1>1. MemoryTypeOK
    BY DEF MemoryInvariant
  <1>2. PICK m \in Nat :
          /\ m = Least(query.top_n, Cardinality(Candidates(query)))
          /\ Len(top) = m /\ top \in [1..m -> Candidates(query)]
          /\ \A n \in 1..m : place[top[n]] = n - 1
          /\ \A i \in Candidates(query) : place[i] < m => i = top[place[i] + 1]
    BY <1>1, TopIs
  <1>3. /\ query.top_n \in Nat /\ query.total \in Nat /\ m <= query.top_n
        /\ Cardinality(Candidates(query)) \in Nat
        /\ m = query.top_n \/ m = Cardinality(Candidates(query))
    <2>1. query.top_n \in Nat /\ query.total \in Nat
      BY QueryAssumption
    <2>2. Cardinality(Candidates(query)) \in Nat
      BY <1>1, Places
    <2> QED
      BY <1>2, <2>1, <2>2, LeastIs
  <1>4. /\ left \in [0..m -> Nat]
        /\ \A k, n \in 0..m : k <= n => left[n] <= left[k]
        /\ \A n \in 1..m : n \in Shown(query) <=> query.per_record # 0 /\ left[n - 1] > 0
        /\ Said(answer, query.top_n) = query.total - left[m]
    BY <1>1, <1>2, <1>3, Budget
  <1>5. /\ DOMAIN answer = Shown(query) /\ Shown(query) \subseteq 1..m
        /\ \A n \in Shown(query) : answer[n].id = top[n]
    BY <1>2, RetrieveIs DEF Shown
  <1>6. /\ \A i \in Candidates(query) : place[i] \in Nat
        /\ \A i, j \in Candidates(query) : Above(query, i, j) <=> place[i] < place[j]
    <2>1. /\ place \in [Candidates(query) -> 0..(Cardinality(Candidates(query)) - 1)]
          /\ \A i, j \in Candidates(query) : Above(query, i, j) <=> place[i] < place[j]
      BY <1>1, Places
    <2> HIDE DEF place
    <2> QED
      BY <1>3, <2>1
  <1> HIDE DEF answer, top, left, place
  <1>7. shown = {top[n] : n \in Shown(query)}
    BY <1>5
  <1> HIDE DEF shown
  <1>8. ASSUME NEW n \in Shown(query)
        PROVE  n \in 1..m /\ top[n] \in Candidates(query) /\ place[top[n]] = n - 1
               /\ top[n] \in shown
    BY <1>2, <1>5, <1>7
  <1>9. \A i \in shown : \E n \in Shown(query) : i = top[n]
    BY <1>7
  <1>10. Said(answer, query.top_n) <= query.total
    <2>1. left[m] \in Nat
      BY <1>4
    <2> QED
      BY <1>3, <1>4, <2>1
  <1>11. IsFiniteSet(shown) /\ Cardinality(shown) \in Nat /\ Cardinality(shown) <= m
    <2> DEFINE at == [n \in Shown(query) |-> top[n]]
    <2>1. at \in Surjection(Shown(query), shown)
      BY <1>8, <1>9 DEF Surjection
    <2>2. IsFiniteSet(1..m) /\ Cardinality(1..m) = m
      BY FS_Interval
    <2>3. IsFiniteSet(Shown(query)) /\ Cardinality(Shown(query)) <= m
      BY <1>5, <2>2, FS_Subset
    <2>4. IsFiniteSet(shown) /\ Cardinality(shown) <= Cardinality(Shown(query))
      <3> HIDE DEF at
      <3> QED
        BY <2>1, <2>3, FS_Surjection
    <2>5. Cardinality(Shown(query)) \in Nat /\ Cardinality(shown) \in Nat
      BY <2>3, <2>4, FS_CardinalityType
    <2> QED
      BY <2>3, <2>4, <2>5
  <1>12. ASSUME NEW i \in shown
         PROVE  /\ memory[i].repo = query.repo /\ memory[i].status = "active"
                /\ memory[i].supersedes \notin shown
    <2>1. \A j \in shown : j \in Ids /\ j \in Present /\ memory[j].status = "active"
                           /\ memory[j].repo = query.repo
      <3>1. shown \subseteq Candidates(query)
        BY <1>8, <1>9
      <3>2. query.repo # None
        BY QueryAssumption, MemoryAssumption
      <3> QED
        BY <3>1, <3>2 DEF Candidates, In, Present
    <2>2. ASSUME memory[i].supersedes \in shown
          PROVE  FALSE
      BY <2>1, <2>2 DEF MemoryInvariant, SupersededByOne
    <2> QED
      BY <2>1, <2>2
  <1>13. ASSUME NEW k \in DOMAIN answer, NEW n \in DOMAIN answer, k < n
         PROVE  Above(query, answer[k].id, answer[n].id)
    <2>1. /\ k \in 1..m /\ n \in 1..m
          /\ top[k] \in Candidates(query) /\ top[n] \in Candidates(query)
          /\ place[top[k]] = k - 1 /\ place[top[n]] = n - 1
          /\ answer[k].id = top[k] /\ answer[n].id = top[n]
      BY <1>5, <1>8
    <2>2. place[top[k]] < place[top[n]]
      BY <1>13, <2>1
    <2> QED
      BY <1>6, <2>1, <2>2
  <1>14. ASSUME NEW i \in shown, NEW j \in out
         PROVE  Above(query, i, j)
    <2>1. PICK n \in Shown(query) : i = top[n]
      BY <1>9
    <2>2. /\ n \in 1..m /\ i \in Candidates(query) /\ place[i] = n - 1
          /\ query.per_record # 0 /\ left[n - 1] > 0
      BY <1>4, <1>8, <2>1
    <2>3. j \in Candidates(query) /\ j \notin shown /\ place[j] \in Nat
      BY <1>6
    <2>4. place[j] >= n
      <3> SUFFICES ASSUME place[j] < n PROVE FALSE
        BY <2>2, <2>3
      <3>1. PICK l \in 1..m : l = place[j] + 1 /\ l <= n
        BY <2>2, <2>3
      <3>2. j = top[l]
        BY <1>2, <2>2, <2>3, <3>1
      <3>3. /\ l - 1 \in 0..m /\ n - 1 \in 0..m /\ l - 1 <= n - 1
            /\ left[l - 1] \in Nat /\ left[n - 1] \in Nat
        <4>1. n \in 1..m /\ l \in 1..m /\ l <= n
          BY <2>2, <3>1
        <4>2. l - 1 \in 0..m /\ n - 1 \in 0..m /\ l - 1 <= n - 1
          BY <4>1
        <4> QED
          BY <1>4, <4>2
      <3>4. left[n - 1] <= left[l - 1]
        BY <1>4, <3>3
      <3>5. l \in Shown(query)
        BY <1>4, <2>2, <3>1, <3>3, <3>4
      <3> QED
        BY <1>8, <2>3, <3>2, <3>5
    <2>5. place[i] < place[j]
      BY <2>2, <2>3, <2>4
    <2> QED
      BY <1>6, <2>2, <2>3, <2>5
  <1>15. ASSUME out # {}, Said(answer, query.top_n) # query.total, query.per_record # 0
         PROVE  Cardinality(shown) = query.top_n
    <2>1. m \in 0..m /\ left[m] \in Nat /\ left[m] > 0
      <3>1. m \in 0..m
        OBVIOUS
      <3>2. left[m] \in Nat
        BY <1>4, <3>1
      <3> QED
        BY <1>3, <1>4, <1>15, <3>1, <3>2
    <2>2. ASSUME NEW n \in 1..m
          PROVE  n \in Shown(query)
      <3>1. n - 1 \in 0..m /\ n - 1 <= m
        OBVIOUS
      <3>2. left[n - 1] \in Nat /\ left[m] <= left[n - 1]
        BY <1>4, <2>1, <3>1
      <3> QED
        BY <1>4, <1>15, <2>1, <3>2
    <2>3. Shown(query) = 1..m
      BY <1>5, <2>2
    <2>4. Cardinality(shown) = m
      <3>1. top \in Surjection(1..m, shown)
        <4>1. top \in [1..m -> shown]
          BY <1>2, <1>8, <2>3
        <4> QED
          BY <1>9, <2>3, <4>1 DEF Surjection
      <3>2. top \in Injection(1..m, shown)
        <4>1. ASSUME NEW k \in 1..m, NEW n \in 1..m, top[k] = top[n]
              PROVE  k = n
          <5>1. k - 1 = n - 1
            BY <1>2, <4>1
          <5> QED
            BY <5>1
        <4> QED
          BY <3>1, <4>1 DEF Surjection, Injection, IsInjective
      <3>3. IsFiniteSet(1..m) /\ Cardinality(1..m) = m
        BY FS_Interval
      <3> QED
        BY <3>1, <3>2, <3>3, FS_Surjection
    <2>5. m # Cardinality(Candidates(query))
      <3> SUFFICES ASSUME m = Cardinality(Candidates(query)) PROVE FALSE
        OBVIOUS
      <3>1. PICK j \in out : TRUE
        BY <1>15
      <3>2. j \in Candidates(query) /\ j \notin shown
        OBVIOUS
      <3>3. IsFiniteSet(Candidates(query)) /\ shown \in SUBSET Candidates(query)
        BY <1>1, <1>8, <1>9, CandidatesAreOrdered
      <3>4. shown = Candidates(query)
        BY <2>4, <3>3, FS_Subset
      <3> QED
        BY <3>2, <3>4
    <2> QED
      BY <1>3, <2>4, <2>5
  <1>16. Cardinality(shown) <= query.top_n
    BY <1>3, <1>11
  <1> QED
    BY <1>10, <1>12, <1>13, <1>14, <1>15, <1>16 DEF answer, shown

(* Whatever is asked, the answer stays within its budgets, names the best  *)
(* first and leaves out none that ranks above one it shows: of the sorting *)
(* and cutting in retrieve_records.                                        *)
THEOREM AnswersAreBest == MemorySpec => []AnswerIsBest
  <1>1. MemoryInvariant => AnswerIsBest
    BY AnswersBest DEF AnswerIsBest
  <1> QED
    BY <1>1, MemoryAlways, PTL

=================================================================================
