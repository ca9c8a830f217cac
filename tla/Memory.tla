--------------------------------- MODULE Memory ---------------------------------
(***************************************************************************)
(* The repository notebook (memory/store.py, summarize.py, retrieve.py)    *)
(* and the command memory (loop/service.py) on it: constraints and         *)
(* decisions of the user, summaries of tasks, the rules by which a         *)
(* decision replaces another and old summaries go, and the ranking by      *)
(* which a query is answered.                                              *)
(*                                                                         *)
(* Every write is one transaction, so one step here; a write whose input   *)
(* is refused (empty, too long, a suspected secret, a path outside the     *)
(* repository) changes nothing and is no step.  What is written is one of  *)
(* the Drafts, normalised: sets of paths, tags and terms, and a length.    *)
(***************************************************************************)
EXTENDS Naturals, Sequences, FiniteSets

CONSTANTS
  Ids,            (* record_id values: uuid4, so any unused one may come   *)
  Repos,          (* repo_id values                                        *)
  Drafts,         (* what a record may say                                 *)
  None,           (* SQL NULL; no row                                      *)
  MaxSummaries,   (* _MAX_TASK_SUMMARIES                                   *)
  MaxAge,         (* _MAX_SUMMARY_AGE                                      *)
  Queries,        (* what may be asked                                     *)
  MaxTime         (* bound: ticks of the clock                             *)

Types == {"project_constraint", "decision", "task_summary"}

ASSUME MemoryAssumption ==
  /\ Ids \subseteq Nat /\ IsFiniteSet(Ids)
  /\ None \notin Ids \cup Repos
  /\ MaxSummaries \in Nat /\ MaxAge \in Nat /\ MaxTime \in Nat

(* A record says something: an empty one is refused.                       *)
ASSUME DraftAssumption ==
  \A draft \in Drafts :
    /\ IsFiniteSet(draft.paths) /\ IsFiniteSet(draft.tags) /\ IsFiniteSet(draft.terms)
    /\ draft.length \in Nat \ {0}

ASSUME QueryAssumption ==
  \A query \in Queries :
    /\ query.repo \in Repos
    /\ IsFiniteSet(query.paths) /\ IsFiniteSet(query.tags) /\ IsFiniteSet(query.terms)
    /\ query.top_n \in Nat /\ query.per_record \in Nat /\ query.total \in Nat

VARIABLES
  memory,     (* table memory_records                                      *)
  now         (* the clock                                                 *)

memoryVars == <<memory, now>>

NoRecord == [repo |-> None, type |-> "decision", draft |-> None,
             status |-> "active", created |-> 0, supersedes |-> None]

Records == [repo : Repos, type : Types, draft : Drafts,
            status : {"active", "superseded"}, created : Nat,
            supersedes : Ids \cup {None}]

MemoryInit == memory = [i \in Ids |-> NoRecord] /\ now = 0

In(repo) == {i \in Ids : memory[i].repo = repo}

(* _prepare_record and _insert_record                                      *)
Record(repo, type, draft, supersedes) ==
  [repo |-> repo, type |-> type, draft |-> draft, status |-> "active",
   created |-> now, supersedes |-> supersedes]

AddConstraint(repo, draft, i) ==
  /\ memory[i] = NoRecord
  /\ memory' = [memory EXCEPT ![i] = Record(repo, "project_constraint", draft, None)]
  /\ UNCHANGED now

AddTaskSummary(repo, draft, i) ==
  /\ memory[i] = NoRecord
  /\ memory' = [memory EXCEPT ![i] = Record(repo, "task_summary", draft, None)]
  /\ UNCHANGED now

Bug_AnyDecision(repo, old) ==
  memory[old].repo = repo /\ memory[old].type = "decision"

Replaceable(repo, old) ==
  /\ memory[old].repo = repo
  /\ memory[old].type = "decision"
  /\ memory[old].status = "active"

AddDecision(repo, draft, old, i) ==
  /\ memory[i] = NoRecord
  /\ old # None => Replaceable(repo, old)
  /\ memory' = [j \in Ids |->
       IF j = i THEN Record(repo, "decision", draft, old)
       ELSE IF j = old THEN [memory[j] EXCEPT !.status = "superseded"]
       ELSE memory[j]]
  /\ UNCHANGED now

-----------------------------------------------------------------------------
(* gc_task_summaries and clear_repo                                        *)

Summaries(repo) == {i \in In(repo) : memory[i].type = "task_summary"}

Newer(i, j) ==
  \/ memory[i].created > memory[j].created
  \/ memory[i].created = memory[j].created /\ i > j

Aged(i) == memory[i].created + MaxAge < now

Bug_KeptOldest(repo) ==
  {i \in Summaries(repo) :
     /\ ~Aged(i)
     /\ Cardinality({j \in Summaries(repo) : ~Aged(j) /\ Newer(i, j)}) < MaxSummaries}

(* The newest of those that are young enough.                              *)
Kept(repo) ==
  {i \in Summaries(repo) :
     /\ ~Aged(i)
     /\ Cardinality({j \in Summaries(repo) : ~Aged(j) /\ Newer(j, i)}) < MaxSummaries}

(* ON DELETE SET NULL: whoever named a deleted record names nothing.       *)
Delete(gone) ==
  memory' = [i \in Ids |->
    IF i \in gone THEN NoRecord
    ELSE IF memory[i].supersedes \in gone THEN [memory[i] EXCEPT !.supersedes = None]
    ELSE memory[i]]

GcTaskSummaries(repo) ==
  /\ Summaries(repo) # Kept(repo)
  /\ Delete(Summaries(repo) \ Kept(repo))
  /\ UNCHANGED now

ClearRepo(repo) ==
  /\ In(repo) # {}
  /\ Delete(In(repo))
  /\ UNCHANGED now

Tick == now < MaxTime /\ now' = now + 1 /\ UNCHANGED memory

MemoryNext ==
  \/ \E repo \in Repos, draft \in Drafts, i \in Ids :
       \/ AddConstraint(repo, draft, i)
       \/ AddTaskSummary(repo, draft, i)
       \/ \E old \in Ids \cup {None} : AddDecision(repo, draft, old, i)
  \/ \E repo \in Repos : GcTaskSummaries(repo) \/ ClearRepo(repo)
  \/ Tick

MemorySpec == MemoryInit /\ [][MemoryNext]_memoryVars

-----------------------------------------------------------------------------
(* retrieve_records.  A path is a sequence of names, and "." the empty one;*)
(* a draft has paths, tags, terms and a length, a query the same and the   *)
(* types it asks for, top_n and the two budgets.                           *)

IsPathPrefix(p, q) == Len(p) <= Len(q) /\ p = SubSeq(q, 1, Len(p))
Related(p, q) == IsPathPrefix(p, q) \/ IsPathPrefix(q, p)

Applies(query, draft) ==
  \/ query.paths = {} \/ draft.paths = {}
  \/ \E p \in draft.paths, q \in query.paths : Related(p, q)

Score(query, draft) ==
  LET pairs == draft.paths \X query.paths IN
  100 * Cardinality(draft.paths \cap query.paths)
  + 20 * Cardinality({pq \in pairs : pq[1] # pq[2] /\ Related(pq[1], pq[2])})
  + 10 * Cardinality(draft.tags \cap query.tags)
  + Cardinality(draft.terms \cap query.terms)

Candidates(query) ==
  {i \in In(query.repo) : /\ memory[i].type \in query.types
                          /\ memory[i].status = "active"
                          /\ Applies(query, memory[i].draft)}

(* The sort key: the score, then the later record, then the smaller id.    *)
Above(query, i, j) ==
  LET si == Score(query, memory[i].draft)
      sj == Score(query, memory[j].draft)
  IN \/ si > sj
     \/ si = sj /\ memory[i].created > memory[j].created
     \/ si = sj /\ memory[i].created = memory[j].created /\ i < j

Ranked(query) ==
  [n \in 1..Cardinality(Candidates(query)) |->
     CHOOSE i \in Candidates(query) :
       Cardinality({j \in Candidates(query) : Above(query, j, i)}) = n - 1]

Least(m, n) == IF m <= n THEN m ELSE n

Bug_BudgetEach(query) ==
  LET top == SubSeq(Ranked(query), 1, Least(query.top_n, Len(Ranked(query)))) IN
  [n \in DOMAIN top |->
     [id |-> top[n], length |-> Least(memory[top[n]].draft.length, query.per_record)]]

Top(query) == SubSeq(Ranked(query), 1, Least(query.top_n, Len(Ranked(query))))

(* The best top_n, each cut to its budget, until the total is used up.     *)
Retrieve(query) ==
  LET top == Top(query)
      cut == [n \in DOMAIN top |-> Least(memory[top[n]].draft.length, query.per_record)]
      left[n \in 0..Len(top)] ==
        IF n = 0 THEN query.total ELSE left[n - 1] - Least(cut[n], left[n - 1])
      shown == {n \in DOMAIN top : Least(cut[n], left[n - 1]) > 0}
  IN [n \in shown |-> [id |-> top[n], length |-> Least(cut[n], left[n - 1])]]

-----------------------------------------------------------------------------
MemoryTypeOK ==
  /\ memory \in [Ids -> Records \cup {NoRecord}]
  /\ now \in Nat

Present == {i \in Ids : memory[i].repo # None}

(* A decision is superseded exactly when one decision of its repository,   *)
(* and only one, names it: two users who replace the same decision do not  *)
(* leave two successors, and no clean-up leaves it without one.            *)
SupersededByOne ==
  \A i \in Present :
    /\ memory[i].status = "superseded" =>
         \E j \in Present : memory[j].supersedes = i
    /\ \A j \in Present : memory[j].supersedes = i =>
         /\ memory[i].status = "superseded"
         /\ memory[i].type = "decision" /\ memory[j].type = "decision"
         /\ memory[i].repo = memory[j].repo
         /\ \A k \in Present : memory[k].supersedes = i => k = j

(* A record disappears with its whole repository, or because it is a       *)
(* summary that is too old or has MaxSummaries newer ones that all stay.   *)
OnlyStaleSummariesGo ==
  [][ \A i \in Present : memory'[i].repo = None =>
        \/ \A j \in In(memory[i].repo) : memory'[j].repo = None
        \/ /\ memory[i].type = "task_summary"
           /\ \/ Aged(i)
              \/ Cardinality({j \in Summaries(memory[i].repo) :
                     Newer(j, i) /\ memory'[j] = memory[j]}) >= MaxSummaries
    ]_memoryVars

(* How much the first n of an answer say.                                  *)
Said(answer, n) ==
  LET said[k \in 0..n] ==
        IF k = 0 THEN 0
        ELSE IF k \in DOMAIN answer THEN said[k - 1] + answer[k].length ELSE said[k - 1]
  IN said[n]

(* The answer to a query stays within its budgets and shows active records *)
(* of its repository only, the best first, never a decision together with  *)
(* the one it replaces; no record that was left out ranks above one that   *)
(* was shown; and one of the best top_n is left out only when the total    *)
(* budget is used up, or when none may say anything.                       *)
AnswerIsBest ==
  \A query \in Queries :
    LET answer == Retrieve(query)
        shown == {answer[n].id : n \in DOMAIN answer}
        out == Candidates(query) \ shown
        length == Said(answer, query.top_n)
    IN /\ length <= query.total
       /\ Cardinality(shown) <= query.top_n
       /\ \A i \in shown : /\ memory[i].repo = query.repo /\ memory[i].status = "active"
                           /\ memory[i].supersedes \notin shown
       /\ \A m, n \in DOMAIN answer : m < n => Above(query, answer[m].id, answer[n].id)
       /\ \A i \in shown, j \in out : Above(query, i, j)
       /\ out # {} => \/ Cardinality(shown) = query.top_n
                     \/ length = query.total \/ query.per_record = 0
=================================================================================
