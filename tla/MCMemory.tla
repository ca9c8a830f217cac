-------------------------------- MODULE MCMemory --------------------------------
(* Instances of Memory for TLC: a small repository tree, and the records and *)
(* the queries about it.                                                     *)
EXTENDS Memory, TLC

Root == <<>>
Src == <<"src">>
File == <<"src", "a">>

MCDrafts ==
  {[paths |-> {Src}, tags |-> {"t"}, terms |-> {}, length |-> 1],
   [paths |-> {File}, tags |-> {}, terms |-> {"w"}, length |-> 3],
   [paths |-> {}, tags |-> {"t"}, terms |-> {"w"}, length |-> 2]}

Symmetry == Permutations(Repos)

MCQueries ==
  [repo : Repos, paths : {{}, {Src}, {File, <<"doc">>}}, tags : {{"t"}}, terms : {{"w"}},
   types : {Types}, top_n : {2}, per_record : {2}, total : {3}]
  \cup [repo : Repos, paths : {{Root}}, tags : {{}}, terms : {{"w"}},
       types : {{"decision", "project_constraint"}}, top_n : {1}, per_record : {3}, total : {4}]
=================================================================================
