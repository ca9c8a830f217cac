------------------------------ MODULE MCLifecycle ------------------------------
(* Instances of Lifecycle for TLC.                                          *)
EXTENDS Lifecycle, TLC

CONSTANTS patch, edit, leak, command, check, ship, guess, look   \* what the model may propose

Source  == [inside |-> TRUE, envPart |-> FALSE, envName |-> FALSE,
            readable |-> TRUE, writable |-> TRUE]
Outside == [Source EXCEPT !.writable = FALSE]
Secret  == [Source EXCEPT !.envName = TRUE]

(* patch leaves write_paths with one of its files, leak touches a .env file *)
(* besides, ship runs a hard-forbidden profile, guess one nobody confirmed. *)
Actions ==
  [fp \in Fingerprints |->
     CASE fp = patch   -> [tool |-> "apply_patch", paths |-> {Source, Outside}, profile |-> "unit"]
       [] fp = edit    -> [tool |-> "apply_patch", paths |-> {Source}, profile |-> "unit"]
       [] fp = leak    -> [tool |-> "apply_patch", paths |-> {Outside, Secret}, profile |-> "unit"]
       [] fp = command -> [tool |-> "run_command", paths |-> {}, profile |-> "unit"]
       [] fp = check   -> [tool |-> "run_command", paths |-> {}, profile |-> "types"]
       [] fp = ship    -> [tool |-> "run_command", paths |-> {}, profile |-> "release"]
       [] fp = guess   -> [tool |-> "run_command", paths |-> {}, profile |-> "lint"]
       [] fp = look    -> [tool |-> "read_file", paths |-> {Source}, profile |-> "unit"]]

Names   == {"unit", "types", "release", "lint"}
Argvs   == [unit |-> {"pytest"}, types |-> {"mypy"}, release |-> {"git", "push"}]
Junit   == [unit |-> "junit_xml", types |-> "exit_code", release |-> "exit_code"]
Code    == [unit |-> "exit_code", types |-> "exit_code", release |-> "exit_code"]
Unit    == <<"unit">>
Nothing == <<>>
Both    == <<"unit", "types">>

Symmetry == Permutations(Procs) \cup Permutations(PendingIds)
            \cup Permutations(PermitIds) \cup Permutations(WindowIds)
            \cup Permutations(ClaimIds)
===============================================================================
