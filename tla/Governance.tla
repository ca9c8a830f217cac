------------------------------- MODULE Governance -------------------------------
(***************************************************************************)
(* evaluate(): what becomes of an action the model proposes, before the    *)
(* store is asked for anything.                                            *)
(*                                                                         *)
(* A path is what the checks find out about it once it is resolved:        *)
(* whether it is inside the worktree, whether a part of it below the root  *)
(* (envPart) or the name the model wrote (envName) is a .env file, and     *)
(* whether the envelope's read_paths and write_paths reach it.  An argv    *)
(* is the set of its tokens as _normalize_token leaves them, "pip"         *)
(* standing for every name of the pip family.                              *)
(***************************************************************************)
EXTENDS Integers

Paths == [inside : BOOLEAN, envPart : BOOLEAN, envName : BOOLEAN,
          readable : BOOLEAN, writable : BOOLEAN]

Tools == {"list_dir", "read_file", "search_text", "apply_patch", "run_command"}

(* An action: its tool, the paths it names, and the profile it runs.       *)
IsAction(action, profileIds) ==
  /\ action \in [tool : Tools, paths : SUBSET Paths, profile : profileIds]
  /\ action.tool = "apply_patch" => action.paths # {}
  /\ action.tool \in {"list_dir", "read_file"} => \E path \in Paths : action.paths = {path}

(* The store's windows tell the reading tools from the other two only.     *)
ActionKind(action) ==
  IF action.tool \in {"apply_patch", "run_command"} THEN action.tool ELSE "read"

CheckPath(path) ==
  IF ~path.inside THEN "WORKSPACE_ESCAPE"
  ELSE IF path.envPart \/ path.envName THEN "SENSITIVE_PATH"
  ELSE "ok"

ClassifyRead(path) ==
  IF CheckPath(path) = "ok" /\ path.readable THEN "Allow" ELSE "Deny"

ClassifyWrite(path) ==
  IF CheckPath(path) # "ok" THEN "Deny"
  ELSE IF path.writable THEN "Allow" ELSE "NeedApproval"

HardTokens == {"push", "publish", "deploy", "sudo", "su", "runas", "pkexec"}

HardForbidden(argv) ==
  \/ argv \cap HardTokens # {}
  \/ {"pip", "install"} \subseteq argv

(* profiles: the argv of each profile the envelope confirms.               *)
ClassifyProfile(profiles, id) ==
  IF id \notin DOMAIN profiles THEN "unknown"
  ELSE IF HardForbidden(profiles[id]) THEN "hard_forbidden"
  ELSE "allowed"

Fenced(action) ==
  \/ /\ action.tool \in {"list_dir", "read_file"}
     /\ \E path \in action.paths : ClassifyRead(path) = "Deny"
  \/ /\ action.tool = "apply_patch"
     /\ \E path \in action.paths : ClassifyWrite(path) = "Deny"

Bug_AsksForWholePatch(action) ==
  /\ action.tool = "apply_patch"
  /\ \A path \in action.paths : ClassifyWrite(path) = "NeedApproval"

LeavesWritePaths(action) ==
  /\ action.tool = "apply_patch"
  /\ \E path \in action.paths : ClassifyWrite(path) = "NeedApproval"

Profile(profiles, action) ==
  IF action.tool = "run_command" THEN ClassifyProfile(profiles, action.profile)
  ELSE "allowed"

(* The order is the code's: an unknown profile asks for an envelope even   *)
(* when the budget is gone, and an empty budget asks nobody.               *)
Evaluate(profiles, action, remaining) ==
  IF Fenced(action) THEN "Deny"
  ELSE IF Profile(profiles, action) = "unknown" THEN "NeedEnvelopeRevision"
  ELSE IF Profile(profiles, action) = "hard_forbidden" \/ remaining <= 0 THEN "Deny"
  ELSE IF LeavesWritePaths(action) THEN "NeedApproval"
  ELSE "Allow"
===============================================================================
