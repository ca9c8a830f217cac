-------------------------------- MODULE Sensors --------------------------------
(***************************************************************************)
(* What a verify command's result is taken to say (sensors/): the tool     *)
(* reports how the process ended and names a JUnit file of its own, and    *)
(* the profile's sensor turns that into a verdict.                         *)
(***************************************************************************)
EXTENDS Integers

CONSTANT NoCode     \* no exit code

(* run_command: it did not start, was killed at its timeout, or exited.    *)
Results ==
  {r \in [started : BOOLEAN, timed_out : BOOLEAN, exit_code : {NoCode, 0, 1}] :
     (r.exit_code = NoCode) <=> (~r.started \/ r.timed_out)}

(* The JUnit file: absent, no report at all (empty, no XML, a DTD, another *)
(* root element, a count that is no natural number), or a report.  own and *)
(* suites are the totals of failures and errors of the root and of its     *)
(* suites together, cases the test cases with a failure or an error, each  *)
(* as zero or not; they need not agree.                                    *)
Reports ==
  [form : {"missing", "malformed"}, own : {0}, suites : {0}, cases : {0}]
  \cup [form : {"testsuite", "testsuites"}, own : {0, 1}, suites : {0, 1}, cases : {0, 1}]

ExitCodeVerdict(result) ==
  IF ~result.started THEN "ERROR"
  ELSE IF result.timed_out THEN "TIMEOUT"
  ELSE IF result.exit_code = 0 THEN "PASS"
  ELSE IF result.exit_code = NoCode THEN "ERROR"
  ELSE "FAIL"

Bug_OwnTotalOnly(report) == report.own

(* A root that is one suite counts for itself; a root of several counts    *)
(* the larger of its own total and theirs.                                 *)
Problems(report) ==
  IF report.form = "testsuite" \/ report.own > report.suites
    THEN report.own ELSE report.suites

JunitVerdict(result, report) ==
  IF ~result.started THEN "ERROR"
  ELSE IF result.timed_out THEN "TIMEOUT"
  ELSE IF report.form \in {"missing", "malformed"} THEN "ERROR"
  ELSE IF Problems(report) # 0 \/ report.cases # 0 THEN "FAIL"
  ELSE "PASS"

SensorVerdict(sensor, result, report) ==
  IF sensor = "junit_xml" THEN JunitVerdict(result, report)
  ELSE IF sensor = "exit_code" THEN ExitCodeVerdict(result)
  ELSE "ERROR"

(* build_verify_plan(): it raises unless every profile is known, and named *)
(* once.                                                                   *)
PlanHolds(profiles, verify) ==
  /\ \A i, j \in DOMAIN verify : i # j => verify[i] # verify[j]
  /\ \A i \in DOMAIN verify : verify[i] \in DOMAIN profiles
===============================================================================
