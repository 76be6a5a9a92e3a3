---------------------------- MODULE ActiveTesting ----------------------------
(***************************************************************************)
(* Active detection testing (active_testing/runner.py, caldera.py,         *)
(* alerts.py): the runner has Caldera execute the command of each manifest *)
(* on an agent and waits for the Wazuh alert it should raise.              *)
(*                                                                         *)
(* An action of the runner is one request and what the code does with its  *)
(* answer.  A request fails with an ActiveTestError, which is handled, or  *)
(* with anything else (a response that times out, a payload of another     *)
(* shape), which no handler catches.  Caldera, the agents and the indexer  *)
(* are external: an operation that was started runs its command at any     *)
(* later time, or never, and an alert may arrive long after it.            *)
(*                                                                         *)
(* An operation is named by the run and the position of the test that      *)
(* created it.  The texts of a command or an alert are the markers in it.  *)
(***************************************************************************)
EXTENDS Integers, Sequences

CONSTANTS
  Rules,      \* the Wazuh rules
  Words,      \* fixed texts a manifest may use as its marker
  Template,   \* "{{marker}}"
  Absent,     \* expect has no marker
  Suites,     \* the test directories: sequences of manifests
  NoReport,   \* there is no report file
  MaxPolls,   \* bound: a deadline passes after at most this many polls
  MaxRuns     \* bound: runs of the runner

(* raises: the rules the deployed ruleset applies to the command;          *)
(* accepts: the rules that satisfy rule_id and rule_group, or expect.query *)
(* when query is set.                                                      *)
Manifest ==
  [raises: SUBSET Rules, accepts: SUBSET Rules, query: BOOLEAN,
   marker: Words \cup {Template, Absent}, says: SUBSET (Words \cup {Template})]

ASSUME ActiveTestingAssumptions ==
  /\ Suites \subseteq Seq(Manifest) \ {<<>>}
  /\ \A suite \in Suites :   \* a fixed marker is not the name of an operation
       (Words \cup {Template, Absent}) \cap ((1..MaxRuns) \X DOMAIN suite) = {}
  /\ Template # Absent /\ {Template, Absent} \cap Words = {}
  /\ MaxPolls \in Nat \ {0}
  /\ MaxRuns \in Nat

VARIABLES
  tests,      \* the manifests, in the order of their paths
  pc,         \* the request the runner is about to make
  current,    \* the position of the test being run
  polls,      \* polls made in the wait under way
  sawClosed,  \* the state of the operation, read before its links
  operation,  \* Caldera: the operation the runner waits for
  started,    \* Caldera: the operations ever created
  index,      \* Wazuh indexer: the alerts
  report,     \* the report of the run
  written,    \* the report file
  outcome,    \* how the last run ended
  runs        \* runs started

external == <<operation, started, index>>
vars == <<tests, pc, current, polls, sawClosed, external, report, written, outcome, runs>>

Operations == (1..MaxRuns) \X DOMAIN tests
Alerts == [from: Operations, rule: Rules]

This == <<runs, current>>
ManifestOf(op) == tests[op[2]]

-----------------------------------------------------------------------------
(* Markers. *)

(* _marker_for_test: the name of the test and a part of a fresh UUID. *)
\* Mutant: without the UUID the marker is the same in every run.
MarkerSlug(op) == <<0, op[2]>>
MarkerOf(op) == op

(* substitute_marker, applied to the command when the ability is created. *)
TextsOf(op) ==
  LET says == ManifestOf(op).says
  IN  (says \ {Template}) \cup (IF Template \in says THEN {MarkerOf(op)} ELSE {})

(* build_alert_query: a marker of the manifest is searched for as it is. *)
ExpectedMarker(op) ==
  IF ManifestOf(op).marker # Absent THEN ManifestOf(op).marker ELSE MarkerOf(op)

\* Mutant: the marker of the run comes before the one of the manifest.
MatchesByRun(alert, op) ==
  /\ alert.rule \in ManifestOf(op).accepts
  /\ MarkerOf(op) \in TextsOf(alert.from)

Matches(alert, op) ==
  /\ alert.rule \in ManifestOf(op).accepts
  /\ ManifestOf(op).query \/ ExpectedMarker(op) \in TextsOf(alert.from)

Hits == {alert \in index : Matches(alert, This)}

-----------------------------------------------------------------------------
(* The report. *)

Fresh(run) == [run |-> run, status |-> "started", passed |-> 0, failed |-> 0, results |-> <<>>]

Passed(hits) == [passed |-> TRUE, hits |-> hits]
Failed == [passed |-> FALSE, hits |-> {}]

\* Mutant: a failed test is listed and not counted.
WithResultUncounted(r, result) ==
  [run |-> r.run, status |-> r.status,
   passed |-> r.passed + (IF result.passed THEN 1 ELSE 0),
   failed |-> r.failed,
   results |-> Append(r.results, result)]

WithResult(r, result) ==
  [run |-> r.run, status |-> r.status,
   passed |-> r.passed + (IF result.passed THEN 1 ELSE 0),
   failed |-> r.failed + (IF result.passed THEN 0 ELSE 1),
   results |-> Append(r.results, result)]

Requests == {"ability", "adversary", "operation", "state", "links", "alert"}
Setup == {"health", "agent"}

(* _run_one_test returned: the next test, or the end of the loop. *)
\* Mutant: the result is added by the test and by the loop.
RecordTwice(result) ==
  /\ report' = WithResult(WithResult(report, result), result)
  /\ current' = IF current < Len(tests) THEN current + 1 ELSE current
  /\ pc' = IF current < Len(tests) THEN "ability" ELSE "report"
  /\ polls' = 0
  /\ sawClosed' = FALSE
  /\ UNCHANGED <<tests, written, outcome, runs>>

Record(result) ==
  /\ report' = WithResult(report, result)
  /\ current' = IF current < Len(tests) THEN current + 1 ELSE current
  /\ pc' = IF current < Len(tests) THEN "ability" ELSE "report"
  /\ polls' = 0
  /\ sawClosed' = FALSE
  /\ UNCHANGED <<tests, written, outcome, runs>>

(* The run is over; its variables are gone. *)
End(how) ==
  /\ pc' = "stopped"
  /\ current' = 1
  /\ polls' = 0
  /\ sawClosed' = FALSE
  /\ outcome' = how
  /\ UNCHANGED <<tests, report, runs>>

(* Go on within a test. *)
Goto(where) ==
  /\ pc' = where
  /\ UNCHANGED <<tests, current, report, written, outcome, runs>>

(* A request that failed may have created the operation all the same. *)
MaybeCreated ==
  /\ started' \in {started} \cup (IF pc = "operation" THEN {started \cup {This}} ELSE {})
  /\ UNCHANGED <<operation, index>>

-----------------------------------------------------------------------------
(* run_active_detection_tests *)

Init ==
  /\ tests \in Suites
  /\ pc = "stopped"
  /\ current = 1
  /\ polls = 0
  /\ sawClosed = FALSE
  /\ operation = [closed |-> FALSE, links |-> "none"]
  /\ started = {}
  /\ index = {}
  /\ report = Fresh(0)
  /\ written = NoReport
  /\ outcome = "none"
  /\ runs = 0

StartRun ==
  /\ pc = "stopped"
  /\ runs < MaxRuns
  /\ runs' = runs + 1
  /\ report' = Fresh(runs + 1)
  /\ pc' = "health"
  /\ outcome' = "none"
  /\ UNCHANGED <<tests, current, polls, sawClosed, external, written>>

(* load_active_tests fails before there is a report to write. *)
RefuseManifests ==
  /\ pc = "stopped"
  /\ runs < MaxRuns
  /\ runs' = runs + 1
  /\ report' = Fresh(runs + 1)
  /\ outcome' = "refused"
  /\ UNCHANGED <<tests, pc, current, polls, sawClosed, external, written>>

(* health, find_live_agent, the group of the agent *)
PassSetup ==
  /\ \/ pc = "health" /\ Goto("agent")
     \/ pc = "agent" /\ Goto("ability")
  /\ UNCHANGED <<polls, sawClosed, external>>

(* The handler of run_active_detection_tests writes the report. *)
FailSetup ==
  /\ pc \in Setup
  /\ \/ End("failed") /\ written' = [report EXCEPT !.status = "failed"]
     \/ End("escaped") /\ UNCHANGED written
  /\ UNCHANGED external

(* No handler catches it: the results of the run so far are lost. *)
Escape ==
  /\ pc \in Setup \cup Requests
  /\ End("escaped")
  /\ UNCHANGED written
  /\ MaybeCreated

Kill ==
  /\ pc # "stopped"
  /\ End("killed")
  /\ UNCHANGED written
  /\ MaybeCreated

-----------------------------------------------------------------------------
(* _run_one_test *)

Create ==
  /\ \/ pc = "ability" /\ Goto("adversary")
     \/ pc = "adversary" /\ Goto("operation")
  /\ UNCHANGED <<polls, sawClosed, external>>

CreateOperation ==
  /\ pc = "operation"
  /\ started' = started \cup {This}
  /\ operation' = [closed |-> FALSE, links |-> "none"]
  /\ Goto("state")
  /\ UNCHANGED <<polls, sawClosed, index>>

(* wait_for_operation: get_operation ... *)
PollState ==
  /\ pc = "state"
  /\ polls < MaxPolls
  /\ sawClosed' = operation.closed
  /\ Goto("links")
  /\ UNCHANGED <<polls, external>>

\* Mutant: every poll starts the wait anew.
PollLinksAnew ==
  /\ pc = "links"
  /\ polls' = 0
  /\ sawClosed' = FALSE
  /\ Goto(IF sawClosed \/ operation.links = "terminal" THEN "alert" ELSE "state")
  /\ UNCHANGED external

(* ... then list_links. *)
PollLinks ==
  /\ pc = "links"
  /\ sawClosed' = FALSE
  /\ \/ /\ sawClosed \/ operation.links = "terminal"
        /\ polls' = 0
        /\ Goto("alert")
     \/ /\ ~(sawClosed \/ operation.links = "terminal")
        /\ polls' = polls + 1
        /\ Goto("state")
  /\ UNCHANGED external

(* wait_for_alert: search *)
Search ==
  /\ pc = "alert"
  /\ polls < MaxPolls
  /\ \/ /\ Hits # {}
        /\ Record(Passed(Hits))
     \/ /\ Hits = {}
        /\ polls' = polls + 1
        /\ Goto("alert")
        /\ UNCHANGED sawClosed
  /\ UNCHANGED external

(* wait_for_operation and wait_for_alert: the deadline is looked at before *)
(* each poll, and is not over before the first.                            *)
TimeOut ==
  /\ pc \in {"state", "alert"}
  /\ polls > 0
  /\ Record(Failed)
  /\ UNCHANGED external

(* A request of the test fails; the others are run all the same. *)
FailRequest ==
  /\ pc \in Requests
  /\ Record(Failed)
  /\ MaybeCreated

-----------------------------------------------------------------------------
(* The end of run_active_detection_tests. *)

Verdict(r) == IF r.failed = 0 THEN "succeeded" ELSE "failed"

Finish ==
  /\ pc = "report"
  /\ written' = [report EXCEPT !.status = Verdict(report)]
  /\ End(IF report.failed = 0 THEN "ok" ELSE "failed")
  /\ UNCHANGED external

(* The report is not written, or not the second time, with the error. *)
FailToWrite ==
  /\ pc = "report"
  /\ End("escaped")
  /\ \/ UNCHANGED written
     \/ report.failed > 0 /\ written' = [report EXCEPT !.status = "failed"]
  /\ UNCHANGED external

RunnerStep ==
  \/ PassSetup \/ FailSetup \/ Escape
  \/ Create \/ CreateOperation \/ FailRequest
  \/ PollState \/ PollLinks \/ Search \/ TimeOut
  \/ Finish \/ FailToWrite

-----------------------------------------------------------------------------
(* Caldera and Wazuh.  Of the operations only the one waited for is read.  *)

Waiting == pc \in {"state", "links"}

(* An agent of the group takes up the command, or all of the links there   *)
(* are reached a status of _links_finished.                                *)
LinksMove ==
  /\ Waiting
  /\ operation' = [operation EXCEPT !.links =
                     IF operation.links = "active" THEN "terminal" ELSE "active"]
  /\ UNCHANGED <<tests, pc, current, polls, sawClosed, started, index, report,
                 written, outcome, runs>>

OperationCloses ==
  /\ Waiting
  /\ ~operation.closed
  /\ operation' = [operation EXCEPT !.closed = TRUE]
  /\ UNCHANGED <<tests, pc, current, polls, sawClosed, started, index, report,
                 written, outcome, runs>>

(* The command ran, and a rule it raises an alert for reached the indexer. *)
AlertArrives ==
  /\ \E op \in started : \E rule \in ManifestOf(op).raises :
       /\ [from |-> op, rule |-> rule] \notin index
       /\ index' = index \cup {[from |-> op, rule |-> rule]}
  /\ UNCHANGED <<tests, pc, current, polls, sawClosed, operation, started, report,
                 written, outcome, runs>>

Next ==
  \/ StartRun \/ RefuseManifests
  \/ RunnerStep
  \/ Kill
  \/ LinksMove \/ OperationCloses \/ AlertArrives

Spec == Init /\ [][Next]_vars

(* Each request has a timeout and each wait a deadline; nothing obliges    *)
(* Caldera or an agent to act.                                             *)
FairSpec == Spec /\ WF_vars(RunnerStep)

-----------------------------------------------------------------------------
(* The properties. *)

Result == [passed: BOOLEAN, hits: SUBSET Alerts]
Report ==
  [run: 0..MaxRuns, status: {"started", "succeeded", "failed"},
   passed: Nat, failed: Nat, results: Seq(Result)]

(* The state has its types, and a report never has more results than there *)
(* are tests.                                                              *)
TypeOK ==
  /\ tests \in Suites
  /\ pc \in {"stopped", "report"} \cup Setup \cup Requests
  /\ current \in DOMAIN tests
  /\ polls \in 0..MaxPolls
  /\ sawClosed \in BOOLEAN
  /\ operation \in [closed: BOOLEAN, links: {"none", "active", "terminal"}]
  /\ started \subseteq Operations
  /\ index \subseteq Alerts
  /\ report \in Report
  /\ Len(report.results) <= Len(tests)
  /\ written \in Report \cup {NoReport}
  /\ outcome \in {"none", "refused", "escaped", "killed", "failed", "ok"}
  /\ runs \in 0..MaxRuns
  /\ pc # "stopped" => runs > 0

(* A test that is known by the marker of its run. *)
MarkedByRun(op) == ManifestOf(op).marker = Absent /\ ~ManifestOf(op).query

(* "pass/fail is based on Wazuh alert evidence": a test that is searched   *)
(* for by the marker of the run passes only on alerts of the operation it  *)
(* started itself, never on a late alert of another test or another run.   *)
PassedOnOwnEvidence ==
  \A i \in DOMAIN report.results :
    MarkedByRun(<<report.run, i>>) =>
      \A alert \in report.results[i].hits : alert.from = <<report.run, i>>

(* The search finds what the test is about: it never comes back empty      *)
(* while an alert its own command raised, by a rule the manifest accepts,  *)
(* is in the index.                                                        *)
OwnAlertFound ==
  [][pc = "alert" /\ polls' = polls + 1 =>
       \A alert \in index :
         alert.from = This => alert.rule \notin ManifestOf(This).accepts]_vars

(* What the exit of a run says is what its report says: after a success    *)
(* every test has passed and is on disk as passed, after a handled failure *)
(* the report on disk is this run's and says so; and no report that says   *)
(* "succeeded" holds a failed test.                                        *)
ReportTruthful ==
  LET AllPassed == \A i \in DOMAIN written.results : written.results[i].passed IN
  /\ outcome = "ok" =>
       /\ written.run = runs /\ written.status = "succeeded"
       /\ Len(written.results) = Len(tests)
  /\ outcome = "failed" => written.run = runs /\ written.status = "failed"
  /\ written # NoReport /\ written.status = "succeeded" => AllPassed

(* A run ends, whatever the services answer. *)
RunsEnd == pc # "stopped" ~> pc = "stopped"
=============================================================================
