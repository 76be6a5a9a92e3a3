------------------------ MODULE ActiveTesting_proofs ------------------------
(***************************************************************************)
(* Proofs about ActiveTesting, for every directory of manifests, any       *)
(* number of rules and runs, and any length of the waits.                  *)
(***************************************************************************)
EXTENDS ActiveTesting, TLAPS

(* The bounds are numbers. *)
LEMMA Bounds == MaxPolls \in Nat /\ MaxPolls > 0 /\ MaxRuns \in Nat
  BY ActiveTestingAssumptions

-----------------------------------------------------------------------------
(* Markers. *)

(* A directory is a non-empty sequence of manifests. *)
LEMMA SuiteTyped ==
  ASSUME TypeOK
  PROVE  /\ tests \in Seq(Manifest) /\ Len(tests) \in Nat /\ Len(tests) > 0
         /\ DOMAIN tests = 1..Len(tests)
         /\ \A i \in DOMAIN tests : tests[i] \in Manifest
<1>1. tests \in Seq(Manifest) /\ tests # <<>>
  BY ActiveTestingAssumptions DEF TypeOK
<1> QED
  BY <1>1

(* An alert found by the marker of a run was raised by that operation: the *)
(* marker is in no text but those of its own command.                      *)
LEMMA MarkerIsOwn ==
  ASSUME TypeOK, NEW op \in Operations, NEW alert \in Alerts,
         MarkedByRun(op), Matches(alert, op)
  PROVE  alert.from = op
<1>1. op \in TextsOf(alert.from)
  BY DEF MarkedByRun, Matches, ExpectedMarker, MarkerOf
<1>2. alert.from \in Operations
  BY DEF Alerts
<1>3. ManifestOf(alert.from).says \subseteq Words \cup {Template}
  <2>1. alert.from[2] \in DOMAIN tests
    BY <1>2 DEF Operations
  <2> QED
    BY <2>1, SuiteTyped DEF ManifestOf, Manifest
<1>4. op \notin Words \cup {Template}
  BY ActiveTestingAssumptions DEF TypeOK, Operations
<1> QED
  BY <1>1, <1>3, <1>4 DEF TextsOf, MarkerOf

-----------------------------------------------------------------------------
(* The invariant. *)

(* Where the run is, in the report: one result for each test before the    *)
(* current one, one for each test at the end; and the links are read in a  *)
(* poll that began before the deadline.                                    *)
InStep ==
  /\ report.run = runs
  /\ pc \in Setup \cup {"stopped"} => current = 1
  /\ pc \in Setup => report.results = <<>>
  /\ pc \in Requests => Len(report.results) = current - 1
  /\ pc = "report" => Len(report.results) = Len(tests)
  /\ pc = "links" => polls < MaxPolls

AllPassed(r) == \A i \in DOMAIN r.results : r.results[i].passed

FailuresCounted == report.failed = 0 <=> AllPassed(report)

IInv == TypeOK /\ InStep /\ FailuresCounted /\ PassedOnOwnEvidence /\ ReportTruthful

(* The initial states satisfy the invariant. *)
LEMMA InitInv == Init => IInv
<1> SUFFICES ASSUME Init PROVE IInv
  OBVIOUS
<1>1. tests \in Seq(Manifest) /\ tests # <<>>
  BY ActiveTestingAssumptions DEF Init
<1>2. Fresh(0) \in Report /\ Fresh(0).results = <<>>
  BY ActiveTestingAssumptions DEF Fresh, Report
<1>3. TypeOK
  <2>1. 1 \in DOMAIN tests /\ 0 <= Len(tests)
    BY <1>1
  <2>2. report \in Report /\ Len(report.results) <= Len(tests)
    BY <1>2, <2>1 DEF Init
  <2>3. tests \in Suites /\ current \in DOMAIN tests /\ polls \in 0..MaxPolls /\ runs \in 0..MaxRuns
    BY <2>1, ActiveTestingAssumptions DEF Init
  <2> QED
    BY <2>2, <2>3 DEF Init, TypeOK
<1>4. InStep /\ FailuresCounted /\ PassedOnOwnEvidence
  BY <1>2 DEF Init, InStep, FailuresCounted, AllPassed, PassedOnOwnEvidence, Fresh, Setup, Requests
<1>5. ReportTruthful
  BY DEF Init, ReportTruthful
<1> QED
  BY <1>3, <1>4, <1>5 DEF IInv

-----------------------------------------------------------------------------
(* The parts of a step. *)

(* While the directory stays, so do the names of operations and alerts. *)
LEMMA NamesKept ==
  ASSUME tests' = tests
  PROVE  Operations' = Operations /\ Alerts' = Alerts /\ Result' = Result /\ Report' = Report
         /\ \A op : MarkedByRun(op)' = MarkedByRun(op)
  BY DEF Operations, Alerts, Result, Report, MarkedByRun, ManifestOf

(* The operation under way has a name. *)
LEMMA ThisTyped == ASSUME TypeOK, pc # "stopped" PROVE This \in Operations
  BY ActiveTestingAssumptions DEF TypeOK, This, Operations

(* A failed request creates the operation of the test, or none. *)
LEMMA CreatedTyped ==
  ASSUME TypeOK, pc # "stopped", MaybeCreated
  PROVE  started' \subseteq Operations /\ UNCHANGED <<operation, index>>
  BY ThisTyped DEF TypeOK, MaybeCreated

(* The external state has its types. *)
ExternalTyped ==
  /\ operation' \in [closed: BOOLEAN, links: {"none", "active", "terminal"}]
  /\ started' \subseteq Operations
  /\ index' \subseteq Alerts

(* Adding a result to a report that has counted its failures. *)
LEMMA WithResultCounts ==
  ASSUME NEW r \in Report, NEW result \in Result,
         r.failed = 0 <=> AllPassed(r)
  PROVE  LET s == WithResult(r, result) IN
         /\ s \in Report
         /\ s.run = r.run
         /\ s.results = Append(r.results, result)
         /\ s.failed = 0 <=> AllPassed(s)
<1> DEFINE s == WithResult(r, result)
<1>1. r.results \in Seq(Result) /\ r.passed \in Nat /\ r.failed \in Nat /\ result.passed \in BOOLEAN
      /\ r.run \in 0..MaxRuns /\ r.status \in {"started", "succeeded", "failed"}
  BY DEF Report, Result
<1>2. s.run = r.run /\ s.status = r.status /\ s.results = Append(r.results, result)
      /\ s.passed = r.passed + (IF result.passed THEN 1 ELSE 0)
      /\ s.failed = r.failed + (IF result.passed THEN 0 ELSE 1)
  BY DEF WithResult
<1>3. s \in Report
  <2>1. Append(r.results, result) \in Seq(Result)
    BY <1>1
  <2>2. r.passed + (IF result.passed THEN 1 ELSE 0) \in Nat
        /\ r.failed + (IF result.passed THEN 0 ELSE 1) \in Nat
    BY <1>1
  <2> QED
    BY <1>1, <2>1, <2>2 DEF WithResult, Report
<1>4. AllPassed(s) <=> AllPassed(r) /\ result.passed
  <2>1. DOMAIN s.results = 1..(Len(r.results) + 1) /\ Len(r.results) \in Nat
        /\ DOMAIN r.results = 1..Len(r.results)
    BY <1>1, <1>2
  <2>2. \A i \in DOMAIN r.results : s.results[i] = r.results[i]
    BY <1>1, <1>2, <2>1
  <2>3. s.results[Len(r.results) + 1] = result
    BY <1>1, <1>2, <2>1
  <2> HIDE DEF s
  <2> QED
    BY <2>1, <2>2, <2>3 DEF AllPassed
<1>5. s.failed = 0 <=> r.failed = 0 /\ result.passed
  BY <1>1, <1>2
<1> QED
  BY <1>2, <1>3, <1>4, <1>5

(* Recording a result on evidence of its own operation keeps the invariant. *)
LEMMA RecordInv ==
  ASSUME IInv, pc \in Requests, NEW result \in Result, Record(result), ExternalTyped,
         MarkedByRun(This) => \A alert \in result.hits : alert.from = This
  PROVE  IInv'
<1> DEFINE n == Len(report.results)
<1>1. tests' = tests /\ written' = written /\ outcome' = outcome /\ runs' = runs
  BY DEF Record
<1>2. report \in Report /\ report.results \in Seq(Result) /\ n = current - 1 /\ report.run = runs
  BY DEF IInv, TypeOK, InStep, Report
<1>3. /\ report' \in Report
      /\ report'.run = report.run
      /\ report'.results = Append(report.results, result)
      /\ report'.failed = 0 <=> AllPassed(report')
  BY <1>2, WithResultCounts DEF Record, IInv, FailuresCounted
<1>4. current \in 1..Len(tests) /\ Len(tests) \in Nat /\ DOMAIN tests = 1..Len(tests)
  BY SuiteTyped DEF IInv, TypeOK
<1>5. Len(report'.results) = current
  BY <1>2, <1>3, <1>4
<1>6. TypeOK'
  <2>1. tests' \in Suites /\ runs' \in 0..MaxRuns /\ runs' > 0
        /\ outcome' \in {"none", "refused", "escaped", "killed", "failed", "ok"}
    BY <1>1 DEF IInv, TypeOK, Requests
  <2>2. current' \in DOMAIN tests /\ pc' \in {"ability", "report"}
    BY <1>4 DEF Record
  <2>3. polls' \in 0..MaxPolls
    BY Bounds DEF Record
  <2>4. sawClosed' \in BOOLEAN
    BY DEF Record
  <2>5. report' \in Report' /\ Len(report'.results) <= Len(tests)
        /\ written' \in Report' \cup {NoReport}
    <3>1. Report' = Report
      BY <1>1, NamesKept
    <3>2. written \in Report \cup {NoReport}
      BY DEF IInv, TypeOK
    <3> QED
      BY <1>1, <1>3, <1>4, <1>5, <3>1, <3>2
  <2>6. started' \subseteq Operations' /\ index' \subseteq Alerts'
    BY <1>1, NamesKept DEF ExternalTyped
  <2> QED
    BY <1>1, <2>1, <2>2, <2>3, <2>4, <2>5, <2>6 DEF TypeOK, ExternalTyped, Requests
<1>7. InStep'
  <2>1. report'.run = runs'
    BY <1>1, <1>2, <1>3
  <2>2. CASE current < Len(tests)
    <3>1. pc' = "ability" /\ current' = current + 1
      BY <2>2 DEF Record
    <3> QED
      BY <3>1, <2>1, <1>4, <1>5 DEF InStep, Setup, Requests
  <2>3. CASE current = Len(tests)
    <3>1. pc' = "report"
      BY <2>3, <1>4 DEF Record
    <3> QED
      BY <3>1, <2>1, <2>3, <1>1, <1>5 DEF InStep, Setup, Requests
  <2>4. current < Len(tests) \/ current = Len(tests)
    BY <1>4
  <2> QED
    BY <2>2, <2>3, <2>4
<1>8. FailuresCounted'
  BY <1>3 DEF FailuresCounted, AllPassed
<1>9. PassedOnOwnEvidence'
  <2> SUFFICES ASSUME NEW i \in DOMAIN report'.results, MarkedByRun(<<report.run, i>>),
                      NEW alert \in report'.results[i].hits
               PROVE  alert.from = <<report.run, i>>
    BY <1>1, <1>3, NamesKept DEF PassedOnOwnEvidence
  <2>1. CASE i \in DOMAIN report.results
    <3>1. report'.results[i] = report.results[i]
      BY <2>1, <1>2, <1>3
    <3> QED
      BY <2>1, <3>1 DEF IInv, PassedOnOwnEvidence
  <2>2. CASE i = current
    <3>1. report'.results[i] = result /\ <<report.run, i>> = This
      BY <2>2, <1>2, <1>3, <1>4 DEF This
    <3> QED
      BY <3>1
  <2> QED
    BY <2>1, <2>2, <1>2, <1>3, <1>4
<1>10. ReportTruthful'
  BY <1>1 DEF IInv, ReportTruthful
<1> QED
  BY <1>6, <1>7, <1>8, <1>9, <1>10 DEF IInv

(* A run that ends keeps the invariant if what it writes is true. *)
LEMMA EndInv ==
  ASSUME IInv, NEW how \in {"escaped", "killed", "failed", "ok"}, End(how), ExternalTyped,
         written' \in Report \cup {NoReport}, ReportTruthful'
  PROVE  IInv'
<1>1. tests' = tests /\ report' = report /\ runs' = runs
  BY DEF End
<1>2. 1 \in DOMAIN tests
  BY SuiteTyped DEF IInv
<1>3. TypeOK'
  <2>1. tests' \in Suites /\ runs' \in 0..MaxRuns /\ current' \in DOMAIN tests'
    BY <1>1, <1>2 DEF IInv, TypeOK, End
  <2>2. pc' = "stopped" /\ polls' \in 0..MaxPolls
        /\ outcome' \in {"none", "refused", "escaped", "killed", "failed", "ok"}
    BY Bounds DEF End
  <2>3. sawClosed' \in BOOLEAN
    BY DEF End
  <2>4. report' \in Report' /\ Len(report'.results) <= Len(tests')
        /\ written' \in Report' \cup {NoReport}
    <3>1. Report' = Report
      BY <1>1, NamesKept
    <3>2. report \in Report /\ Len(report.results) <= Len(tests)
      BY DEF IInv, TypeOK
    <3> QED
      BY <1>1, <3>1, <3>2
  <2>5. started' \subseteq Operations' /\ index' \subseteq Alerts'
    BY <1>1, NamesKept DEF ExternalTyped
  <2> QED
    BY <2>1, <2>2, <2>3, <2>4, <2>5 DEF TypeOK, ExternalTyped
<1>4. InStep'
  BY <1>1 DEF IInv, InStep, End, Setup, Requests
<1>5. FailuresCounted' /\ PassedOnOwnEvidence'
  BY <1>1, NamesKept DEF IInv, FailuresCounted, PassedOnOwnEvidence
<1> QED
  BY <1>3, <1>4, <1>5 DEF IInv

(* A run that ends without writing keeps it. *)
LEMMA LostInv ==
  ASSUME IInv, NEW how \in {"escaped", "killed"}, End(how), ExternalTyped, UNCHANGED written
  PROVE  IInv'
<1>1. ReportTruthful'
  BY DEF IInv, ReportTruthful, End
<1> QED
  BY <1>1, EndInv DEF IInv, TypeOK

(* A step that only moves the runner on, or the services, keeps it. *)
LEMMA MoveInv ==
  ASSUME IInv, ExternalTyped, UNCHANGED <<tests, current, report, written, outcome, runs>>,
         polls' \in 0..MaxPolls, sawClosed' \in BOOLEAN,
         pc' = "links" => polls' < MaxPolls,
         \/ pc' = pc
         \/ pc \in Requests /\ pc' \in Requests
         \/ pc \in Setup /\ pc' \in Setup \cup {"ability"}
  PROVE  IInv'
<1>1. TypeOK'
  BY NamesKept DEF IInv, TypeOK, ExternalTyped, Setup, Requests
<1>2. InStep'
  <2>1. CASE pc' = pc
    BY <2>1 DEF IInv, InStep
  <2>2. CASE pc \in Requests /\ pc' \in Requests
    BY <2>2 DEF IInv, InStep, Setup, Requests
  <2>3. CASE pc \in Setup /\ pc' \in Setup \cup {"ability"}
    <3>1. Len(report.results) = 0 /\ current = 1
      BY <2>3 DEF IInv, InStep
    <3> QED
      BY <2>3, <3>1 DEF IInv, InStep, Setup, Requests
  <2> QED
    BY <2>1, <2>2, <2>3
<1>3. FailuresCounted' /\ PassedOnOwnEvidence' /\ ReportTruthful'
  BY NamesKept DEF IInv, FailuresCounted, PassedOnOwnEvidence, ReportTruthful
<1> QED
  BY <1>1, <1>2, <1>3 DEF IInv

(* A run that begins, or is refused before its first request, keeps it. *)
LEMMA FreshInv ==
  ASSUME IInv, pc = "stopped", runs < MaxRuns, runs' = runs + 1, report' = Fresh(runs + 1),
         \/ pc' = "health" /\ outcome' = "none"
         \/ pc' = "stopped" /\ outcome' = "refused",
         UNCHANGED <<tests, current, polls, sawClosed, external, written>>
  PROVE  IInv'
<1>1. runs' \in 0..MaxRuns /\ runs' > 0
  BY Bounds DEF IInv, TypeOK
<1>2. report' \in Report /\ report'.results = <<>> /\ report'.run = runs' /\ report'.failed = 0
  BY <1>1 DEF Fresh, Report
<1>3. Len(tests) \in Nat /\ current = 1
  BY SuiteTyped DEF IInv, InStep
<1>4. TypeOK'
  <2>1. report' \in Report' /\ Len(report'.results) <= Len(tests)
        /\ written' \in Report' \cup {NoReport}
    <3>1. Report' = Report
      BY NamesKept
    <3>2. written \in Report \cup {NoReport}
      BY DEF IInv, TypeOK
    <3> QED
      BY <1>2, <1>3, <3>1, <3>2
  <2>2. started' \subseteq Operations' /\ index' \subseteq Alerts'
    BY NamesKept DEF IInv, TypeOK, external
  <2> QED
    BY <1>1, <2>1, <2>2 DEF IInv, TypeOK, external, Setup
<1>5. InStep' /\ FailuresCounted' /\ PassedOnOwnEvidence'
  BY <1>2, <1>3 DEF InStep, FailuresCounted, AllPassed, PassedOnOwnEvidence, Setup, Requests
<1>6. ReportTruthful'
  BY DEF IInv, ReportTruthful
<1> QED
  BY <1>4, <1>5, <1>6 DEF IInv

(* What the runner writes at the end of a run. *)
LEMMA StatusTyped ==
  ASSUME TypeOK, NEW s \in {"succeeded", "failed"}
  PROVE  LET w == [report EXCEPT !.status = s] IN
         /\ w \in Report /\ w.run = report.run /\ w.status = s
         /\ w.results = report.results
  BY DEF TypeOK, Report

-----------------------------------------------------------------------------
(* The steps. *)

(* The setup of a run. *)
LEMMA SetupInv == IInv /\ (StartRun \/ RefuseManifests \/ PassSetup \/ FailSetup) => IInv'
<1> SUFFICES ASSUME IInv, StartRun \/ RefuseManifests \/ PassSetup \/ FailSetup PROVE IInv'
  OBVIOUS
<1>1. CASE StartRun
  BY <1>1, FreshInv DEF StartRun
<1>2. CASE RefuseManifests
  BY <1>2, FreshInv DEF RefuseManifests
<1>3. CASE PassSetup
  BY <1>3, MoveInv DEF PassSetup, Goto, external, ExternalTyped, IInv, TypeOK, Setup
<1>4. CASE FailSetup
  <2>1. ExternalTyped
    BY <1>4 DEF FailSetup, external, ExternalTyped, IInv, TypeOK
  <2>2. CASE End("failed") /\ written' = [report EXCEPT !.status = "failed"]
    <3>1. written' \in Report /\ written'.run = runs /\ written'.status = "failed"
      BY <2>2, StatusTyped DEF IInv, InStep
    <3>2. ReportTruthful'
      BY <2>2, <3>1 DEF ReportTruthful, End
    <3> QED
      BY <2>1, <2>2, <3>1, <3>2, EndInv
  <2>3. CASE End("escaped") /\ UNCHANGED written
    BY <2>1, <2>3, LostInv
  <2> QED
    BY <1>4, <2>2, <2>3 DEF FailSetup
<1> QED
  BY <1>1, <1>2, <1>3, <1>4

(* A run that is lost. *)
LEMMA EscapeInv == IInv /\ (Escape \/ Kill) => IInv'
<1> SUFFICES ASSUME IInv, Escape \/ Kill PROVE IInv'
  OBVIOUS
<1>1. pc # "stopped" /\ MaybeCreated /\ UNCHANGED written
  BY DEF Escape, Kill, Setup, Requests
<1>2. ExternalTyped
  BY <1>1, CreatedTyped DEF IInv, TypeOK, ExternalTyped
<1> QED
  BY <1>1, <1>2, LostInv DEF Escape, Kill

(* The requests of a test that go on. *)
LEMMA TestInv == IInv /\ (Create \/ CreateOperation \/ PollState \/ PollLinks) => IInv'
<1> SUFFICES ASSUME IInv, Create \/ CreateOperation \/ PollState \/ PollLinks PROVE IInv'
  OBVIOUS
<1>1. CASE Create
  BY <1>1, MoveInv DEF Create, Goto, external, ExternalTyped, IInv, TypeOK, Requests
<1>2. CASE CreateOperation
  <2>1. ExternalTyped
    BY <1>2, ThisTyped DEF CreateOperation, ExternalTyped, IInv, TypeOK
  <2> QED
    BY <1>2, <2>1, MoveInv DEF CreateOperation, Goto, IInv, TypeOK, Requests
<1>3. CASE PollState
  <2>1. ExternalTyped /\ sawClosed' \in BOOLEAN
    BY <1>3 DEF PollState, external, ExternalTyped, IInv, TypeOK
  <2> QED
    BY <1>3, <2>1, MoveInv DEF PollState, Goto, IInv, TypeOK, Requests
<1>4. CASE PollLinks
  <2>1. ExternalTyped
    BY <1>4 DEF PollLinks, external, ExternalTyped, IInv, TypeOK
  <2>2. polls' \in 0..MaxPolls
    BY <1>4, Bounds DEF PollLinks, IInv, TypeOK, InStep
  <2>3. sawClosed' \in BOOLEAN
    BY <1>4 DEF PollLinks
  <2> QED
    BY <1>4, <2>1, <2>2, <2>3, MoveInv DEF PollLinks, Goto, Requests
<1> QED
  BY <1>1, <1>2, <1>3, <1>4

(* The end of a test. *)
LEMMA ResultInv == IInv /\ (Search \/ TimeOut \/ FailRequest) => IInv'
<1> SUFFICES ASSUME IInv, Search \/ TimeOut \/ FailRequest PROVE IInv'
  OBVIOUS
<1>1. CASE Search
  <2>1. ExternalTyped
    BY <1>1 DEF Search, external, ExternalTyped, IInv, TypeOK
  <2>2. pc \in Requests /\ pc # "stopped"
    BY <1>1 DEF Search, Requests
  <2>3. CASE Record(Passed(Hits))
    <3>1. Hits \subseteq Alerts
      BY DEF Hits, IInv, TypeOK
    <3>2. Passed(Hits) \in Result /\ Passed(Hits).hits = Hits
      BY <3>1 DEF Passed, Result
    <3>3. MarkedByRun(This) => \A alert \in Hits : alert.from = This
      <4> SUFFICES ASSUME MarkedByRun(This), NEW alert \in Hits PROVE alert.from = This
        OBVIOUS
      <4>1. alert \in Alerts /\ Matches(alert, This)
        BY <3>1 DEF Hits
      <4> QED
        BY <4>1, <2>2, ThisTyped, MarkerIsOwn DEF IInv
    <3> QED
      BY <2>1, <2>2, <2>3, <3>2, <3>3, RecordInv
  <2>4. CASE polls < MaxPolls /\ polls' = polls + 1 /\ Goto("alert") /\ UNCHANGED sawClosed
    <3>1. polls' \in 0..MaxPolls
      BY <2>4, Bounds DEF IInv, TypeOK
    <3>2. sawClosed' \in BOOLEAN
      BY <2>4 DEF IInv, TypeOK
    <3> QED
      BY <2>1, <2>2, <2>4, <3>1, <3>2, MoveInv DEF Goto, Requests
  <2> QED
    BY <1>1, <2>3, <2>4 DEF Search
<1>2. Failed \in Result /\ Failed.hits = {}
  BY DEF Failed, Result
<1>3. CASE TimeOut
  <2>1. ExternalTyped /\ pc \in Requests
    BY <1>3 DEF TimeOut, external, ExternalTyped, IInv, TypeOK, Requests
  <2> QED
    BY <1>2, <1>3, <2>1, RecordInv DEF TimeOut
<1>4. CASE FailRequest
  <2>1. pc \in Requests /\ pc # "stopped" /\ MaybeCreated
    BY <1>4 DEF FailRequest, Requests
  <2>2. ExternalTyped
    BY <2>1, CreatedTyped DEF IInv, TypeOK, ExternalTyped
  <2> QED
    BY <1>2, <1>4, <2>1, <2>2, RecordInv DEF FailRequest
<1> QED
  BY <1>1, <1>3, <1>4

(* The end of a run. *)
LEMMA FinishInv == IInv /\ (Finish \/ FailToWrite) => IInv'
<1> SUFFICES ASSUME IInv, Finish \/ FailToWrite PROVE IInv'
  OBVIOUS
<1>1. ExternalTyped /\ pc = "report"
  BY DEF Finish, FailToWrite, external, ExternalTyped, IInv, TypeOK
<1>2. report.run = runs /\ Len(report.results) = Len(tests)
      /\ (report.failed = 0 <=> AllPassed(report))
  BY <1>1 DEF IInv, InStep, FailuresCounted
<1>3. CASE Finish
  <2>1. CASE report.failed = 0
    <3>1. written' \in Report /\ written'.run = runs /\ written'.status = "succeeded"
          /\ written'.results = report.results /\ End("ok")
      BY <1>2, <1>3, <2>1, StatusTyped DEF Finish, Verdict, IInv
    <3>2. ReportTruthful'
      BY <1>2, <2>1, <3>1 DEF ReportTruthful, End, AllPassed
    <3> QED
      BY <1>1, <3>1, <3>2, EndInv
  <2>2. CASE report.failed # 0
    <3>1. written' \in Report /\ written'.run = runs /\ written'.status = "failed"
          /\ End("failed")
      BY <1>2, <1>3, <2>2, StatusTyped DEF Finish, Verdict, IInv
    <3>2. ReportTruthful'
      BY <3>1 DEF ReportTruthful, End
    <3> QED
      BY <1>1, <3>1, <3>2, EndInv
  <2> QED
    BY <2>1, <2>2
<1>4. CASE FailToWrite
  <2>1. CASE End("escaped") /\ UNCHANGED written
    BY <1>1, <2>1, LostInv
  <2>2. CASE End("escaped") /\ written' = [report EXCEPT !.status = "failed"]
    <3>1. written' \in Report /\ written'.status = "failed"
      BY <2>2, StatusTyped DEF IInv
    <3>2. ReportTruthful'
      BY <2>2, <3>1 DEF ReportTruthful, End
    <3> QED
      BY <1>1, <2>2, <3>1, <3>2, EndInv
  <2> QED
    BY <1>4, <2>1, <2>2 DEF FailToWrite
<1> QED
  BY <1>3, <1>4

(* The services. *)
LEMMA ServicesInv == IInv /\ (LinksMove \/ OperationCloses \/ AlertArrives) => IInv'
<1> SUFFICES ASSUME IInv, LinksMove \/ OperationCloses \/ AlertArrives PROVE IInv'
  OBVIOUS
<1>1. /\ UNCHANGED <<tests, pc, current, polls, sawClosed, report, written, outcome, runs>>
      /\ polls \in 0..MaxPolls /\ sawClosed \in BOOLEAN
      /\ pc = "links" => polls < MaxPolls
  BY DEF LinksMove, OperationCloses, AlertArrives, IInv, TypeOK, InStep
<1>2. ExternalTyped
  <2>1. CASE LinksMove
    BY <2>1 DEF LinksMove, ExternalTyped, IInv, TypeOK
  <2>2. CASE OperationCloses
    BY <2>2 DEF OperationCloses, ExternalTyped, IInv, TypeOK
  <2>3. CASE AlertArrives
    <3>1. PICK op \in started : \E rule \in ManifestOf(op).raises :
            index' = index \cup {[from |-> op, rule |-> rule]}
      BY <2>3 DEF AlertArrives
    <3>2. PICK rule \in ManifestOf(op).raises :
            index' = index \cup {[from |-> op, rule |-> rule]}
      BY <3>1
    <3>3. op \in Operations
      BY DEF IInv, TypeOK
    <3>4. rule \in Rules
      <4>1. op[2] \in DOMAIN tests
        BY <3>3 DEF Operations
      <4> QED
        BY <4>1, SuiteTyped DEF IInv, ManifestOf, Manifest
    <3>5. index' \subseteq Alerts
      BY <3>2, <3>3, <3>4 DEF IInv, TypeOK, Alerts
    <3> QED
      BY <2>3, <3>5 DEF AlertArrives, ExternalTyped, IInv, TypeOK
  <2> QED
    BY <2>1, <2>2, <2>3
<1> QED
  BY <1>1, <1>2, MoveInv

(* Every step keeps the invariant. *)
LEMMA StepInv == IInv /\ [Next]_vars => IInv'
<1> SUFFICES ASSUME IInv, [Next]_vars PROVE IInv'
  OBVIOUS
<1>1. CASE Next
  BY <1>1, SetupInv, EscapeInv, TestInv, ResultInv, FinishInv, ServicesInv DEF Next, RunnerStep
<1>2. CASE UNCHANGED vars
  <2>1. UNCHANGED <<tests, current, report, written, outcome, runs, pc>>
        /\ polls' \in 0..MaxPolls /\ sawClosed' \in BOOLEAN
        /\ (pc' = "links" => polls' < MaxPolls)
    BY <1>2 DEF vars, IInv, TypeOK, InStep
  <2>2. ExternalTyped
    BY <1>2 DEF vars, external, ExternalTyped, IInv, TypeOK
  <2> QED
    BY <2>1, <2>2, MoveInv
<1> QED
  BY <1>1, <1>2

-----------------------------------------------------------------------------
(* The theorems. *)

LEMMA Invariance == Spec => []IInv
  BY InitInv, StepInv, PTL DEF Spec

(* The state of the runner, of Caldera and of the index has its types, and *)
(* a report never has more results than there are tests.                   *)
THEOREM TypeCorrect == Spec => []TypeOK
<1>1. IInv => TypeOK
  BY DEF IInv
<1> QED
  BY Invariance, <1>1, PTL

(* Evidence: a test that wait_for_alert searches for by the marker of its  *)
(* run passes only on alerts of its own operation, whatever alerts of      *)
(* other tests and earlier runs arrive late.                               *)
THEOREM EvidenceIsOwn == Spec => []PassedOnOwnEvidence
<1>1. IInv => PassedOnOwnEvidence
  BY DEF IInv
<1> QED
  BY Invariance, <1>1, PTL

(* What run_active_detection_tests reports by its exit is what its report  *)
(* on disk says, and a report of success holds no failed test.             *)
THEOREM ReportsTruthful == Spec => []ReportTruthful
<1>1. IInv => ReportTruthful
  BY DEF IInv
<1> QED
  BY Invariance, <1>1, PTL

(* A manifest whose alerts carry what build_alert_query searches for: its  *)
(* fixed marker, or the template where there is none, is in its command.   *)
Searchable(m) ==
  \/ m.query
  \/ m.marker = Absent /\ Template \in m.says
  \/ m.marker # Absent /\ m.marker \in m.says \ {Template}

(* In a directory of searchable manifests no search of wait_for_alert      *)
(* comes back empty while the alert of the test is in the index.  The      *)
(* documented manifest, whose marker is the template, is not searchable.   *)
THEOREM OwnAlertsFound ==
  ASSUME \A suite \in Suites : \A i \in DOMAIN suite : Searchable(suite[i])
  PROVE  Spec => OwnAlertFound
<1>1. IInv /\ [Next]_vars =>
        [pc = "alert" /\ polls' = polls + 1 =>
           \A alert \in index :
             alert.from = This => alert.rule \notin ManifestOf(This).accepts]_vars
  <2> SUFFICES ASSUME IInv, Next, pc = "alert", polls' = polls + 1, NEW alert \in index,
                      alert.from = This, alert.rule \in ManifestOf(This).accepts
               PROVE  FALSE
    OBVIOUS
  <2>1. polls \in Nat
    BY Bounds DEF IInv, TypeOK
  <2>2. Hits = {}
    BY <2>1 DEF Next, RunnerStep, StartRun, RefuseManifests, PassSetup, FailSetup, Escape, Kill,
         End, Create, CreateOperation, FailRequest, PollState, PollLinks, Search, TimeOut, Record,
         Finish, FailToWrite, LinksMove, OperationCloses, AlertArrives, Setup
  <2>3. Searchable(ManifestOf(This))
    <3>1. This[2] \in DOMAIN tests
      BY DEF This, IInv, TypeOK
    <3> QED
      BY <3>1 DEF ManifestOf, IInv, TypeOK
  <2>4. Matches(alert, This)
    BY <2>3 DEF Searchable, Matches, ExpectedMarker, TextsOf
  <2> QED
    BY <2>2, <2>4 DEF Hits
<1> QED
  BY Invariance, <1>1, PTL DEF Spec, OwnAlertFound
=============================================================================
