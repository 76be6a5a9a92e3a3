------------------------ MODULE TestGeneration_proofs ------------------------
(***************************************************************************)
(* What a generation run leaves behind, for every directory of rules, every *)
(* set of files and any number of runs and edits.                          *)
(***************************************************************************)
EXTENDS TestGeneration, TLAPS

(* The rules the run has seen to: the one whose manifest is being loaded is  *)
(* among them.                                                               *)
Seen == 1 .. IF stage = "load" THEN next ELSE next - 1

Own(r) ==
  /\ files[slugs[r]] \in Rules
  /\ slugs[files[slugs[r]]] = slugs[r]
  /\ files[slugs[r]] >= r

(* A run begins at the first rule.                                           *)
AtRest == stage = "idle" => next = 1

(* While it runs: a rule that has not failed has a file, and one the model   *)
(* was asked for has its own.                                                *)
Running ==
  stage # "idle" =>
    /\ outcome = "none"
    /\ failures = 0 => \A r \in Seen : files[slugs[r]] # Absent
    /\ overwrite /\ answered => \A r \in Seen : Own(r)

IInv == TypeOK /\ AtRest /\ Running /\ SuccessfulRunLoads /\ OverwriteRunHeals

\* The paths of the rules are files of the directory.
LEMMA RulePaths ==
  ASSUME TypeOK
  PROVE  /\ slugs \in Seq(Paths)
         /\ Rules = 1 .. Len(slugs)
         /\ Len(slugs) \in Nat
         /\ \A r \in Rules : slugs[r] \in Paths /\ r # Absent /\ r # Invalid /\ r # Broken
BY SlugsAssumption, FilesAssumption DEF TypeOK, Rules

LEMMA InitInv == ASSUME Init PROVE IInv
<1>1. slugs \in Seq(Paths) /\ slugs # <<>>
  BY SlugsAssumption DEF Init
<1>2. TypeOK
  <2>1. Len(slugs) \in Nat
    BY <1>1
  <2>2. files \in [Paths -> Files]
    BY DEF Init, Files
  <2>3. next \in 1 .. Len(slugs) + 1 /\ failures \in 0 .. next - 1
    BY <2>1 DEF Init
  <2>4. attempt \in 0..MaxRetries /\ runs \in Nat /\ edits \in Nat
    BY RetriesAssumption, BoundsAssumption DEF Init
  <2>5. stage \in {"idle", "ask", "load"} /\ stage # "load" /\ outcome \in {"none", "succeeded", "failed", "died"}
    BY DEF Init
  <2>6. overwrite \in BOOLEAN /\ answered \in BOOLEAN /\ slugs \in Slugs
    BY DEF Init
  <2> QED
    BY <2>2, <2>3, <2>4, <2>5, <2>6 DEF TypeOK
<1> QED
  BY <1>2 DEF Init, IInv, AtRest, Running, SuccessfulRunLoads, OverwriteRunHeals

\* A rule that is passed over or fails leaves the files alone.
LEMMA SkipStep == ASSUME IInv, SkipRule PROVE IInv'
<1> USE DEF IInv, AtRest, SkipRule, Asking, Skips, Advance, Path
<1>1. TypeOK'
  <2>1. next \in Rules /\ Rules = 1 .. Len(slugs) /\ Len(slugs) \in Nat
    BY RulePaths
  <2> QED
    BY <2>1, RetriesAssumption DEF TypeOK, Files, Rules
<1>2. Running'
  <2>1. Seen' = Seen \cup {next}
    BY RulePaths DEF Seen, TypeOK
  <2> QED
    BY <2>1 DEF Running, Own, Rules
<1> QED
  BY <1>1, <1>2 DEF SuccessfulRunLoads, OverwriteRunHeals, Running

LEMMA RetryStep == ASSUME IInv, NEW request \in Requests, Retry(request) PROVE IInv'
<1> USE DEF IInv, AtRest, Retry
<1>1. TypeOK'
  BY RetriesAssumption DEF TypeOK, Retries, Rules, Files
<1> QED
  BY <1>1 DEF Running, Seen, Own, Rules, SuccessfulRunLoads, OverwriteRunHeals, Loads

LEMMA FailStep == ASSUME IInv, FailRule PROVE IInv'
<1> USE DEF IInv, AtRest, FailRule, Asking, Advance
<1>1. TypeOK'
  <2>1. next \in Rules /\ Rules = 1 .. Len(slugs) /\ Len(slugs) \in Nat
    BY RulePaths
  <2>2. next' \in 1 .. Len(slugs) + 1 /\ failures' \in 0 .. next' - 1
    BY <2>1 DEF TypeOK
  <2>3. attempt' \in 0..MaxRetries /\ stage' = "ask"
    BY RetriesAssumption
  <2>4. answered' \in BOOLEAN
    OBVIOUS
  <2>5. UNCHANGED <<slugs, files, overwrite, outcome, runs, edits>> /\ Files' = Files
    BY DEF Files, Rules
  <2> QED
    BY <2>2, <2>3, <2>4, <2>5 DEF TypeOK
<1>2. failures' # 0 /\ ~answered'
  BY DEF TypeOK
<1> QED
  BY <1>1, <1>2 DEF Running, SuccessfulRunLoads, OverwriteRunHeals

\* The manifest is its rule's own, and those of the rules before stay theirs,
\* unless they share its path.
LEMMA WriteStep == ASSUME IInv, WriteManifest PROVE IInv'
<1> USE DEF IInv, AtRest, WriteManifest, Asking
<1>0. /\ next \in Rules /\ Path \in Paths /\ Path = slugs[next]
      /\ files' = [files EXCEPT ![Path] = next]
      /\ files \in [Paths -> Files]
  BY RulePaths DEF Path, TypeOK
<1>1. TypeOK'
  BY <1>0 DEF TypeOK, Rules, Files
<1>2. Seen' = Seen \cup {next} /\ Seen \subseteq Rules
  BY <1>0, RulePaths DEF Seen, TypeOK
<1>3. ASSUME NEW r \in Seen', failures = 0 PROVE files'[slugs[r]] # Absent
  BY <1>0, <1>2, <1>3, RulePaths DEF Running
<1>4. ASSUME NEW r \in Seen', overwrite, answered PROVE Own(r)'
  <2>1. CASE slugs[r] = Path
    <3>1. r <= next
      BY <1>2 DEF Seen, TypeOK
    <3> QED
      BY <1>0, <2>1, <3>1, <1>2, RulePaths DEF Own, Rules
  <2>2. CASE slugs[r] # Path
    <3>1. r \in Seen /\ slugs[r] \in Paths
      BY <1>0, <1>2, <2>2, RulePaths
    <3>2. Own(r)
      BY <3>1, <1>4 DEF Running
    <3> QED
      BY <1>0, <2>2, <3>1, <3>2 DEF Own, Rules
  <2> QED
    BY <2>1, <2>2
<1>5. Running'
  BY <1>3, <1>4 DEF Running
<1> QED
  BY <1>1, <1>5 DEF SuccessfulRunLoads, OverwriteRunHeals, Running

LEMMA LoadStep == ASSUME IInv, LoadManifest PROVE IInv'
<1> USE DEF IInv, AtRest, LoadManifest
<1>1. CASE stage' = "ask"
  <2>1. /\ next' = next + 1 /\ attempt' = 0 /\ stage = "load"
        /\ UNCHANGED <<slugs, files, overwrite, answered, outcome, runs, edits>>
        /\ failures' \in {failures, failures + 1}
    BY <1>1 DEF Advance, EndRun
  <2>2. TypeOK'
    BY <2>1, <1>1, RulePaths, RetriesAssumption DEF TypeOK, Rules, Files
  <2>3. Seen' = Seen
    BY <2>1, <1>1, RulePaths DEF Seen, TypeOK
  <2>4. failures' = 0 => failures = 0
    BY <2>1 DEF TypeOK
  <2> QED
    BY <2>1, <2>2, <2>3, <2>4, <1>1
       DEF Running, Own, Rules, SuccessfulRunLoads, OverwriteRunHeals
<1>2. CASE EndRun("died")
  <2>1. TypeOK'
    BY <1>2, RulePaths, RetriesAssumption DEF TypeOK, EndRun, Rules, Files
  <2> QED
    BY <1>2, <2>1 DEF EndRun, Running, SuccessfulRunLoads, OverwriteRunHeals
<1> QED
  BY <1>1, <1>2

LEMMA FinishStep == ASSUME IInv, Finish PROVE IInv'
<1> USE DEF IInv, AtRest, Finish, EndRun
<1>1. TypeOK'
  BY RulePaths, RetriesAssumption DEF TypeOK, Rules, Files
<1>2. Seen = Rules
  BY RulePaths DEF Seen, TypeOK
<1>3. SuccessfulRunLoads'
  BY <1>2 DEF SuccessfulRunLoads, Running, Loads, Rules
<1>4. OverwriteRunHeals'
  BY <1>2 DEF OverwriteRunHeals, Running, Own, Rules
<1> QED
  BY <1>1, <1>3, <1>4 DEF Running

LEMMA DieStep == ASSUME IInv, Die PROVE IInv'
<1> USE DEF IInv, AtRest, Die, EndRun
<1>1. TypeOK'
  <2>1. files' \in [Paths -> Files]
    BY RulePaths DEF TypeOK, Files, Asking, Path
  <2> QED
    BY <2>1, RulePaths, RetriesAssumption DEF TypeOK, Rules, Files
<1> QED
  BY <1>1 DEF Running, SuccessfulRunLoads, OverwriteRunHeals

LEMMA NextInv == ASSUME IInv, [Next]_vars PROVE IInv'
<1>1. ASSUME NEW over \in BOOLEAN, StartRun(over) PROVE IInv'
  <2>1. TypeOK'
    BY <1>1 DEF IInv, StartRun, TypeOK, Rules, Files
  <2>2. next = 1
    BY <1>1 DEF IInv, AtRest, StartRun
  <2>3. Seen' = {}
    BY <1>1, <2>2 DEF StartRun, Seen
  <2> QED
    BY <1>1, <2>1, <2>3
       DEF IInv, StartRun, AtRest, Running, SuccessfulRunLoads, OverwriteRunHeals
<1>2. CASE SkipRule
  BY <1>2, SkipStep
<1>3. ASSUME NEW request \in Requests, Retry(request) PROVE IInv'
  BY <1>3, RetryStep
<1>4. CASE FailRule
  BY <1>4, FailStep
<1>5. CASE WriteManifest
  BY <1>5, WriteStep
<1>6. CASE LoadManifest
  BY <1>6, LoadStep
<1>7. CASE Finish
  BY <1>7, FinishStep
<1>8. CASE Die
  BY <1>8, DieStep
<1>9. ASSUME NEW p \in Paths, NEW content \in {Absent, Invalid, Broken, ByHand},
             Edit(p, content)
      PROVE  IInv'
  <2>1. TypeOK'
    BY <1>9 DEF IInv, Edit, TypeOK, Rules, Files
  <2> QED
    BY <1>9, <2>1 DEF IInv, AtRest, Edit, Running, SuccessfulRunLoads, OverwriteRunHeals
<1>10. CASE UNCHANGED vars
  BY <1>10 DEF vars, IInv, AtRest, TypeOK, Running, SuccessfulRunLoads, OverwriteRunHeals, Seen,
              Own, Rules, Files, Loads
<1> QED
  BY <1>1, <1>2, <1>3, <1>4, <1>5, <1>6, <1>7, <1>8, <1>9, <1>10
     DEF Next, RequestFails, ResponseFails

THEOREM Invariance == Spec => []IInv
<1> QED
  BY InitInv, NextInv, PTL DEF Spec

\* Every request stays within its retries.
THEOREM TypeCorrect == Spec => []TypeOK
BY Invariance, PTL DEF IInv

\* A successful run leaves a directory that loads, with a file for every rule.
THEOREM SuccessLoads == Spec => []SuccessfulRunLoads
BY Invariance, PTL DEF IInv

\* An overwriting run with an answer for every rule renews every manifest.
THEOREM OverwriteHeals == Spec => []OverwriteRunHeals
BY Invariance, PTL DEF IInv
=============================================================================
