--------------------------- MODULE TestGeneration ---------------------------
(***************************************************************************)
(* The generation of active-test manifests (openai_generator.py): one      *)
(* manifest for each Sigma rule, from an answer of the model, in one       *)
(* directory that is loaded as a whole to prove each of them.              *)
(*                                                                         *)
(* A manifest is named for its rule's title, reduced to a slug: two rules  *)
(* may share a path.  A file is written in place, not replaced: a process  *)
(* that dies over it leaves it Invalid (it loads, and is no manifest) or   *)
(* Broken (it is not YAML).  Between the runs the files are edited by      *)
(* hand.  What an answer says is not modelled: one that fits the schema    *)
(* and the safety policy makes a manifest the loader accepts.              *)
(***************************************************************************)
EXTENDS Integers, Sequences, FiniteSets

CONSTANTS
  Paths,        \* the files of the directory: numbers, in the order they are loaded
  Slugs,        \* directories of Sigma rules: sequences of their manifests' paths
  Absent, Invalid, Broken,   \* no file, no manifest, no YAML
  MaxRetries,   \* active_test.openai_max_retries
  MaxRuns, MaxEdits   \* bounds: runs, edits of the files

ASSUME PathsAssumption == Paths \subseteq Nat
ASSUME SlugsAssumption == \A s \in Slugs : s \in Seq(Paths) /\ s # <<>>
ASSUME FilesAssumption == Absent # Invalid /\ Absent # Broken /\ Invalid # Broken
                          /\ \A x \in {Absent, Invalid, Broken} : x \notin Nat
ASSUME RetriesAssumption == MaxRetries \in Nat
ASSUME BoundsAssumption == MaxRuns \in Nat /\ MaxEdits \in Nat

VARIABLES
  slugs,      \* the manifest's path of each Sigma rule
  files,      \* the files: a rule's number is a manifest generated for it
  stage,      \* where the run is: idle, ask, load
  next,       \* the rule it is at
  attempt,    \* retries made for it
  overwrite,  \* --overwrite
  failures,   \* report["failed"]
  answered,   \* history: every rule asked for has had a usable answer
  outcome,    \* how the last run ended, if nothing was edited since
  runs, edits \* what is left of the bounds

vars == <<slugs, files, stage, next, attempt, overwrite, failures, answered, outcome,
          runs, edits>>

Rules == DOMAIN slugs
Path == slugs[next]
ByHand == 0    \* a manifest of no rule's number

-----------------------------------------------------------------------------
(* What may come of a request (_invoke) and of its response (generate).      *)

Requests == {"answer", "rate_limit", "authentication", "bad_request", "timeout",
             "connection", "server_error", "server_status", "other_status", "other"}

ErrorOf ==
  [rate_limit |-> "RateLimit", authentication |-> "Authentication",
   bad_request |-> "Configuration", timeout |-> "Unavailable",
   connection |-> "Unavailable", server_error |-> "Unavailable",
   server_status |-> "Unavailable", other_status |-> "Configuration",
   other |-> "Configuration"]

Retryable(error) == error \in {"RateLimit", "Unavailable"}

Responses == {"usable", "schema_error", "refusal", "unsafe_command"}

-----------------------------------------------------------------------------
(* load_active_tests reads the files in order and stops at the first that is *)
(* none.  A file that is not YAML is an error the generator does not know.   *)

Loads == \A p \in Paths : files[p] \notin {Invalid, Broken}

Empty == \A p \in Paths : files[p] = Absent

FirstBad(bad) ==
  \E p \in Paths :
    /\ files[p] = bad
    /\ \A q \in Paths : q < p => files[q] \notin {Invalid, Broken}

LoadRaises == Empty \/ FirstBad(Invalid)

-----------------------------------------------------------------------------
Init ==
  /\ slugs \in Slugs
  /\ files \in [Paths -> {Absent, Invalid, ByHand}]
  /\ stage = "idle"
  /\ next = 1
  /\ attempt = 0
  /\ overwrite = FALSE
  /\ failures = 0
  /\ answered = TRUE
  /\ outcome = "none"
  /\ runs = MaxRuns /\ edits = MaxEdits

StartRun(over) ==
  /\ stage = "idle" /\ runs > 0
  /\ runs' = runs - 1
  /\ stage' = "ask"
  /\ overwrite' = over
  /\ answered' = TRUE
  /\ outcome' = "none"
  /\ UNCHANGED <<slugs, files, next, attempt, failures, edits>>

Asking == stage = "ask" /\ next \in Rules

\* Mutant: --overwrite is not asked.
SkipsAlways == files[Path] # Absent

(* The rule has a file, whatever is in it: it is left as it is.              *)
Skips == files[Path] # Absent /\ ~overwrite

Advance == next' = next + 1 /\ attempt' = 0

SkipRule ==
  /\ Asking /\ Skips
  /\ Advance
  /\ UNCHANGED <<slugs, files, stage, overwrite, failures, answered, outcome, runs, edits>>

\* Mutant: the attempts are not counted.
RetriesForever(request) == Retryable(ErrorOf[request])
Retries(request) == Retryable(ErrorOf[request]) /\ attempt < MaxRetries

Retry(request) ==
  /\ Asking /\ ~Skips
  /\ request # "answer" /\ Retries(request)
  /\ attempt' = attempt + 1
  /\ UNCHANGED <<slugs, files, stage, next, overwrite, failures, answered, outcome, runs, edits>>

(* The rule fails and the run goes on to the next.                           *)
FailRule ==
  /\ Asking /\ ~Skips
  /\ Advance
  /\ failures' = failures + 1
  /\ answered' = FALSE
  /\ UNCHANGED <<slugs, files, stage, overwrite, outcome, runs, edits>>

RequestFails(request) == FailRule /\ request # "answer" /\ ~Retries(request)
ResponseFails(response) == FailRule /\ response # "usable"

WriteManifest ==
  /\ Asking /\ ~Skips
  /\ files' = [files EXCEPT ![Path] = next]
  /\ stage' = "load"
  /\ UNCHANGED <<slugs, next, attempt, overwrite, failures, answered, outcome, runs, edits>>

EndRun(how) ==
  /\ outcome' = how
  /\ stage' = "idle"
  /\ next' = 1 /\ attempt' = 0 /\ failures' = 0
  /\ UNCHANGED <<slugs, overwrite, answered, runs, edits>>

(* The whole directory is loaded: another file decides as well as this one.  *)
LoadManifest ==
  /\ stage = "load"
  /\ \/ /\ Loads \/ LoadRaises
        /\ failures' = IF Loads THEN failures ELSE failures + 1
        /\ Advance
        /\ stage' = "ask"
        /\ UNCHANGED <<slugs, overwrite, answered, outcome, runs, edits>>
     \/ ~Loads /\ ~LoadRaises /\ EndRun("died")
  /\ UNCHANGED files

\* Mutant: the failures are not counted.
FinishUncounted ==
  /\ stage = "ask" /\ next \notin Rules
  /\ EndRun(IF Loads /\ ~Empty THEN "succeeded" ELSE "failed")
  /\ UNCHANGED files

(* The last load proves what the run did not write, too.                     *)
Finish ==
  /\ stage = "ask" /\ next \notin Rules
  /\ EndRun(IF failures = 0 /\ Loads /\ ~Empty THEN "succeeded"
            ELSE IF failures = 0 /\ ~LoadRaises THEN "died"
            ELSE "failed")
  /\ UNCHANGED files

(* The process is killed, or the disk is full: anywhere, and over a file.    *)
Die ==
  /\ stage # "idle"
  /\ EndRun("died")
  /\ \/ UNCHANGED files
     \/ /\ Asking /\ ~Skips
        /\ \E rest \in {Invalid, Broken} : files' = [files EXCEPT ![Path] = rest]

(* By hand, between the runs: a file is removed, or spoilt.                  *)
Edit(p, content) ==
  /\ stage = "idle" /\ edits > 0
  /\ edits' = edits - 1
  /\ files' = [files EXCEPT ![p] = content]
  /\ outcome' = "none"
  /\ UNCHANGED <<slugs, stage, next, attempt, overwrite, failures, answered, runs>>

Next ==
  \/ \E over \in BOOLEAN : StartRun(over)
  \/ SkipRule
  \/ \E request \in Requests : Retry(request) \/ RequestFails(request)
  \/ \E response \in Responses : ResponseFails(response)
  \/ WriteManifest \/ LoadManifest \/ Finish \/ Die
  \/ \E p \in Paths, content \in {Absent, Invalid, Broken, ByHand} : Edit(p, content)

Spec == Init /\ [][Next]_vars

-----------------------------------------------------------------------------
Files == Rules \cup {ByHand, Absent, Invalid, Broken}

(* No request is made more often than its retries allow, and no rule counts  *)
(* twice.                                                                    *)
TypeOK ==
  /\ slugs \in Slugs
  /\ files \in [Paths -> Files]
  /\ stage \in {"idle", "ask", "load"}
  /\ next \in 1 .. Len(slugs) + 1
  /\ stage = "load" => next \in Rules
  /\ attempt \in 0..MaxRetries
  /\ overwrite \in BOOLEAN /\ answered \in BOOLEAN
  /\ failures \in 0 .. next - 1
  /\ outcome \in {"none", "succeeded", "failed", "died"}
  /\ runs \in Nat /\ edits \in Nat

(* A run that succeeds leaves a directory the active tests load, with a      *)
(* manifest at the path of every Sigma rule, whatever earlier runs that      *)
(* died over a file, or edits, have left in it.                              *)
SuccessfulRunLoads ==
  outcome = "succeeded" =>
    /\ Loads
    /\ \A r \in Rules : files[slugs[r]] # Absent

(* A run with --overwrite that comes to its end and had a usable answer for  *)
(* every rule has generated every rule's manifest anew, even when it fails,  *)
(* as it does for every manifest written while another file is no manifest.  *)
(* Of two rules that share a path, the later has it.                         *)
OverwriteRunHeals ==
  outcome \in {"succeeded", "failed"} /\ overwrite /\ answered =>
    \A r \in Rules :
      /\ files[slugs[r]] \in Rules
      /\ slugs[files[slugs[r]]] = slugs[r]
      /\ files[slugs[r]] >= r
=============================================================================
