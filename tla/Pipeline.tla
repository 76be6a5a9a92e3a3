------------------------------ MODULE Pipeline ------------------------------
(***************************************************************************)
(* The commands of sigma-pipeline (pipeline.py, pipeline_stages.py) over   *)
(* the files they share: what a conversion, the validator, a smoke and a   *)
(* deployment read and write, in the order they do it.                     *)
(*                                                                         *)
(* A command is a process that takes the steps of its program one by one.  *)
(* Nothing stops two commands from running at the same time; each file is  *)
(* replaced atomically.  The environment adds and removes rules, fails a   *)
(* write, or kills a process.                                              *)
(*                                                                         *)
(* The incremental conversion is enabled.  What its cache returns and the  *)
(* failures that IncrementalConversion has are left to it: here a rule is  *)
(* an identity, converted to one element under the id the manifest holds   *)
(* for it, and of the cache only matters that it has entries.  The upload  *)
(* stands for all a deployment does with the manager (Deployment).         *)
(***************************************************************************)
EXTENDS Validator

CONSTANTS
  Identities,      \* rule identities: numbers, in the order of their files
  Sources,         \* the directories a pipeline may begin with
  Unsupported,     \* identities given an id of which the backend emits nothing
  Warned,          \* identities whose element the validator warns of
  FirstId, LastId, \* the owned id range
  NumChunks,       \* DEFAULT_CHUNK_COUNT
  Processes,
  Agenda,          \* what may be run: the commands that may come first, second, ...
  NoFile,          \* a file that is not there
  NoStage,         \* no stage has failed
  MaxEdits, MaxFaults   \* bounds: edits of the sources, failures

ASSUME IdentitiesAssumption == Identities \subseteq Nat /\ IsFiniteSet(Identities)
ASSUME SourcesAssumption == Sources \subseteq SUBSET Identities
ASSUME RangeAssumption == FirstId \in Nat \ {0} /\ LastId \in FirstId .. MaxRuleId
ASSUME ChunksAssumption == NumChunks \in Nat \ {0}
ASSUME BoundsAssumption == MaxEdits \in Nat /\ MaxFaults \in Nat

VARIABLES
  source,   \* the rules of the source directory
  xml,      \* output_file: its rules, or NoFile
  chunks,   \* the chunk files
  listing,  \* how many of them their manifest.json lists
  saved,    \* the manifest file (empty when there is none)
  entries,  \* are there entries in the conversion cache
  report,   \* the conversion report: the rules it is of
  smoke,    \* the smoke report
  remote,   \* the manager's rules file
  command,  \* what each process runs
  step,     \* the step it is at: idle before its first, exit after its last
  strict,   \* does it treat warnings as failures
  held,     \* the manifest it holds in memory
  out,      \* the rules it has converted
  written,  \* the chunk files it has written
  failed,   \* the stage it failed in
  solo,     \* history: no other command has run since it began
  runs,     \* the commands begun
  edits, faults   \* what is left of the bounds

disk == <<xml, chunks, listing, saved, report, smoke, remote>>
memory == <<held, out, written>>
budget == <<runs, edits, faults>>
vars == <<source, disk, entries, command, step, strict, memory, failed, solo, budget>>

-----------------------------------------------------------------------------
(* The programs: what a command does after each of its steps. *)

Conversion == {"load", "convert", "xml", "chunks", "listing", "manifest", "report"}
Steps == Conversion \cup {"validator", "docker", "smoke", "artifact", "upload"}

Smokes == {"smoke", "docker_smoke", "preflight_deploy"}
Commands == Smokes \cup {"convert", "validate", "deploy"}

(* What a failure is named by.                                               *)
Stages == {"conversion", "validator", "docker", "artifact", "upload", "report"}

ASSUME AgendaAssumption == Agenda \in Seq(SUBSET Commands)
ASSUME NoStageAssumption == NoStage \notin Stages

First(c) == CASE c = "validate" -> "validator"
              [] c = "deploy" -> "artifact"
              [] OTHER -> "load"

After(c, s) ==
  CASE s = "load" -> "convert"
    [] s = "convert" -> "xml"
    [] s = "xml" -> "chunks"
    [] s = "chunks" -> "listing"
    [] s = "listing" -> "manifest"
    [] s = "manifest" -> "report"
    [] s = "report" -> IF c \in Smokes THEN "validator" ELSE "exit"
    [] s = "validator" -> IF c = "docker_smoke" THEN "docker"
                          ELSE IF c \in Smokes THEN "smoke" ELSE "exit"
    [] s = "docker" -> "smoke"
    [] s = "smoke" -> IF c = "preflight_deploy" THEN "artifact" ELSE "exit"
    [] s = "artifact" -> "upload"
    [] s = "upload" -> "exit"

(* The command line says how strict; a preflight smoke takes the             *)
(* configuration's word.                                                     *)
Validates(c) == c \in Smokes \cup {"validate"}

(* Is the process inside run_smoke, its report not written yet?              *)
InSmoke(p) ==
  command[p] \in Smokes /\ step[p] \in Conversion \cup {"validator", "docker"}

-----------------------------------------------------------------------------
(* The manifest and the conversion. *)

Rule == [id : FirstId .. LastId, identity : Identities]

EmptyManifest == [ids |-> [i \in Identities |-> 0], active |-> {}, next_id |-> FirstId]

Known(m, i) == m.ids[i] # 0
Retired(m, i) == Known(m, i) /\ i \notin m.active

(* The place of a rule among others, in the order of their files, from 0.    *)
Place(rules, i) == Cardinality({ j \in rules : j < i })

InOrder(rules) ==
  [k \in 1 .. Cardinality(rules) |-> CHOOSE i \in rules : Place(rules, i) = k - 1]

(* Ids are given in that order.                                              *)
Enrol(m, present) ==
  LET new == { i \in present : ~Known(m, i) }
  IN  [ids |-> [i \in Identities |->
                  IF i \in new THEN m.next_id + Place(new, i) ELSE m.ids[i]],
       active |-> m.active \cup present,
       next_id |-> m.next_id + Cardinality(new)]

\* Mutant: the end of the range is not looked at.
ManifestRaisesReturned(m, present) == \E i \in present : Retired(m, i)

(* A rule that comes back after it was retired, or a range with no id left.  *)
ManifestRaises(m, present) ==
  \/ \E i \in present : Retired(m, i)
  \/ Enrol(m, present).next_id > LastId + 1

(* A rule whose predecessors and itself raise nothing is converted, and an   *)
(* entry stored for it, even if a later one ends the run.                    *)
StoresEntries(m, present) ==
  \E i \in present \ Unsupported : ~ManifestRaises(m, { j \in present : j <= i })

(* What was not seen is retired.                                             *)
RetireUnseen(m, present) == [m EXCEPT !.active = present]

Converted(m, present) ==
  LET order == InOrder(present \ Unsupported)
  IN  [k \in DOMAIN order |-> [id |-> m.ids[order[k]], identity |-> order[k]]]

\* Mutant: the rules that do not divide evenly are left over.
SplitRulesShort(rules, count) ==
  LET actual == IF count < Len(rules) THEN count ELSE Len(rules)
      base == Len(rules) \div actual
  IN  [k \in 1..actual |-> SubSeq(rules, (k - 1) * base + 1, k * base)]

(* Up to count chunks; the first ones take what does not divide evenly.      *)
SplitRulesEvenly(rules, count) ==
  LET Least(a, b) == IF a < b THEN a ELSE b
      actual == Least(count, Len(rules))
      base == Len(rules) \div actual
      Before(k) == (k - 1) * base + Least(k - 1, Len(rules) % actual)
  IN  [k \in 1..actual |-> SubSeq(rules, Before(k) + 1, Before(k + 1))]

-----------------------------------------------------------------------------
(* The validator on the output file. *)

XmlRule(rule) ==
  [id |-> rule.id, level |-> 5, described |-> TRUE, groups |-> {rule.identity},
   decoder |-> Missing,
   patterns |-> << [size |-> 1, backrefs |-> 0, compiles |-> TRUE,
                    bars |-> IF rule.identity \in Warned THEN MaxAlternation + 1 ELSE 0] >>]

XmlFiles(rules) ==
  IF rules = NoFile THEN <<>>
  ELSE << [readable |-> TRUE, rules |-> [k \in DOMAIN rules |-> XmlRule(rules[k])]] >>

Passes(rules, strictly) == ExitCode(ValidateAll(XmlFiles(rules)), strictly) = 0

-----------------------------------------------------------------------------
Init ==
  /\ source \in Sources
  /\ xml = NoFile
  /\ chunks = [k \in 1..NumChunks |-> NoFile]
  /\ listing = 0
  /\ saved = EmptyManifest
  /\ entries = FALSE
  /\ report = NoFile
  /\ smoke = NoFile
  /\ remote = NoFile
  /\ command = [p \in Processes |-> "none"]
  /\ step = [p \in Processes |-> "idle"]
  /\ strict = [p \in Processes |-> FALSE]
  /\ held = [p \in Processes |-> EmptyManifest]
  /\ out = [p \in Processes |-> <<>>]
  /\ written = [p \in Processes |-> 0]
  /\ failed = [p \in Processes |-> NoStage]
  /\ solo = [p \in Processes |-> TRUE]
  /\ runs = 0 /\ edits = MaxEdits /\ faults = MaxFaults

Idle(p) == step[p] = "idle"

Start(p) ==
  /\ Idle(p) /\ runs < Len(Agenda)
  /\ runs' = runs + 1
  /\ \E c \in Agenda[runs'], s \in BOOLEAN :
       /\ command' = [command EXCEPT ![p] = c]
       /\ step' = [step EXCEPT ![p] = First(c)]
       /\ s => Validates(c)
       /\ strict' = [strict EXCEPT ![p] = s]
  /\ solo' = [q \in Processes |->
                IF q = p THEN \A r \in Processes \ {p} : Idle(r) ELSE solo[q] /\ Idle(q)]
  /\ UNCHANGED <<source, disk, entries, memory, failed, edits, faults>>

(* The process is gone, and with it all it held.                             *)
Vanish(p) ==
  /\ command' = [command EXCEPT ![p] = "none"]
  /\ step' = [step EXCEPT ![p] = "idle"]
  /\ strict' = [strict EXCEPT ![p] = FALSE]
  /\ held' = [held EXCEPT ![p] = EmptyManifest]
  /\ out' = [out EXCEPT ![p] = <<>>]
  /\ written' = [written EXCEPT ![p] = 0]
  /\ failed' = [failed EXCEPT ![p] = NoStage]
  /\ solo' = [solo EXCEPT ![p] = TRUE]
  /\ UNCHANGED <<source, disk, runs, edits>>

Exit(p) == step[p] = "exit" /\ Vanish(p) /\ UNCHANGED <<entries, faults>>

(* A kill in the middle of a conversion leaves the entries of the rules that *)
(* were converted by then.                                                   *)
Kill(p) ==
  /\ step[p] \in Steps /\ faults > 0
  /\ Vanish(p)
  /\ \/ UNCHANGED entries
     \/ step[p] = "convert" /\ StoresEntries(held[p], source) /\ entries' = TRUE
  /\ faults' = faults - 1

(* The sources are edited by hand or by a pull, whatever is running.         *)
Edit(i) ==
  /\ edits > 0
  /\ edits' = edits - 1
  /\ source' = IF i \in source THEN source \ {i} ELSE source \cup {i}
  /\ UNCHANGED <<disk, entries, command, step, strict, memory, failed, solo, runs, faults>>

-----------------------------------------------------------------------------
(* How a step ends. *)

At(p, s) == step[p] = s

Done(p) ==
  /\ step' = [step EXCEPT ![p] = After(command[p], @)]
  /\ UNCHANGED failed

(* An exception nothing catches: the process ends with a traceback.          *)
Escape(p, stage) ==
  /\ step' = [step EXCEPT ![p] = "exit"]
  /\ failed' = [failed EXCEPT ![p] = stage]

(* One of PIPELINE_STAGE_ERRORS: inside a smoke it is reported, and main     *)
(* turns it into the exit code.                                              *)
Fail(p, stage) ==
  /\ step' = [step EXCEPT ![p] = IF InSmoke(p) THEN "smoke" ELSE "exit"]
  /\ failed' = [failed EXCEPT ![p] = stage]

Others == <<source, entries, command, strict, solo, runs, edits>>

WriteFails == faults > 0 /\ faults' = faults - 1

-----------------------------------------------------------------------------
(* The conversion. *)

(* A manifest that was saved is never empty: with no rule there is nothing   *)
(* to write.  Entries without one, left by a first run that did not get to   *)
(* save it: the service refuses, which is no error the pipeline knows.       *)
Refuses == saved = EmptyManifest /\ entries

Load(p) ==
  /\ At(p, "load")
  /\ IF Refuses
     THEN Escape(p, "conversion") /\ UNCHANGED held
     ELSE held' = [held EXCEPT ![p] = saved] /\ Done(p)
  /\ UNCHANGED <<Others, disk, out, written, faults>>

(* The whole directory at once: a file is read once.  Nothing converted is   *)
(* an error before anything is written; ManifestError is not one of the      *)
(* errors the pipeline knows.  The manifest in memory is the one that will   *)
(* be saved: nothing else reads it before.                                   *)
Convert(p) ==
  /\ At(p, "convert")
  /\ IF ManifestRaises(held[p], source)
     THEN Escape(p, "conversion") /\ UNCHANGED <<held, out>>
     ELSE LET manifest == Enrol(held[p], source)
          IN  /\ held' = [held EXCEPT ![p] = RetireUnseen(manifest, source)]
              /\ out' = [out EXCEPT ![p] = Converted(manifest, source)]
              /\ IF out'[p] = <<>> THEN Fail(p, "conversion") ELSE Done(p)
  /\ entries' = (entries \/ StoresEntries(held[p], source))
  /\ UNCHANGED <<source, command, strict, solo, runs, edits, disk, written, faults>>

WriteXml(p) ==
  /\ At(p, "xml")
  /\ \/ xml' = out[p] /\ Done(p) /\ UNCHANGED faults
     \/ WriteFails /\ Fail(p, "conversion") /\ UNCHANGED xml
  /\ UNCHANGED <<Others, chunks, listing, saved, report, smoke, remote, memory>>

(* One chunk file; the files of more chunks than there are now stay.         *)
WriteChunk(p) ==
  LET parts == SplitRulesEvenly(out[p], NumChunks)
      k == written[p] + 1
  IN  /\ At(p, "chunks")
      /\ \/ /\ chunks' = [chunks EXCEPT ![k] = parts[k]]
            /\ written' = [written EXCEPT ![p] = k]
            /\ IF k = Len(parts) THEN Done(p) ELSE UNCHANGED <<step, failed>>
            /\ UNCHANGED faults
         \/ WriteFails /\ Fail(p, "conversion") /\ UNCHANGED <<chunks, written>>
      /\ UNCHANGED <<Others, xml, listing, saved, report, smoke, remote, held, out>>

WriteListing(p) ==
  /\ At(p, "listing")
  /\ \/ listing' = written[p] /\ Done(p) /\ UNCHANGED faults
     \/ WriteFails /\ Fail(p, "conversion") /\ UNCHANGED listing
  /\ UNCHANGED <<Others, xml, chunks, saved, report, smoke, remote, memory>>

(* save turns the OSError into a ManifestError.                              *)
SaveManifest(p) ==
  /\ At(p, "manifest")
  /\ \/ saved' = held[p] /\ Done(p) /\ UNCHANGED faults
     \/ WriteFails /\ Escape(p, "conversion") /\ UNCHANGED saved
  /\ UNCHANGED <<Others, xml, chunks, listing, report, smoke, remote, memory>>

WriteReport(p) ==
  /\ At(p, "report")
  /\ \/ report' = out[p] /\ Done(p) /\ UNCHANGED faults
     \/ WriteFails /\ Fail(p, "conversion") /\ UNCHANGED report
  /\ UNCHANGED <<Others, xml, chunks, listing, saved, smoke, remote, memory>>

-----------------------------------------------------------------------------
(* The stages after it. *)

\* Mutant: the validator is run as configured for a deployment.
ValidateOutputLeniently(p) ==
  /\ At(p, "validator")
  /\ IF Passes(xml, FALSE) THEN Done(p) ELSE Fail(p, "validator")
  /\ UNCHANGED <<Others, disk, memory, faults>>

ValidateOutput(p) ==
  /\ At(p, "validator")
  /\ IF Passes(xml, strict[p]) THEN Done(p) ELSE Fail(p, "validator")
  /\ UNCHANGED <<Others, disk, memory, faults>>

(* Docker is not there, is too slow, or has its own mind of the rules.       *)
DockerSmoke(p) ==
  /\ At(p, "docker")
  /\ Done(p) \/ Fail(p, "docker")
  /\ UNCHANGED <<Others, disk, memory, faults>>

SmokeReport(p) ==
  [status |-> IF failed[p] = NoStage THEN "succeeded" ELSE "failed",
   failed_stage |-> failed[p],
   conversion |-> IF failed[p] = "conversion" THEN NoFile ELSE out[p],
   docker |-> command[p] = "docker_smoke", strict |-> strict[p], solo |-> solo[p]]

\* Mutant: the failure is reported and not raised again.
AfterSmokeGoingOn(p) == After(command[p], "smoke")
AfterSmoke(p) == IF failed[p] = NoStage THEN After(command[p], "smoke") ELSE "exit"

WriteSmokeReport(p) ==
  /\ At(p, "smoke")
  /\ \/ /\ smoke' = SmokeReport(p)
        /\ step' = [step EXCEPT ![p] = AfterSmoke(p)]
        /\ UNCHANGED <<failed, faults>>
     \/ WriteFails /\ Escape(p, "report") /\ UNCHANGED smoke
  /\ UNCHANGED <<Others, xml, chunks, listing, saved, report, remote, memory>>

(* The deployment validates the file first, warnings allowed.                *)
ValidateArtifact(p) ==
  /\ At(p, "artifact")
  /\ IF Passes(xml, FALSE) THEN Done(p) ELSE Fail(p, "artifact")
  /\ UNCHANGED <<Others, disk, memory, faults>>

(* Then it reads the file again.  The manager may refuse it, and a deployment *)
(* that fails later may leave it there or roll it back.                      *)
Upload(p) ==
  /\ At(p, "upload")
  /\ \/ remote' = xml /\ (Done(p) \/ Fail(p, "upload"))
     \/ UNCHANGED remote /\ Fail(p, "upload")
  /\ UNCHANGED <<Others, xml, chunks, listing, saved, report, smoke, memory, faults>>

-----------------------------------------------------------------------------
Step(p) ==
  \/ Load(p) \/ Convert(p)
  \/ WriteXml(p) \/ WriteChunk(p) \/ WriteListing(p) \/ SaveManifest(p) \/ WriteReport(p)
  \/ ValidateOutput(p) \/ DockerSmoke(p) \/ WriteSmokeReport(p)
  \/ ValidateArtifact(p) \/ Upload(p)

Next ==
  \/ \E p \in Processes :
       Start(p) \/ Step(p) \/ Exit(p) \/ Kill(p)
  \/ \E i \in Identities : Edit(i)

Spec == Init /\ [][Next]_vars

-----------------------------------------------------------------------------
Contents == Seq(Rule) \cup {NoFile}

Manifest ==
  [ids : [Identities -> {0} \cup FirstId .. LastId], active : SUBSET Identities,
   next_id : FirstId .. LastId + 1]

SmokeReports ==
  [status : {"succeeded", "failed"}, failed_stage : Stages \cup {NoStage},
   conversion : Contents, docker : BOOLEAN, strict : BOOLEAN, solo : BOOLEAN]

(* Every id, in a file or in memory, is of the owned range, however the      *)
(* manifest was overwritten.                                                 *)
TypeOK ==
  /\ source \subseteq Identities
  /\ {xml, report, remote} \subseteq Contents
  /\ chunks \in [1..NumChunks -> Contents]
  /\ listing \in 0..NumChunks
  /\ saved \in Manifest /\ entries \in BOOLEAN
  /\ smoke = NoFile \/ smoke \in SmokeReports
  /\ command \in [Processes -> Commands \cup {"none"}]
  /\ step \in [Processes -> Steps \cup {"idle", "exit"}]
  /\ strict \in [Processes -> BOOLEAN] /\ solo \in [Processes -> BOOLEAN]
  /\ held \in [Processes -> Manifest]
  /\ out \in [Processes -> Seq(Rule)]
  /\ written \in [Processes -> 0..NumChunks]
  /\ failed \in [Processes -> Stages \cup {NoStage}]
  /\ runs \in 0 .. Len(Agenda) /\ edits \in Nat /\ faults \in Nat

(* The command had a conversion to make, and has made it.                    *)
ConversionOver(p) ==
  /\ command[p] \in Smokes \cup {"convert"} /\ failed[p] = NoStage
  /\ step[p] \notin Conversion

(* A conversion that nothing interferes with leaves the XML, the listed      *)
(* chunks, the manifest and the report in agreement, in whatever state the   *)
(* runs before it left them: killed between two writes, failed on one, or    *)
(* run at the same time and overwriting each other.                          *)
SoloRunRestores ==
  \A p \in Processes :
    solo[p] /\ ConversionOver(p) =>
      /\ xml = out[p] /\ report = out[p]
      /\ FlattenSeq(SubSeq(chunks, 1, listing)) = xml
      /\ saved.active \ Unsupported = { xml[k].identity : k \in DOMAIN xml }
      /\ \A k \in DOMAIN xml : saved.ids[xml[k].identity] = xml[k].id

(* docs/PIPELINE.md:116-118: with --preflight-smoke nothing reaches the      *)
(* manager unless the configured source still converts and validates; what   *)
(* reaches it is that conversion, if no other command runs meanwhile.        *)
PreflightGates ==
  [][\A p \in Processes :
       /\ command[p] = "preflight_deploy"
       /\ Upload(p) /\ remote' # remote
       => /\ failed[p] = NoStage
          /\ solo[p] => remote' = out[p] /\ Passes(remote', strict[p])]_vars

(* The report of a smoke that no other command ran beside tells what         *)
(* happened: it says succeeded only of rules the validator passes, under the *)
(* policy it records, and that the validator failed only of rules it does    *)
(* not pass.  Beside a second conversion the validator reads the XML of      *)
(* either, while the report is of the smoke's own.                           *)
SmokeReportTruthful ==
  smoke # NoFile =>
    /\ smoke.failed_stage = "docker" => smoke.docker
    /\ smoke.solo /\ smoke.failed_stage # "conversion" =>
         (smoke.failed_stage = "validator" <=> ~Passes(smoke.conversion, smoke.strict))

(* docs/INCREMENTAL_CACHE.md:164-170: the manifest is updated only after the *)
(* final XML has passed validation; if it fails, the old manifest remains.   *)
ManifestAwaitsValidation ==
  [][\A p \in Processes :
       Validates(command[p]) /\ SaveManifest(p) /\ saved' # saved
         => Passes(out[p], strict[p])]_vars
=============================================================================
