--------------------------- MODULE Pipeline_proofs ---------------------------
(***************************************************************************)
(* For any number of processes, commands, edits, failures and kills: what  *)
(* a preflight smoke lets through and what a smoke report says (IInv, in   *)
(* which what Converted returns and what the validator makes of it play no *)
(* part), and that the files have their types and agree after a run that   *)
(* nothing interferes with (FilesInv).                                     *)
(***************************************************************************)
EXTENDS Pipeline, FiniteSetTheorems, SequenceTheorems, WellFoundedInduction, TLAPS

(* The programs keep to their steps, and a process that goes on has not      *)
(* failed.                                                                   *)
Typed ==
  /\ command \in [Processes -> Commands \cup {"none"}]
  /\ step \in [Processes -> Steps \cup {"idle", "exit"}]
  /\ strict \in [Processes -> BOOLEAN] /\ solo \in [Processes -> BOOLEAN]
  /\ failed \in [Processes -> Stages \cup {NoStage}]
  /\ DOMAIN out = Processes
  /\ runs \in 0 .. Len(Agenda)

Shape(p) ==
  /\ step[p] \in Conversion => command[p] \in Smokes \cup {"convert"}
  /\ step[p] = "validator" => command[p] \in Smokes \cup {"validate"}
  /\ step[p] = "docker" => command[p] = "docker_smoke"
  /\ step[p] = "smoke" => /\ command[p] \in Smokes
                          /\ failed[p] = "docker" => command[p] = "docker_smoke"
                          /\ failed[p] \in {NoStage, "conversion", "validator", "docker"}
  /\ step[p] \in {"artifact", "upload"} => command[p] \in {"deploy", "preflight_deploy"}
  /\ step[p] \notin {"smoke", "exit"} => failed[p] = NoStage

(* Has the conversion of the process replaced the XML?  Has the validator    *)
(* passed it?                                                                *)
Converts(p) == command[p] \in Smokes \cup {"convert"}
Replaced(p) ==
  /\ Converts(p)
  /\ \/ step[p] \in {"chunks", "listing", "manifest", "report", "validator", "docker",
                     "artifact", "upload"}
     \/ step[p] = "smoke" /\ failed[p] # "conversion"
Passed(p) ==
  /\ command[p] \in Smokes
  /\ \/ step[p] \in {"docker", "artifact", "upload"}
     \/ step[p] = "smoke" /\ failed[p] \in {NoStage, "docker"}

(* While nothing else runs, the XML is the process's own.                    *)
Fresh(p) ==
  solo[p] =>
    /\ Replaced(p) => xml = out[p]
    /\ Passed(p) => Passes(out[p], strict[p])
    /\ step[p] = "smoke" /\ failed[p] = "validator" => ~Passes(out[p], strict[p])

Alone == \A p \in Processes : solo[p] /\ ~Idle(p) => \A q \in Processes \ {p} : Idle(q)

IInv ==
  /\ Typed /\ Alone
  /\ \A p \in Processes : Shape(p) /\ Fresh(p)
  /\ SmokeReportTruthful

-----------------------------------------------------------------------------
\* An idle process has nothing to keep.
LEMMA IdleFresh == ASSUME NEW p, Idle(p) PROVE Fresh(p)
BY DEF Idle, Fresh, Replaced, Passed

\* A step of one process keeps the invariant if it does so for that process:
\* the others are idle, or are not alone.
LEMMA OneProcess ==
  ASSUME IInv, NEW p \in Processes, ~Idle(p), step'[p] # "idle", Typed',
         UNCHANGED <<command, strict, solo>>,
         \A q \in Processes \ {p} : /\ step'[q] = step[q] /\ failed'[q] = failed[q]
                                    /\ out'[q] = out[q],
         Shape(p)', Fresh(p)', SmokeReportTruthful'
  PROVE  IInv'
<1>1. Alone'
  BY DEF IInv, Alone, Idle
<1>2. ASSUME NEW q \in Processes \ {p} PROVE Shape(q)' /\ Fresh(q)'
  <2>1. Shape(q)'
    BY <1>2 DEF IInv, Shape
  <2>2. CASE Idle(q)
    <3>1. Idle(q)'
      BY <1>2, <2>2 DEF Idle
    <3>2. Fresh(q)'
      BY <3>1 DEF Idle, Fresh, Replaced, Passed
    <3> QED
      BY <2>1, <3>2
  <2>3. CASE ~Idle(q)
    <3>1. ~solo[q]
      BY <1>2, <2>3 DEF IInv, Alone
    <3>2. Fresh(q)'
      BY <1>2, <3>1 DEF Fresh
    <3> QED
      BY <2>1, <3>2
  <2> QED
    BY <2>2, <2>3
<1> QED
  BY <1>1, <1>2 DEF IInv

\* Where a step may lead, and that it leads nowhere for the others.
LEMMA Moves ==
  ASSUME IInv, NEW p \in Processes, ~Idle(p), step[p] # "exit",
         UNCHANGED <<command, strict, solo, runs>>, DOMAIN out' = Processes,
         NEW s \in Steps \cup {"exit"}, step' = [step EXCEPT ![p] = s],
         NEW f \in Stages \cup {NoStage}, failed' = [failed EXCEPT ![p] = f]
  PROVE  /\ Typed' /\ step'[p] = s /\ failed'[p] = f /\ step'[p] # "idle"
         /\ \A q \in Processes \ {p} : step'[q] = step[q] /\ failed'[q] = failed[q]
<1>1. s # "idle"
  BY DEF Steps, Conversion
<1>2. Typed
  BY DEF IInv
<1>3. step'[p] = s /\ failed'[p] = f
  BY <1>2 DEF Typed
<1>4. Typed'
  BY <1>2 DEF Typed
<1>5. \A q \in Processes \ {p} : step'[q] = step[q] /\ failed'[q] = failed[q]
  BY <1>2 DEF Typed
<1> QED
  BY <1>1, <1>3, <1>4, <1>5

\* The ways a step ends: it goes on, it fails, or an exception escapes.
LEMMA Ends ==
  ASSUME IInv, NEW p \in Processes, step[p] \in Steps \ {"smoke"},
         UNCHANGED <<command, strict, solo, runs>>, DOMAIN out' = Processes,
         \/ Done(p)
         \/ \E stage \in Stages : Fail(p, stage) \/ Escape(p, stage)
  PROVE  /\ Typed' /\ ~Idle(p) /\ step'[p] # "idle"
         /\ \A q \in Processes \ {p} : step'[q] = step[q] /\ failed'[q] = failed[q]
         /\ Done(p) => step'[p] = After(command[p], step[p]) /\ failed'[p] = NoStage
         /\ \A stage \in Stages :
              /\ Fail(p, stage) => /\ step'[p] = IF InSmoke(p) THEN "smoke" ELSE "exit"
                                   /\ failed'[p] = stage
              /\ Escape(p, stage) => step'[p] = "exit" /\ failed'[p] = stage
<1>1. Typed /\ Shape(p)
  BY DEF IInv
<1>2. failed[p] = NoStage /\ ~Idle(p) /\ step[p] # "exit"
  BY <1>1 DEF Shape, Idle, Steps, Conversion
<1>3. CASE Done(p)
  <2>1. After(command[p], step[p]) \in Steps \cup {"exit"}
    BY <1>1 DEF After, Steps, Conversion, Shape
  <2>2. failed' = [failed EXCEPT ![p] = NoStage]
    BY <1>1, <1>2, <1>3 DEF Done, Typed
  <2>3. step' = [step EXCEPT ![p] = After(command[p], step[p])]
    BY <1>1, <1>3 DEF Done, Typed
  <2>4. Typed' /\ step'[p] = After(command[p], step[p]) /\ failed'[p] = NoStage /\ step'[p] # "idle"
        /\ \A q \in Processes \ {p} : step'[q] = step[q] /\ failed'[q] = failed[q]
    BY <1>2, <2>1, <2>2, <2>3, Moves, ZenonT(30)
  <2>5. \A stage \in Stages : ~(Fail(p, stage) \/ Escape(p, stage))
    BY <1>1, <2>4, NoStageAssumption DEF Fail, Escape, Typed
  <2> QED
    BY <1>2, <2>4, <2>5
<1>4. ASSUME NEW stage \in Stages, Fail(p, stage)
      PROVE  /\ Typed' /\ step'[p] # "idle"
             /\ \A q \in Processes \ {p} : step'[q] = step[q] /\ failed'[q] = failed[q]
             /\ step'[p] = (IF InSmoke(p) THEN "smoke" ELSE "exit") /\ failed'[p] = stage
  <2>1. (IF InSmoke(p) THEN "smoke" ELSE "exit") \in Steps \cup {"exit"}
    BY DEF Steps
  <2> QED
    BY <1>2, <1>4, <2>1, Moves DEF Fail
<1>5. ASSUME NEW stage \in Stages, Escape(p, stage)
      PROVE  /\ Typed' /\ step'[p] # "idle"
             /\ \A q \in Processes \ {p} : step'[q] = step[q] /\ failed'[q] = failed[q]
             /\ step'[p] = "exit" /\ failed'[p] = stage
  BY <1>2, <1>5, Moves DEF Escape
<1>6. ASSUME ~Done(p) PROVE \E stage \in Stages : Fail(p, stage) \/ Escape(p, stage)
  BY <1>6
<1> QED
  BY <1>2, <1>3, <1>4, <1>5, <1>6

-----------------------------------------------------------------------------
(* The steps of a program. *)

\* A step of the conversion that leaves the XML alone.
LEMMA ConversionStep ==
  ASSUME IInv, NEW p \in Processes, step[p] \in Conversion \ {"convert", "xml"},
         UNCHANGED <<command, strict, solo, runs, xml, out, smoke>>,
         Done(p) \/ Fail(p, "conversion") \/ Escape(p, "conversion")
  PROVE  IInv'
<1>1. Typed /\ Shape(p) /\ Fresh(p) /\ "conversion" \in Stages /\ step[p] \in Steps \ {"smoke"}
  BY DEF IInv, Stages, Steps, Conversion
<1>2. /\ Typed' /\ ~Idle(p) /\ step'[p] # "idle" /\ DOMAIN out' = Processes
      /\ \A q \in Processes \ {p} : step'[q] = step[q] /\ failed'[q] = failed[q]
      /\ \/ step'[p] = After(command[p], step[p]) /\ failed'[p] = NoStage
         \/ /\ step'[p] = "exit" \/ (step'[p] = "smoke" /\ command[p] \in Smokes)
            /\ failed'[p] = "conversion"
  BY <1>1, Ends DEF InSmoke, Typed
<1>3. Shape(p)'
  BY <1>1, <1>2, NoStageAssumption DEF Shape, After, Conversion, Smokes, Stages
<1>4. Fresh(p)'
  BY <1>1, <1>2, NoStageAssumption DEF Fresh, Replaced, Passed, Converts, After, Conversion, Smokes, Shape, Stages
<1>5. SmokeReportTruthful'
  BY DEF IInv, SmokeReportTruthful
<1> QED
  BY <1>2, <1>3, <1>4, <1>5, OneProcess

\* The conversion itself changes what the process holds, and has not yet
\* replaced anything.
LEMMA ConvertStep == ASSUME IInv, NEW p \in Processes, Convert(p) PROVE IInv'
<1>1. Typed /\ Shape(p) /\ "conversion" \in Stages /\ step[p] = "convert"
      /\ step[p] \in Steps \ {"smoke"}
  BY DEF IInv, Stages, Steps, Conversion, Convert, At
<1>2. /\ UNCHANGED <<command, strict, solo, runs, xml, smoke>> /\ DOMAIN out' = Processes
      /\ \A q \in Processes \ {p} : out'[q] = out[q]
      /\ Done(p) \/ Fail(p, "conversion") \/ Escape(p, "conversion")
  BY <1>1 DEF Convert, Typed, Others, disk
<1>3. /\ Typed' /\ ~Idle(p) /\ step'[p] # "idle"
      /\ \A q \in Processes \ {p} : step'[q] = step[q] /\ failed'[q] = failed[q]
      /\ \/ step'[p] = After(command[p], step[p]) /\ failed'[p] = NoStage
         \/ /\ step'[p] = "exit" \/ (step'[p] = "smoke" /\ command[p] \in Smokes)
            /\ failed'[p] = "conversion"
  BY <1>1, <1>2, Ends DEF InSmoke
<1>4. Shape(p)'
  BY <1>1, <1>2, <1>3, NoStageAssumption DEF Shape, After, Conversion, Smokes, Stages
<1>5. Fresh(p)'
  BY <1>1, <1>2, <1>3, NoStageAssumption DEF Fresh, Replaced, Passed, Converts, After, Smokes, Stages
<1>6. SmokeReportTruthful'
  BY <1>2 DEF IInv, SmokeReportTruthful
<1> QED
  BY <1>2, <1>3, <1>4, <1>5, <1>6, OneProcess

LEMMA WriteXmlStep == ASSUME IInv, NEW p \in Processes, WriteXml(p) PROVE IInv'
<1>1. Typed /\ Shape(p) /\ "conversion" \in Stages /\ step[p] = "xml"
      /\ step[p] \in Steps \ {"smoke"}
  BY DEF IInv, Stages, Steps, Conversion, WriteXml, At
<1>2. /\ UNCHANGED <<command, strict, solo, runs, out, smoke>> /\ DOMAIN out' = Processes
      /\ (Done(p) /\ xml' = out[p]) \/ Fail(p, "conversion")
  BY <1>1 DEF WriteXml, Typed, Others, memory
<1>3. /\ Typed' /\ ~Idle(p) /\ step'[p] # "idle"
      /\ \A q \in Processes \ {p} : step'[q] = step[q] /\ failed'[q] = failed[q]
      /\ \/ step'[p] = After(command[p], step[p]) /\ failed'[p] = NoStage /\ xml' = out[p]
         \/ /\ step'[p] = "exit" \/ (step'[p] = "smoke" /\ command[p] \in Smokes)
            /\ failed'[p] = "conversion"
  BY <1>1, <1>2, Ends DEF InSmoke
<1>4. Shape(p)'
  BY <1>1, <1>2, <1>3, NoStageAssumption DEF Shape, After, Conversion, Smokes, Stages
<1>5. Fresh(p)'
  BY <1>1, <1>2, <1>3, NoStageAssumption DEF Fresh, Replaced, Passed, Converts, After, Smokes, Stages
<1>6. SmokeReportTruthful'
  BY <1>2 DEF IInv, SmokeReportTruthful
<1> QED
  BY <1>2, <1>3, <1>4, <1>5, <1>6, OneProcess

\* A chunk that is not the last leaves the process where it is.
LEMMA WriteChunkStep == ASSUME IInv, NEW p \in Processes, WriteChunk(p) PROVE IInv'
<1>1. /\ UNCHANGED <<command, strict, solo, runs, xml, out, smoke>>
      /\ step[p] \in Conversion \ {"convert", "xml"}
      /\ Done(p) \/ Fail(p, "conversion") \/ UNCHANGED <<step, failed>>
  BY DEF WriteChunk, At, Others, Conversion
<1>2. CASE UNCHANGED <<step, failed>>
  <2>1. Typed' /\ ~Idle(p) /\ step'[p] # "idle"
    BY <1>1, <1>2 DEF IInv, Typed, Idle, Conversion
  <2>2. Shape(p)' /\ Fresh(p)' /\ SmokeReportTruthful'
    BY <1>1, <1>2 DEF IInv, Shape, Fresh, Replaced, Passed, Converts, SmokeReportTruthful
  <2> QED
    BY <1>1, <1>2, <2>1, <2>2, OneProcess
<1>3. CASE Done(p) \/ Fail(p, "conversion")
  BY <1>1, <1>3, ConversionStep
<1> QED
  BY <1>1, <1>2, <1>3

LEMMA ValidatorStep == ASSUME IInv, NEW p \in Processes, ValidateOutput(p) PROVE IInv'
<1>1. Typed /\ Shape(p) /\ Fresh(p) /\ step[p] = "validator" /\ "validator" \in Stages
      /\ step[p] \in Steps \ {"smoke"}
  BY DEF IInv, Stages, Steps, ValidateOutput, At
<1>2. /\ UNCHANGED <<command, strict, solo, runs, xml, out, smoke>> /\ DOMAIN out' = Processes
      /\ (Done(p) /\ Passes(xml, strict[p])) \/ (Fail(p, "validator") /\ ~Passes(xml, strict[p]))
  BY <1>1 DEF ValidateOutput, Typed, Others, disk, memory
<1>3. /\ Typed' /\ ~Idle(p) /\ step'[p] # "idle"
      /\ \A q \in Processes \ {p} : step'[q] = step[q] /\ failed'[q] = failed[q]
      /\ \/ /\ step'[p] = After(command[p], step[p]) /\ failed'[p] = NoStage
            /\ Passes(xml, strict[p])
         \/ /\ step'[p] = "exit" \/ (step'[p] = "smoke" /\ command[p] \in Smokes)
            /\ failed'[p] = "validator" /\ ~Passes(xml, strict[p])
  BY <1>1, <1>2, Ends DEF InSmoke
<1>4. Shape(p)'
  BY <1>1, <1>2, <1>3, NoStageAssumption DEF Shape, After, Conversion, Smokes, Stages
<1>5. Fresh(p)'
  <2>1. ASSUME solo[p], command[p] \in Smokes PROVE xml = out[p]
    BY <1>1, <2>1 DEF Fresh, Replaced, Converts
  <2>2. (Passes(out[p], strict[p]))' = Passes(out[p], strict[p])
    BY <1>2
  <2>3. step'[p] \in {"docker", "smoke", "exit"}
    BY <1>1, <1>3 DEF After
  <2>4. command[p] \in Smokes \/ step'[p] = "exit"
    <3>1. ASSUME command[p] = "validate" PROVE After(command[p], step[p]) = "exit"
      BY <1>1, <3>1 DEF After, Smokes
    <3>2. command[p] \in Smokes \cup {"validate"}
      BY <1>1 DEF Shape
    <3> QED
      BY <1>3, <3>1, <3>2
  <2>5. CASE step'[p] = "exit"
    BY <2>5 DEF Fresh, Replaced, Passed
  <2>6. CASE step'[p] \in {"docker", "smoke"} /\ command[p] \in Smokes
    BY <1>2, <1>3, <2>1, <2>6, NoStageAssumption DEF Fresh, Replaced, Passed, Converts, Stages
  <2> QED
    BY <2>3, <2>4, <2>5, <2>6
<1>6. SmokeReportTruthful'
  BY <1>2 DEF IInv, SmokeReportTruthful
<1> QED
  BY <1>2, <1>3, <1>4, <1>5, <1>6, OneProcess

LEMMA DockerStep == ASSUME IInv, NEW p \in Processes, DockerSmoke(p) PROVE IInv'
<1>1. Typed /\ Shape(p) /\ Fresh(p) /\ step[p] = "docker" /\ "docker" \in Stages
      /\ step[p] \in Steps \ {"smoke"} /\ command[p] = "docker_smoke"
  BY DEF IInv, Stages, Steps, DockerSmoke, At, Shape
<1>2. /\ UNCHANGED <<command, strict, solo, runs, xml, out, smoke>> /\ DOMAIN out' = Processes
      /\ Done(p) \/ Fail(p, "docker")
  BY <1>1 DEF DockerSmoke, Typed, Others, disk, memory
<1>3. /\ Typed' /\ ~Idle(p) /\ step'[p] = "smoke"
      /\ \A q \in Processes \ {p} : step'[q] = step[q] /\ failed'[q] = failed[q]
      /\ failed'[p] \in {NoStage, "docker"}
  BY <1>1, <1>2, Ends DEF InSmoke, After, Smokes
<1>4. Shape(p)'
  BY <1>1, <1>2, <1>3, NoStageAssumption DEF Shape, Conversion, Smokes, Stages
<1>5. Fresh(p)'
  BY <1>1, <1>2, <1>3, NoStageAssumption DEF Fresh, Replaced, Passed, Converts, Smokes, Stages
<1>6. SmokeReportTruthful'
  BY <1>2 DEF IInv, SmokeReportTruthful
<1> QED
  BY <1>2, <1>3, <1>4, <1>5, <1>6, OneProcess

\* The two steps of a deployment: what they read has not changed.
LEMMA DeployStep ==
  ASSUME IInv, NEW p \in Processes, ValidateArtifact(p) \/ Upload(p) PROVE IInv'
<1>1. Typed /\ Shape(p) /\ Fresh(p) /\ step[p] \in {"artifact", "upload"}
      /\ step[p] \in Steps \ {"smoke"} /\ {"artifact", "upload"} \subseteq Stages
  BY DEF IInv, Stages, Steps, ValidateArtifact, Upload, At
<1>2. /\ UNCHANGED <<command, strict, solo, runs, xml, out, smoke>> /\ DOMAIN out' = Processes
      /\ Done(p) \/ Fail(p, "artifact") \/ Fail(p, "upload")
  BY <1>1 DEF ValidateArtifact, Upload, Typed, Others, disk, memory
<1>3. /\ Typed' /\ ~Idle(p) /\ step'[p] \in {"upload", "exit"}
      /\ \A q \in Processes \ {p} : step'[q] = step[q] /\ failed'[q] = failed[q]
      /\ step'[p] = "upload" => failed'[p] = NoStage /\ step[p] = "artifact"
  BY <1>1, <1>2, Ends DEF InSmoke, After, Conversion
<1>4. Shape(p)'
  BY <1>1, <1>2, <1>3 DEF Shape, Conversion
<1>5. Fresh(p)'
  BY <1>1, <1>2, <1>3 DEF Fresh, Replaced, Passed, Converts
<1>6. SmokeReportTruthful'
  BY <1>2 DEF IInv, SmokeReportTruthful
<1> QED
  BY <1>2, <1>3, <1>4, <1>5, <1>6, OneProcess

\* The smoke report is written of what the process holds, and a preflight
\* goes on only if it has not failed.
LEMMA WriteSmokeReportStep ==
  ASSUME IInv, NEW p \in Processes, WriteSmokeReport(p) PROVE IInv'
<1>1. Typed /\ Shape(p) /\ Fresh(p) /\ step[p] = "smoke" /\ ~Idle(p)
      /\ command[p] \in Smokes /\ failed[p] \in {NoStage, "conversion", "validator", "docker"}
  BY DEF IInv, WriteSmokeReport, At, Shape, Idle
<1>2. UNCHANGED <<command, strict, solo, runs, xml, out>> /\ DOMAIN out' = Processes
  BY <1>1 DEF WriteSmokeReport, Typed, Others, memory
<1>3. CASE Escape(p, "report") /\ UNCHANGED smoke
  <2>1. /\ Typed' /\ step'[p] = "exit" /\ step'[p] # "idle"
        /\ \A q \in Processes \ {p} : step'[q] = step[q] /\ failed'[q] = failed[q]
    BY <1>1, <1>2, <1>3, Moves DEF Escape, Stages
  <2>2. Shape(p)' /\ Fresh(p)' /\ SmokeReportTruthful'
    BY <1>2, <1>3, <2>1 DEF IInv, Shape, Conversion, Fresh, Replaced, Passed, SmokeReportTruthful
  <2> QED
    BY <1>1, <1>2, <2>1, <2>2, OneProcess
<1>4. CASE /\ smoke' = SmokeReport(p) /\ step' = [step EXCEPT ![p] = AfterSmoke(p)]
           /\ UNCHANGED failed
  <2>1. AfterSmoke(p) \in {"artifact", "exit"}
        /\ (AfterSmoke(p) = "artifact" => command[p] = "preflight_deploy" /\ failed[p] = NoStage)
    BY DEF AfterSmoke, After
  <2>2. /\ Typed' /\ step'[p] = AfterSmoke(p) /\ step'[p] # "idle"
        /\ \A q \in Processes \ {p} : step'[q] = step[q] /\ failed'[q] = failed[q]
    <3>1. failed' = [failed EXCEPT ![p] = failed[p]] /\ failed[p] \in Stages \cup {NoStage}
      BY <1>1, <1>4 DEF Typed
    <3>2. AfterSmoke(p) \in Steps \cup {"exit"}
      BY <2>1 DEF Steps
    <3> QED
      BY <1>1, <1>2, <1>4, <3>1, <3>2, Moves, ZenonT(30)
  <2>3. Shape(p)'
    BY <1>1, <1>2, <1>4, <2>1, <2>2 DEF Shape, Conversion, Smokes
  <2>4. Fresh(p)'
    <3>1. CASE AfterSmoke(p) = "exit"
      BY <2>2, <3>1 DEF Fresh, Replaced, Passed
    <3>2. CASE AfterSmoke(p) = "artifact"
      <4>1. ASSUME solo[p] PROVE xml = out[p] /\ Passes(out[p], strict[p])
        BY <1>1, <2>1, <3>2, <4>1, NoStageAssumption
           DEF Fresh, Replaced, Passed, Converts, Stages
      <4>2. step'[p] = "artifact" /\ out' = out /\ xml' = xml /\ strict' = strict /\ solo' = solo
        BY <1>2, <2>2, <3>2
      <4> QED
        BY <4>1, <4>2 DEF Fresh
    <3> QED
      BY <2>1, <3>1, <3>2
  <2>5. SmokeReportTruthful'
    <3>1. /\ smoke'.failed_stage = failed[p] /\ smoke'.solo = solo[p] /\ smoke'.strict = strict[p]
          /\ smoke'.docker = (command[p] = "docker_smoke")
          /\ failed[p] # "conversion" => smoke'.conversion = out[p]
      BY <1>4 DEF SmokeReport
    <3>2. failed[p] = "docker" => command[p] = "docker_smoke"
      BY <1>1 DEF Shape
    <3>3. ASSUME solo[p], failed[p] # "conversion"
          PROVE  failed[p] = "validator" <=> ~Passes(out[p], strict[p])
      BY <1>1, <3>3, NoStageAssumption DEF Fresh, Passed, Stages
    <3>4. (smoke.failed_stage = "docker" => smoke.docker)'
      BY <3>1, <3>2
    <3>5. (smoke.solo /\ smoke.failed_stage # "conversion" =>
             (smoke.failed_stage = "validator" <=> ~Passes(smoke.conversion, smoke.strict)))'
      BY <3>1, <3>3
    <3> QED
      BY <3>4, <3>5 DEF SmokeReportTruthful
  <2> QED
    BY <1>1, <1>2, <2>2, <2>3, <2>4, <2>5, OneProcess
<1> QED
  BY <1>3, <1>4 DEF WriteSmokeReport

-----------------------------------------------------------------------------
(* The commands and the environment. *)

\* A command that begins is alone if everything else is idle, and from then on
\* nothing else is.
LEMMA StartStep == ASSUME IInv, NEW p \in Processes, Start(p) PROVE IInv'
<1>1. Typed /\ Idle(p) /\ failed[p] = NoStage
  BY DEF IInv, Start, Shape, Idle
<1>2. PICK c \in Commands, s \in BOOLEAN :
        /\ command' = [command EXCEPT ![p] = c] /\ step' = [step EXCEPT ![p] = First(c)]
        /\ strict' = [strict EXCEPT ![p] = s]
  <2>1. runs' \in 1 .. Len(Agenda) /\ Agenda[runs'] \in SUBSET Commands
    BY <1>1, AgendaAssumption DEF Start, Typed
  <2> QED
    BY <2>1 DEF Start
<1>3. First(c) \in {"load", "validator", "artifact"} /\ First(c) \in Steps
      /\ (First(c) = "load" => c \in Smokes \cup {"convert"})
      /\ (First(c) = "validator" => c = "validate")
      /\ (First(c) = "artifact" => c = "deploy")
  BY DEF First, Commands, Steps, Conversion
<1>4. /\ UNCHANGED <<xml, smoke, out, failed>>
      /\ solo' = [q \in Processes |->
                    IF q = p THEN \A r \in Processes \ {p} : Idle(r) ELSE solo[q] /\ Idle(q)]
  BY DEF Start, disk, memory
<1>5. /\ command'[p] = c /\ step'[p] = First(c) /\ failed'[p] = NoStage
      /\ \A q \in Processes \ {p} : /\ command'[q] = command[q] /\ step'[q] = step[q]
                                     /\ strict'[q] = strict[q] /\ failed'[q] = failed[q]
  BY <1>1, <1>2, <1>4 DEF Typed
<1>6. Typed'
  <2>1. solo' \in [Processes -> BOOLEAN]
    <3>1. solo \in [Processes -> BOOLEAN]
      BY <1>1 DEF Typed
    <3>2. \A q \in Processes :
            (IF q = p THEN \A r \in Processes \ {p} : Idle(r) ELSE solo[q] /\ Idle(q)) \in BOOLEAN
      OBVIOUS
    <3> QED
      BY <1>4, <3>2
  <2>2. runs' \in 0 .. Len(Agenda)
    BY <1>1, AgendaAssumption DEF Start, Typed
  <2>3. step' \in [Processes -> Steps \cup {"idle", "exit"}]
        /\ command' \in [Processes -> Commands \cup {"none"}]
    BY <1>1, <1>2, <1>3 DEF Typed
  <2>4. strict' \in [Processes -> BOOLEAN]
    BY <1>1, <1>2 DEF Typed
  <2>5. failed' \in [Processes -> Stages \cup {NoStage}] /\ DOMAIN out' = Processes
    BY <1>1, <1>4 DEF Typed
  <2> QED
    BY <2>1, <2>2, <2>3, <2>4, <2>5 DEF Typed
<1>7. ASSUME NEW q \in Processes \ {p}, ~Idle(q)' PROVE ~solo'[q]
  BY <1>4, <1>5, <1>7 DEF Idle
<1>8. Alone'
  <2>1. ASSUME solo'[p], NEW r \in Processes \ {p} PROVE Idle(r)'
    BY <1>4, <1>5, <2>1 DEF Idle
  <2> QED
    BY <1>7, <2>1 DEF Alone
<1>9. Shape(p)' /\ Fresh(p)'
  BY <1>3, <1>5 DEF Shape, Fresh, Replaced, Passed, Converts, Conversion, Smokes
<1>10. ASSUME NEW q \in Processes \ {p} PROVE Shape(q)' /\ Fresh(q)'
  <2>1. Shape(q)'
    BY <1>5, <1>10 DEF IInv, Shape
  <2>2. Fresh(q)'
    BY <1>7, <1>10 DEF Idle, Fresh, Replaced, Passed
  <2> QED
    BY <2>1, <2>2
<1>11. SmokeReportTruthful'
  BY <1>4 DEF IInv, SmokeReportTruthful
<1> QED
  BY <1>6, <1>8, <1>9, <1>10, <1>11 DEF IInv

\* A process that is gone is idle.
LEMMA VanishStep == ASSUME IInv, NEW p \in Processes, Vanish(p) PROVE IInv'
<1>1. Typed
  BY DEF IInv
<1>2. /\ UNCHANGED <<xml, smoke, runs>> /\ step'[p] = "idle" /\ failed'[p] = NoStage
      /\ \A q \in Processes \ {p} :
           /\ command'[q] = command[q] /\ step'[q] = step[q] /\ strict'[q] = strict[q]
           /\ failed'[q] = failed[q] /\ solo'[q] = solo[q] /\ out'[q] = out[q]
  BY <1>1 DEF Vanish, Typed, disk
<1>3. Typed'
  <2>1. strict' \in [Processes -> BOOLEAN]
    BY <1>1 DEF Vanish, Typed
  <2>2. solo' \in [Processes -> BOOLEAN]
    BY <1>1 DEF Vanish, Typed
  <2> QED
    BY <1>1, <2>1, <2>2 DEF Vanish, Typed
<1>4. Alone'
  BY <1>2 DEF IInv, Alone, Idle
<1>5. Shape(p)' /\ Fresh(p)'
  BY <1>2 DEF Shape, Fresh, Replaced, Passed, Conversion
<1>6. ASSUME NEW q \in Processes \ {p} PROVE Shape(q)' /\ Fresh(q)'
  BY <1>2, <1>6 DEF IInv, Shape, Fresh, Replaced, Passed, Converts
<1>7. SmokeReportTruthful'
  BY <1>2 DEF IInv, SmokeReportTruthful
<1> QED
  BY <1>3, <1>4, <1>5, <1>6, <1>7 DEF IInv

\* The edits and the files the invariant does not speak of.
LEMMA QuietStep ==
  ASSUME IInv, UNCHANGED <<xml, smoke, command, step, strict, solo, failed, out, runs>>
  PROVE  IInv'
<1>1. Typed' /\ Alone' /\ SmokeReportTruthful'
  BY DEF IInv, Typed, Alone, Idle, SmokeReportTruthful
<1>2. ASSUME NEW p \in Processes PROVE Shape(p)' /\ Fresh(p)'
  BY DEF IInv, Shape, Fresh, Replaced, Passed, Converts
<1> QED
  BY <1>1, <1>2 DEF IInv

-----------------------------------------------------------------------------
(* The specification. *)

LEMMA InitInv == ASSUME Init PROVE IInv
<1>1. Typed
  <2>1. strict \in [Processes -> BOOLEAN]
    BY DEF Init
  <2>2. solo \in [Processes -> BOOLEAN]
    BY DEF Init
  <2>3. runs \in 0 .. Len(Agenda)
    BY AgendaAssumption DEF Init
  <2> QED
    BY <2>1, <2>2, <2>3 DEF Init, Typed
<1>2. ASSUME NEW p \in Processes PROVE Idle(p) /\ Shape(p) /\ Fresh(p)
  BY DEF Init, Idle, Shape, Fresh, Replaced, Passed, Conversion
<1>3. SmokeReportTruthful
  BY DEF Init, SmokeReportTruthful
<1> QED
  BY <1>1, <1>2, <1>3 DEF IInv, Alone

LEMMA NextInv == ASSUME IInv, [Next]_vars PROVE IInv'
<1>1. CASE UNCHANGED vars
  BY <1>1, QuietStep DEF vars, disk, memory, budget
<1>2. ASSUME NEW i \in Identities, Edit(i) PROVE IInv'
  BY <1>2, QuietStep DEF Edit, disk, memory
<1>3. ASSUME NEW p \in Processes, Start(p) PROVE IInv'
  BY <1>3, StartStep
<1>4. ASSUME NEW p \in Processes, Exit(p) \/ Kill(p) PROVE IInv'
  BY <1>4, VanishStep DEF Exit, Kill
<1>5. ASSUME NEW p \in Processes, Load(p) PROVE IInv'
  BY <1>5, ConversionStep DEF Load, At, Others, disk, Conversion
<1>6. ASSUME NEW p \in Processes, WriteListing(p) PROVE IInv'
  BY <1>6, ConversionStep DEF WriteListing, At, Others, memory, Conversion
<1>7. ASSUME NEW p \in Processes, SaveManifest(p) PROVE IInv'
  BY <1>7, ConversionStep DEF SaveManifest, At, Others, memory, Conversion
<1>8. ASSUME NEW p \in Processes, WriteReport(p) PROVE IInv'
  BY <1>8, ConversionStep DEF WriteReport, At, Others, memory, Conversion
<1> QED
  BY <1>1, <1>2, <1>3, <1>4, <1>5, <1>6, <1>7, <1>8, ConvertStep, WriteXmlStep, WriteChunkStep,
     ValidatorStep, DockerStep, WriteSmokeReportStep, DeployStep DEF Next, Step

THEOREM Invariance == Spec => []IInv
BY InitInv, NextInv, PTL DEF Spec

\* The report of a smoke that no other command ran beside names the validator
\* exactly if its own conversion does not pass it, whatever ran, failed or was
\* killed before; every report names Docker only if it was asked for:
\* pipeline_stages.py:143-203.
THEOREM SmokeReportsTruthful == Spec => []SmokeReportTruthful
<1>1. IInv => SmokeReportTruthful
  BY DEF IInv
<1> QED
  BY <1>1, Invariance, PTL

\* docs/PIPELINE.md:116-118: after a preflight smoke that failed nothing is
\* uploaded (pipeline.py:299-320), and while no other command runs what is
\* uploaded is the conversion the smoke validated, under its policy.
THEOREM PreflightUploadsGated == Spec => PreflightGates
<1>1. ASSUME IInv, [Next]_vars, NEW p \in Processes, command[p] = "preflight_deploy",
             Upload(p), remote' # remote
      PROVE  failed[p] = NoStage /\ (solo[p] => remote' = out[p] /\ Passes(remote', strict[p]))
  <2>1. step[p] = "upload" /\ remote' = xml
    BY <1>1 DEF Upload, At
  <2>2. Shape(p) /\ Fresh(p)
    BY <1>1 DEF IInv
  <2> QED
    BY <1>1, <2>1, <2>2 DEF Shape, Fresh, Replaced, Passed, Converts, Smokes
<1>2. IInv /\ [Next]_vars =>
        [\A p \in Processes :
           /\ command[p] = "preflight_deploy"
           /\ Upload(p) /\ remote' # remote
           => /\ failed[p] = NoStage
              /\ solo[p] => remote' = out[p] /\ Passes(remote', strict[p])]_vars
  BY <1>1
<1> QED
  BY <1>2, Invariance, PTL DEF Spec, PreflightGates

-----------------------------------------------------------------------------
(* Rules in the order of their files. *)

\* No two places are the same, and each from 0 on is taken.
LEMMA Places ==
  ASSUME NEW S, S \subseteq Nat, IsFiniteSet(S)
  PROVE  /\ Cardinality(S) \in Nat
         /\ \A i \in S : Place(S, i) \in 0 .. Cardinality(S) - 1
         /\ \A i, j \in S : Place(S, i) = Place(S, j) => i = j
         /\ \A n \in 0 .. Cardinality(S) - 1 : \E i \in S : Place(S, i) = n
<1> DEFINE Before(i) == { j \in S : j < i }
           n == Cardinality(S)
           f == [i \in S |-> Place(S, i)]
<1>1. n \in Nat
  BY FS_CardinalityType
<1>2. \A i \in S : /\ IsFiniteSet(Before(i)) /\ Place(S, i) = Cardinality(Before(i))
                    /\ Place(S, i) \in Nat
  <2>1. \A i \in S : Before(i) \in SUBSET S
    OBVIOUS
  <2>2. \A i \in S : IsFiniteSet(Before(i)) /\ Cardinality(Before(i)) \in Nat
    <3> HIDE DEF Before
    <3> QED
      BY <2>1, FS_Subset, FS_CardinalityType
  <2> QED
    BY <2>2 DEF Place
<1>3. ASSUME NEW i \in S PROVE Place(S, i) \in 0 .. n - 1
  <2>1. Before(i) \in SUBSET (S \ {i})
    OBVIOUS
  <2>2. IsFiniteSet(S \ {i}) /\ Cardinality(S \ {i}) = n - 1
    BY FS_RemoveElement
  <2>3. Cardinality(Before(i)) <= n - 1
    <3> HIDE DEF Before
    <3> QED
      BY <2>1, <2>2, FS_Subset
  <2> QED
    BY <1>1, <1>2, <2>3
<1>4. ASSUME NEW i \in S, NEW j \in S, i < j PROVE Place(S, i) # Place(S, j)
  <2>1. Before(i) \in SUBSET Before(j) /\ i \in Before(j) /\ i \notin Before(i)
    <3>1. ASSUME NEW l \in S, l < i PROVE l < j
      <4>1. l \in Nat /\ i \in Nat /\ j \in Nat
        OBVIOUS
      <4> QED
        BY <1>4, <3>1, <4>1
    <3>2. ~(i < i)
      <4>1. i \in Nat
        OBVIOUS
      <4> QED
        BY <4>1
    <3> QED
      BY <1>4, <3>1, <3>2
  <2>2. IsFiniteSet(Before(j))
    BY <1>2
  <2>3. Cardinality(Before(i)) # Cardinality(Before(j))
    <3> HIDE DEF Before
    <3> QED
      BY <2>1, <2>2, FS_Subset
  <2> QED
    BY <1>2, <2>3
<1>5. \A i, j \in S : Place(S, i) = Place(S, j) => i = j
  BY <1>4
<1>6. \A k \in 0 .. n - 1 : \E i \in S : Place(S, i) = k
  <2>1. f \in Injection(S, 0 .. n - 1)
    BY <1>3, <1>5 DEF Injection, IsInjective
  <2>2. IsFiniteSet(0 .. n - 1) /\ Cardinality(0 .. n - 1) = n
    <3> HIDE DEF n
    <3>1. 0 \in Int /\ n - 1 \in Int /\ (IF 0 > n - 1 THEN 0 ELSE (n - 1) - 0 + 1) = n
      BY <1>1
    <3> QED
      BY <3>1, FS_Interval
  <2>3. f \in Surjection(S, 0 .. n - 1)
    <3> HIDE DEF f
    <3> QED
      BY <2>1, <2>2, FS_Injection
  <2> QED
    BY <2>3 DEF Surjection
<1> QED
  BY <1>1, <1>3, <1>5, <1>6

\* InOrder lists each rule, and nothing else.
LEMMA Ordered ==
  ASSUME NEW S, S \subseteq Nat, IsFiniteSet(S)
  PROVE  /\ InOrder(S) \in Seq(S)
         /\ { InOrder(S)[k] : k \in DOMAIN InOrder(S) } = S
<1> DEFINE n == Cardinality(S)
           order == InOrder(S)
<1>1. /\ n \in Nat
      /\ \A i \in S : Place(S, i) \in 0 .. n - 1
      /\ \A i, j \in S : Place(S, i) = Place(S, j) => i = j
      /\ \A k \in 0 .. n - 1 : \E i \in S : Place(S, i) = k
  BY Places
<1>2. \A k \in 1 .. n : order[k] = CHOOSE i \in S : Place(S, i) = k - 1
  BY DEF InOrder
<1>3. DOMAIN order = 1 .. n
  BY DEF InOrder
<1>4. ASSUME NEW k \in 1 .. n PROVE order[k] \in S /\ Place(S, order[k]) = k - 1
  <2>1. \E i \in S : Place(S, i) = k - 1
    BY <1>1
  <2> QED
    BY <1>2, <2>1
<1>5. ASSUME NEW i \in S PROVE Place(S, i) + 1 \in 1 .. n /\ order[Place(S, i) + 1] = i
  <2>1. Place(S, i) + 1 \in 1 .. n
    BY <1>1
  <2>2. order[Place(S, i) + 1] \in S /\ Place(S, order[Place(S, i) + 1]) = Place(S, i)
    <3> HIDE DEF order, n
    <3>1. Place(S, i) \in Nat
      BY <1>1
    <3> QED
      BY <1>4, <2>1, <3>1
  <2>3. order[Place(S, i) + 1] = i
    <3> HIDE DEF order, n
    <3> QED
      BY <1>1, <2>2
  <2> QED
    BY <2>1, <2>3
<1>6. order \in Seq(S)
  BY <1>1, <1>3, <1>4 DEF InOrder
<1>7. { order[k] : k \in DOMAIN order } = S
  <2> HIDE DEF order
  <2> QED
    BY <1>3, <1>4, <1>5
<1> QED
  BY <1>6, <1>7

-----------------------------------------------------------------------------
(* The conversion. *)

\* The rules of a file have the ids a manifest has for its active rules.
Agrees(m, rules) ==
  /\ m.active \ Unsupported = { rules[k].identity : k \in DOMAIN rules }
  /\ \A k \in DOMAIN rules : m.ids[rules[k].identity] = rules[k].id

LEMMA Enrolled ==
  ASSUME NEW m \in Manifest, NEW present, present \subseteq Identities,
         ~ManifestRaises(m, present)
  PROVE  /\ Enrol(m, present) \in Manifest
         /\ \A i \in present : Enrol(m, present).ids[i] \in FirstId .. LastId
<1> DEFINE new == { i \in present : ~Known(m, i) }
           n == Cardinality(new)
<1>1. /\ FirstId \in Nat \ {0} /\ LastId \in Nat /\ Identities \subseteq Nat
      /\ m.ids \in [Identities -> {0} \cup FirstId .. LastId]
      /\ m.active \in SUBSET Identities /\ m.next_id \in FirstId .. LastId + 1
  BY RangeAssumption, IdentitiesAssumption, ValidatorAssumption DEF Manifest
<1>2. n \in Nat /\ \A i \in new : Place(new, i) \in 0 .. n - 1
  <2>1. new \subseteq Nat /\ IsFiniteSet(new)
    BY <1>1, IdentitiesAssumption, FS_Subset
  <2> HIDE DEF new
  <2> QED
    BY <2>1, Places
<1>3. m.next_id + n <= LastId + 1
  <2>1. Enrol(m, present).next_id = m.next_id + n
    BY DEF Enrol
  <2> QED
    BY <1>1, <1>2, <2>1 DEF ManifestRaises
<1> DEFINE ids == [i \in Identities |-> IF i \in new THEN m.next_id + Place(new, i) ELSE m.ids[i]]
<1>4. Enrol(m, present)
        = [ids |-> ids, active |-> m.active \cup present, next_id |-> m.next_id + n]
  BY Zenon DEF Enrol
<1>5. \A i \in new : m.next_id + Place(new, i) \in FirstId .. LastId
  <2> HIDE DEF new
  <2> QED
    BY <1>1, <1>2, <1>3
<1>6. \A i \in Identities : ids[i] \in {0} \cup FirstId .. LastId
  BY <1>1, <1>5
<1>7. \A i \in present : ids[i] \in FirstId .. LastId
  <2> SUFFICES ASSUME NEW i \in present PROVE ids[i] \in FirstId .. LastId
    OBVIOUS
  <2>1. CASE i \in new
    BY <1>5, <2>1
  <2>2. CASE i \notin new
    BY <1>1, <2>2 DEF Known
  <2> QED
    BY <2>1, <2>2
<1> HIDE DEF ids, new
<1>8. m.next_id + n \in FirstId .. LastId + 1
  BY <1>1, <1>2, <1>3
<1>9. Enrol(m, present) \in Manifest
  <2>1. ids \in [Identities -> {0} \cup FirstId .. LastId]
    BY <1>6 DEF ids
  <2>2. m.active \cup present \in SUBSET Identities
    BY <1>1
  <2> DEFINE active == m.active \cup present
             next == m.next_id + n
  <2>3. Enrol(m, present) = [ids |-> ids, active |-> active, next_id |-> next]
    BY <1>4
  <2> HIDE DEF n, active, next
  <2> QED
    BY <1>8, <2>1, <2>2, <2>3 DEF Manifest, active, next
<1> QED
  BY <1>4, <1>7, <1>9

\* What a conversion holds at its end is typed and agrees.
LEMMA ConversionAgrees ==
  ASSUME NEW m \in Manifest, NEW present, present \subseteq Identities,
         ~ManifestRaises(m, present)
  PROVE  LET manifest == Enrol(m, present)
         IN  /\ RetireUnseen(manifest, present) \in Manifest
             /\ Converted(manifest, present) \in Seq(Rule)
             /\ Agrees(RetireUnseen(manifest, present), Converted(manifest, present))
<1> DEFINE manifest == Enrol(m, present)
           kept == RetireUnseen(manifest, present)
           emitted == present \ Unsupported
           order == InOrder(emitted)
           rules == Converted(manifest, present)
<1>1. manifest \in Manifest /\ \A i \in present : manifest.ids[i] \in FirstId .. LastId
  BY Enrolled
<1> HIDE DEF manifest
<1>2. /\ kept \in Manifest /\ kept.active = present /\ kept.ids = manifest.ids
  BY <1>1 DEF RetireUnseen, Manifest
<1>3. order \in Seq(emitted) /\ { order[k] : k \in DOMAIN order } = emitted
  <2>1. emitted \subseteq Nat /\ IsFiniteSet(emitted)
    BY IdentitiesAssumption, FS_Subset
  <2> HIDE DEF emitted
  <2> QED
    BY <2>1, Ordered
<1>4. rules = [k \in DOMAIN order |-> [id |-> manifest.ids[order[k]], identity |-> order[k]]]
  BY Zenon DEF Converted
<1> HIDE DEF order, rules, kept
<1>5. \A k \in DOMAIN order : order[k] \in present /\ order[k] \in Identities
  BY <1>3
<1>6. /\ DOMAIN rules = DOMAIN order
      /\ \A k \in DOMAIN rules : /\ rules[k].identity = order[k]
                                  /\ rules[k].id = manifest.ids[order[k]]
                                  /\ rules[k] \in Rule
  BY <1>1, <1>4, <1>5 DEF Rule
<1>7. rules \in Seq(Rule)
  <2>1. Len(order) \in Nat /\ DOMAIN order = 1 .. Len(order)
    BY <1>3
  <2> QED
    BY <1>4, <1>6, <2>1
<1>8. Agrees(kept, rules)
  <2>1. { rules[k].identity : k \in DOMAIN rules } = emitted
    BY <1>3, <1>6
  <2> QED
    BY <1>2, <1>6, <2>1 DEF Agrees
<1> QED
  BY <1>2, <1>7, <1>8 DEF kept, rules, manifest

-----------------------------------------------------------------------------
(* The chunks. *)

\* What holds of 0 and goes on holding, holds up to n.
LEMMA Counting ==
  ASSUME NEW n \in Nat, NEW T, 0 \in T, \A k \in 1 .. n : k - 1 \in T => k \in T
  PROVE  \A k \in 0 .. n : k \in T
<1> DEFINE bad == { k \in 0 .. n : k \notin T }
<1> SUFFICES ASSUME bad # {} PROVE FALSE
  OBVIOUS
<1>1. PICK k \in bad : \A j \in bad : ~ (<<j, k>> \in OpToRel(<, Nat))
  <2>1. bad \subseteq Nat
    OBVIOUS
  <2> HIDE DEF bad
  <2> QED
    BY <2>1, NatLessThanWellFounded, WFMin
<1>2. k # 0 /\ k \in 1 .. n
  OBVIOUS
<1>3. k - 1 \notin bad
  <2>1. SUFFICES ASSUME k - 1 \in bad PROVE FALSE
    OBVIOUS
  <2>2. <<k - 1, k>> \in OpToRel(<, Nat)
    BY <1>2, <2>1 DEF OpToRel
  <2> QED
    BY <1>1, <2>1, <2>2
<1> QED
  BY <1>2, <1>3

\* Sequences one after the other, given what the first ones are together.
LEMMA Flattened ==
  ASSUME NEW n \in Nat \ {0}, NEW seqs, NEW h, Len(seqs) = n,
         h[1] = seqs[1], \A k \in 2 .. n : h[k] = h[k - 1] \o seqs[k]
  PROVE  FlattenSeq(seqs) = h[n]
<1> DEFINE Flattens(f) == f = [i \in 1 .. n |-> IF i = 1 THEN seqs[i] ELSE f[i - 1] \o seqs[i]]
           flat == CHOOSE f : Flattens(f)
           g == [k \in 1 .. n |-> h[k]]
<1>1. Flattens(g)
  <2>1. ASSUME NEW i \in 1 .. n
        PROVE  g[i] = IF i = 1 THEN seqs[i] ELSE g[i - 1] \o seqs[i]
    <3>1. CASE i = 1
      BY <3>1
    <3>2. CASE i # 1
      <4>1. i \in 2 .. n /\ i - 1 \in 1 .. n
        BY <3>2
      <4> QED
        BY <3>2, <4>1
    <3> QED
      BY <3>1, <3>2
  <2> QED
    BY <2>1
<1>2. Flattens(flat)
  <2> HIDE DEF Flattens, g
  <2> QED
    BY <1>1, Zenon
<1>3. FlattenSeq(seqs) = flat[n]
  BY Zenon DEF FlattenSeq
<1> HIDE DEF flat
<1>4. \A k \in 1 .. n : flat[k] = IF k = 1 THEN seqs[k] ELSE flat[k - 1] \o seqs[k]
  BY <1>2
<1> DEFINE T == { k \in 0 .. n : k # 0 => flat[k] = h[k] }
<1>5. 0 \in T
  OBVIOUS
<1>6. ASSUME NEW k \in 1 .. n, k - 1 \in T PROVE k \in T
  <2>1. CASE k = 1
    BY <1>4, <2>1
  <2>2. CASE k # 1
    <3>1. k \in 2 .. n /\ flat[k - 1] = h[k - 1]
      BY <1>6, <2>2
    <3>2. flat[k] = flat[k - 1] \o seqs[k]
      BY <1>4, <2>2
    <3>3. flat[k] = h[k]
      BY <3>1, <3>2
    <3> QED
      BY <3>3
  <2> QED
    BY <2>1, <2>2
<1> HIDE DEF T
<1>7. \A k \in 0 .. n : k \in T
  BY <1>5, <1>6, Counting
<1>8. n \in T /\ n # 0
  BY <1>7
<1> QED
  BY <1>3, <1>8 DEF T

\* As many chunks as there may be, or as there are rules; and no rule is lost,
\* repeated or moved between them.
THEOREM SplitJoins ==
  ASSUME NEW S, NEW rules \in Seq(S), rules # <<>>
  PROVE  LET parts == SplitRulesEvenly(rules, NumChunks)
         IN  /\ Len(parts) \in 1 .. NumChunks /\ DOMAIN parts = 1 .. Len(parts)
             /\ \A k \in DOMAIN parts : parts[k] \in Seq(S)
             /\ FlattenSeq(parts) = rules
             /\ parts = [k \in 1 .. Len(parts) |-> parts[k]]
<1> DEFINE n == Len(rules)
           Least(a, b) == IF a < b THEN a ELSE b
           actual == Least(NumChunks, n)
           base == n \div actual
           extra == n % actual
           Before(k) == (k - 1) * base + Least(k - 1, extra)
           parts == SplitRulesEvenly(rules, NumChunks)
<1>1. n \in Nat /\ n # 0 /\ DOMAIN rules = 1 .. n
  OBVIOUS
<1>2. actual \in 1 .. NumChunks
  BY <1>1, ChunksAssumption
<1>3. parts = [k \in 1 .. actual |-> SubSeq(rules, Before(k) + 1, Before(k + 1))]
  BY Zenon DEF SplitRulesEvenly
<1>4. base \in Nat /\ extra \in 0 .. actual - 1 /\ n = actual * base + extra
  <2> HIDE DEF n, actual
  <2> QED
    BY <1>1, <1>2
<1> HIDE DEF n, actual, base, extra
<1>5. Before(1) = 0 /\ Before(actual + 1) = n
  BY <1>2, <1>4
<1>6. ASSUME NEW k \in 1 .. actual + 1 PROVE Before(k) \in 0 .. n
  <2>1. actual \in Nat /\ k - 1 \in Nat /\ actual - (k - 1) \in Nat
    BY <1>2
  <2>2. (k - 1) * base \in Nat /\ (actual - (k - 1)) * base \in Nat
    BY <1>4, <2>1
  <2>3. actual * base = (k - 1) * base + (actual - (k - 1)) * base
    BY <1>4, <2>1
  <2> QED
    BY <1>4, <2>1, <2>2, <2>3
<1>7. ASSUME NEW k \in 1 .. actual PROVE Before(k) <= Before(k + 1)
  <2>1. k * base = (k - 1) * base + base /\ (k - 1) * base \in Nat
    BY <1>2, <1>4
  <2> QED
    BY <1>2, <1>4, <2>1
<1> HIDE DEF Before, parts
<1>8. /\ Len(parts) = actual /\ DOMAIN parts = 1 .. actual
      /\ \A k \in 1 .. actual : parts[k] = SubSeq(rules, Before(k) + 1, Before(k + 1))
  <2>1. actual \in Nat /\ DOMAIN parts = 1 .. actual
    BY <1>2, <1>3
  <2>2. Len(parts) = actual
    BY <1>3, <2>1
  <2>3. \A k \in 1 .. actual : parts[k] = SubSeq(rules, Before(k) + 1, Before(k + 1))
    BY <1>3
  <2> QED
    BY <2>1, <2>2, <2>3
<1>9. ASSUME NEW k \in 1 .. actual PROVE parts[k] \in Seq(S)
  <2>1. Before(k) \in 0 .. n /\ Before(k + 1) \in 0 .. n
    BY <1>2, <1>6
  <2>2. \A i \in Before(k) + 1 .. Before(k + 1) : rules[i] \in S
    BY <1>1, <2>1
  <2>3. SubSeq(rules, Before(k) + 1, Before(k + 1)) \in Seq(S)
    BY <2>1, <2>2, SubSeqProperties
  <2> QED
    BY <1>8, <2>3
<1> DEFINE h == [k \in 1 .. actual |-> SubSeq(rules, 1, Before(k + 1))]
<1>10. h[1] = parts[1]
  <2>1. 1 \in 1 .. actual /\ Before(1) + 1 = 1
    BY <1>2, <1>5
  <2> QED
    BY <1>8, <2>1
<1>11. ASSUME NEW k \in 2 .. actual PROVE h[k] = h[k - 1] \o parts[k]
  <2>1. /\ k \in 1 .. actual /\ k - 1 \in 1 .. actual /\ (k - 1) + 1 = k
        /\ Before(k) \in 0 .. n /\ Before(k + 1) \in 0 .. n /\ Before(k) <= Before(k + 1)
    BY <1>2, <1>6, <1>7
  <2>2. SubSeq(rules, 1, Before(k)) \o SubSeq(rules, Before(k) + 1, Before(k + 1))
          = SubSeq(rules, 1, Before(k + 1))
    <3>1. /\ 1 \in 1 .. Len(rules) + 1 /\ Before(k) \in 1 - 1 .. Len(rules)
          /\ Before(k + 1) \in Before(k) .. Len(rules)
      BY <1>1, <2>1 DEF n
    <3> QED
      BY <3>1, ConcatAdjacentSubSeq
  <2> QED
    BY <1>8, <2>1, <2>2
<1>12. FlattenSeq(parts) = h[actual]
  <2> HIDE DEF h
  <2>1. actual \in Nat \ {0} /\ Len(parts) = actual
    BY <1>2, <1>8
  <2>2. \A k \in 2 .. actual : h[k] = h[k - 1] \o parts[k]
    BY <1>11
  <2>3. ASSUME NEW f, NEW g, Len(f) = actual, g[1] = f[1],
               \A k \in 2 .. actual : g[k] = g[k - 1] \o f[k]
        PROVE  FlattenSeq(f) = g[actual]
    BY <2>1, <2>3, Flattened
  <2> QED
    BY <1>10, <2>1, <2>2, <2>3
<1>13. h[actual] = rules
  <2>1. actual \in 1 .. actual /\ Before(actual + 1) = Len(rules)
    BY <1>2, <1>5 DEF n
  <2> QED
    BY <2>1, SubSeqFull
<1>14. parts = [k \in 1 .. Len(parts) |-> parts[k]]
  BY <1>3, <1>8
<1> HIDE DEF h
<1> QED
  BY <1>2, <1>8, <1>9, <1>12, <1>13, <1>14 DEF parts

-----------------------------------------------------------------------------
(* The files a conversion leaves. *)

Files ==
  /\ source \subseteq Identities
  /\ {xml, report, remote} \subseteq Contents
  /\ chunks \in [1..NumChunks -> Contents] /\ listing \in 0..NumChunks
  /\ saved \in Manifest /\ entries \in BOOLEAN
  /\ smoke = NoFile \/ smoke \in SmokeReports
  /\ held \in [Processes -> Manifest] /\ out \in [Processes -> Seq(Rule)]
  /\ written \in [Processes -> 0..NumChunks]
  /\ edits \in Nat /\ faults \in Nat

Parts(p) == SplitRulesEvenly(out[p], NumChunks)

(* Is the process at one of these steps, or is its conversion over?          *)
Since(p, steps) == step[p] \in steps \/ ConversionOver(p)

(* What a process holds goes together.                                       *)
Memory(p) ==
  /\ Idle(p) => command[p] = "none"
  /\ step[p] \in {"idle", "load", "convert", "xml"} => written[p] = 0
  /\ Since(p, {"xml", "chunks", "listing", "manifest", "report"}) =>
       out[p] # <<>> /\ Agrees(held[p], out[p])
  /\ step[p] = "chunks" => written[p] < Len(Parts(p))
  /\ Since(p, {"listing", "manifest", "report"}) => written[p] = Len(Parts(p))

(* While nothing else runs, what it has written is still there.              *)
Kept(p) ==
  solo[p] =>
    /\ Since(p, {"chunks", "listing", "manifest", "report"}) =>
         xml = out[p] /\ \A k \in 1 .. written[p] : chunks[k] = Parts(p)[k]
    /\ Since(p, {"manifest", "report"}) => listing = written[p]
    /\ Since(p, {"report"}) => saved = held[p]
    /\ ConversionOver(p) => report = out[p]

FilesInv == Files /\ \A p \in Processes : Memory(p) /\ Kept(p)

(* What a step leaves of the other processes.                                *)
OthersKeep(p) ==
  \A q \in Processes \ {p} :
    /\ step'[q] = step[q] /\ failed'[q] = failed[q]
    /\ held'[q] = held[q] /\ out'[q] = out[q] /\ written'[q] = written[q]

\* A step of one process keeps the invariant if it does so for that process:
\* the others are idle, or are not alone.
LEMMA OneProcessFiles ==
  ASSUME IInv, FilesInv, NEW p \in Processes, ~Idle(p), UNCHANGED <<command, solo>>,
         OthersKeep(p), Files', Memory(p)', Kept(p)'
  PROVE  FilesInv'
<1>1. ASSUME NEW q \in Processes \ {p} PROVE Memory(q)' /\ Kept(q)'
  <2>1. /\ step'[q] = step[q] /\ failed'[q] = failed[q] /\ command'[q] = command[q]
        /\ solo'[q] = solo[q] /\ written'[q] = written[q]
        /\ held'[q] = held[q] /\ out'[q] = out[q]
    BY <1>1 DEF OthersKeep
  <2>2. Parts(q)' = Parts(q)
    BY <2>1 DEF Parts
  <2>3. Memory(q)
    BY <1>1 DEF FilesInv
  <2>4. Memory(q)'
    BY <2>1, <2>2, <2>3 DEF Memory, Since, ConversionOver, Idle
  <2>5. CASE Idle(q)
    <3>1. command[q] = "none" /\ step[q] = "idle"
      BY <2>3, <2>5 DEF Memory, Idle
    <3>2. ~ConversionOver(q)'
      BY <2>1, <3>1 DEF ConversionOver, Smokes
    <3>3. Kept(q)'
      BY <2>1, <3>1, <3>2 DEF Kept, Since
    <3> QED
      BY <2>4, <3>3
  <2>6. CASE ~Idle(q)
    <3>1. ~solo[q]
      BY <1>1, <2>6 DEF IInv, Alone
    <3> QED
      BY <2>1, <2>4, <3>1 DEF Kept
  <2> QED
    BY <2>5, <2>6
<1> QED
  BY <1>1 DEF FilesInv

\* A process that failed has nothing left to keep.
LEMMA FailedFiles ==
  ASSUME IInv, FilesInv, NEW p \in Processes, ~Idle(p), UNCHANGED <<command, solo>>,
         OthersKeep(p), Files', step'[p] \in {"smoke", "exit"}, failed'[p] # NoStage
  PROVE  FilesInv'
<1>1. ~ConversionOver(p)'
  BY DEF ConversionOver
<1>2. Memory(p)' /\ Kept(p)'
  BY <1>1 DEF Memory, Kept, Since, Idle
<1> QED
  BY <1>2, OneProcessFiles

\* A step after the conversion changes none of it.
LEMMA LaterFiles ==
  ASSUME IInv, FilesInv, NEW p \in Processes,
         step[p] \in {"validator", "docker", "smoke", "artifact", "upload"},
         UNCHANGED <<command, solo, memory, xml, chunks, listing, saved, report>>,
         OthersKeep(p), Files', failed'[p] = NoStage => failed[p] = NoStage,
         step'[p] \in {"docker", "smoke", "artifact", "upload", "exit"}
  PROVE  FilesInv'
<1>1. ~Idle(p) /\ Memory(p) /\ Kept(p)
  BY DEF Idle, FilesInv
<1>2. ConversionOver(p)' => ConversionOver(p)
  BY DEF ConversionOver, Conversion
<1>3. Parts(p)' = Parts(p)
  BY DEF Parts, memory
<1>4. Memory(p)'
  BY <1>1, <1>2, <1>3 DEF Memory, Since, Idle, memory
<1>5. Kept(p)'
  BY <1>1, <1>2, <1>3 DEF Kept, Since, memory
<1> QED
  BY <1>1, <1>4, <1>5, OneProcessFiles

\* Where a step of the conversion leads.
LEMMA ConversionEnds ==
  ASSUME IInv, NEW p \in Processes, step[p] \in Conversion,
         UNCHANGED <<command, strict, solo, runs>>, DOMAIN out' = Processes,
         Done(p) \/ Fail(p, "conversion") \/ Escape(p, "conversion")
  PROVE  /\ ~Idle(p) /\ command[p] \in Smokes \cup {"convert"}
         /\ \A q \in Processes \ {p} : step'[q] = step[q] /\ failed'[q] = failed[q]
         /\ Done(p) => step'[p] = After(command[p], step[p]) /\ failed'[p] = NoStage
         /\ ~Done(p) => step'[p] \in {"smoke", "exit"} /\ failed'[p] # NoStage
<1>1. Shape(p) /\ "conversion" \in Stages /\ step[p] \in Steps \ {"smoke"}
  BY DEF IInv, Stages, Steps, Conversion
<1>2. "conversion" # NoStage
  BY <1>1, NoStageAssumption
<1> QED
  BY <1>1, <1>2, Ends DEF Shape

\* The conversion has its files, or what they should hold.
LEMMA PartsOf ==
  ASSUME FilesInv, NEW p \in Processes, out[p] # <<>>
  PROVE  /\ Len(Parts(p)) \in 1 .. NumChunks /\ DOMAIN Parts(p) = 1 .. Len(Parts(p))
         /\ \A k \in DOMAIN Parts(p) : Parts(p)[k] \in Contents
         /\ FlattenSeq(Parts(p)) = out[p]
         /\ Parts(p) = [k \in 1 .. Len(Parts(p)) |-> Parts(p)[k]]
<1>1. out[p] \in Seq(Rule)
  BY DEF FilesInv, Files
<1> QED
  BY <1>1, SplitJoins DEF Parts, Contents

-----------------------------------------------------------------------------
(* The steps of the conversion. *)

LEMMA LoadFiles == ASSUME IInv, FilesInv, NEW p \in Processes, Load(p) PROVE FilesInv'
<1>1. /\ step[p] = "load" /\ step[p] \in Conversion
      /\ UNCHANGED <<Others, disk, out, written, faults>>
      /\ Typed /\ Files /\ Memory(p)
  BY DEF Load, At, Conversion, IInv, FilesInv
<1>2. CASE Refuses
  <2>1. Escape(p, "conversion") /\ UNCHANGED held
    BY <1>2 DEF Load
  <2>2. Files'
    BY <1>1, <2>1 DEF Files, Others, disk
  <2>3. /\ ~Idle(p) /\ step'[p] = "exit" /\ failed'[p] = "conversion"
        /\ \A q \in Processes \ {p} : step'[q] = step[q] /\ failed'[q] = failed[q]
    <3>1. /\ ~Idle(p)
          /\ \A q \in Processes \ {p} : step'[q] = step[q] /\ failed'[q] = failed[q]
      BY <1>1, <2>1, ConversionEnds DEF Others, Typed
    <3> QED
      BY <1>1, <2>1, <3>1 DEF Escape, Typed
  <2>4. OthersKeep(p) /\ failed'[p] # NoStage
    BY <1>1, <2>1, <2>3, NoStageAssumption DEF OthersKeep, Stages
  <2> QED
    BY <1>1, <2>2, <2>3, <2>4, FailedFiles DEF Others
<1>3. CASE ~Refuses
  <2>1. Done(p) /\ held' = [held EXCEPT ![p] = saved]
    BY <1>3 DEF Load
  <2>2. Files'
    BY <1>1, <2>1 DEF Files, Others, disk
  <2>3. /\ ~Idle(p) /\ step'[p] = "convert"
        /\ \A q \in Processes \ {p} : step'[q] = step[q] /\ failed'[q] = failed[q]
    BY <1>1, <2>1, ConversionEnds DEF Others, Typed, After
  <2>4. OthersKeep(p)
    BY <1>1, <2>1, <2>3 DEF OthersKeep, Files
  <2>5. Memory(p)' /\ Kept(p)'
    BY <1>1, <2>3 DEF Memory, Kept, Since, ConversionOver, Idle, Conversion
  <2> QED
    BY <1>1, <2>2, <2>3, <2>4, <2>5, OneProcessFiles DEF Others
<1> QED
  BY <1>2, <1>3

LEMMA ConvertFiles == ASSUME IInv, FilesInv, NEW p \in Processes, Convert(p) PROVE FilesInv'
<1>1. /\ step[p] = "convert" /\ step[p] \in Conversion
      /\ UNCHANGED <<source, command, strict, solo, runs, edits, disk, written, faults>>
      /\ entries' = (entries \/ StoresEntries(held[p], source))
      /\ Typed /\ Files /\ Memory(p) /\ written[p] = 0
      /\ source \subseteq Identities /\ held[p] \in Manifest
  BY DEF Convert, At, Conversion, IInv, FilesInv, Files, Memory
<1>0. entries' \in BOOLEAN
  BY <1>1 DEF StoresEntries
<1>2. CASE ManifestRaises(held[p], source)
  <2>1. Escape(p, "conversion") /\ UNCHANGED <<held, out>>
    BY <1>2 DEF Convert
  <2>2. Files'
    BY <1>0, <1>1, <2>1 DEF Files, Others, disk
  <2>3. /\ ~Idle(p) /\ step'[p] = "exit" /\ failed'[p] = "conversion"
        /\ \A q \in Processes \ {p} : step'[q] = step[q] /\ failed'[q] = failed[q]
    <3>1. /\ ~Idle(p)
          /\ \A q \in Processes \ {p} : step'[q] = step[q] /\ failed'[q] = failed[q]
      BY <1>1, <2>1, ConversionEnds DEF Others, Typed
    <3> QED
      BY <1>1, <2>1, <3>1 DEF Escape, Typed
  <2>4. OthersKeep(p) /\ failed'[p] # NoStage
    BY <1>1, <2>1, <2>3, NoStageAssumption DEF OthersKeep, Stages
  <2> QED
    BY <1>1, <2>2, <2>3, <2>4, FailedFiles DEF Others
<1>3. CASE ~ManifestRaises(held[p], source)
  <2> DEFINE manifest == Enrol(held[p], source)
             kept == RetireUnseen(manifest, source)
             rules == Converted(manifest, source)
  <2>1. kept \in Manifest /\ rules \in Seq(Rule) /\ Agrees(kept, rules)
    BY <1>1, <1>3, ConversionAgrees
  <2>2. /\ held' = [held EXCEPT ![p] = kept] /\ out' = [out EXCEPT ![p] = rules]
        /\ IF out'[p] = <<>> THEN Fail(p, "conversion") ELSE Done(p)
    BY <1>3 DEF Convert
  <2> HIDE DEF kept, rules
  <2>3. held'[p] = kept /\ out'[p] = rules /\ DOMAIN out' = Processes
    BY <1>1, <2>2 DEF Files
  <2>4. Files'
    BY <1>0, <1>1, <2>1, <2>2 DEF Files, disk
  <2>5. /\ ~Idle(p)
        /\ \A q \in Processes \ {p} : step'[q] = step[q] /\ failed'[q] = failed[q]
        /\ Done(p) => step'[p] = "xml"
        /\ ~Done(p) => step'[p] \in {"smoke", "exit"} /\ failed'[p] # NoStage
    BY <1>1, <2>2, <2>3, ConversionEnds DEF Others, After
  <2>6. OthersKeep(p)
    BY <1>1, <2>2, <2>5 DEF OthersKeep, Files
  <2>7. CASE ~Done(p)
    BY <1>1, <2>4, <2>5, <2>6, <2>7, FailedFiles DEF Others
  <2>8. CASE Done(p)
    <3>1. out'[p] # <<>>
      <4>1. SUFFICES ASSUME out'[p] = <<>> PROVE FALSE
        OBVIOUS
      <4>2. Fail(p, "conversion")
        BY <2>2, <4>1
      <4>3. step'[p] \in {"smoke", "exit"}
        BY <1>1, <4>2 DEF Fail, Typed
      <4> QED
        BY <2>5, <2>8, <4>3
    <3>2. step'[p] = "xml" /\ written'[p] = 0 /\ Agrees(held'[p], out'[p])
      BY <1>1, <2>1, <2>3, <2>5, <2>8
    <3>3. Memory(p)' /\ Kept(p)'
      BY <3>1, <3>2 DEF Memory, Kept, Since, ConversionOver, Idle, Conversion
    <3> QED
      BY <1>1, <2>4, <2>5, <2>6, <3>3, OneProcessFiles DEF Others
  <2> QED
    BY <2>7, <2>8
<1> QED
  BY <1>2, <1>3

LEMMA WriteXmlFiles == ASSUME IInv, FilesInv, NEW p \in Processes, WriteXml(p) PROVE FilesInv'
<1>1. /\ step[p] = "xml" /\ step[p] \in Conversion
      /\ UNCHANGED <<Others, chunks, listing, saved, report, smoke, remote, memory>>
      /\ (xml' = out[p] /\ Done(p) /\ UNCHANGED faults)
           \/ (WriteFails /\ Fail(p, "conversion") /\ UNCHANGED xml)
      /\ Typed /\ Files /\ Memory(p)
  BY DEF WriteXml, At, Conversion, IInv, FilesInv
<1>2. Files'
  <2>1. out[p] \in Contents
    BY <1>1 DEF Files, Contents
  <2> QED
    BY <1>1, <2>1 DEF Files, Others, memory, WriteFails
<1>3. /\ ~Idle(p)
      /\ \A q \in Processes \ {p} : step'[q] = step[q] /\ failed'[q] = failed[q]
      /\ Done(p) => step'[p] = "chunks"
      /\ ~Done(p) => step'[p] \in {"smoke", "exit"} /\ failed'[p] # NoStage
  BY <1>1, ConversionEnds DEF Others, memory, Typed, After
<1>4. OthersKeep(p)
  BY <1>1, <1>3 DEF OthersKeep, memory
<1>5. CASE ~Done(p)
  BY <1>1, <1>2, <1>3, <1>4, <1>5, FailedFiles DEF Others
<1>6. CASE Done(p)
  <2>1. out[p] # <<>> /\ Agrees(held[p], out[p]) /\ written[p] = 0
    BY <1>1 DEF Memory, Since
  <2>2. Len(Parts(p)) \in 1 .. NumChunks /\ Parts(p)' = Parts(p)
    BY <1>1, <2>1, PartsOf DEF Parts, memory
  <2>3. xml' = out[p] /\ step'[p] = "chunks"
    <3>1. CASE xml' = out[p]
      BY <1>3, <1>6, <3>1
    <3>2. CASE Fail(p, "conversion")
      <4>1. step'[p] \in {"smoke", "exit"}
        BY <1>1, <3>2 DEF Fail, Typed
      <4> QED
        BY <1>3, <1>6, <4>1
    <3> QED
      BY <1>1, <3>1, <3>2
  <2>4. Memory(p)'
    BY <1>1, <2>1, <2>2, <2>3 DEF Memory, Since, ConversionOver, Idle, Conversion, memory
  <2>5. Kept(p)'
    BY <1>1, <2>1, <2>3 DEF Kept, Since, ConversionOver, Conversion, memory
  <2> QED
    BY <1>1, <1>2, <1>3, <1>4, <2>4, <2>5, OneProcessFiles DEF Others
<1> QED
  BY <1>5, <1>6

LEMMA WriteChunkFiles ==
  ASSUME IInv, FilesInv, NEW p \in Processes, WriteChunk(p) PROVE FilesInv'
<1> DEFINE k == written[p] + 1
<1>1. /\ step[p] = "chunks" /\ step[p] \in Conversion
      /\ UNCHANGED <<Others, xml, listing, saved, report, smoke, remote, held, out>>
      /\ Typed /\ Files /\ Memory(p) /\ Kept(p)
      /\ \/ /\ chunks' = [chunks EXCEPT ![k] = Parts(p)[k]]
            /\ written' = [written EXCEPT ![p] = k]
            /\ IF k = Len(Parts(p)) THEN Done(p) ELSE UNCHANGED <<step, failed>>
            /\ UNCHANGED faults
         \/ WriteFails /\ Fail(p, "conversion") /\ UNCHANGED <<chunks, written>>
  BY DEF WriteChunk, Parts, At, Conversion, IInv, FilesInv
<1>2. out[p] # <<>> /\ Agrees(held[p], out[p]) /\ written[p] < Len(Parts(p))
  BY <1>1 DEF Memory, Since
<1>3. /\ Len(Parts(p)) \in 1 .. NumChunks /\ DOMAIN Parts(p) = 1 .. Len(Parts(p))
      /\ \A j \in DOMAIN Parts(p) : Parts(p)[j] \in Contents
      /\ Parts(p)' = Parts(p)
  BY <1>1, <1>2, PartsOf DEF Parts
<1>4. /\ k \in 1 .. Len(Parts(p)) /\ k \in 1 .. NumChunks /\ written[p] \in 0 .. NumChunks
      /\ written[p] \in Nat /\ NumChunks \in Nat /\ Len(Parts(p)) \in Nat
  <2>1. written[p] \in 0 .. NumChunks /\ NumChunks \in Nat
    BY <1>1, ChunksAssumption DEF Files
  <2>2. written[p] \in Nat /\ Len(Parts(p)) \in Nat /\ Len(Parts(p)) <= NumChunks
    BY <1>3, <2>1
  <2> QED
    BY <1>2, <2>1, <2>2
<1>5. CASE WriteFails /\ Fail(p, "conversion") /\ UNCHANGED <<chunks, written>>
  <2>1. Files'
    BY <1>1, <1>5 DEF Files, Others, WriteFails
  <2>2. /\ ~Idle(p) /\ step'[p] \in {"smoke", "exit"} /\ failed'[p] # NoStage
        /\ \A q \in Processes \ {p} : step'[q] = step[q] /\ failed'[q] = failed[q]
    <3>1. ~Idle(p) /\ \A q \in Processes \ {p} : step'[q] = step[q] /\ failed'[q] = failed[q]
      BY <1>1, <1>5, ConversionEnds DEF Others, Typed
    <3> QED
      BY <1>1, <1>5, <3>1, NoStageAssumption DEF Fail, Typed, Stages
  <2>3. OthersKeep(p)
    BY <1>1, <1>5, <2>2 DEF OthersKeep
  <2> QED
    BY <1>1, <2>1, <2>2, <2>3, FailedFiles DEF Others
<1>6. CASE /\ chunks' = [chunks EXCEPT ![k] = Parts(p)[k]]
           /\ written' = [written EXCEPT ![p] = k]
           /\ IF k = Len(Parts(p)) THEN Done(p) ELSE UNCHANGED <<step, failed>>
           /\ UNCHANGED faults
  <2>1. written'[p] = k /\ \A q \in Processes \ {p} : written'[q] = written[q]
    BY <1>1, <1>6 DEF Files
  <2>2. Files'
    <3>1. Parts(p)[k] \in Contents
      BY <1>3, <1>4
    <3>2. chunks' \in [1 .. NumChunks -> Contents]
      BY <1>1, <1>4, <1>6, <3>1 DEF Files
    <3>3. written' \in [Processes -> 0 .. NumChunks]
      BY <1>1, <1>4, <1>6 DEF Files
    <3> QED
      BY <1>1, <1>6, <3>2, <3>3 DEF Files, Others
  <2>3. /\ ~Idle(p)
        /\ \A q \in Processes \ {p} : step'[q] = step[q] /\ failed'[q] = failed[q]
        /\ step'[p] = IF k = Len(Parts(p)) THEN "listing" ELSE "chunks"
    <3>1. CASE k = Len(Parts(p))
      <4>1. Done(p)
        BY <1>6, <3>1
      <4> QED
        BY <1>1, <3>1, <4>1, ConversionEnds DEF Others, Typed, After
    <3>2. CASE k # Len(Parts(p))
      BY <1>1, <1>6, <3>2 DEF Idle, Conversion
    <3> QED
      BY <3>1, <3>2
  <2>4. OthersKeep(p)
    BY <1>1, <2>1, <2>3 DEF OthersKeep
  <2>5. \A j \in 1 .. k : solo[p] => chunks'[j] = Parts(p)[j]
    <3>1. \A j \in 1 .. written[p] : solo[p] => chunks[j] = Parts(p)[j]
      BY <1>1 DEF Kept, Since
    <3>2. chunks'[k] = Parts(p)[k] /\ \A j \in 1 .. NumChunks \ {k} : chunks'[j] = chunks[j]
      BY <1>1, <1>4, <1>6 DEF Files
    <3>3. \A j \in 1 .. k : j = k \/ (j \in 1 .. written[p] /\ j \in 1 .. NumChunks \ {k})
      BY <1>4
    <3> QED
      BY <3>1, <3>2, <3>3
  <2> HIDE DEF k
  <2>6. /\ Since(p, {"listing", "manifest", "report"})' => k = Len(Parts(p))
        /\ step'[p] = "chunks" => k # Len(Parts(p))
        /\ step'[p] \in {"chunks", "listing"} /\ ~ConversionOver(p)'
    BY <2>3 DEF Since, ConversionOver, Conversion
  <2>7. Memory(p)'
    <3>1. k # Len(Parts(p)) => k < Len(Parts(p))
      BY <1>4
    <3> QED
      BY <1>1, <1>2, <1>3, <2>1, <2>6, <3>1 DEF Memory, Since, Idle
  <2>8. Kept(p)'
    <3>1. solo[p] => xml = out[p]
      BY <1>1 DEF Kept, Since
    <3> QED
      BY <1>1, <1>3, <2>1, <2>5, <2>6, <3>1 DEF Kept, Since, Others
  <2> QED
    BY <1>1, <2>2, <2>3, <2>4, <2>7, <2>8, OneProcessFiles DEF Others
<1> QED
  BY <1>1, <1>5, <1>6

\* The three writes that follow each leave one file as it should be.
LEMMA WriteFiles ==
  ASSUME IInv, FilesInv, NEW p \in Processes,
         UNCHANGED <<Others, xml, chunks, smoke, remote, memory>>,
         \/ /\ step[p] = "listing" /\ listing' = written[p]
            /\ UNCHANGED <<saved, report>> /\ Done(p)
         \/ /\ step[p] = "manifest" /\ saved' = held[p]
            /\ UNCHANGED <<listing, report>> /\ Done(p)
         \/ /\ step[p] = "report" /\ report' = out[p]
            /\ UNCHANGED <<listing, saved>> /\ Done(p)
         \/ /\ step[p] \in {"listing", "manifest", "report"}
            /\ UNCHANGED <<listing, saved, report>>
            /\ Fail(p, "conversion") \/ Escape(p, "conversion"),
         WriteFails \/ UNCHANGED faults
  PROVE  FilesInv'
<1>1. /\ step[p] \in {"listing", "manifest", "report"} /\ step[p] \in Conversion
      /\ Typed /\ Files /\ Memory(p) /\ Kept(p)
      /\ Done(p) \/ Fail(p, "conversion") \/ Escape(p, "conversion")
  BY DEF Conversion, IInv, FilesInv
<1>2. Files'
  <2>1. out[p] \in Contents /\ held[p] \in Manifest /\ written[p] \in 0 .. NumChunks
    BY <1>1 DEF Files, Contents
  <2>2. {xml, report, remote}' \subseteq Contents
    BY <1>1, <2>1 DEF Files
  <2>3. listing' \in 0 .. NumChunks /\ saved' \in Manifest
    BY <1>1, <2>1 DEF Files
  <2>4. faults' \in Nat
    BY <1>1 DEF Files, WriteFails
  <2> QED
    BY <1>1, <2>2, <2>3, <2>4 DEF Files, Others, memory
<1>3. /\ ~Idle(p) /\ command[p] \in Smokes \cup {"convert"}
      /\ \A q \in Processes \ {p} : step'[q] = step[q] /\ failed'[q] = failed[q]
      /\ Done(p) => step'[p] = After(command[p], step[p])
      /\ ~Done(p) => step'[p] \in {"smoke", "exit"} /\ failed'[p] # NoStage
  BY <1>1, ConversionEnds DEF Others, memory, Typed
<1>4. OthersKeep(p)
  BY <1>3 DEF OthersKeep, memory
<1>5. CASE ~Done(p)
  BY <1>2, <1>3, <1>4, <1>5, FailedFiles DEF Others
<1>6. CASE Done(p)
  <2>1. ~(Fail(p, "conversion") \/ Escape(p, "conversion"))
    <3>1. step'[p] \notin {"smoke", "exit"} \/ failed'[p] = NoStage
      BY <1>1, <1>6, ConversionEnds DEF Others, memory, Typed
    <3>2. Fail(p, "conversion") \/ Escape(p, "conversion") => failed'[p] = "conversion"
      BY <1>1 DEF Fail, Escape, Typed
    <3>3. failed'[p] = NoStage
      BY <1>1, <1>6, ConversionEnds DEF Others, memory, Typed
    <3> QED
      BY <3>2, <3>3, NoStageAssumption DEF Stages
  <2>2. Parts(p)' = Parts(p)
    BY DEF Parts, memory
  <2>3. out[p] # <<>> /\ Agrees(held[p], out[p]) /\ written[p] = Len(Parts(p))
    BY <1>1 DEF Memory, Since
  <2>4. step'[p] \in {"manifest", "report", "validator", "exit"}
    BY <1>1, <1>3, <1>6 DEF After
  <2>5. Memory(p)'
    BY <2>2, <2>3, <2>4 DEF Memory, Idle, memory
  <2>6. ASSUME solo[p]
        PROVE  /\ xml = out[p] /\ \A k \in 1 .. written[p] : chunks[k] = Parts(p)[k]
               /\ step[p] \in {"manifest", "report"} => listing = written[p]
               /\ step[p] = "report" => saved = held[p]
    BY <1>1, <2>6 DEF Kept, Since
  <2>7. Kept(p)'
    <3>1. CASE step[p] = "listing"
      <4>1. step'[p] = "manifest" /\ ~ConversionOver(p)' /\ listing' = written[p]
        BY <1>3, <1>6, <2>1, <3>1 DEF After, ConversionOver, Conversion
      <4> QED
        BY <2>2, <2>6, <4>1 DEF Kept, Since, Others, memory
    <3>2. CASE step[p] = "manifest"
      <4>1. /\ step'[p] = "report" /\ ~ConversionOver(p)' /\ saved' = held[p]
            /\ listing' = listing
        BY <1>3, <1>6, <2>1, <3>2 DEF After, ConversionOver, Conversion
      <4> QED
        BY <2>2, <2>6, <3>2, <4>1 DEF Kept, Since, Others, memory
    <3>3. CASE step[p] = "report"
      <4>1. report' = out[p] /\ listing' = listing /\ saved' = saved
        BY <2>1, <3>3
      <4> QED
        BY <2>2, <2>6, <3>3, <4>1 DEF Kept, Since, Others, memory
    <3> QED
      BY <1>1, <3>1, <3>2, <3>3
  <2> QED
    BY <1>2, <1>3, <1>4, <2>5, <2>7, OneProcessFiles DEF Others
<1> QED
  BY <1>5, <1>6

-----------------------------------------------------------------------------
(* The stages after it, the commands and the environment. *)

LEMMA CheckFiles ==
  ASSUME IInv, FilesInv, NEW p \in Processes,
         ValidateOutput(p) \/ DockerSmoke(p) \/ ValidateArtifact(p) \/ Upload(p)
  PROVE  FilesInv'
<1>1. /\ step[p] \in {"validator", "docker", "artifact", "upload"}
      /\ UNCHANGED <<Others, xml, chunks, listing, saved, report, smoke, memory, faults>>
      /\ remote' = xml \/ UNCHANGED remote
      /\ Done(p) \/ \E stage \in Stages : Fail(p, stage)
      /\ Typed /\ Shape(p) /\ Files
  BY DEF ValidateOutput, DockerSmoke, ValidateArtifact, Upload, At, disk, Stages, IInv, FilesInv
<1>2. Files'
  BY <1>1 DEF Files, Others, memory
<1>3. /\ \A q \in Processes \ {p} : step'[q] = step[q] /\ failed'[q] = failed[q]
      /\ Done(p) => step'[p] = After(command[p], step[p])
      /\ \A stage \in Stages : Fail(p, stage) => step'[p] \in {"smoke", "exit"}
      /\ failed[p] = NoStage
  <2>1. step[p] \in Steps \ {"smoke"} /\ DOMAIN out' = Processes
    BY <1>1 DEF Steps, Typed, memory
  <2>2. UNCHANGED <<command, strict, solo, runs>>
    BY <1>1 DEF Others
  <2>3. /\ \A q \in Processes \ {p} : step'[q] = step[q] /\ failed'[q] = failed[q]
        /\ Done(p) => step'[p] = After(command[p], step[p])
        /\ \A stage \in Stages :
             Fail(p, stage) => step'[p] = IF InSmoke(p) THEN "smoke" ELSE "exit"
    BY <1>1, <2>1, <2>2, Ends
  <2> QED
    BY <1>1, <2>3 DEF Shape
<1>4. step'[p] \in {"docker", "smoke", "artifact", "upload", "exit"}
  BY <1>1, <1>3 DEF After
<1>5. OthersKeep(p)
  BY <1>1, <1>3 DEF OthersKeep, memory
<1> QED
  BY <1>1, <1>2, <1>3, <1>4, <1>5, LaterFiles DEF Others

LEMMA SmokeReportFiles ==
  ASSUME IInv, FilesInv, NEW p \in Processes, WriteSmokeReport(p) PROVE FilesInv'
<1>1. /\ step[p] = "smoke"
      /\ UNCHANGED <<Others, xml, chunks, listing, saved, report, remote, memory>>
      /\ \/ /\ smoke' = SmokeReport(p) /\ step' = [step EXCEPT ![p] = AfterSmoke(p)]
            /\ UNCHANGED <<failed, faults>>
         \/ WriteFails /\ Escape(p, "report") /\ UNCHANGED smoke
      /\ Typed /\ Files
  BY DEF WriteSmokeReport, At, IInv, FilesInv
<1>2. Files'
  <2>1. SmokeReport(p) \in SmokeReports
    <3>1. failed[p] \in Stages \cup {NoStage} /\ strict[p] \in BOOLEAN /\ solo[p] \in BOOLEAN
      BY <1>1 DEF Typed
    <3>2. (IF failed[p] = "conversion" THEN NoFile ELSE out[p]) \in Contents
      BY <1>1 DEF Files, Contents
    <3> HIDE DEF Contents, Stages
    <3> QED
      BY <3>1, <3>2 DEF SmokeReport, SmokeReports
  <2>2. smoke' = NoFile \/ smoke' \in SmokeReports
    BY <1>1, <2>1 DEF Files
  <2>3. faults' \in Nat
    BY <1>1 DEF Files, WriteFails
  <2> QED
    BY <1>1, <2>2, <2>3 DEF Files, Others, memory
<1>3. /\ step'[p] \in {"artifact", "exit"} /\ (failed'[p] = NoStage => failed[p] = NoStage)
      /\ \A q \in Processes \ {p} : step'[q] = step[q] /\ failed'[q] = failed[q]
  <2>1. AfterSmoke(p) \in {"artifact", "exit"}
    BY DEF AfterSmoke, After
  <2>2. "report" # NoStage
    BY NoStageAssumption DEF Stages
  <2> QED
    BY <1>1, <2>1, <2>2 DEF Escape, Typed
<1>4. OthersKeep(p)
  BY <1>1, <1>3 DEF OthersKeep, memory
<1> QED
  BY <1>1, <1>2, <1>3, <1>4, LaterFiles DEF Others

LEMMA StartFiles == ASSUME IInv, FilesInv, NEW p \in Processes, Start(p) PROVE FilesInv'
<1>1. /\ UNCHANGED <<source, disk, entries, memory, failed, edits, faults>> /\ step[p] = "idle"
      /\ solo' = [q \in Processes |->
                    IF q = p THEN \A r \in Processes \ {p} : Idle(r) ELSE solo[q] /\ Idle(q)]
      /\ Typed /\ Files /\ Memory(p)
  BY DEF Start, Idle, IInv, FilesInv
<1>2. PICK c \in Commands : /\ command' = [command EXCEPT ![p] = c]
                            /\ step' = [step EXCEPT ![p] = First(c)]
  <2>1. runs' \in 1 .. Len(Agenda) /\ Agenda[runs'] \in SUBSET Commands
    BY <1>1, AgendaAssumption DEF Start, Typed
  <2> QED
    BY <2>1 DEF Start
<1>3. Files'
  BY <1>1 DEF Files, disk, memory
<1>4. Memory(p)' /\ Kept(p)'
  <2>1. command'[p] = c /\ step'[p] = First(c) /\ written'[p] = 0
    BY <1>1, <1>2 DEF Typed, Memory, memory
  <2>2. First(c) \in {"load", "validator", "artifact"}
    BY DEF First
  <2>3. c \in Smokes \cup {"convert"} => First(c) = "load"
    BY DEF First, Smokes
  <2>4. ~ConversionOver(p)'
    BY <2>1, <2>2, <2>3 DEF ConversionOver, Conversion
  <2> QED
    BY <2>1, <2>2, <2>4 DEF Memory, Kept, Since, Idle
<1>5. ASSUME NEW q \in Processes \ {p} PROVE Memory(q)' /\ Kept(q)'
  <2>1. /\ step'[q] = step[q] /\ failed'[q] = failed[q] /\ command'[q] = command[q]
        /\ written'[q] = written[q] /\ held'[q] = held[q] /\ out'[q] = out[q]
        /\ solo'[q] => Idle(q)
    BY <1>1, <1>2 DEF Typed, memory
  <2>2. Memory(q) /\ Parts(q)' = Parts(q)
    BY <1>5, <2>1 DEF FilesInv, Parts
  <2>3. Memory(q)'
    BY <2>1, <2>2 DEF Memory, Since, ConversionOver, Idle
  <2>4. Kept(q)'
    <3>1. SUFFICES ASSUME solo'[q] PROVE Kept(q)'
      BY DEF Kept
    <3>2. step'[q] = "idle" /\ command'[q] = "none"
      BY <2>1, <2>2, <3>1 DEF Memory, Idle
    <3> QED
      BY <3>2 DEF Kept, Since, ConversionOver, Smokes
  <2> QED
    BY <2>3, <2>4
<1> QED
  BY <1>3, <1>4, <1>5 DEF FilesInv

LEMMA VanishFiles ==
  ASSUME IInv, FilesInv, NEW p \in Processes, Vanish(p), faults' \in Nat, entries' \in BOOLEAN
  PROVE  FilesInv'
<1>1. /\ UNCHANGED <<source, disk, runs, edits>> /\ Typed /\ Files
      /\ command' = [command EXCEPT ![p] = "none"] /\ step' = [step EXCEPT ![p] = "idle"]
      /\ held' = [held EXCEPT ![p] = EmptyManifest] /\ out' = [out EXCEPT ![p] = <<>>]
      /\ written' = [written EXCEPT ![p] = 0] /\ failed' = [failed EXCEPT ![p] = NoStage]
      /\ solo' = [solo EXCEPT ![p] = TRUE]
  BY DEF Vanish, IInv, FilesInv
<1>2. EmptyManifest \in Manifest
  <2>1. [i \in Identities |-> 0] \in [Identities -> {0} \cup FirstId .. LastId]
    OBVIOUS
  <2>2. FirstId \in FirstId .. LastId + 1
    BY RangeAssumption, ValidatorAssumption
  <2> QED
    BY <2>1, <2>2 DEF EmptyManifest, Manifest
<1>3. Files'
  <2>1. 0 \in 0 .. NumChunks /\ <<>> \in Seq(Rule)
    BY ChunksAssumption
  <2> HIDE DEF EmptyManifest, Manifest, Rule
  <2>2. /\ held' \in [Processes -> Manifest] /\ out' \in [Processes -> Seq(Rule)]
        /\ written' \in [Processes -> 0 .. NumChunks]
    BY <1>1, <1>2, <2>1 DEF Files
  <2> QED
    BY <1>1, <2>2 DEF Files, disk
<1>4. Memory(p)' /\ Kept(p)'
  <2>1. command'[p] = "none" /\ step'[p] = "idle" /\ written'[p] = 0
    BY <1>1 DEF Typed, Files
  <2>2. ~ConversionOver(p)'
    BY <2>1 DEF ConversionOver, Smokes
  <2> QED
    BY <2>1, <2>2 DEF Memory, Kept, Since, Idle
<1>5. ASSUME NEW q \in Processes \ {p} PROVE Memory(q)' /\ Kept(q)'
  <2>1. /\ step'[q] = step[q] /\ failed'[q] = failed[q] /\ command'[q] = command[q]
        /\ written'[q] = written[q] /\ held'[q] = held[q] /\ out'[q] = out[q]
        /\ solo'[q] = solo[q] /\ Memory(q) /\ Kept(q)
    BY <1>1, <1>5 DEF Typed, Files, FilesInv
  <2>2. Parts(q)' = Parts(q)
    BY <2>1 DEF Parts
  <2>3. Memory(q)'
    BY <2>1, <2>2 DEF Memory, Since, ConversionOver, Idle
  <2>4. Kept(q)'
    BY <1>1, <2>1, <2>2 DEF Kept, Since, ConversionOver, disk
  <2> QED
    BY <2>3, <2>4
<1> QED
  BY <1>3, <1>4, <1>5 DEF FilesInv

LEMMA QuietFiles ==
  ASSUME FilesInv, UNCHANGED <<disk, entries, command, step, memory, failed, solo>>,
         source' \subseteq Identities, edits' \in Nat, faults' \in Nat
  PROVE  FilesInv'
<1>1. Files'
  BY DEF FilesInv, Files, disk, memory
<1>2. ASSUME NEW p \in Processes PROVE Memory(p)' /\ Kept(p)'
  <2>1. Memory(p) /\ Kept(p)
    BY DEF FilesInv
  <2>2. Parts(p)' = Parts(p)
    BY DEF Parts, memory
  <2>3. Memory(p)'
    BY <2>1, <2>2 DEF Memory, Since, ConversionOver, Idle, memory
  <2>4. Kept(p)'
    BY <2>1, <2>2 DEF Kept, Since, ConversionOver, disk, memory
  <2> QED
    BY <2>3, <2>4
<1> QED
  BY <1>1, <1>2 DEF FilesInv

-----------------------------------------------------------------------------
(* The files, for the specification. *)

LEMMA InitFiles == ASSUME Init PROVE FilesInv
<1>1. EmptyManifest \in Manifest
  <2>1. [i \in Identities |-> 0] \in [Identities -> {0} \cup FirstId .. LastId]
    OBVIOUS
  <2>2. FirstId \in FirstId .. LastId + 1
    BY RangeAssumption, ValidatorAssumption
  <2> QED
    BY <2>1, <2>2 DEF EmptyManifest, Manifest
<1>2. Files
  <2>1. source \subseteq Identities /\ edits \in Nat /\ faults \in Nat
    BY SourcesAssumption, BoundsAssumption DEF Init
  <2>2. 0 \in 0 .. NumChunks /\ <<>> \in Seq(Rule)
    BY ChunksAssumption
  <2> HIDE DEF EmptyManifest, Manifest, Rule
  <2>3. /\ held \in [Processes -> Manifest] /\ out \in [Processes -> Seq(Rule)]
        /\ written \in [Processes -> 0 .. NumChunks]
    BY <1>1, <2>2 DEF Init
  <2>4. chunks \in [1 .. NumChunks -> Contents] /\ {xml, report, remote} \subseteq Contents
    BY DEF Init, Contents
  <2>5. listing \in 0 .. NumChunks /\ saved \in Manifest /\ entries \in BOOLEAN /\ smoke = NoFile
    BY <1>1, <2>2 DEF Init
  <2> QED
    BY <2>1, <2>3, <2>4, <2>5 DEF Files
<1>3. ASSUME NEW p \in Processes PROVE Memory(p) /\ Kept(p)
  <2>1. command[p] = "none" /\ step[p] = "idle" /\ written[p] = 0
    BY DEF Init
  <2>2. ~ConversionOver(p)
    BY <2>1 DEF ConversionOver, Smokes
  <2> QED
    BY <2>1, <2>2 DEF Memory, Kept, Since, Idle
<1> QED
  BY <1>2, <1>3 DEF FilesInv

LEMMA NextFiles == ASSUME IInv, FilesInv, [Next]_vars PROVE FilesInv'
<1>1. source \subseteq Identities /\ edits \in Nat /\ faults \in Nat /\ entries \in BOOLEAN
  BY DEF FilesInv, Files
<1>2. CASE UNCHANGED vars
  BY <1>1, <1>2, QuietFiles DEF vars, budget
<1>3. ASSUME NEW i \in Identities, Edit(i) PROVE FilesInv'
  <2>1. source' \subseteq Identities /\ edits' \in Nat
    BY <1>1, <1>3 DEF Edit
  <2> QED
    BY <1>1, <1>3, <2>1, QuietFiles DEF Edit
<1>4. ASSUME NEW p \in Processes, Start(p) PROVE FilesInv'
  BY <1>4, StartFiles
<1>5. ASSUME NEW p \in Processes, Exit(p) \/ Kill(p) PROVE FilesInv'
  <2>1. entries' = entries \/ entries' = TRUE
    BY <1>5 DEF Exit, Kill
  <2>2. entries' \in BOOLEAN
    BY <1>1, <2>1
  <2>3. Vanish(p) /\ faults' \in Nat
    BY <1>1, <1>5 DEF Exit, Kill
  <2> QED
    BY <2>2, <2>3, VanishFiles
<1>6. ASSUME NEW p \in Processes, WriteListing(p) PROVE FilesInv'
  <2>1. /\ step[p] = "listing" /\ UNCHANGED <<Others, xml, chunks, saved, report, smoke, remote, memory>>
        /\ \/ listing' = written[p] /\ Done(p) /\ UNCHANGED faults
           \/ WriteFails /\ Fail(p, "conversion") /\ UNCHANGED listing
    BY <1>6 DEF WriteListing, At
  <2> QED
    BY <2>1, WriteFiles
<1>7. ASSUME NEW p \in Processes, SaveManifest(p) PROVE FilesInv'
  <2>1. /\ step[p] = "manifest" /\ UNCHANGED <<Others, xml, chunks, listing, report, smoke, remote, memory>>
        /\ \/ saved' = held[p] /\ Done(p) /\ UNCHANGED faults
           \/ WriteFails /\ Escape(p, "conversion") /\ UNCHANGED saved
    BY <1>7 DEF SaveManifest, At
  <2> QED
    BY <2>1, WriteFiles
<1>8. ASSUME NEW p \in Processes, WriteReport(p) PROVE FilesInv'
  <2>1. /\ step[p] = "report" /\ UNCHANGED <<Others, xml, chunks, listing, saved, smoke, remote, memory>>
        /\ \/ report' = out[p] /\ Done(p) /\ UNCHANGED faults
           \/ WriteFails /\ Fail(p, "conversion") /\ UNCHANGED report
    BY <1>8 DEF WriteReport, At
  <2> QED
    BY <2>1, WriteFiles
<1> QED
  BY <1>2, <1>3, <1>4, <1>5, <1>6, <1>7, <1>8, LoadFiles, ConvertFiles, WriteXmlFiles,
     WriteChunkFiles, CheckFiles, SmokeReportFiles DEF Next, Step

LEMMA FilesHold == Spec => []FilesInv
<1>1. Init => FilesInv
  BY InitFiles
<1>2. IInv /\ FilesInv /\ [Next]_vars => FilesInv'
  BY NextFiles
<1> QED
  BY <1>1, <1>2, Invariance, PTL DEF Spec

\* Every id, in a file, in a manifest or in memory, is of the owned range,
\* whatever overwrites the manifest (models.py:123-141).
THEOREM TypeCorrect == Spec => []TypeOK
<1>1. IInv /\ FilesInv => TypeOK
  BY DEF IInv, Typed, FilesInv, Files, TypeOK
<1> QED
  BY <1>1, Invariance, FilesHold, PTL

\* A conversion that nothing interferes with leaves the XML, the listed chunks,
\* the manifest and the report in agreement, whatever the runs before it left
\* there, for any number of rules, chunks and processes: pipeline_stages.py:38-80.
THEOREM SoloRunsRestore == Spec => []SoloRunRestores
<1>1. ASSUME FilesInv, NEW p \in Processes, solo[p], ConversionOver(p)
      PROVE  /\ xml = out[p] /\ report = out[p]
             /\ FlattenSeq(SubSeq(chunks, 1, listing)) = xml
             /\ saved.active \ Unsupported = { xml[k].identity : k \in DOMAIN xml }
             /\ \A k \in DOMAIN xml : saved.ids[xml[k].identity] = xml[k].id
  <2>1. /\ Files /\ out[p] # <<>> /\ Agrees(held[p], out[p]) /\ written[p] = Len(Parts(p))
        /\ xml = out[p] /\ \A k \in 1 .. written[p] : chunks[k] = Parts(p)[k]
        /\ listing = written[p] /\ saved = held[p] /\ report = out[p]
    BY <1>1 DEF FilesInv, Memory, Kept, Since
  <2>2. /\ Len(Parts(p)) \in 1 .. NumChunks /\ FlattenSeq(Parts(p)) = out[p]
        /\ Parts(p) = [k \in 1 .. Len(Parts(p)) |-> Parts(p)[k]]
    BY <1>1, <2>1, PartsOf
  <2>3. SubSeq(chunks, 1, listing) = Parts(p)
    <3>1. /\ listing \in Nat /\ DOMAIN chunks = 1 .. NumChunks
          /\ \A k \in 1 .. listing : chunks[k] = Parts(p)[k]
      BY <2>1, <2>2, ChunksAssumption DEF Files
    <3>2. SubSeq(chunks, 1, listing) = [k \in 1 .. listing |-> chunks[k]]
      BY <3>1
    <3> QED
      BY <2>1, <2>2, <3>1, <3>2
  <2> QED
    BY <2>1, <2>2, <2>3 DEF Agrees
<1>2. FilesInv => SoloRunRestores
  BY <1>1 DEF SoloRunRestores
<1> QED
  BY <1>2, FilesHold, PTL
=============================================================================
