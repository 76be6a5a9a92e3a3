----------------------------- MODULE MCAdvisor -----------------------------
(* Instances of Advisor.  The two rules differ in everything the policy     *)
(* looks at; the answers lie on both sides of its thresholds, and two of    *)
(* them conflict.                                                           *)
EXTENDS Advisor

CONSTANTS Plain, Delicate,   \* the rules
          Model              \* the escalation model

MCFeatures ==
  [r \in {Plain, Delicate} |->
     [level |-> IF r = Plain THEN 10 ELSE 12, experimental |-> r = Delicate,
      falsePositives |-> r = Delicate, highImpact |-> r = Delicate, secret |-> r = Delicate]]

Answer(level, confidence, review) ==
  [level |-> level, confidence |-> confidence, review |-> review]

MCOutputs == {Answer(11, 95, FALSE), Answer(10, 60, TRUE), Answer(14, 95, FALSE)}

(* The defaults of AdvisorConfig, in apply mode, with an escalation model. *)
Applying ==
  [mode |-> "apply", minConfidence |-> 80, maxDelta |-> 2, confidenceBelow |-> 70,
   escalationEnabled |-> TRUE, escalationModel |-> Model, failOpen |-> TRUE,
   strict |-> FALSE, cacheEnabled |-> TRUE, changedOnly |-> TRUE, limit |-> 0]

MCConfigs ==
  {Applying,
   [Applying EXCEPT !.mode = "review", !.failOpen = FALSE, !.strict = TRUE],
   [Applying EXCEPT !.mode = "report-only", !.escalationModel = NoModel, !.limit = 1],
   [Applying EXCEPT !.escalationEnabled = FALSE, !.failOpen = FALSE, !.limit = 1],
   [Applying EXCEPT !.changedOnly = FALSE, !.maxDelta = 4, !.limit = 3],
   [Applying EXCEPT !.cacheEnabled = FALSE, !.limit = 2]}
=============================================================================
