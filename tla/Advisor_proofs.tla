--------------------------- MODULE Advisor_proofs ---------------------------
(***************************************************************************)
(* Proofs about Advisor, for every set of rules, features, answers and     *)
(* configurations, every number of runs and retries, and every pattern of  *)
(* failures, kills and damaged entries.                                    *)
(***************************************************************************)
EXTENDS Advisor, TLAPS

-----------------------------------------------------------------------------
(* What the policy returns. *)

(* A configuration of a run is one of the admissible ones. *)
LEMMA ConfigTyped == ASSUME NEW c \in Configs PROVE c \in Config
  BY AdvisorAssumptions

(* The features of a rule have their types. *)
LEMMA FeaturesTyped == ASSUME NEW r \in Rules PROVE Features[r] \in FeatureSets
  BY AdvisorAssumptions

(* An answer has a level, a confidence and a flag. *)
LEMMA OutputTyped ==
  ASSUME NEW o \in Outputs
  PROVE  o \in [level: Levels, confidence: Percents, review: BOOLEAN]
  BY AdvisorAssumptions

(* The answer the policy goes by is one of the provider's. *)
LEMMA ChosenIsOutput ==
  ASSUME NEW p \in Outputs, NEW e \in Outputs \cup {NoOutput}
  PROVE  Chosen(p, e) \in Outputs
  BY DEF Chosen

(* evaluate_policy returns a decision ... *)
LEMMA DecideTyped ==
  ASSUME NEW c \in Config, NEW f \in FeatureSets, NEW p \in Outputs,
         NEW e \in Outputs \cup {NoOutput}, NEW s \in Statuses
  PROVE  Decide(c, f, p, e, s) \in Decision
<1>1. Chosen(p, e).level \in Levels /\ Chosen(p, e).review \in BOOLEAN
  BY ChosenIsOutput, OutputTyped
<1>2. f.level \in Levels
  BY DEF FeatureSets
<1>3. Accepted(c, f, p, e) \in BOOLEAN /\ Acceptable(c, f, p, e) \in BOOLEAN
  BY DEF Accepted, Acceptable
<1>4. NeedsReview(c, f, p, e) \in BOOLEAN
  BY <1>1 DEF NeedsReview, OverCeiling, Conflicting
<1>5. (IF Accepted(c, f, p, e) THEN Chosen(p, e).level ELSE f.level) \in Levels
  BY <1>1, <1>2
<1> QED
  BY <1>3, <1>4, <1>5 DEF Decide, Decision

(* ... with or without an answer. *)
LEMMA PreserveTyped ==
  ASSUME NEW f \in FeatureSets, NEW s \in Statuses
  PROVE  Preserve(f, s) \in Decision
  BY DEF Preserve, Decision, FeatureSets

(* A decision that changes the level is taken in the apply mode, needs no  *)
(* review and is within the maximum delta.                                 *)
Moderate(c, f, d) ==
  d.level # f.level =>
    /\ c.mode = "apply"
    /\ d.status \in {"success", "cache_hit"}
    /\ ~d.review
    /\ Difference(d.level, f.level) <= c.maxDelta

(* What the policy returns is moderate. *)
LEMMA DecideModerate ==
  ASSUME NEW c \in Config, NEW f \in FeatureSets, NEW p \in Outputs,
         NEW e \in Outputs \cup {NoOutput}, NEW s \in {"success", "cache_hit"}
  PROVE  Moderate(c, f, Decide(c, f, p, e, s))
<1> SUFFICES ASSUME Decide(c, f, p, e, s).level # f.level
             PROVE  /\ c.mode = "apply"
                    /\ ~NeedsReview(c, f, p, e)
                    /\ Difference(Chosen(p, e).level, f.level) <= c.maxDelta
                    /\ Accepted(c, f, p, e)
  BY DEF Moderate, Decide
<1>1. Accepted(c, f, p, e)
  BY DEF Decide
<1>2. c.mode = "apply" /\ Acceptable(c, f, p, e)
  BY <1>1 DEF Accepted
<1>3. ~NeedsReview(c, f, p, e)
  BY <1>2 DEF NeedsReview, Acceptable
<1>4. Difference(Chosen(p, e).level, f.level) <= c.maxDelta
  BY <1>2 DEF Acceptable
<1> QED
  BY <1>1, <1>2, <1>3, <1>4

(* A failure keeps the level. *)
LEMMA PreserveModerate ==
  ASSUME NEW c, NEW f, NEW s
  PROVE  Moderate(c, f, Preserve(f, s))
  BY DEF Moderate, Preserve

(* Configurations with the same policy decide alike; only the status tells *)
(* a cached answer from a fresh one.                                       *)
LEMMA SamePolicySameDecision ==
  ASSUME NEW c, NEW d, NEW f, NEW p, NEW e, SamePolicy(c, d)
  PROVE  Decide(c, f, p, e, "cache_hit")
           = [Decide(d, f, p, e, "success") EXCEPT !.status = "cache_hit"]
<1>1. Acceptable(c, f, p, e) = Acceptable(d, f, p, e)
  BY DEF SamePolicy, Acceptable
<1>2. Accepted(c, f, p, e) = Accepted(d, f, p, e)
  BY <1>1 DEF SamePolicy, Accepted
<1>3. NeedsReview(c, f, p, e) = NeedsReview(d, f, p, e)
  BY <1>1 DEF SamePolicy, NeedsReview
<1> QED
  BY <1>1, <1>2, <1>3 DEF Decide

-----------------------------------------------------------------------------
(* How a rule's turn ends. *)

(* A recorded decision leaves the locals empty. *)
LEMMA DecidedTyped ==
  ASSUME TypeOK, NEW r \in Rules, NEW d \in Decision, Decided(r, d)
  PROVE  /\ pc' = "idle"
         /\ primary' = NoOutput /\ escalation' = NoOutput /\ attempt' = 0
         /\ decisions' \in [Rules -> Decision \cup {NoDecision}]
  BY DEF TypeOK, Decided, Forget

(* A failure ends the turn or the run. *)
LEMMA FailTyped ==
  ASSUME TypeOK, NEW r \in Rules, NEW s \in Statuses, Fail(r, s)
  PROVE  /\ pc' \in {"idle", "stopped"}
         /\ primary' = NoOutput /\ escalation' = NoOutput /\ attempt' = 0
         /\ decisions' \in [Rules -> Decision \cup {NoDecision}]
<1>1. CASE Decided(r, Preserve(Features[r], s))
  BY <1>1, DecidedTyped, FeaturesTyped, PreserveTyped
<1>2. CASE Abort
  BY <1>2 DEF Abort, Forget, TypeOK
<1> QED
  BY <1>1, <1>2 DEF Fail

(* Each rule has a key under every configuration, and a readable entry is  *)
(* one that was stored.                                                    *)
LEMMA KeyTyped == ASSUME TypeOK, NEW r \in Rules PROVE KeyFor(r) \in Keys
  BY ConfigTyped DEF TypeOK, KeyFor, Keys, Config

(* A hit yields the answers that were stored. *)
LEMMA HitTyped ==
  ASSUME TypeOK, NEW r \in Rules, IsHit(r)
  PROVE  /\ cache[KeyFor(r)] \in Entry
         /\ cache[KeyFor(r)].primary \in Outputs
         /\ cache[KeyFor(r)].escalation \in Outputs \cup {NoOutput}
  BY KeyTyped DEF TypeOK, IsHit, Entry

(* The verdict on a finished outcome is a decision. *)
LEMMA VerdictTyped ==
  ASSUME TypeOK, pc = "store"
  PROVE  Verdict \in Decision
  BY ConfigTyped, FeaturesTyped, DecideTyped DEF TypeOK, Verdict, Statuses

-----------------------------------------------------------------------------
(* Types. *)

(* The initial states are typed. *)
LEMMA InitTyped == Init => TypeOK
  BY AdvisorAssumptions DEF Init, TypeOK, Calling

(* Every step keeps the types. *)
LEMMA StepTyped == TypeOK /\ [Next]_vars => TypeOK'
<1> SUFFICES ASSUME TypeOK, [Next]_vars PROVE TypeOK'
  OBVIOUS
<1> USE DEF Calling
<1>1. ASSUME NEW c \in Configs, StartRun(c) PROVE TypeOK'
  BY <1>1, AdvisorAssumptions DEF TypeOK, StartRun
<1>2. CASE EndRun
  BY <1>2 DEF TypeOK, EndRun
<1>3. ASSUME NEW r \in Rules, RefuseSecret(r) PROVE TypeOK'
  <2>1. Fail(r, "failed_open")
    BY <1>3 DEF RefuseSecret
  <2> QED
    BY <1>3, <2>1, FailTyped, AdvisorAssumptions DEF TypeOK, RefuseSecret, Statuses
<1>4. ASSUME NEW r \in Rules, ServeFromCache(r) PROVE TypeOK'
  <2> DEFINE d == Decide(config, Features[r], cache[KeyFor(r)].primary,
                         cache[KeyFor(r)].escalation, "cache_hit")
  <2>1. Decided(r, d) /\ IsHit(r)
    BY <1>4 DEF ServeFromCache
  <2>2. d \in Decision
    BY <2>1, HitTyped, ConfigTyped, FeaturesTyped, DecideTyped DEF TypeOK, Statuses
  <2> HIDE DEF d
  <2> QED
    BY <1>4, <2>1, <2>2, DecidedTyped, AdvisorAssumptions DEF TypeOK, ServeFromCache
<1>5. ASSUME NEW r \in Rules, Ask(r) PROVE TypeOK'
  BY <1>5 DEF TypeOK, Ask
<1>6. ASSUME NEW o \in Outputs, AnswerPrimary(o) PROVE TypeOK'
  BY <1>6, AdvisorAssumptions DEF TypeOK, AnswerPrimary
<1>7. ASSUME NEW o \in Outputs, AnswerEscalation(o) PROVE TypeOK'
  BY <1>7, AdvisorAssumptions DEF TypeOK, AnswerEscalation
<1>8. CASE Retry
  BY <1>8, AdvisorAssumptions DEF TypeOK, Retry, RetriesLeft
<1>9. ASSUME NEW s \in {"rate_limited", "failed_open"}, GiveUp(s) PROVE TypeOK'
  <2>1. Fail(rule, s) /\ rule \in Rules /\ s \in Statuses
    BY <1>9 DEF GiveUp, TypeOK, Statuses
  <2> QED
    BY <1>9, <2>1, FailTyped, AdvisorAssumptions DEF TypeOK, GiveUp
<1>10. CASE FailForGood
  <2>1. Fail(rule, "failed_open") /\ rule \in Rules /\ "failed_open" \in Statuses
    BY <1>10 DEF FailForGood, TypeOK, Statuses
  <2> QED
    BY <1>10, <2>1, FailTyped, AdvisorAssumptions DEF TypeOK, FailForGood
<1>11. CASE RefuseCall
  <2>1. Fail(rule, "request_limit_reached") /\ rule \in Rules
    BY <1>11 DEF RefuseCall, TypeOK
  <2>2. "request_limit_reached" \in Statuses
    BY DEF Statuses
  <2> QED
    BY <1>11, <2>1, <2>2, FailTyped, AdvisorAssumptions DEF TypeOK, RefuseCall
<1>12. CASE Store
  <2>1. Verdict \in Decision /\ Decided(rule, Verdict) /\ rule \in Rules
    BY <1>12, VerdictTyped DEF Store, TypeOK
  <2>2. KeyFor(rule) \in Keys
    BY KeyTyped DEF TypeOK
  <2>3. [primary |-> primary, escalation |-> escalation] \in Entry
    BY <1>12 DEF Store, TypeOK, Entry
  <2>4. cache' \in [Keys -> Entry \cup {NoEntry, Damaged}]
    BY <1>12, <2>2, <2>3 DEF Store, TypeOK
  <2>5. granted' \in [Keys -> [config: Configs, decision: Decision] \cup {NoDecision}]
    BY <1>12, <2>1, <2>2 DEF Store, TypeOK
  <2> QED
    BY <1>12, <2>1, <2>4, <2>5, DecidedTyped, AdvisorAssumptions DEF TypeOK, Store
<1>13. CASE FailToStore
  <2>1. Verdict \in Decision /\ rule \in Rules
    BY <1>13, VerdictTyped DEF FailToStore, TypeOK
  <2>2. CASE Decided(rule, Verdict)
    BY <1>13, <2>1, <2>2, DecidedTyped, AdvisorAssumptions DEF TypeOK, FailToStore
  <2>3. CASE Abort
    BY <1>13, <2>3, AdvisorAssumptions DEF TypeOK, FailToStore, Abort, Forget
  <2> QED
    BY <1>13, <2>2, <2>3 DEF FailToStore
<1>14. CASE Kill
  BY <1>14, AdvisorAssumptions DEF TypeOK, Kill, Abort, Forget
<1>15. ASSUME NEW k \in Keys, DamageEntry(k) PROVE TypeOK'
  BY <1>15 DEF TypeOK, DamageEntry
<1>16. CASE UNCHANGED vars
  BY <1>16 DEF TypeOK, vars
<1> QED
  BY <1>1, <1>2, <1>3, <1>4, <1>5, <1>6, <1>7, <1>8, <1>9, <1>10, <1>11, <1>12,
     <1>13, <1>14, <1>15, <1>16 DEF Next, ProviderStep

(* Every variable keeps its type; no call is tried more often than         *)
(* OpenAIAdvisorProvider.analyze is told to.                               *)
THEOREM TypeCorrect == Spec => []TypeOK
  BY InitTyped, StepTyped, PTL DEF Spec

-----------------------------------------------------------------------------
(* The limit. *)

(* Between the attempts of a call the count is still below the limit: the  *)
(* limit is looked at before the first attempt only, and a call begins     *)
(* with none made.                                                         *)
RoomWhileRetrying ==
  pc \in Calling /\ attempt > 0 /\ config.limit # 0 => requests < config.limit

NoStaleAttempt == pc \notin Calling => attempt = 0

CountInv == CountedCallsBounded /\ RoomWhileRetrying /\ NoStaleAttempt

(* Every step keeps the count within the limit. *)
LEMMA StepCounted == TypeOK /\ CountInv /\ [Next]_vars => CountInv'
<1> SUFFICES ASSUME TypeOK, CountInv, [Next]_vars PROVE CountInv'
  OBVIOUS
<1>0. config.limit \in Nat /\ requests \in Nat
  BY ConfigTyped DEF TypeOK, Config
<1> USE DEF CountInv, CountedCallsBounded, RoomWhileRetrying, NoStaleAttempt, Calling
(* A step that counts nothing and leaves no attempts behind.               *)
<1>1. ASSUME UNCHANGED <<config, requests>>, attempt' = 0
      PROVE  CountInv'
  BY <1>1
<1>2. ASSUME NEW c \in Configs, StartRun(c) PROVE CountInv'
  <2>1. c.limit \in Nat
    BY ConfigTyped DEF Config
  <2> QED
    BY <1>2, <2>1 DEF StartRun
<1>3. ASSUME NEW r \in Rules, NEW s, Fail(r, s) PROVE attempt' = 0
  BY <1>3 DEF Fail, Decided, Abort, Forget
<1>4. CASE \E r \in Rules : RefuseSecret(r) \/ ServeFromCache(r) \/ Ask(r)
  <2>1. ASSUME NEW r \in Rules, RefuseSecret(r) PROVE CountInv'
    BY <2>1, <1>1, <1>3 DEF RefuseSecret
  <2>2. ASSUME NEW r \in Rules, ServeFromCache(r) PROVE CountInv'
    BY <2>2, <1>1 DEF ServeFromCache, Decided, Forget
  <2>3. ASSUME NEW r \in Rules, Ask(r) PROVE CountInv'
    BY <2>3, <1>1 DEF Ask
  <2> QED
    BY <1>4, <2>1, <2>2, <2>3
<1>5. ASSUME NEW o \in Outputs, AnswerPrimary(o) \/ AnswerEscalation(o) PROVE CountInv'
  <2>1. requests < config.limit \/ config.limit = 0
    BY <1>5, <1>0 DEF AnswerPrimary, AnswerEscalation, MayCall, LimitReached, TypeOK
  <2>2. requests' = requests + 1 /\ attempt' = 0 /\ config' = config
    BY <1>5 DEF AnswerPrimary, AnswerEscalation
  <2> QED
    BY <2>1, <2>2, <1>0
<1>6. CASE Retry
  <2>1. requests < config.limit \/ config.limit = 0
    BY <1>6, <1>0 DEF Retry, MayCall, LimitReached, TypeOK
  <2> QED
    BY <1>6, <2>1 DEF Retry
<1>7. CASE FailForGood \/ RefuseCall \/ \E s \in {"rate_limited", "failed_open"} : GiveUp(s)
  <2>1. rule \in Rules
    BY DEF TypeOK
  <2> QED
    BY <1>7, <2>1, <1>1, <1>3 DEF FailForGood, RefuseCall, GiveUp
<1>8. CASE Store \/ FailToStore \/ Kill \/ EndRun
  BY <1>8, <1>1 DEF Store, FailToStore, Kill, EndRun, Decided, Abort, Forget
<1>9. CASE (\E k \in Keys : DamageEntry(k)) \/ UNCHANGED vars
  BY <1>9 DEF DamageEntry, vars
<1> QED
  BY <1>2, <1>4, <1>5, <1>6, <1>7, <1>8, <1>9 DEF Next, ProviderStep

(* The calls that completed never exceed max_requests, whatever fails and  *)
(* is retried in between.                                                  *)
THEOREM CountedCalls == Spec => []CountedCallsBounded
<1>1. Init => CountInv
  <2> SUFFICES ASSUME Init PROVE CountInv
    OBVIOUS
  <2>1. config.limit \in Nat
    BY ConfigTyped DEF Init, Config
  <2> QED
    BY <2>1 DEF Init, CountInv, CountedCallsBounded, RoomWhileRetrying, NoStaleAttempt
<1>2. CountInv => CountedCallsBounded
  BY DEF CountInv
<1> QED
  BY <1>1, <1>2, StepCounted, TypeCorrect, PTL DEF Spec

-----------------------------------------------------------------------------
(* The levels. *)

DecisionsModerate ==
  \A r \in Rules :
    decisions[r] # NoDecision => Moderate(config, Features[r], decisions[r])

(* Recording a moderate decision keeps the others as they are. *)
LEMMA DecidedModerate ==
  ASSUME TypeOK, DecisionsModerate, NEW r \in Rules, NEW d,
         Moderate(config, Features[r], d), Decided(r, d), config' = config
  PROVE  DecisionsModerate'
<1> SUFFICES ASSUME NEW q \in Rules, decisions'[q] # NoDecision
             PROVE  Moderate(config, Features[q], decisions'[q])
  BY DEF DecisionsModerate, Moderate
<1>1. CASE q = r
  BY <1>1 DEF Decided, TypeOK
<1>2. CASE q # r
  BY <1>2 DEF Decided, TypeOK, DecisionsModerate
<1> QED
  BY <1>1, <1>2

(* A failure keeps the recorded decisions moderate. *)
LEMMA FailModerate ==
  ASSUME TypeOK, DecisionsModerate, NEW r \in Rules, NEW s, Fail(r, s), config' = config
  PROVE  DecisionsModerate'
<1>1. CASE Decided(r, Preserve(Features[r], s))
  BY <1>1, DecidedModerate, PreserveModerate
<1>2. CASE Abort
  BY <1>2 DEF Abort, DecisionsModerate, Moderate
<1> QED
  BY <1>1, <1>2 DEF Fail

(* So does every step. *)
LEMMA StepModerate == TypeOK /\ DecisionsModerate /\ [Next]_vars => DecisionsModerate'
<1> SUFFICES ASSUME TypeOK, DecisionsModerate, [Next]_vars PROVE DecisionsModerate'
  OBVIOUS
<1>0. config \in Config /\ rule \in Rules
  BY ConfigTyped DEF TypeOK
<1>1. ASSUME UNCHANGED <<config, decisions>> PROVE DecisionsModerate'
  BY <1>1 DEF DecisionsModerate, Moderate
<1>2. ASSUME NEW c \in Configs, StartRun(c) PROVE DecisionsModerate'
  BY <1>2 DEF StartRun, DecisionsModerate
<1>3. ASSUME NEW r \in Rules, RefuseSecret(r) PROVE DecisionsModerate'
  BY <1>3, FailModerate DEF RefuseSecret
<1>4. ASSUME NEW r \in Rules, ServeFromCache(r) PROVE DecisionsModerate'
  <2> DEFINE d == Decide(config, Features[r], cache[KeyFor(r)].primary,
                         cache[KeyFor(r)].escalation, "cache_hit")
  <2>1. Decided(r, d) /\ IsHit(r) /\ config' = config
    BY <1>4 DEF ServeFromCache
  <2>2. Moderate(config, Features[r], d)
    BY <1>0, <2>1, HitTyped, FeaturesTyped, DecideModerate
  <2> HIDE DEF d
  <2> QED
    BY <2>1, <2>2, DecidedModerate
<1>5. CASE FailForGood \/ RefuseCall \/ \E s \in {"rate_limited", "failed_open"} : GiveUp(s)
  BY <1>0, <1>5, FailModerate DEF FailForGood, RefuseCall, GiveUp
<1>6. CASE Store \/ FailToStore
  <2>1. Moderate(config, Features[rule], Verdict) /\ config' = config
    BY <1>0, <1>6, FeaturesTyped, DecideModerate DEF Store, FailToStore, Verdict, TypeOK
  <2>2. CASE Decided(rule, Verdict)
    BY <1>0, <2>1, <2>2, DecidedModerate
  <2>3. CASE Abort
    BY <1>1, <2>1, <2>3 DEF Abort
  <2> QED
    BY <1>6, <2>2, <2>3 DEF Store, FailToStore
<1>7. ASSUME NEW r \in Rules, Ask(r) PROVE DecisionsModerate'
  BY <1>1, <1>7 DEF Ask
<1>8. ASSUME NEW o \in Outputs, AnswerPrimary(o) \/ AnswerEscalation(o)
      PROVE  DecisionsModerate'
  BY <1>1, <1>8 DEF AnswerPrimary, AnswerEscalation
<1>9. CASE EndRun \/ Retry \/ Kill \/ (\E k \in Keys : DamageEntry(k)) \/ UNCHANGED vars
  BY <1>1, <1>9 DEF EndRun, Retry, Kill, Abort, DamageEntry, vars
<1> QED
  BY <1>2, <1>3, <1>4, <1>5, <1>6, <1>7, <1>8, <1>9 DEF Next, ProviderStep

(* A level is changed in the apply mode only, by an answer that needs no   *)
(* review and stays within the maximum delta; failures change none, and    *)
(* neither does an answer another mode has cached.                         *)
THEOREM LevelsChangedOnlyByApply == Spec => []OnlyApplyChangesLevels
<1>1. Init => DecisionsModerate
  BY DEF Init, DecisionsModerate
<1>2. DecisionsModerate => OnlyApplyChangesLevels
  BY DEF DecisionsModerate, Moderate, OnlyApplyChangesLevels
<1> QED
  BY <1>1, <1>2, StepModerate, TypeCorrect, PTL DEF Spec

-----------------------------------------------------------------------------
(* Whole outcomes. *)

(* A rule whose primary answer escalates is past it only with the other    *)
(* answer, and between two rules there is no answer at all.                *)
OutcomeComplete ==
  /\ pc = "store" /\ Escalates(config, Features[rule], primary) => escalation # NoOutput
  /\ pc \in {"idle", "stopped", "primary"} => escalation = NoOutput

(* Every step keeps outcomes whole. *)
LEMMA StepComplete == TypeOK /\ OutcomeComplete /\ [Next]_vars => OutcomeComplete'
<1> SUFFICES ASSUME TypeOK, OutcomeComplete, [Next]_vars PROVE OutcomeComplete'
  OBVIOUS
<1>1. ASSUME NEW r, NEW d, Decided(r, d) \/ Abort PROVE OutcomeComplete'
  BY <1>1 DEF Decided, Abort, Forget, OutcomeComplete
<1>2. ASSUME NEW r, NEW s, Fail(r, s) PROVE OutcomeComplete'
  BY <1>1, <1>2 DEF Fail
<1>3. ASSUME UNCHANGED <<config, rule, pc, primary, escalation>> PROVE OutcomeComplete'
  BY <1>3 DEF OutcomeComplete, Escalates, WarrantsEscalation
<1>4. ASSUME NEW c \in Configs, StartRun(c) PROVE OutcomeComplete'
  BY <1>4 DEF StartRun, OutcomeComplete
<1>5. CASE \E r \in Rules : RefuseSecret(r) \/ ServeFromCache(r) \/ Ask(r)
  <2>1. ASSUME NEW r \in Rules, RefuseSecret(r) PROVE OutcomeComplete'
    BY <2>1, <1>2 DEF RefuseSecret
  <2>2. ASSUME NEW r \in Rules, ServeFromCache(r) PROVE OutcomeComplete'
    BY <2>2, <1>1 DEF ServeFromCache
  <2>3. ASSUME NEW r \in Rules, Ask(r) PROVE OutcomeComplete'
    BY <2>3 DEF Ask, OutcomeComplete
  <2> QED
    BY <1>5, <2>1, <2>2, <2>3
<1>6. ASSUME NEW o \in Outputs, AnswerPrimary(o) PROVE OutcomeComplete'
  <2>1. /\ primary' = o /\ config' = config /\ rule' = rule
        /\ pc' = IF Escalates(config, Features[rule], o) THEN "escalation" ELSE "store"
    BY <1>6 DEF AnswerPrimary
  <2>2. Escalates(config, Features[rule], primary)' = Escalates(config, Features[rule], o)
    BY <2>1 DEF Escalates, WarrantsEscalation
  <2> QED
    BY <2>1, <2>2 DEF OutcomeComplete
<1>7. ASSUME NEW o \in Outputs, AnswerEscalation(o) PROVE OutcomeComplete'
  BY <1>7, AdvisorAssumptions DEF AnswerEscalation, OutcomeComplete
<1>8. CASE EndRun
  BY <1>8 DEF EndRun, OutcomeComplete
<1>9. CASE FailForGood \/ RefuseCall \/ \E s \in {"rate_limited", "failed_open"} : GiveUp(s)
  BY <1>2, <1>9 DEF FailForGood, RefuseCall, GiveUp
<1>10. CASE Store \/ FailToStore \/ Kill
  BY <1>1, <1>10 DEF Store, FailToStore, Kill
<1>11. CASE Retry \/ (\E k \in Keys : DamageEntry(k)) \/ UNCHANGED vars
  BY <1>3, <1>11 DEF Retry, DamageEntry, vars
<1> QED
  BY <1>4, <1>5, <1>6, <1>7, <1>8, <1>9, <1>10, <1>11 DEF Next, ProviderStep

(* Only finished outcomes are written to the cache: a primary answer whose *)
(* escalation failed, was refused or was cut off is not among them.        *)
THEOREM OnlyFinishedCached == Spec => OnlyFinishedOutcomesCached
<1> DEFINE Finished ==
      \A k \in Keys :
        cache'[k] # cache[k] /\ cache'[k] # Damaged
          /\ Escalates(config, Features[k[1]], cache'[k].primary)
          => cache'[k].escalation # NoOutput
<1>1. Init => OutcomeComplete
  BY DEF Init, OutcomeComplete
<1>2. ASSUME TypeOK, OutcomeComplete, [Next]_vars PROVE Finished
  <2> SUFFICES ASSUME NEW k \in Keys, cache'[k] # cache[k], cache'[k] # Damaged,
                      Escalates(config, Features[k[1]], cache'[k].primary)
               PROVE  cache'[k].escalation # NoOutput
    OBVIOUS
  <2>1. Store
    <3>1. cache' # cache
      OBVIOUS
    <3>2. ~(\E j \in Keys : DamageEntry(j))
      BY <1>2 DEF DamageEntry, TypeOK
    <3> QED
      BY <1>2, <3>1, <3>2
      DEF Next, ProviderStep, vars, StartRun, EndRun, RefuseSecret, ServeFromCache, Ask,
          AnswerPrimary, AnswerEscalation, Retry, GiveUp, FailForGood, RefuseCall,
          FailToStore, Kill
  <2>2. /\ k = KeyFor(rule)
        /\ cache'[k] = [primary |-> primary, escalation |-> escalation]
        /\ pc = "store"
    BY <2>1, <1>2 DEF Store, TypeOK
  <2>3. k[1] = rule
    BY <2>2 DEF KeyFor
  <2> QED
    BY <1>2, <2>2, <2>3 DEF OutcomeComplete
<1>3. [][Finished]_vars => OnlyFinishedOutcomesCached
  BY PTL DEF OnlyFinishedOutcomesCached
<1> QED
  BY <1>1, <1>2, <1>3, StepComplete, TypeCorrect, PTL DEF Spec

-----------------------------------------------------------------------------
(* The cache. *)

(* A readable entry is the outcome its writer decided on. *)
GrantsMatch ==
  \A k \in Keys :
    cache[k] \notin {NoEntry, Damaged} =>
      granted[k].decision =
        Decide(granted[k].config, Features[k[1]],
               cache[k].primary, cache[k].escalation, "success")

HitInv == GrantsMatch /\ HitAgrees

(* Entries that stay match what they matched. *)
LEMMA GrantsMatchKept ==
  ASSUME GrantsMatch, UNCHANGED <<cache, granted>> PROVE GrantsMatch'
<1>1. cache' = cache /\ granted' = granted
  OBVIOUS
<1> QED
  BY <1>1 DEF GrantsMatch

(* A decision that is no cache hit leaves the hits as they are, even when  *)
(* it replaces the entry of its own rule.                                  *)
LEMMA HitsKept ==
  ASSUME TypeOK, HitAgrees, NEW r \in Rules, NEW d, Decided(r, d), config' = config,
         d = NoDecision \/ d.status # "cache_hit",
         \A k \in Keys : k # KeyFor(r) => granted'[k] = granted[k]
  PROVE  HitAgrees'
<1> SUFFICES ASSUME NEW q \in Rules, decisions'[q] # NoDecision,
                    decisions'[q].status = "cache_hit", granted'[KeyFor(q)'] # NoDecision,
                    SamePolicy(config', granted'[KeyFor(q)'].config)
             PROVE  decisions'[q]
                      = [granted'[KeyFor(q)'].decision EXCEPT !.status = "cache_hit"]
  BY DEF HitAgrees, SamePolicy
<1>1. q # r
  BY DEF Decided, TypeOK
<1>2. KeyFor(q)' = KeyFor(q) /\ KeyFor(q) # KeyFor(r) /\ KeyFor(q) \in Keys
  BY <1>1, KeyTyped DEF KeyFor
<1>3. decisions'[q] = decisions[q] /\ granted'[KeyFor(q)] = granted[KeyFor(q)]
  BY <1>1, <1>2 DEF Decided, TypeOK
<1> QED
  BY <1>2, <1>3 DEF HitAgrees

(* Hits stay right while nothing they depend on changes. *)
LEMMA HitsSame ==
  ASSUME HitAgrees, UNCHANGED <<config, decisions, granted>> PROVE HitAgrees'
  BY DEF HitAgrees, KeyFor, SamePolicy

(* A failure is no hit and writes no entry. *)
LEMMA FailKeepsHits ==
  ASSUME TypeOK, HitInv, NEW r \in Rules, NEW s \in Statuses \ {"cache_hit"}, Fail(r, s),
         UNCHANGED <<config, cache, granted>>
  PROVE  HitInv'
<1>1. GrantsMatch'
  BY GrantsMatchKept DEF HitInv
<1>2. CASE Decided(r, Preserve(Features[r], s))
  <2>1. Preserve(Features[r], s).status # "cache_hit"
    BY DEF Preserve
  <2> QED
    BY <1>1, <1>2, <2>1, HitsKept DEF HitInv
<1>3. CASE Abort
  BY <1>1, <1>3, HitsSame DEF Abort, HitInv
<1> QED
  BY <1>2, <1>3 DEF Fail

(* Every step keeps entries and hits in agreement. *)
LEMMA StepHits == TypeOK /\ HitInv /\ [Next]_vars => HitInv'
<1> SUFFICES ASSUME TypeOK, HitInv, [Next]_vars PROVE HitInv'
  OBVIOUS
<1>0. rule \in Rules
  BY DEF TypeOK
<1>1. ASSUME UNCHANGED <<config, decisions, cache, granted>> PROVE HitInv'
  BY <1>1, GrantsMatchKept, HitsSame DEF HitInv
<1>2. ASSUME NEW c \in Configs, StartRun(c) PROVE HitInv'
  <2>1. GrantsMatch'
    BY <1>2, GrantsMatchKept DEF HitInv, StartRun
  <2>2. HitAgrees'
    BY <1>2 DEF HitAgrees, StartRun
  <2> QED
    BY <2>1, <2>2 DEF HitInv
<1>3. ASSUME NEW r \in Rules, RefuseSecret(r) PROVE HitInv'
  BY <1>3, FailKeepsHits DEF RefuseSecret, Statuses
<1>4. ASSUME NEW r \in Rules, ServeFromCache(r) PROVE HitInv'
  <2> DEFINE k == KeyFor(r)
             p == cache[k].primary
             e == cache[k].escalation
             d == Decide(config, Features[r], p, e, "cache_hit")
  <2>1. Decided(r, d) /\ IsHit(r) /\ UNCHANGED <<config, cache, granted>>
    BY <1>4 DEF ServeFromCache
  <2>2. GrantsMatch'
    BY <2>1, GrantsMatchKept DEF HitInv
  <2>3. k \in Keys /\ k[1] = r /\ cache[k] \notin {NoEntry, Damaged}
    BY <2>1, KeyTyped DEF KeyFor, IsHit
  <2>4. granted[k].decision = Decide(granted[k].config, Features[r], p, e, "success")
    BY <2>3 DEF HitInv, GrantsMatch
  <2>5. SamePolicy(config, granted[k].config)
          => d = [granted[k].decision EXCEPT !.status = "cache_hit"]
    BY <2>4, SamePolicySameDecision
  <2>6. decisions' = [decisions EXCEPT ![r] = d] /\ KeyFor(r)' = k
    BY <2>1 DEF Decided, KeyFor
  <2>7. ASSUME NEW q \in Rules, decisions'[q] # NoDecision,
               decisions'[q].status = "cache_hit", granted'[KeyFor(q)'] # NoDecision,
               SamePolicy(config', granted'[KeyFor(q)'].config)
        PROVE  decisions'[q]
                 = [granted'[KeyFor(q)'].decision EXCEPT !.status = "cache_hit"]
    <3>1. KeyFor(q)' = KeyFor(q) /\ SamePolicy(config, granted[KeyFor(q)].config)
      BY <2>1, <2>7 DEF KeyFor, SamePolicy
    <3> HIDE DEF d, k
    <3>2. CASE q = r
      <4>1. decisions'[q] = d
        BY <2>6, <3>2 DEF TypeOK
      <4>2. KeyFor(q) = k
        BY <3>2 DEF k
      <4> QED
        BY <4>1, <4>2, <3>1, <2>1, <2>5
    <3>3. CASE q # r
      <4>1. decisions'[q] = decisions[q]
        BY <2>6, <3>3 DEF TypeOK
      <4> QED
        BY <4>1, <3>1, <2>1, <2>7 DEF HitInv, HitAgrees
    <3> QED
      BY <3>2, <3>3
  <2>8. HitAgrees'
    BY <2>7 DEF HitAgrees, SamePolicy
  <2> QED
    BY <2>2, <2>8 DEF HitInv
<1>5. CASE FailForGood \/ RefuseCall \/ \E s \in {"rate_limited", "failed_open"} : GiveUp(s)
  BY <1>0, <1>5, FailKeepsHits DEF FailForGood, RefuseCall, GiveUp, Statuses
<1>6. CASE Store \/ FailToStore
  <2> DEFINE k == KeyFor(rule)
             record == [config |-> config, decision |-> Verdict]
  <2>0. config' = config /\ pc = "store" /\ k \in Keys /\ k[1] = rule
    BY <1>6, <1>0, KeyTyped DEF Store, FailToStore, KeyFor
  <2>1. Verdict.status # "cache_hit"
    BY DEF Verdict, Decide
  <2>2. CASE Store /\ config.cacheEnabled
    <3>1. /\ cache' = [cache EXCEPT ![k] = [primary |-> primary, escalation |-> escalation]]
          /\ granted' = [granted EXCEPT ![k] = record]
          /\ Decided(rule, Verdict)
      BY <2>2 DEF Store
    <3>2. \A j \in Keys : j # k => cache'[j] = cache[j] /\ granted'[j] = granted[j]
      BY <3>1 DEF TypeOK
    <3>3. cache'[k].primary = primary /\ cache'[k].escalation = escalation
            /\ granted'[k] = record
      BY <2>0, <3>1 DEF TypeOK
    <3>4. record \in [config: Configs, decision: Decision]
      BY <2>0, VerdictTyped DEF TypeOK
    <3>5. GrantsMatch'
      <4> SUFFICES ASSUME NEW j \in Keys, cache'[j] \notin {NoEntry, Damaged}
                   PROVE  granted'[j].decision
                            = Decide(granted'[j].config, Features[j[1]],
                                     cache'[j].primary, cache'[j].escalation, "success")
        BY DEF GrantsMatch, Decide, Accepted, Acceptable, NeedsReview, Chosen,
               OverCeiling, Conflicting
      <4>1. CASE j = k
        BY <4>1, <3>3, <2>0 DEF Verdict
      <4>2. CASE j # k
        BY <4>2, <3>2 DEF HitInv, GrantsMatch
      <4> QED
        BY <4>1, <4>2
    <3>6. HitAgrees'
      BY <1>0, <2>0, <2>1, <3>1, <3>2, HitsKept DEF HitInv
    <3> QED
      BY <3>5, <3>6 DEF HitInv
  <2>3. CASE UNCHANGED <<cache, granted>> /\ Decided(rule, Verdict)
    BY <1>0, <2>0, <2>1, <2>3, GrantsMatchKept, HitsKept DEF HitInv
  <2>4. CASE UNCHANGED <<cache, granted>> /\ Abort
    BY <2>0, <2>4, <1>1 DEF Abort
  <2> QED
    BY <1>6, <2>2, <2>3, <2>4 DEF Store, FailToStore
<1>7. ASSUME NEW k \in Keys, DamageEntry(k) PROVE HitInv'
  <2>1. HitAgrees'
    BY <1>7, HitsSame DEF HitInv, DamageEntry
  <2>2. \A j \in Keys : cache'[j] \notin {NoEntry, Damaged} => cache'[j] = cache[j]
    BY <1>7 DEF DamageEntry, TypeOK
  <2>3. ASSUME NEW j \in Keys, cache'[j] \notin {NoEntry, Damaged}
        PROVE  granted'[j].decision
                 = Decide(granted'[j].config, Features[j[1]],
                          cache'[j].primary, cache'[j].escalation, "success")
    BY <1>7, <2>2, <2>3 DEF HitInv, GrantsMatch, DamageEntry
  <2>4. GrantsMatch'
    BY <2>3 DEF GrantsMatch, Decide, Accepted, Acceptable, NeedsReview, Chosen,
                OverCeiling, Conflicting
  <2> QED
    BY <2>1, <2>4 DEF HitInv
<1>8. CASE EndRun \/ Retry \/ Kill \/ (\E r \in Rules : Ask(r)) \/ UNCHANGED vars
  BY <1>1, <1>8 DEF EndRun, Retry, Kill, Abort, Ask, vars
<1>9. ASSUME NEW o \in Outputs, AnswerPrimary(o) \/ AnswerEscalation(o) PROVE HitInv'
  BY <1>1, <1>9 DEF AnswerPrimary, AnswerEscalation
<1> QED
  BY <1>2, <1>3, <1>4, <1>5, <1>6, <1>7, <1>8, <1>9 DEF Next, ProviderStep

(* A decision served from the cache is the one its writer took, under the  *)
(* same policy: nothing the provider said is lost on the way.              *)
THEOREM HitsAgree == Spec => []HitAgrees
<1>1. Init => HitInv
  BY DEF Init, HitInv, GrantsMatch, HitAgrees
<1>2. HitInv => HitAgrees
  BY DEF HitInv
<1> QED
  BY <1>1, <1>2, StepHits, TypeCorrect, PTL DEF Spec
=============================================================================
