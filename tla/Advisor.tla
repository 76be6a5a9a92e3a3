------------------------------ MODULE Advisor ------------------------------
(***************************************************************************)
(* The optional rule advisor (advisor/service.py, cache.py, policy.py,     *)
(* providers/openai.py): runs of the converter that ask a model provider   *)
(* about each rule, keep the answers in a cache on disk, and let a         *)
(* deterministic policy decide what an answer may change.                  *)
(*                                                                         *)
(* A run advises the rules one at a time.  A rule stands for its sanitised *)
(* request, so a changed rule is another rule.  Confidences are percents.  *)
(* The texts of an answer, its flags and the request ids are left out; the *)
(* versions in the cache key do not change within the model.               *)
(***************************************************************************)
EXTENDS Integers

CONSTANTS
  Rules,        \* the sanitised rules
  Features,     \* extract_features: what the policy looks at, for each rule
  Outputs,      \* the AdvisorModelOutputs a provider may return
  Configs,      \* the configurations a run may be started with
  Models,       \* escalation models
  NoModel, NoOutput, NoEntry, Damaged, NoDecision,
  MaxRetries,   \* max_retries of the provider
  MaxRuns       \* bound: runs of the converter

Levels == 0..15
Percents == 0..100

(* level is both the deterministic level and the baseline of the policy:   *)
(* extract_features takes the two from the same table.                     *)
FeatureSets ==
  [level: Levels, experimental: BOOLEAN, falsePositives: BOOLEAN,
   highImpact: BOOLEAN, secret: BOOLEAN]

(* limit 0 stands for max_requests = None. *)
Config ==
  [mode: {"report-only", "review", "apply"}, minConfidence: Percents, maxDelta: Nat,
   confidenceBelow: Percents, escalationEnabled: BOOLEAN,
   escalationModel: Models \cup {NoModel}, failOpen: BOOLEAN, strict: BOOLEAN,
   cacheEnabled: BOOLEAN, changedOnly: BOOLEAN, limit: Nat]

ASSUME AdvisorAssumptions ==
  /\ Features \in [Rules -> FeatureSets]
  /\ Outputs \subseteq [level: Levels, confidence: Percents, review: BOOLEAN]
  /\ Configs \subseteq Config
  /\ NoOutput \notin Outputs
  /\ MaxRetries \in Nat /\ MaxRuns \in Nat

VARIABLES
  config,      \* the configuration of the run
  pc,          \* where the run is
  rule,        \* the rule being advised
  primary,     \* the primary answer for it
  escalation,  \* the escalation answer for it
  attempt,     \* failed attempts of the provider call under way
  requests,    \* telemetry.request_count
  decisions,   \* the decisions of this run
  cache,       \* the advisor cache on disk
  granted,     \* history: the run and the decision that wrote each entry
  runs         \* runs started

vars == <<config, pc, rule, primary, escalation, attempt, requests,
          decisions, cache, granted, runs>>

-----------------------------------------------------------------------------
(* policy.py *)

CriticalLevel == 13
CriticalConfidence == 90
FalsePositiveCeiling == 12
ConflictDelta == 3

Difference(a, b) == IF a > b THEN a - b ELSE b - a

(* escalation_reasons: whether there is one. *)
WarrantsEscalation(c, f, p) ==
  \/ p.confidence < c.confidenceBelow
  \/ p.review
  \/ Difference(p.level, f.level) > c.maxDelta
  \/ p.level >= CriticalLevel
  \/ f.highImpact

(* _should_escalate *)
Escalates(c, f, p) ==
  /\ WarrantsEscalation(c, f, p)
  /\ c.escalationEnabled
  /\ c.escalationModel # NoModel

Chosen(p, e) == IF e # NoOutput THEN e ELSE p

OverCeiling(f, o) == f.falsePositives /\ o.level > FalsePositiveCeiling

Conflicting(p, e) == e # NoOutput /\ Difference(p.level, e.level) > ConflictDelta

(* evaluate_policy finds no rejection reason. *)
Acceptable(c, f, p, e) ==
  LET o == Chosen(p, e) IN
  /\ ~o.review
  /\ o.confidence >= c.minConfidence
  /\ Difference(o.level, f.level) <= c.maxDelta
  /\ o.level >= CriticalLevel => o.confidence >= CriticalConfidence /\ ~f.experimental
  /\ ~OverCeiling(f, o)
  /\ ~Conflicting(p, e)

NeedsReview(c, f, p, e) ==
  \/ Chosen(p, e).review
  \/ OverCeiling(f, Chosen(p, e))
  \/ Conflicting(p, e)
  \/ c.mode = "review" /\ Acceptable(c, f, p, e)

\* Mutant: the review mode applies what it should only propose.
AcceptedInReview(c, f, p, e) == c.mode # "report-only" /\ Acceptable(c, f, p, e)
Accepted(c, f, p, e) == c.mode = "apply" /\ Acceptable(c, f, p, e)

(* evaluate_policy with an answer ... *)
Decide(c, f, p, e, status) ==
  [status |-> status,
   level |-> IF Accepted(c, f, p, e) THEN Chosen(p, e).level ELSE f.level,
   accepted |-> Accepted(c, f, p, e),
   eligible |-> Acceptable(c, f, p, e),
   review |-> NeedsReview(c, f, p, e),
   escalated |-> e # NoOutput]

(* ... and without one. *)
Preserve(f, status) ==
  [status |-> status, level |-> f.level, accepted |-> FALSE,
   eligible |-> FALSE, review |-> FALSE, escalated |-> FALSE]

-----------------------------------------------------------------------------
(* cache.py *)

Keys == Rules \X (Models \cup {NoModel})
Entry == [primary: Outputs, escalation: Outputs \cup {NoOutput}]

(* compute_cache_key: of the configuration, only the models are in the key. *)
KeyFor(r) == <<r, config.escalationModel>>

(* AdvisorCache.get, which takes an unreadable entry for a miss, for a run *)
(* that reads the cache at all.                                            *)
IsHit(r) ==
  /\ config.changedOnly
  /\ config.cacheEnabled
  /\ cache[KeyFor(r)] \notin {NoEntry, Damaged}

-----------------------------------------------------------------------------
(* How a rule's turn ends. *)

Calling == {"primary", "escalation"}

Undecided(r) == decisions[r] = NoDecision

(* The locals of advise and analyze. *)
Forget == primary' = NoOutput /\ escalation' = NoOutput /\ attempt' = 0

Decided(r, decision) ==
  /\ decisions' = [decisions EXCEPT ![r] = decision]
  /\ pc' = "idle"
  /\ Forget

(* An AdvisorError leaves the hook and the converter: the run is over. *)
Abort ==
  /\ pc' = "stopped"
  /\ UNCHANGED decisions
  /\ Forget

(* _handle_failure *)
Fail(r, status) ==
  \/ config.failOpen /\ Decided(r, Preserve(Features[r], status))
  \/ ~config.failOpen /\ Abort

(* _enforce_request_limit runs once for a call, before its first attempt. *)
\* Mutant: off by one.
LimitPassed == config.limit # 0 /\ requests > config.limit
LimitReached == config.limit # 0 /\ requests >= config.limit
MayCall == attempt > 0 \/ ~LimitReached

\* Mutant: one retry too many.
RetriesLeftOnce == attempt <= MaxRetries
RetriesLeft == attempt < MaxRetries

-----------------------------------------------------------------------------
(* The run: convert_from_config builds a service and the converter calls   *)
(* its hook for every rule.                                                *)

Init ==
  /\ config \in Configs
  /\ pc = "stopped"
  /\ rule \in Rules
  /\ primary = NoOutput
  /\ escalation = NoOutput
  /\ attempt = 0
  /\ requests = 0
  /\ decisions = [r \in Rules |-> NoDecision]
  /\ cache = [k \in Keys |-> NoEntry]
  /\ granted = [k \in Keys |-> NoDecision]
  /\ runs = 0

StartRun(c) ==
  /\ pc = "stopped"
  /\ runs < MaxRuns
  /\ config' = c
  /\ pc' = "idle"
  /\ requests' = 0
  /\ decisions' = [r \in Rules |-> NoDecision]
  /\ runs' = runs + 1
  /\ UNCHANGED <<rule, primary, escalation, attempt, cache, granted>>

EndRun ==
  /\ pc = "idle"
  /\ \A r \in Rules : ~Undecided(r)
  /\ pc' = "stopped"
  /\ UNCHANGED <<config, rule, primary, escalation, attempt, requests,
                 decisions, cache, granted, runs>>

(* advise: strict sanitisation refuses the rule. *)
RefuseSecret(r) ==
  /\ pc = "idle"
  /\ Undecided(r)
  /\ config.strict /\ Features[r].secret
  /\ Fail(r, "failed_open")
  /\ UNCHANGED <<config, rule, requests, cache, granted, runs>>

\* Mutant: the escalation answer of the entry is forgotten.
ServePrimaryFromCache(r) ==
  /\ pc = "idle"
  /\ Undecided(r)
  /\ ~(config.strict /\ Features[r].secret)
  /\ IsHit(r)
  /\ Decided(r, Decide(config, Features[r], cache[KeyFor(r)].primary, NoOutput, "cache_hit"))
  /\ UNCHANGED <<config, rule, requests, cache, granted, runs>>

(* advise: the cached answer goes through the policy of this run. *)
ServeFromCache(r) ==
  /\ pc = "idle"
  /\ Undecided(r)
  /\ ~(config.strict /\ Features[r].secret)
  /\ IsHit(r)
  /\ LET entry == cache[KeyFor(r)] IN
     Decided(r, Decide(config, Features[r], entry.primary, entry.escalation, "cache_hit"))
  /\ UNCHANGED <<config, rule, requests, cache, granted, runs>>

(* advise: the provider has to be asked. *)
Ask(r) ==
  /\ pc = "idle"
  /\ Undecided(r)
  /\ ~(config.strict /\ Features[r].secret)
  /\ ~IsHit(r)
  /\ pc' = "primary"
  /\ rule' = r
  /\ UNCHANGED <<config, primary, escalation, attempt, requests,
                 decisions, cache, granted, runs>>

(* analyze: the provider answers the primary call ...                      *)
\* Mutant: an answer that warrants an escalation is taken as it is.
AnswerPrimaryOnly(o) ==
  /\ pc = "primary"
  /\ MayCall
  /\ primary' = o
  /\ pc' = "store"
  /\ attempt' = 0
  /\ requests' = requests + 1
  /\ UNCHANGED <<config, rule, escalation, decisions, cache, granted, runs>>

AnswerPrimary(o) ==
  /\ pc = "primary"
  /\ MayCall
  /\ primary' = o
  /\ pc' = IF Escalates(config, Features[rule], o) THEN "escalation" ELSE "store"
  /\ attempt' = 0
  /\ requests' = requests + 1
  /\ UNCHANGED <<config, rule, escalation, decisions, cache, granted, runs>>

(* ... and the escalation call. *)
AnswerEscalation(o) ==
  /\ pc = "escalation"
  /\ MayCall
  /\ escalation' = o
  /\ pc' = "store"
  /\ attempt' = 0
  /\ requests' = requests + 1
  /\ UNCHANGED <<config, rule, primary, decisions, cache, granted, runs>>

\* Mutant: the count starts over when the retries are used up.
RetryWithoutEnd ==
  /\ pc \in Calling
  /\ MayCall
  /\ attempt' = IF attempt = MaxRetries THEN 0 ELSE attempt + 1
  /\ UNCHANGED <<config, pc, rule, primary, escalation, requests, decisions,
                 cache, granted, runs>>

(* analyze: a timeout, a rate limit or an unavailable provider is retried. *)
Retry ==
  /\ pc \in Calling
  /\ MayCall
  /\ RetriesLeft
  /\ attempt' = attempt + 1
  /\ UNCHANGED <<config, pc, rule, primary, escalation, requests, decisions,
                 cache, granted, runs>>

(* analyze: the last retry failed too. *)
GiveUp(status) ==
  /\ pc \in Calling
  /\ MayCall
  /\ ~RetriesLeft
  /\ Fail(rule, status)
  /\ UNCHANGED <<config, rule, requests, cache, granted, runs>>

(* analyze: credentials, a refusal, malformed or invalid output. *)
FailForGood ==
  /\ pc \in Calling
  /\ MayCall
  /\ Fail(rule, "failed_open")
  /\ UNCHANGED <<config, rule, requests, cache, granted, runs>>

(* _enforce_request_limit: the provider is not called. *)
RefuseCall ==
  /\ pc \in Calling
  /\ ~MayCall
  /\ Fail(rule, "request_limit_reached")
  /\ UNCHANGED <<config, rule, requests, cache, granted, runs>>

Verdict == Decide(config, Features[rule], primary, escalation, "success")

(* advise: the decision, and _store_cache. *)
Store ==
  /\ pc = "store"
  /\ Decided(rule, Verdict)
  /\ \/ /\ config.cacheEnabled
        /\ cache' = [cache EXCEPT ![KeyFor(rule)] =
                       [primary |-> primary, escalation |-> escalation]]
        /\ granted' = [granted EXCEPT ![KeyFor(rule)] =
                         [config |-> config, decision |-> Verdict]]
     \/ ~config.cacheEnabled /\ UNCHANGED <<cache, granted>>
  /\ UNCHANGED <<config, rule, requests, runs>>

(* _store_cache: the entry cannot be written. *)
FailToStore ==
  /\ pc = "store"
  /\ config.cacheEnabled
  /\ \/ config.failOpen /\ Decided(rule, Verdict)
     \/ ~config.failOpen /\ Abort
  /\ UNCHANGED <<config, rule, requests, cache, granted, runs>>

(* The process is killed; nothing of the run is kept. *)
Kill ==
  /\ pc # "stopped"
  /\ Abort
  /\ UNCHANGED <<config, rule, requests, cache, granted, runs>>

(* An entry on disk becomes unreadable, or fails its validation. *)
DamageEntry(k) ==
  /\ cache[k] \notin {NoEntry, Damaged}
  /\ cache' = [cache EXCEPT ![k] = Damaged]
  /\ UNCHANGED <<config, pc, rule, primary, escalation, attempt, requests,
                 decisions, granted, runs>>

ProviderStep ==
  \/ \E o \in Outputs : AnswerPrimary(o) \/ AnswerEscalation(o)
  \/ Retry
  \/ \E status \in {"rate_limited", "failed_open"} : GiveUp(status)
  \/ FailForGood
  \/ RefuseCall
  \/ Store
  \/ FailToStore

Next ==
  \/ \E c \in Configs : StartRun(c)
  \/ EndRun
  \/ \E r \in Rules : RefuseSecret(r) \/ ServeFromCache(r) \/ Ask(r)
  \/ ProviderStep
  \/ Kill
  \/ \E k \in Keys : DamageEntry(k)

Spec == Init /\ [][Next]_vars

(* Every call ends: the client is given a timeout, and the retries sleep   *)
(* for a bounded time.                                                     *)
FairSpec == Spec /\ WF_vars(ProviderStep)

-----------------------------------------------------------------------------
(* The properties. *)

Statuses == {"success", "cache_hit", "failed_open", "rate_limited", "request_limit_reached"}

Decision ==
  [status: Statuses, level: Levels, accepted: BOOLEAN, eligible: BOOLEAN,
   review: BOOLEAN, escalated: BOOLEAN]

(* The state has its types; in particular no call is tried more than        *)
(* max_retries + 1 times.                                                   *)
TypeOK ==
  /\ config \in Configs
  /\ pc \in {"stopped", "idle", "store"} \cup Calling
  /\ rule \in Rules
  /\ primary \in Outputs \cup {NoOutput}
  /\ pc \in {"escalation", "store"} => primary \in Outputs
  /\ escalation \in Outputs \cup {NoOutput}
  /\ attempt \in 0..MaxRetries
  /\ requests \in Nat
  /\ decisions \in [Rules -> Decision \cup {NoDecision}]
  /\ cache \in [Keys -> Entry \cup {NoEntry, Damaged}]
  /\ granted \in [Keys -> [config: Configs, decision: Decision] \cup {NoDecision}]
  /\ runs \in 0..MaxRuns

(* The calls that were answered stay within max_requests, primary and      *)
(* escalation calls taken together; calls that fail are not counted.       *)
CountedCallsBounded == config.limit # 0 => requests <= config.limit

SamePolicy(c, d) ==
  c.mode = d.mode /\ c.minConfidence = d.minConfidence /\ c.maxDelta = d.maxDelta

(* A decision served from the cache is the decision the run that wrote the *)
(* entry took, as long as the policy is configured as it was then: a hit   *)
(* neither loses the escalation nor a reason to reject.                    *)
HitAgrees ==
  \A r \in Rules :
    LET grant == granted[KeyFor(r)] IN
    decisions[r] # NoDecision /\ decisions[r].status = "cache_hit"
        /\ grant # NoDecision /\ SamePolicy(config, grant.config)
      => decisions[r] = [grant.decision EXCEPT !.status = "cache_hit"]

(* "apply is the only mode that changes the effective level": an answer    *)
(* cached by a run that applied it changes nothing in a run that does not, *)
(* a failure never changes a level, and a changed one needs no review and  *)
(* is within the maximum delta.                                            *)
OnlyApplyChangesLevels ==
  \A r \in Rules :
    decisions[r] # NoDecision /\ decisions[r].level # Features[r].level
      => /\ config.mode = "apply"
         /\ decisions[r].status \in {"success", "cache_hit"}
         /\ ~decisions[r].review
         /\ Difference(decisions[r].level, Features[r].level) <= config.maxDelta

(* Only a finished outcome is cached: an entry written in place of another *)
(* holds the escalation answer whenever the primary one escalates, so a    *)
(* failed or refused escalation leaves the rule to be asked again.         *)
OnlyFinishedOutcomesCached ==
  [][\A k \in Keys :
       cache'[k] # cache[k] /\ cache'[k] # Damaged
         /\ Escalates(config, Features[k[1]], cache'[k].primary)
         => cache'[k].escalation # NoOutput]_vars

(* Every rule that is being advised gets its decision or ends the run.     *)
AdviceEnds == pc \in Calling \cup {"store"} ~> pc \in {"idle", "stopped"}
=============================================================================
