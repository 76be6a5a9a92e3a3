# Verification of wazuh-sigma in TLA+

wazuh-sigma converts a directory of Sigma rules to one Wazuh rules XML file,
validates it, deploys it to a Wazuh manager and, on demand, tests the deployed
rules against a live agent. This directory holds TLA+ models of the parts that
keep state across steps, processes or machines, the TLC configurations that
check them, and TLAPS proofs of their main properties. File names below are
relative to `src/src/wazuh_sigma/` unless they begin with `docs/`.

## 1. Inventory

| Component | State it keeps | Operations | Interacts with | What is hard |
|---|---|---|---|---|
| Incremental service (`incremental/`) | manifest file (active, retired, next_id), cache entries, in-memory manifest, identities of the run | constructor, `process_rule`, `store_converted_fragment`, `finalize_manifest`, `save_manifest` | converter, id generator, disk | crash between writes, retries after failure, stale fragments, range limits |
| Id generator (`backend/wazuh.py:393`) | `current_id`, `used_ids` of one run | `reserve_id`, `generate_id` | backend, converter | two sources of ids in one range |
| Converter (`converter/service.py`) | elements of the run, published XML, chunk files | `convert_directory`, `convert_rule_elements`, `generate_xml_output` | all of the above | one write of three fails; errors of one rule |
| Backend lowering (`backend/wazuh.py:650`) | none | condition tree to alternatives of predicates | converter | negation, distribution, size limits |
| Field registry (`fields/`, `backend/wazuh.py:257`) | table of mappings and what was added to it | `lookup`, `resolve`, `resolve_field`, `add_mapping`, `add_custom_mappings` | backend | sources asked in order, additions that shadow a verified mapping, three modes |
| Backend emission (`backend/wazuh.py:480`) | next id | values to patterns, levels, parents, XML elements | registry, validator | patterns inside patterns, network masks, limits checked after the id is taken |
| Validator (`validator/`) | ids, groups and decoders seen in one call | `validate_all`, exit code | pipeline, deployment | two passes, warnings that hide failures, strict and lenient policy |
| Chunks and artifact writes (`ruleset_chunks.py`, `reporting.py`) | chunk directory, reports | split, atomic replace | converter | files left by an earlier run |
| Deployment (`deploy/wazuh_api.py`, `reports.py`) | report, backup | `deploy_rules`, `rollback_remote_rules` | API client, artifact, manager | lost answers, partial failure, concurrent deployers |
| API client (`deploy/client.py`) | token | one method per API call | manager | error classes, timeouts |
| Advisor (`advisor/`) | response cache, telemetry counters | `advise`, provider calls with retry, policy | converter (level override) | request limit, escalation failure, fail-open |
| Active testing (`active_testing/`) | report, remote operations | runner, Caldera polling, alert polling | Caldera, indexer | timeouts, late or foreign alerts |
| Test generation (`active_testing/openai_generator.py`) | directory of manifests, report | one request with retries per rule, write, load of the whole directory | model provider, active testing | a bad file fails all, shared paths, a process that dies over a file |
| Orchestration (`pipeline.py`, `pipeline_stages.py`, `pipeline_doctor.py`, `config.py`) | reports | convert, validate, smoke, deploy, active-test | all | stages that re-create artifacts others read |
| Sigma loading, fixtures, Windows analysis, contract, scripts | none that outlives a call | parsing, tables, reports | | |

What makes each correct:

* incremental service: an identity keeps its id for good, no two identities
  share one, a retired id is not given again, a reused fragment is what a fresh
  conversion would produce, a failed run does no harm to later ones;
* converter: ids in the XML are unique and agree with the manifest, unchanged
  rules stay, the XML follows the sources;
* deployment: nothing is replaced without the restore point that was asked for,
  a rollback restores what was found, a report means what it says;
* lowering: the alternatives mean what the condition means;
* registry and emission: a Windows rule selects verified fields only, a pattern
  selects what its Sigma values select, what is written passes the validator;
* orchestration: a command that is alone leaves artifacts that agree, the
  report of a smoke that is alone is true, a preflight smoke decides what is
  uploaded;
* advisor: the limit bounds the calls, only accepted recommendations change a
  level, a failure never does;
* active testing: a test passes only on evidence of its own run;
* test generation: a run that succeeds leaves a directory that loads, and an
  overwriting one does not depend on what earlier runs left.

## 2. Plan

1. `StableIds`, `IncrementalConversion` and its proofs (done).
2. `Deployment` and its proofs (done).
3. `RulePlanning`, `ConditionLowering` and their proofs: normalisation, lowering
   and branch planning as operators, compared with what the condition means
   (done).
4. `Advisor` and its proofs: runs over several rules; cache, limit, provider
   retries, escalation, fail-open and fail-closed, policy decisions (done).
5. `ActiveTesting` and its proofs: the runner against an agent whose operations
   and alerts may be late; timeouts and leftovers of earlier tests (done).
6. `FieldRegistry`, `Patterns`, `Validator`: the pure parts, one module each,
   and `RuleEmission` with its proofs, which composes them (done).
7. `Pipeline` and its proofs: the commands as processes over the shared files,
   with the chunk directory, the smoke, and `Validator` as the validator (done).
8. `TestGeneration` and its proofs (done).

Left to prove: operators other than those the properties lean on (the most
specific mapping of `Lookup`, the permutation behind `InOrder`). Left to model:
the incremental conversion switched off, a moved id range.

## 3. Modules

### StableIds

The promise of the manifest with everything else hidden: functions `active` and
`retired` from identities to ids, and one action that replaces them, giving new
identities fresh ids and retiring some.

### IncrementalConversion

One process runs at a time; a run walks the source files in order, one action
per file and outcome, then publishes.

| Variable | Code |
|---|---|
| `source`, `config` | the rule files; field mapping, `parent_rules`, `strict` of `pipeline.yml` |
| `saved`, `manifestExists` | the manifest file |
| `cache` | the entries directory, one entry per fingerprint |
| `published` | the rules of the published XML |
| `manifest`, `current` | `service.manifest`, the identities of the run |
| `used`, `cursor` | `used_ids`, `current_id` of the id generator |
| `elements` | the rules converted so far |
| `outcome`, `stage`, `file` | how the last run ended; where the current one is |

| Action | Code |
|---|---|
| `RefuseRun`, `StartRun` | `IncrementalConverterService.__init__` |
| `SkipFile` | a file that does not load or does not validate |
| `AbortOnIdentity`, `AbortOnEntry` | the exceptions of `process_rule`, which the converter does not handle |
| `ReuseFragment` | a cache hit, its id reserved |
| `DropRule`, `ExhaustBranches`, `RejectOversized` | the `ValueError`s the converter records before it goes on |
| `EmitRules`, `FailCacheWrite` | a conversion; a single rule is stored in the cache |
| `NothingConverted`, `PublishXml`, `WriteChunks`, `SaveManifest` and their failures | `convert_from_config`, `generate_xml_output` |
| `EditSource`, `EditConfig`, `DamageEntry`, `LoseManifest`, `Crash` | the environment |

Abstractions. A fingerprint is the tuple of the inputs it covers that can vary
here (rule, id, mapping). The range, the versions and the advisor's level are
fixed; a level override would act like another version. A conversion is known
by how many rules it plans (`Branches`) and whether its XML passes the size
checks (`Oversized`). A source is read once per run, so edits between runs are
enough. The generator's loop is given by its result (`Generates`).

### Deployment

Any number of deployers, each one invocation of the `deploy` command, against a
manager with one remote file. A step is one API call and what `deploy_rules`
does with the answer. An answer is a success, an `api_error` (`WazuhApiError`)
or an `os_error` (a bare `OSError`, as when a response times out: `urlopen`
wraps errors of sending a request in `URLError` but not those of waiting for
its response). A failed PUT may have taken effect.

| Variable | Code |
|---|---|
| `artifact` | the local XML, replaced by `Republish` |
| `remote`, `loaded`, `restarting` | external: the stored file, the file the engine runs, an accepted restart |
| `stage`, `plan` | `report["stage"]`, the options |
| `backup` | `backup_bytes` |
| `report`, `written` | the fields of the report that matter; is it on disk |
| `before`, `disturbed` | history: the remote file at the start; did anybody else write the remote file or the artifact since |

The manager is modelled as the code uses it: a restart is accepted at once and
loads the file later, and a file it refuses is not loaded. A content is known by
the gates it passes: `Invalid`, `Colliding`, `Rejected`. An answer of the
verification without a countable result is left out, as are tokens, TLS and the
names of backup files. Every deployer has a report file of its own, and writing
it does not fail. `--preflight-smoke` is a conversion before the command.

### RulePlanning, ConditionLowering

`generate_rules` for one Sigma rule, from the condition pySigma parsed to the
planned Wazuh rules. The operators are the functions of `backend/wazuh.py`, each
returning a value or the `ValueError` that ends the conversion (`Ok`, `Err`), and
an action of `ConditionLowering` is one call of `generate_rules`.

| Action (stage it leaves) | Code | Operators |
|---|---|---|
| `Build` (parsed) | `_build_condition_ir` | `BuildIR` |
| `Normalize` (built) | `_normalize_condition_ir`, `_normalize_not_ir` | `NormalizeIR`, `NormalizeNot` |
| `Lower` (normalized) | `_lower_condition_ir`, `_lower_field_predicate`, the DNF limits | `LowerIR`, with `LowerField`, `LowerAnd`, `LowerOr`, `LowerNot` of `RulePlanning` |
| `Plan` (lowered) | `_plan_child_rules`, `_collapse_lowered_alternatives` | `PlanChildRules` of `RulePlanning` |
| `Emit` (planned) | the limits of `_emit_rule` and `_assert_total_xml_size` | `EmitRules` |

`RulePlanning` is about sequences only: predicates, alternatives, a DNF. It also
says what Wazuh does with rules (`Matches`, `Holds`, `Fires`, `Alerts`): a value
is a model value for the regular expression the backend writes for it, and an
event gives each field the set of the values its text matches.

A condition is a tree of records, and a tree has a height: `TreesOver` gives the
trees over some leaves up to each height, and `MaxHeight` bounds those of the
conditions (a set of conditions always has such a bound; it is not a limit of
the code). `_normalize_condition_ir` and `_normalize_not_ir` call each other on
trees they have just made, which need not be lower, and end because each call is
one level deeper: `Normalized` and `Lowered` are therefore tables of what the
functions answer, by the number of levels left of
`max_condition_recursion_depth`, and the table for no level left is the error.

Abstractions. How a value becomes a pattern is reduced to two verdicts:
`Unlowerable` (null, exists, flagged regexes) and `Anchored` (a start anchor
after the first token, which a lookahead moves; such a value is taken to match
nothing inside one). An event carries every field that is tested, so Wazuh's
treatment of `negate` on an absent field is not told apart. Sizes are counted in
values, static and dynamic fields are alike, and a field that a rule without a
log source keeps under its own name is part of `FieldOf`.

### Advisor

Runs of the converter with the advisor on. A run advises the rules one at a
time, in any order.

| Variable | Code |
|---|---|
| `config` | `AdvisorConfig` of the run; limit 0 is `max_requests = None` |
| `pc`, `rule`, `primary`, `escalation`, `attempt` | the locals of `advise`, of its two provider calls and of `analyze`'s retry loop |
| `requests` | `telemetry.request_count` |
| `decisions` | the decisions of the run |
| `cache` | the advisor's cache directory |
| `granted` | history: the configuration and decision each entry was written with |

| Action | Code |
|---|---|
| `StartRun`, `EndRun` | a service is built; every rule has been advised |
| `RefuseSecret` | strict sanitisation refuses the rule |
| `ServeFromCache`, `Ask` | a hit, which goes through the policy again; a miss |
| `AnswerPrimary`, `AnswerEscalation` | an answer of the provider |
| `Retry`, `GiveUp`, `FailForGood` | the errors of `analyze`: retried, retried too often, not retried |
| `RefuseCall` | `_enforce_request_limit` |
| `Store`, `FailToStore` | the decision and `_store_cache` |
| `Kill`, `DamageEntry` | the environment |

The policy is a set of operators (`Acceptable`, `NeedsReview`, `Decide`), one
for each rejection or review reason. A rule stands for its sanitised request, so
a changed rule is another rule; the versions in the cache key are fixed.
Confidences are percents. Texts, flags and request ids are left out.

### ActiveTesting

Runs of the `active-test` command, one after the other, against Caldera and the
Wazuh indexer. A step is one request and what the code does with its answer. As
in `Deployment` a request fails in two ways: with an `ActiveTestError`, which
fails the test (or, before the tests, the run), or with anything else (a
response that times out, a payload of another shape), which ends the run without
a report. A failed request may have created its operation.

| Variable | Code |
|---|---|
| `tests` | the manifests, by path |
| `pc`, `current` | the next request, the test being run |
| `polls`, `sawClosed` | the wait under way; the state of the operation, read before its links |
| `report`, `written` | the report of the run, the report file; `run` tells the reports of two runs apart |
| `outcome`, `runs` | how the last run ended, runs so far |
| `operation`, `started` | external: the operation being waited for, all operations created |
| `index` | external: the alerts |

| Action | Code |
|---|---|
| `StartRun`, `RefuseManifests` | `run_active_detection_tests`, `load_active_tests` |
| `PassSetup`, `FailSetup` | `health`, `find_live_agent`, the group of the agent |
| `Create`, `CreateOperation` | `create_ability`, `create_adversary`, `create_operation` |
| `PollState`, `PollLinks` | one poll of `wait_for_operation`: two requests |
| `Search` | one poll of `wait_for_alert` |
| `TimeOut`, `FailRequest` | a deadline, an `ActiveTestError`: the test fails and the next is run |
| `Escape` | any other error |
| `Finish`, `FailToWrite` | the verdict and the report |
| `Kill`, `LinksMove`, `OperationCloses`, `AlertArrives` | the environment |

Abstractions. A manifest says which rules its command raises, which rules its
expectation accepts and what the command says: a fixed marker, the template, or
neither. An operation runs its command at any later time, or never, also after
its test has failed and after the run. An alert keeps the texts of the command
that raised it. The links of an operation are none, active or all terminal. A
deadline lets at least one and at most `MaxPolls` polls through. The model
keeps every hit of a search, of which the code reports the first. The
directory of manifests does not change, and two runs do not overlap.

### FieldRegistry, Patterns, Validator

Three modules of operators, without variables.

`FieldRegistry` holds the table of `fields/windows.py` as a sequence, in the
order of the file, because equally specific mappings are told apart by their
position only. `Lookup` is the stable sort by specificity, `Resolve` the three
modes, `ResolveField` the order in which the backend asks: Wazuh's own fields,
the configuration's overrides, the registry, the older default table. A context
key the rule does not have passes every restriction, as in `applies_to`.

`Patterns` has two halves. The first is the code: what
`_pattern_for_sigma_value` makes of a string, a number, a network or a regular
expression, and how patterns of one field are put into an alternation or a
chain of lookaheads, with the scoping of leading flags and the test for
lookahead safety. The second is what the target does with it: `Matches` is the
search of PCRE2, `SigmaMatches` says what a value means without patterns. A
pattern is a tree of branches and atoms, never a text; an octet of an address
is one symbol. A search is the set of the positions it can be at after each atom
(`Reach`), and a string matches if its text can be cut into pieces that fit its
parts (`PartFits`), so neither half follows the other's steps.

`Validator` is the two passes of `validate_all` over a set of files, its reports
and its exit code. A pattern that is too long or has too many bars is warned of
and never compiled: `PatternResult` has that order.

### RuleEmission

`SigmaRule.validate` and `generate_rules` for a directory of rules, one rule at
a time, and the validator on the file written at the end. It composes the three
modules above.

| Variable | Code |
|---|---|
| `config` | `WazuhBackendConfig`: mode, overrides, parents, range |
| `registry`, `bypassed` | `FieldMappingRegistry.mappings`; history: a mapping to a bare name was added |
| `pending`, `nextId`, `emitted` | the rules left, `current_id`, the rules of the file |
| `reports` | what `validate_all` says of it |

| Action | Code |
|---|---|
| `AddOne`, `AddBatch` | `add_mapping`, which knows no mode, and `add_custom_mappings`, all or none |
| `SkipRule`, `ConvertRule` | a rule the converter records as an error; one it converts, or rejects for its pattern's length after its id is taken |
| `ValidateFile` | `validate_all` |

A condition is a conjunction of groups of values of one field, of which at most
one has alternatives; every other shape is `ConditionLowering`'s. Lengths are
counted in atoms, so `MaxPatternLength` and `MaxRegexLength` are small and keep
their order. Left out: tags, MITRE and descriptions, the total size of a rule.

### Pipeline

The commands convert, validate, smoke (with and without Docker) and deploy (with
and without a preflight smoke) as processes that take the steps of `pipeline.py`
and `pipeline_stages.py` one at a time over the files they share. `First` and
`After` are the programs; `Fail` is an error a stage expects, `Escape` one it
does not.

| Variable | Code |
|---|---|
| `source` | the rule directory |
| `xml`, `chunks`, `listing`, `saved`, `report`, `smoke` | the XML, the chunk files, their `manifest.json`, the id manifest, the conversion report, the smoke report |
| `entries` | the conversion cache holds entries |
| `remote` | external: the manager's file |
| `command`, `step`, `strict`, `failed` | what each process runs, where it is, its policy, the stage it failed in |
| `held`, `out`, `written` | the manifest, rules and count of chunks it has in memory |
| `solo` | history: no other command ran since it began |

| Action | Code |
|---|---|
| `Start`, `Exit`, `Kill`, `Edit` | the shell, and the environment |
| `Load`, `Convert` | the service is built, or refuses entries without a manifest (`Refuses`); `convert_directory`, which stores entries |
| `WriteXml`, `WriteChunk`, `WriteListing`, `SaveManifest`, `WriteReport` | `generate_xml_output`, `write_ruleset_chunks`, `finalize_manifest`, the report: each an atomic replace that may fail |
| `ValidateOutput`, `DockerSmoke`, `WriteSmokeReport` | the stages of `run_smoke` |
| `ValidateArtifact`, `Upload` | `validate_local_rules_file`, and all `deploy_rules` does with the manager |

A rule is its identity and gives one element. Of the cache the model knows whether
it has entries (a conversion that raises, or is killed, may have stored some),
because a first run that does not get to save its manifest makes every later one
refuse to start. What else `IncrementalConversion` says of a conversion that fails
half way (fragments, branches, sizes) is not said again.
`Passes` is the operator of `Validator` on the XML, with one warned rule. The
rules of a directory are converted in the order of their identities (`InOrder`,
with `Place`), in which the new ones are numbered.

### TestGeneration

Runs of `generate-active-tests`. A manifest's path is the slug of its rule's
title, so that two rules may share one, and the directory is loaded as a whole
after every write and once more at the end.

| Variable | Code |
|---|---|
| `slugs`, `files` | the rules' paths; what is in each file |
| `stage`, `next`, `attempt`, `failures`, `overwrite` | the loop over the rules and the retries of a request |
| `answered` | history: every request of the run had a usable answer |
| `outcome` | how the last run ended |

| Action | Code |
|---|---|
| `StartRun`, `SkipRule` | the run; a path that exists, without `--overwrite` |
| `Retry`, `RequestFails`, `ResponseFails` | the classified errors of `_invoke`, and of an answer |
| `WriteManifest`, `LoadManifest`, `Finish` | `_generate_one`, and the last load |
| `Die`, `Edit` | a process that dies, perhaps over a file; a hand |

A manifest the generator writes always loads: the schema and the loader agree on
it, and it is not modelled in detail.

## 4. Runs

| Run | Question | Bounds |
|---|---|---|
| `incremental_steady` | ids, unchanged rules and retirement over repeated runs; does the output catch up with the sources | 2 files, 3 identities, 2 contents, 4 ids, strict and lenient cache, 3 edits, damages or losses |
| `incremental_faults` | soundness and refinement with every backend behaviour, crash and failing write | 2 files, 2 identities, 5 contents, 2 mappings, both cache modes, 3 ids, 3 edits or faults |
| `deployment` | restore points, rollbacks, reports | 2 deployers, 7 option combinations, 4 contents, 1 republication |
| `lowering` | do the emitted rules mean what the condition means, and is nothing expressible refused | 2 Wazuh fields, 4 Sigma fields, 5 values, every tree of the shapes listed in `MCConditionLowering`, up to five operators deep, limits between 2 and 5 |
| `advisor` | limit, cache, policy, retries | 2 rules, 3 answers, 6 configurations, 2 runs, 1 retry, kills, damaged entries |
| `active` | evidence, reports, deadlines | 3 directories of 2 tests (marker of the run, fixed marker, query), 2 rules, 2 runs, 2 polls per wait |
| `emission` | fields, patterns, levels, parents, and the validator's verdict | the whole table of mappings and up to 2 additions out of 9, 4 configurations, 7 fields in 6 log sources, values of every kind and pairs of them, every prefix length, texts of up to 3 of 3 characters and 24 addresses |
| `pipeline` | agreement of the artifacts, truth of the report of a smoke that is alone, the preflight gate | 3 commands out of 6 kinds, 2 processes, 2 directories of 3 rules out of 4 identities of which 1 converts to nothing and 1 is warned of, 3 ids, 2 chunks, 1 edit, 1 failure |
| `generation` | what a run leaves in the directory | 3 files, 3 directories of 2 or 3 rules, 2 retries, 3 runs, 2 edits |

Passing runs show the properties that are invariants, action properties,
refinements and liveness of the code as it is. The bounds are small but reach
what matters: the three ids of `incremental_faults` run out, the four of
`incremental_steady` number two rules and two that replace them, three identities
in two files force retirement, reordering and reuse, and one three-edit history holds a crash, an
edit and a recovery. Two deployers are the least that disturb each other, and
also give every sequence of two deployments; the four contents fail each gate
once. Files are sorted in the code and visited in that order in the model. The
limits of `lowering` are small enough that each is exceeded by some tree, except
those the run shows unreachable for supported leaves: `SupportedNeverRejected`
says that a grouped NOT, an empty condition and an unplanned OR never reach the
lowering. The two rules of `advisor` differ in everything the policy looks at,
the answers lie on both sides of its thresholds, and a second run meets the
cache of a first one under every other configuration. In `active` two tests and
two runs are the least for an alert to be that of another test and that of an
earlier run; the tests accept each other's rules, so only markers tell their
alerts apart, and two polls let a wait go on and end.

In `emission` the fields are verified everywhere, in one log source, or
nowhere; the additions are safe, unsafe, malformed, shadowing, or for another
product, alone and in batches; the range holds two ids, so that it ends; every
pair of string and regular expression is merged both ways; the addresses lie on
both sides of every boundary the networks have. In `pipeline` two commands may
overlap in any way and the third finds what they left; three ids for four
identities run out, and two chunks of up to three rules do not divide evenly, or
are one chunk fewer than an earlier run wrote. The violation runs keep to one
cause each: `incremental_branch_drops_rule` has six ids, more than its rules can
take, and `pipeline_manifest_unvalidated` one process, one edit and no fault.
In `generation` two rules share a path and the directory's order is not theirs.

Deadlock is checked for the incremental runs. A deployer ends, a rule that is
emitted or rejected is final, and the advisor, the active tests, the commands
and the generation stop after their last run, so the other runs do not check it.

Fairness. `FairSpec` assumes weak fairness of a step of a run and of starting a
run: the converter is a sequential program that always has a next step, and a
scheduler starts it again and again. The environment is not fair, and its
budget ends. `Converges` speaks of convertible sources: single-branch rules that
pass validation, with distinct and unretired identities, an id left for each
identity not yet numbered (`Unnumbered`), no damaged entry of theirs in a strict
cache, and no refusal by the service. Two published rules, and a rule that
replaces a retired one, are within it. The advisor's `FairSpec` assumes that a provider step
happens whenever one can: the client is given a timeout and the retries sleep
for a bounded time. Starting, ending and killing a run are not fair.
The active tests' `FairSpec` assumes the same of a step of the runner: each
request has a timeout and each wait a deadline. Caldera, the agent and the
indexer are not fair, so `RunsEnd` holds if they never act.

### Disagreements with the documentation

| Run | Documentation | Code |
|---|---|---|
| `incremental_branch_drops_rule` | unchanged rules are "not silently dropped" (`docs/INCREMENTAL_CACHE.md:230`) | branch ids ignore the ids the manifest holds for later files, and those rules are left out |
| `active_template_marker` | "At runtime `{{marker}}` is replaced", "the alert query requires that marker" (`docs/ARCHITECTURE.md:155`), with `marker: "{{marker}}"` in the manifest (`:152`) | only the command and its cleanup are substituted (`caldera.py:93`); the query searches for the template itself (`alerts.py:167`) |
| `pipeline_manifest_unvalidated` | "Manifest is updated only after final XML validation succeeds" and, if it fails, "the old manifest remains active", "the old XML remains published" (`docs/INCREMENTAL_CACHE.md:166-171`) | `generate_xml_output` replaces the XML and the manifest and validates nothing; the validator is the next stage (`pipeline_stages.py:193`), so that a strict smoke that fails there leaves both replaced |

The same faults explain the limits of the passing runs: `UnchangedRulesKept`
needs single-branch rules, and `OwnAlertFound` manifests whose marker is not the
template. `SmokeReportTruthful` speaks of a smoke no other command ran beside:
the validator reads the XML again, and a second conversion may have replaced it.
It speaks of the reports that are written: an error no stage expects leaves none,
as `tests/test_pipeline.py:776-815` wants, and the report before it stays.
`SoloRunRestores` speaks of runs that end without a failure: one that the service
refuses, for entries without a manifest, repairs nothing.
Others were met while modelling and have no run of their own.

* Incremental conversion. An id is kept "across all future runs"
  (`docs/INCREMENTAL_CACHE.md:65`) with "no partial state" (`:161`), but the XML
  is replaced before the manifest (`converter/service.py:401`), so
  `PublishedIdsStable` needs runs that are not killed in between. Orphaned
  entries "don't affect active state" (`:172`), but entries without a manifest
  make the service refuse to start (`incremental/service.py:59`). The
  fingerprint "includes every input that can affect generated XML"
  (`incremental/fingerprint.py:33`), but `parent_rules` is not in it, so
  `ElementsCurrent` needs a fixed one.
* Deployment. A failure after the report is initialised is reported
  (`docs/RUNBOOK.md:228`), but an `OSError` of authentication or of the rollback
  passes every handler (`deploy/wazuh_api.py:232`).
* Advisor. `docs/ADVISOR.md:113` says that `max_requests` caps provider calls;
  calls that fail and retries are not counted. `CountedCallsBounded` claims the
  cap for the calls that are.
* Patterns. `wazuh.py:1329` takes every start-anchored regex for safe as a
  lookahead. `^a|b` is not: inside one its second alternative is tried at one
  position only. `PatternsExact` leaves out the chains that have one
  (`PartlyAnchored`), and them only.
* Parents. `docs/wazuh-parent-rule-mapping.md:68-88` gives another order of
  priority than `wazuh.py:597`, where the service comes before the category and
  the product. An event id counts wherever the detection names it, in a filter too.
* Fields. `docs/windows-evtx-field-mapping.md` lists `NewProcessName` as
  verified; only the default table has it, which strict mode does not ask.
  `docs/PIPELINE.md:145` says custom mappings are validated at startup; the
  overrides of the configuration are not.
* Validator. A network pattern has more than five bars, so a rule with one is
  warned of and fails a strict validation. A pattern that is too long or has too
  many bars is never compiled, and elements of Wazuh's own fields are not looked
  at, so that `EmittedPassesValidator` says nothing of those that do not compile.

## 5. Proofs

`IncrementalConversion_proofs` proves, for every number of files and identities,
every range, backend, configuration and set of faults:

* `TypeCorrect`, `ManifestsSound`, `UniquePublishedIds`;
* `PublishedAgrees` and `ImplementsStable`, assuming that the manifest file is
  never lost (a lost manifest forgets every id);
* `ElementsAreCurrent`, assuming one value of `parent_rules`, which the
  fingerprint does not cover;
* `RetiredIsGone`, assuming that no file loads without passing validation
  (`Invalid = {}`): such a file is skipped, and its rule retired, while it is
  still there;
* `UnchangedRulesAreKept`, that an unchanged rule stays in the XML of the next run
  that replaces it (its id is the next theorem's), assuming that no content is planned as several rules
  (`Single`): branches take ids of later files, as `incremental_branch_drops_rule`
  shows;
* `PublishedIdsAreStable`, that from one published XML to the next an id stays with
  its identity and an identity keeps the id of its main rule, assuming `Single` and that no run ends between the
  XML and the manifest (`Unbroken`: no crash and no failing write in between).
  A lost manifest is allowed: the entries that remain make the service refuse.

The runs make the same assumptions in their constants, and each hypothesis names
a case in which the code does break the property.

The first five rest on one inductive invariant, `IInv`. `PublishedIdsUnique` alone is not
inductive: it follows from the elements of the run being unique, which needs
every element's id to be among the ids in use (`ElementsOwned`), which for a
reused fragment needs each cache entry to be filed under the id it carries
(`EntriesFiled`, with `Usable`). `ImplementsStable` needs in addition that the
manifest in memory extends the one on disk (`ExtendsSaved`): it differs only in
identities of the present run that the disk does not know. Between runs nothing
is left in memory (`MemoryEmpty`), so a crash re-establishes it all. The
lemmas on the manifest operators (`Enrol`, `RetireUnseen`, `Rebased`) are stated
once. The other four add three more invariants, each inductive given `IInv`.
`CurrentInv`: an entry and an element agree with the source they were made of in
everything the fingerprint covers, and every file behind the current one has had
its identity seen. `SingleInv`: each id in use belongs to an identity seen in
this run, and everything convertible behind the current file has an element;
without branches, nothing can take the id of a file that is still to come.
`RecordedInv`: whenever the service can start, each published id is in the saved
manifest under its identity, which is what a run that ends half way breaks. The
assumptions are those the module declares on its constants.

`Deployment_proofs` proves, for any number of concurrent deployers:

* `TypeCorrect`;
* `RestorePointKept`: an invariant strengthened by what holds before the backup
  (an undisturbed deployer still sees the file it found) and by the options
  having been admitted;
* `FailureRestores`: from the same invariant, a deployer that may roll back
  never ends without trying to, and an undisturbed rollback restores the file
  it found, whether or not the failed upload had taken effect;
* `SuccessServed`: a second invariant (`GatesInv`) carries, from stage to stage,
  which gates the artifact of an undisturbed deployer has passed and that the
  restart it asked for is under way or done, so that a report of success leaves
  the engine running the artifact.

`Advisor_proofs` proves, for every set of rules, answers, configurations and
models and any number of retries and runs, each property from `TypeOK` and a
strengthening of its own:

* `TypeCorrect`;
* `CountedCalls`: a call is counted when it returns, so the limit follows only
  if a call under way still has room (`RoomWhileRetrying`) and an attempt count
  is never left over from another call (`NoStaleAttempt`);
* `LevelsChangedOnlyByApply`: every decision is moderate when it is taken, and
  the configuration does not change within a run;
* `OnlyFinishedCached`: at `store` an answer that escalates has its escalation;
* `HitsAgree`: each entry and the history of its writing agree
  (`GrantsMatch`), and the policy looks at nothing but what `SamePolicy` fixes.

`ConditionLowering_proofs` proves, for every set of conditions of any height,
every table of fields and all limits:

* `TypeCorrect`, `NormalizationIsExact`, `RulesAreExact`,
  `SupportedIsNeverRejected`;
* `PlanExact`, of the plan alone: the rules planned for a DNF, merged or one for
  each alternative, alert on the events the DNF is true of.

The proof has three layers. The first is about sequences: a `Dedupe` loses no
element, the product of two DNFs is their conjunction, common predicates that
are factored out and the alternation of the rest say what the alternatives said
(`FactorExact`), a group of negated predicates is the negation of their
alternation (`CollapseGroupExact`); each lemma also says for what reason an
operator can refuse. The second is about trees. A definition by height or by
level gets a meaning only once a function with these values exists:
`RecursionExists` constructs one from finite runs, and `TreeLevels`,
`NormalizedLevels` and `LoweredLevels` follow from it. What the functions answer
is then proved for all levels by counting up, with the predicates `BuiltAt`,
`NormalOf`, `NotOf` and `LowerOf`. They say more than the properties: that a
normalised tree fits both its old height and the levels that were left, so that
the lowering, which has the same limit, never finds it too deep; and which
operator its root has, so that flattening leaves no AND under an AND. The third
layer is the state: `LoweringInv` has one conjunct for each stage of
`generate_rules`.

`ActiveTesting_proofs` proves, for every directory of manifests, any number of
runs and any length of the waits, from one inductive invariant:

* `TypeCorrect`: the report has one result for each test before the current one
  (`InStep`);
* `EvidenceIsOwn`: a search by the marker of the run finds only alerts of that
  operation, because no other command says it (`MarkerIsOwn`), and a recorded
  result does not change;
* `ReportsTruthful`: the failures are counted exactly (`FailuresCounted`);
* `OwnAlertsFound`, assuming that every manifest is searchable: its fixed marker,
  or the template when it has none, is in its command. The documented manifest
  is not.

The module assumes of the constants that a fixed marker is no fresh marker.

`RuleEmission_proofs` proves `StrictVerified` for every table of verified
mappings (`BuiltinAssumption`, which TLC evaluates for the repository's own),
every set of rules, configurations and additions. The property is inductive
only with one on the registry (`RegistryInv`): as long as nobody asked for an
unsafe mapping, every mapping in the table either leads to a verified target or
cannot apply to a Windows rule. A lookup returns one that applies
(`LookupApplies`, for which the finite sets of a mapping give specificities that
can be compared), and a rule emitted earlier stays sound when the table grows.

It proves of the patterns, for every value and every text:

* `ValueExact`: the pattern of a string, a number, a network or a regular
  expression matches what the Sigma value matches. For strings the positions
  `Reach` finds are, part by part, the ends of the pieces the text can be cut
  into (`StringMatches`); for networks a block of addresses is an interval in
  each octet (`OctetBlock`, from the powers of two), and the other octets are
  fixed or free;
* `GroupExact`: the same of a group of values merged into an alternation or a
  chain of lookaheads, with leading flags scoped to their branch. A lookahead of
  a safe pattern holds somewhere exactly if the pattern matches
  (`LookaheadExact`), except for an expression whose first alternative is
  anchored and whose others are not (`PartlyAnchored`), which `PatternsExact`
  leaves out and section 4 reports.

And of the file that is written, for every directory, configuration and
registry: `TypeCorrect`, `PatternsAreExact` and `WrittenPasses`, that the
validator fails nothing. The inductive invariant, `WrittenInv`, says of each rule
that its elements are the patterns of the groups of its Sigma rule, that ids rise
within the range, and that every rule has a description and a level. Assumed are
a range as `config.py:142-151` checks it (`ConfigsAssumption`; the
`sigma-to-wazuh` command builds its configuration without that check, and ids
past the maximum are then errors of the validator), and rules as the parser
leaves them (`DirectoriesAssumption`: flags at the front of an expression, where
elsewhere it would not compile).

`Pipeline_proofs` proves `TypeCorrect`, `SoloRunsRestore`,
`SmokeReportsTruthful` and `PreflightUploadsGated` for any number of processes,
any agenda, edits, failures and kills, and any number of chunks. `SoloRunsRestore` speaks of a
conversion, `SmokeReportsTruthful` of a smoke, that no other command ran beside; `SoloRunsRestore` relates what it left (XML, chunks, listing, manifest,
report) to what it converted. The inductive invariant says
that processes keep to their programs (`Shape`), that at most one of them is
alone (`Alone`), and that, while one is, the XML is its own once it has written
it and passes once the validator has passed it (`Fresh`). `SoloRunsRestore` has an
invariant of its own (`FilesInv`): a manifest on disk or in memory stays in
the range, each chunk a process that is alone has written is its part
of the rules it holds, and every file it is past is the one it wrote. That the
chunks of a directory, one after the other, are the XML is `SplitJoins`, for any
rules and any number of chunks.

`TestGeneration_proofs` proves `TypeCorrect`, `SuccessLoads` and
`OverwriteHeals` for every directory, any number of rules, retries and runs.
Between the runs nothing is left (`AtRest`); during one, a rule that was seen to
and has not failed has a file, and one that was answered has its own or that of
a later rule (`Running`).

Only model-checked: `Converges`, `AdviceEnds` and `RunsEnd`, whose liveness is
out of the prover's reach, and the three disagreements with the documentation,
which are counterexamples. Every invariant and every action property of a
passing run is proved.

The assumptions on constants are declared with them and evaluated by TLC in every
run: `LoweringAssumption` (limits of at least one, conditions within
`MaxHeight`), `ValidatorAssumption` (an absent attribute is no number),
`RangeAssumption` of `Pipeline` (the range `config.py:146-151` admits), and those
named above.

## 6. Not modelled

* Conversion with `incremental.enabled: false`, which numbers every run anew,
  and a moved id range.
* Late application of a timed-out upload: it would need a queue of requests at
  the manager. Two backups in one second, which would share a file name.
* Of the backend, tags, the total XML size and `_add_detection*`,
  `_pattern_for_modifiers` and `_pattern_for_all_modifier`, which nothing calls.
* Of the validator, performance notes, sample logs and the formats of reports.
* Of the advisor, feature extraction, the sanitiser and the prompts; its
  escalation settings are not in the cache key, which is recorded as a hazard.
* `pipeline_doctor.py`, `windows/`, `fixtures/` and the scripts: they read files
  or tables and report, without a state that outlives the call.
  `config.py`: the parsing of the configuration, whose values are constants
  here. `wazuh_contract.py`: constants. pySigma, which parses the rules.
