------------------------ MODULE IncrementalConversion ------------------------
(***************************************************************************)
(* Repeated runs of the incremental converter over one source directory.   *)
(*                                                                         *)
(* A run is one process: it loads the manifest, walks the sorted source    *)
(* files, gives every rule the id its identity holds, reuses a cached      *)
(* fragment or converts afresh, then replaces the published XML, writes    *)
(* the chunk files and, last of all, replaces the manifest.  Between the   *)
(* runs only `saved', `manifestExists', `cache' and `published' survive;   *)
(* the environment edits the sources and the configuration, damages cache  *)
(* entries, loses the manifest, kills the run or fails one of its writes.  *)
(*                                                                         *)
(* A source file is read once per run, so an edit made while a run is      *)
(* going on is one made before or after it: edits happen between runs.  A  *)
(* file that cannot be loaded (YAML or pySigma error) leaves the same      *)
(* state behind as an absent one, and both are NoRule here.                *)
(***************************************************************************)
EXTENDS Integers, FiniteSets

CONSTANTS
  NumFiles,     \* files that may be in the source directory, in sorted order
  Identities,   \* rule identities a file may hold
  Versions,     \* contents a rule may have
  Branches,     \* XML rules the backend plans for a content (0: unsupported)
  Oversized,    \* contents whose XML exceeds the limits checked after emission
  Invalid,      \* contents that load but fail SigmaRule.validate
  NoRule,       \* a file that is absent or cannot be loaded
  Mappings,     \* field mapping configurations
  Parents,      \* parent_rules configurations
  RuleIdStart, RuleIdEnd,  \* the owned id range
  StrictModes,  \* values of incremental_cache.strict
  Faults,       \* the failures the environment may inject
  Budget        \* how many edits and failures it may make (a bound)

Rule  == [identity : Identities, version : Versions]
Ids   == RuleIdStart..RuleIdEnd
Files == 1..NumFiles
IdCursors == RuleIdStart..(RuleIdEnd + 1)
NoId  == 0

Config == [mapping : Mappings, parents : Parents, strict : StrictModes]

FaultKinds == {"crash", "cache_write", "xml_write", "chunk_write",
               "manifest_write", "damaged_entry", "lost_manifest"}

ASSUME FilesAssumption    == NumFiles \in Nat
ASSUME RangeAssumption    == /\ RuleIdStart \in Nat \ {0}
                             /\ RuleIdEnd \in Nat
                             /\ RuleIdStart <= RuleIdEnd
ASSUME VersionsAssumption == /\ Branches \in [Versions -> Nat]
                             /\ Oversized \subseteq Versions
                             /\ Invalid \subseteq Versions
ASSUME NoRuleAssumption   == NoRule \notin Rule
ASSUME EnvAssumption      == /\ StrictModes \subseteq BOOLEAN
                             /\ Faults \subseteq FaultKinds
                             /\ Budget \in Nat

VARIABLES
  source,         \* what each source file holds
  config,         \* the pipeline configuration in force
  budget,         \* edits and failures the environment has left
  saved,          \* the manifest file (empty when there is none)
  manifestExists, \* is there a manifest file
  cache,          \* the cache entries on disk
  published,      \* the rules of the published XML artifact
  outcome,        \* how the last run ended
  stage,          \* where the current run is ("idle": there is none)
  file,           \* the next source file to convert
  manifest,       \* the manifest the run holds in memory
  current,        \* identities processed by this run
  used, cursor,   \* used_ids and current_id of the id generator
  elements        \* the rule elements converted so far

env   == <<source, config>>
disk  == <<saved, manifestExists, cache, published>>
ids   == <<used, cursor>>
vars  == <<source, config, budget, saved, manifestExists, cache, published,
           outcome, stage, file, manifest, current, used, cursor, elements>>

(***************************************************************************)
(* Data.                                                                   *)
(***************************************************************************)
Manifest == [active : [Identities -> Ids \cup {NoId}],
             retired : [Identities -> Ids \cup {NoId}],
             next_id : IdCursors]

Element == [id : Ids, identity : Identities, version : Versions,
            mapping : Mappings, parents : Parents, base : BOOLEAN]

Entry == [key : Rule \X Ids \X Mappings, fragment : Element, intact : BOOLEAN]

EmptyManifest == [active  |-> [i \in Identities |-> NoId],
                  retired |-> [i \in Identities |-> NoId],
                  next_id |-> RuleIdStart]

\* Mutant: a fingerprint that forgets the field mapping.
FingerprintSansMapping(r, id) == <<r, id, CHOOSE m \in Mappings : TRUE>>

\* What the fingerprint of a conversion covers: the rule, its id and the
\* mapping are in it, parent_rules is not.
Fingerprint(r, id) == <<r, id, config.mapping>>

\* The element the backend emits for rule r under the given id.
Emitted(r, id, isBase) ==
  [id |-> id, identity |-> r.identity, version |-> r.version,
   mapping |-> config.mapping, parents |-> config.parents, base |-> isBase]

(***************************************************************************)
(* The manifest manager.                                                   *)
(***************************************************************************)
IsActive(m, i)  == m.active[i] # NoId
IsRetired(m, i) == m.retired[i] # NoId

\* Mutant: no check of the retired identities.
ResolvableThoughRetired(m, i) == IsActive(m, i) \/ m.next_id <= RuleIdEnd

\* validate_and_update returns an id for i instead of raising.
Resolvable(m, i) ==
  \/ IsActive(m, i)
  \/ ~IsRetired(m, i) /\ m.next_id <= RuleIdEnd

\* Mutants: an active identity is numbered anew; next_id is not advanced, or
\* is advanced for an active identity too.
IdForAnew(m, i) == m.next_id
EnrolSansAdvance(m, i) ==
  IF IsActive(m, i) THEN m ELSE [m EXCEPT !.active = [@ EXCEPT ![i] = m.next_id]]

EnrolAdvancing(m, i) ==
  [m EXCEPT !.active = [@ EXCEPT ![i] = IF @ = NoId THEN m.next_id ELSE @],
            !.next_id = @ + 1]

\* The id it returns, and the manifest it leaves.
IdFor(m, i) == IF IsActive(m, i) THEN m.active[i] ELSE m.next_id
Enrol(m, i) ==
  IF IsActive(m, i) THEN m
  ELSE [active  |-> [m.active EXCEPT ![i] = m.next_id],
        retired |-> m.retired,
        next_id |-> m.next_id + 1]

\* detect_deleted_identities: what is active and was not seen is retired.
RetireUnseen(m, seen) ==
  [active  |-> [i \in Identities |-> IF i \in seen THEN m.active[i] ELSE NoId],
   retired |-> [i \in Identities |->
                  IF i \notin seen /\ IsActive(m, i) THEN m.active[i]
                  ELSE m.retired[i]],
   next_id |-> m.next_id]

\* check_final_integrity does not raise.
Integrity(m) ==
  /\ \A i, j \in Identities :
       /\ i # j /\ IsActive(m, i) => m.active[i] # m.active[j]
       /\ IsActive(m, i) => m.active[i] # m.retired[j]
  /\ \A i \in Identities : m.active[i] < m.next_id /\ m.retired[i] < m.next_id

(***************************************************************************)
(* The id generator.                                                       *)
(***************************************************************************)
\* Mutants: an id given before is reserved again; ids must be reserved in
\* ascending order.
ReservableTwice(id) == id \in Ids
ReservableAscending(id) == id \in Ids /\ id >= cursor

Reservable(id) == id \in Ids /\ id \notin used
CursorAfter(id) == IF id >= cursor THEN id + 1 ELSE cursor

\* The unused ids in from..to-1, and: is `to' where current_id stands after
\* k calls of generate_id that began with current_id at `from'.
Unused(from, to) == (from..(to - 1)) \ used
Generates(from, to, k) ==
  /\ Cardinality(Unused(from, to)) = k
  /\ to = from \/ to - 1 \in Unused(from, to)
CanGenerate(from, k) == Cardinality(Unused(from, RuleIdEnd + 1)) >= k

(***************************************************************************)
(* The conversion cache.                                                   *)
(***************************************************************************)
Entries(key) == {e \in cache : e.key = key}

\* A damaged entry is an unreadable or mismatched file as well as one whose
\* fragment fails validate_fragment: a miss, or an exception when strict.
Usable(e, id) == e.intact /\ e.fragment.id = id

\* put: the entry under the fragment's fingerprint is replaced.
Put(key, fragment) ==
  {e \in cache : e.key # key} \cup
  {[key |-> key, fragment |-> fragment, intact |-> TRUE]}

(***************************************************************************)
(* One run.                                                                *)
(***************************************************************************)
Init ==
  /\ source \in [Files -> Rule \cup {NoRule}]
  /\ config \in Config
  /\ budget = Budget
  /\ saved = EmptyManifest
  /\ manifestExists = FALSE
  /\ cache = {}
  /\ published = {}
  /\ outcome = "none"
  /\ stage = "idle"
  /\ file = 1
  /\ manifest = EmptyManifest
  /\ current = {}
  /\ used = {}
  /\ cursor = RuleIdStart
  /\ elements = {}

\* The process is gone, and with it all it held in memory.
EndRun(result) ==
  /\ outcome' = result
  /\ stage' = "idle"
  /\ file' = 1
  /\ manifest' = EmptyManifest
  /\ current' = {}
  /\ used' = {}
  /\ cursor' = RuleIdStart
  /\ elements' = {}

\* Mutant: no check for entries without a manifest.
RefusesNever == FALSE

\* Entries without a manifest: the service refuses to allocate ids afresh.
Refuses == ~manifestExists /\ cache # {}

RefuseRun ==
  /\ stage = "idle"
  /\ Refuses
  /\ EndRun("refused")
  /\ UNCHANGED <<env, disk, budget>>

\* A manifest that lists nothing is numbered from the start of the range.
Rebased(m) ==
  IF \E i \in Identities : IsActive(m, i) \/ IsRetired(m, i)
  THEN m ELSE [m EXCEPT !.next_id = RuleIdStart]

\* The service and the converter are built and the files listed; `saved' is
\* the empty manifest when there is no file.
StartRun ==
  /\ stage = "idle"
  /\ ~Refuses
  /\ Integrity(Rebased(saved))
  /\ stage' = "convert"
  /\ manifest' = Rebased(saved)
  /\ outcome' = "none"
  /\ UNCHANGED <<env, disk, budget, file, current, ids, elements>>

\* A file that holds no rule, or one that SigmaRule.validate rejects: an
\* error is recorded, and the identity is not seen by the run.
SkipFile ==
  /\ stage = "convert"
  /\ file \in Files
  /\ \/ source[file] = NoRule
     \/ source[file] # NoRule /\ source[file].version \in Invalid
  /\ file' = file + 1
  /\ UNCHANGED <<env, disk, budget, outcome, stage, manifest, current, ids, elements>>

\* The current file holds rule r, to be converted under id.
Converting(r, id) ==
  /\ stage = "convert"
  /\ file \in Files
  /\ source[file] # NoRule
  /\ r = source[file]
  /\ r.version \notin Invalid
  /\ id = IdFor(manifest, r.identity)

\* process_rule gives an id: the identity is new to this run, and the
\* manifest holds an id for it or has one left.
Admitted(r) == r.identity \notin current /\ Resolvable(manifest, r.identity)

\* Mutant: a damaged entry is an exception in every mode.
RaisesAlways(r, id) == \E e \in Entries(Fingerprint(r, id)) : ~Usable(e, id)

\* A strict cache raises on a damaged entry instead of reconverting.
RaisesOnEntry(r, id) ==
  config.strict /\ \E e \in Entries(Fingerprint(r, id)) : ~Usable(e, id)

Hit(r, id) == \E e \in Entries(Fingerprint(r, id)) : Usable(e, id)
Miss(r, id) == ~Hit(r, id) /\ ~RaisesOnEntry(r, id)

\* The exceptions of process_rule are not caught by the converter: a duplicate
\* or retired identity and an exhausted range end the run ...
AbortOnIdentity(r) ==
  /\ Converting(r, IdFor(manifest, r.identity))
  /\ ~Admitted(r)
  /\ EndRun("aborted")
  /\ UNCHANGED <<env, disk, budget>>

\* ... and so does a damaged entry in a strict cache.
AbortOnEntry(r, id) ==
  /\ Converting(r, id)
  /\ Admitted(r)
  /\ RaisesOnEntry(r, id)
  /\ EndRun("aborted")
  /\ UNCHANGED <<env, disk, budget>>

\* Mutant: the identity is not recorded as seen.
AdmitUnseen(r) ==
  /\ Admitted(r)
  /\ manifest' = Enrol(manifest, r.identity)
  /\ current' = current
  /\ file' = file + 1
  /\ UNCHANGED <<env, budget, saved, manifestExists, published, outcome, stage>>

\* What every admitted rule does, whatever becomes of its conversion.
Admit(r) ==
  /\ Admitted(r)
  /\ manifest' = Enrol(manifest, r.identity)
  /\ current' = current \cup {r.identity}
  /\ file' = file + 1
  /\ UNCHANGED <<env, budget, saved, manifestExists, published, outcome, stage>>

Reserve(id) ==
  /\ Reservable(id)
  /\ used' = used \cup {id}
  /\ cursor' = CursorAfter(id)

\* A usable cached fragment is reused, if its id can be reserved.
ReuseFragment(r, id) ==
  /\ Converting(r, id)
  /\ Admit(r)
  /\ \E e \in Entries(Fingerprint(r, id)) :
       Usable(e, id) /\ elements' = elements \cup {e.fragment}
  /\ Reserve(id)
  /\ UNCHANGED cache

\* Its id is taken, or the backend plans no rule or cannot reserve the id:
\* an error is recorded and the rule is left out of the output.
DropRule(r, id) ==
  /\ Converting(r, id)
  /\ Admit(r)
  /\ ~RaisesOnEntry(r, id)
  /\ \/ ~Reservable(id)
     \/ Branches[r.version] = 0 /\ ~Hit(r, id)
  /\ UNCHANGED <<cache, ids, elements>>

\* The backend reserves the id and generates the ids of the other branches.
Allocate(id, n, c) ==
  /\ Reservable(id)
  /\ c \in CursorAfter(id)..(RuleIdEnd + 1)
  /\ Generates(CursorAfter(id), c, n - 1)
  /\ used' = used \cup {id} \cup Unused(CursorAfter(id), c)
  /\ cursor' = c

\* The generator runs out of ids halfway: those it gave stay used.
ExhaustBranches(r, id) ==
  /\ Converting(r, id)
  /\ Miss(r, id)
  /\ Admit(r)
  /\ Branches[r.version] > 0
  /\ Reservable(id)
  /\ ~CanGenerate(CursorAfter(id), Branches[r.version] - 1)
  /\ used' = used \cup {id} \cup Unused(CursorAfter(id), RuleIdEnd + 1)
  /\ cursor' = RuleIdEnd + 1
  /\ UNCHANGED <<cache, elements>>

\* The emitted XML is too large: the rule is dropped, its ids stay used.
RejectOversized(r, id) ==
  /\ Converting(r, id)
  /\ Miss(r, id)
  /\ Admit(r)
  /\ Branches[r.version] > 0
  /\ r.version \in Oversized
  /\ \E c \in IdCursors : Allocate(id, Branches[r.version], c)
  /\ UNCHANGED <<cache, elements>>

\* The elements of a successful conversion: the one under the identity's id
\* and one per generated branch id.
Rules(r, id, branchIds) ==
  {Emitted(r, id, TRUE)} \cup {Emitted(r, b, FALSE) : b \in branchIds}

\* A conversion to a single rule is also written to the cache.
EmitRules(r, id) ==
  /\ Converting(r, id)
  /\ Miss(r, id)
  /\ Admit(r)
  /\ Branches[r.version] > 0
  /\ r.version \notin Oversized
  /\ \E c \in IdCursors :
       /\ Allocate(id, Branches[r.version], c)
       /\ elements' = elements \cup Rules(r, id, Unused(CursorAfter(id), c))
  /\ cache' = IF Branches[r.version] = 1
              THEN Put(Fingerprint(r, id), Emitted(r, id, TRUE))
              ELSE cache

\* The cache entry cannot be written: ConversionCacheError ends the run.
FailCacheWrite(r, id) ==
  /\ "cache_write" \in Faults /\ budget > 0
  /\ Converting(r, id)
  /\ Admitted(r)
  /\ Miss(r, id)
  /\ Branches[r.version] = 1 /\ r.version \notin Oversized
  /\ Reservable(id)
  /\ budget' = budget - 1
  /\ EndRun("aborted")
  /\ UNCHANGED <<env, disk>>

ConvertFile ==
  \/ SkipFile
  \/ \E r \in Rule : AbortOnIdentity(r)
  \/ \E r \in Rule, id \in Ids :
       \/ AbortOnEntry(r, id)
       \/ ReuseFragment(r, id)
       \/ DropRule(r, id)
       \/ ExhaustBranches(r, id)
       \/ RejectOversized(r, id)
       \/ EmitRules(r, id)
       \/ FailCacheWrite(r, id)

\* convert_from_config fails when no rule at all was converted.
NothingConverted ==
  /\ stage = "convert"
  /\ file \notin Files
  /\ elements = {}
  /\ EndRun("failed")
  /\ UNCHANGED <<env, disk, budget>>

\* generate_xml_output replaces the published XML first, ...
PublishXml ==
  /\ stage = "convert"
  /\ file \notin Files
  /\ elements # {}
  /\ published' = elements
  /\ stage' = "chunks"
  /\ UNCHANGED <<env, budget, saved, manifestExists, cache, outcome, file,
                 manifest, current, ids, elements>>

\* ... then writes the chunk files ...
WriteChunks ==
  /\ stage = "chunks"
  /\ stage' = "finalize"
  /\ UNCHANGED <<env, disk, budget, outcome, file, manifest, current, ids, elements>>

\* ... and at the end retires what the run did not see, checks the manifest
\* and replaces the manifest file.
SaveManifest ==
  /\ stage = "finalize"
  /\ Integrity(RetireUnseen(manifest, current))
  /\ saved' = RetireUnseen(manifest, current)
  /\ manifestExists' = TRUE
  /\ EndRun("done")
  /\ UNCHANGED <<env, budget, cache, published>>

\* An OSError of the first two, or a ManifestError of the third, ends the run;
\* what was written before it stays.
FailWrite(fault, at) ==
  /\ fault \in Faults /\ budget > 0
  /\ stage = at
  /\ budget' = budget - 1
  /\ EndRun("failed")
  /\ UNCHANGED <<env, disk>>

FailXmlWrite      == file \notin Files /\ elements # {} /\ FailWrite("xml_write", "convert")
FailChunkWrite    == FailWrite("chunk_write", "chunks")
FailManifestWrite == FailWrite("manifest_write", "finalize")

RunStep ==
  \/ ConvertFile \/ NothingConverted \/ PublishXml \/ WriteChunks \/ SaveManifest
  \/ FailXmlWrite \/ FailChunkWrite \/ FailManifestWrite

(***************************************************************************)
(* The environment.                                                        *)
(***************************************************************************)
Disturb == stage = "idle" /\ budget > 0 /\ budget' = budget - 1

RunVars == <<outcome, stage, file, manifest, current, used, cursor, elements>>

EditSource ==
  /\ Disturb
  /\ \E f \in Files, r \in Rule \cup {NoRule} :
       source[f] # r /\ source' = [source EXCEPT ![f] = r]
  /\ UNCHANGED <<config, disk, RunVars>>

EditConfig ==
  /\ Disturb
  /\ config' \in Config \ {config}
  /\ UNCHANGED <<source, disk, RunVars>>

DamageEntry ==
  /\ "damaged_entry" \in Faults
  /\ Disturb
  /\ \E e \in cache :
       e.intact /\ cache' = (cache \ {e}) \cup {[e EXCEPT !.intact = FALSE]}
  /\ UNCHANGED <<env, saved, manifestExists, published, RunVars>>

LoseManifest ==
  /\ "lost_manifest" \in Faults
  /\ Disturb
  /\ manifestExists
  /\ manifestExists' = FALSE
  /\ saved' = EmptyManifest
  /\ UNCHANGED <<env, cache, published, RunVars>>

Crash ==
  /\ "crash" \in Faults /\ budget > 0
  /\ stage # "idle"
  /\ budget' = budget - 1
  /\ EndRun("crashed")
  /\ UNCHANGED <<env, disk>>

Environment == EditSource \/ EditConfig \/ DamageEntry \/ LoseManifest \/ Crash

Next == RefuseRun \/ StartRun \/ RunStep \/ Environment

Spec == Init /\ [][Next]_vars

\* A started process runs to its end, and a scheduler starts runs again and
\* again; nothing obliges the environment to act.
FairSpec == Spec /\ WF_vars(RunStep) /\ WF_vars(StartRun)

(***************************************************************************)
(* Properties.                                                             *)
(***************************************************************************)
\* Every variable has its type; in particular no id leaves the owned range
\* and next_id goes at most one past its end.
TypeOK ==
  /\ source \in [Files -> Rule \cup {NoRule}]
  /\ config \in Config
  /\ budget \in 0..Budget
  /\ saved \in Manifest
  /\ manifestExists \in BOOLEAN
  /\ cache \subseteq Entry
  /\ published \subseteq Element
  /\ outcome \in {"none", "refused", "failed", "aborted", "crashed", "done"}
  /\ stage \in {"idle", "convert", "chunks", "finalize"}
  /\ file \in 1..(NumFiles + 1)
  /\ manifest \in Manifest
  /\ current \subseteq Identities
  /\ used \subseteq Ids
  /\ cursor \in IdCursors
  /\ elements \subseteq Element

\* Sound manifests: no two identities, active or retired, hold one id, no
\* identity is both, and no id at or above next_id was ever given.
Sound(m) ==
  /\ \A i \in Identities :
       /\ ~(IsActive(m, i) /\ IsRetired(m, i))
       /\ m.active[i] < m.next_id
       /\ m.retired[i] < m.next_id
  /\ \A i, j \in Identities :
       /\ i # j
       => /\ IsActive(m, i) => m.active[i] # m.active[j]
          /\ IsRetired(m, i) => m.retired[i] # m.retired[j]
          /\ IsActive(m, i) => m.active[i] # m.retired[j]

\* The manifest on disk and the one a run holds are sound in every state, so
\* the integrity check the code makes before a save never has to raise.
ManifestSound == Sound(saved) /\ Sound(manifest)

\* No two rules of the published XML carry the same id, whether the id came
\* from the manifest, from a cached fragment or from the branch generator.
PublishedIdsUnique ==
  \A e1, e2 \in published : e1.id = e2.id => e1 = e2

\* After a completed run the XML and the manifest tell the same story: the
\* main rule of an identity is published under the id the manifest lists as
\* active for it, and nothing is published for an identity not active.
PublishedAgreesWithManifest ==
  outcome = "done" =>
    \A e \in published :
      /\ IsActive(saved, e.identity)
      /\ e.base => e.id = saved.active[e.identity]

\* When the published XML is replaced, a rule whose file holds what it held
\* is published again: it is not dropped for what happened to other files.
UnchangedRulesKept ==
  [][\A e \in published :
       published' # published =>
         ((\E f \in Files : source[f] = [identity |-> e.identity, version |-> e.version])
            => \E e2 \in published' : e2.identity = e.identity /\ e2.base)]_published

\* From one published XML to the next an id stays with its identity, and the
\* main rule of an identity stays with its id.
PublishedIdsStable ==
  [][\A e1 \in published, e2 \in published' :
       /\ e1.id = e2.id => e1.identity = e2.identity
       /\ e1.base /\ e2.base /\ e1.identity = e2.identity => e1.id = e2.id]_published

\* An identity is retired only when no source file holds it any more.
RetiredOnlyIfGone ==
  [][\A i \in Identities :
       IsRetired(saved', i) /\ ~IsRetired(saved, i) =>
         \A f \in Files : source[f] # NoRule => source[f].identity # i]_saved

\* Whatever the run takes from the cache is what it would convert now: the
\* elements of a run come from the present sources and configuration.
ElementsCurrent ==
  \A e \in elements :
    /\ e.mapping = config.mapping
    /\ e.parents = config.parents
    /\ \E f \in Files : source[f] = [identity |-> e.identity, version |-> e.version]

\* Identities in the sources that the manifest has yet to number.
Unnumbered ==
  {i \in Identities : ~IsActive(saved, i) /\
     \E f \in Files : source[f] # NoRule /\ source[f].identity = i}

\* The sources can all be converted: supported single-branch rules with
\* distinct identities, none of them retired, with ids left for the new ones;
\* no failed first run has left entries that make the service refuse, and a
\* strict cache holds no damaged entry of theirs.
Convertible ==
  /\ ~Refuses
  /\ \E f \in Files : source[f] # NoRule
  /\ \A f \in Files : source[f] # NoRule =>
       /\ source[f].version \notin Invalid \cup Oversized
       /\ Branches[source[f].version] = 1
       /\ ~IsRetired(saved, source[f].identity)
       /\ \A g \in Files : source[g] # NoRule /\ f # g =>
            source[f].identity # source[g].identity
       /\ config.strict => \A e \in cache : e.key[1] = source[f] => e.intact
  /\ saved.next_id + Cardinality(Unnumbered) <= RuleIdEnd + 1

\* The published XML has exactly the current rule of every source file.
UpToDate ==
  \A r \in Rule :
    (\E f \in Files : source[f] = r) <=>
    (\E e \in published : e.identity = r.identity /\ e.version = r.version)

\* Once the environment is quiet, repeated runs bring the published XML up to
\* date with convertible sources and keep it so.
Converges == <>[](Convertible => UpToDate)

\* The manifest file implements the abstract specification of stable ids.
Stable == INSTANCE StableIds
            WITH active <- saved.active, retired <- saved.retired
ImplementsStableIds == Stable!StableSpec

==============================================================================
