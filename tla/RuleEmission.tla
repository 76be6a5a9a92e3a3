---------------------------- MODULE RuleEmission ----------------------------
(***************************************************************************)
(* From a Sigma rule to the elements of a Wazuh rule (WazuhRuleGenerator   *)
(* and WazuhBackend of backend/wazuh.py): its level, id and parent rules,  *)
(* its fields by the registry and its patterns, and what the validator     *)
(* says of the file of the rules emitted so far.                           *)
(*                                                                         *)
(* The condition of a rule is a conjunction of groups, one for each of its *)
(* fields: a value, values that must all match (all) or values one of      *)
(* which must (any; negated, none of which may).  At most one group of a   *)
(* rule has alternatives, so that one Wazuh rule can say it, and their     *)
(* pattern is not too long for one.  ConditionLowering has every other     *)
(* condition; here it is the data of the predicates that counts.           *)
(*                                                                         *)
(* The registry grows through its two public operations: the pipeline's    *)
(* own configuration can only override fields (config.overrides).          *)
(***************************************************************************)
EXTENDS FieldRegistry, Patterns, Validator

CONSTANTS
  Builtin,            \* the mappings a registry starts with
  Configs,            \* backend configurations [mode, overrides, parents, firstId, lastId]
  Directories,        \* what each configuration converts: sequences of [rule, override],
                      \* where override is the level an advisor asks for, or NoValue
  CustomMappings,     \* mappings a caller may add
  Batches,            \* sequences of them
  Samples,            \* texts of fields
  MaxPatternLength,   \* MAX_PATTERN_LENGTH, in atoms
  MaxAdded            \* bound: mappings added to the registry

(* A mapping leads to a name in one of the namespaces, and restricts itself to *)
(* finitely many log sources; a table is a sequence of mappings.             *)
Mapped(mapping) ==
  /\ IsFiniteSet(mapping.services) /\ IsFiniteSet(mapping.categories)
  /\ mapping.target # NoValue =>
       mapping.target.namespace \in {"system", "eventdata", "other", "bare"}

Table(mappings) ==
  /\ mappings \in Seq(Range(mappings))
  /\ \A i \in DOMAIN mappings : Mapped(mappings[i])

(* A rule has groups, a group values, of kinds the parser has.               *)
ParsedGroup(group) ==
  /\ group.op \in {"any", "all"}
  /\ group.values \in Seq(Range(group.values)) /\ group.values # <<>>
  /\ \A i \in DOMAIN group.values : ParsedValue(group.values[i])

Parsed(rule) ==
  /\ rule.groups \in Seq(Range(rule.groups))
  /\ \A i \in DOMAIN rule.groups : ParsedGroup(rule.groups[i])

ASSUME MappingsAssumption ==
  /\ \A mapping \in CustomMappings : Mapped(mapping)
  /\ \A batch \in Batches : Table(batch)

ASSUME BuiltinAssumption ==
  /\ Table(Builtin)
  /\ \A i \in DOMAIN Builtin :
       Builtin[i].target # NoValue /\ Builtin[i].target.namespace \in {"system", "eventdata"}

(* What config.py:142-151 checks of the range of ids.                        *)
ASSUME ConfigsAssumption ==
  \A c \in Configs :
    /\ c.mode \in {"strict", "warn", "legacy"}
    /\ c.firstId \in Nat \ {0} /\ c.lastId \in c.firstId .. MaxRuleId

(* The values as the parser of the Sigma rules leaves them: the flags of an  *)
(* expression are at its front, everywhere else it does not compile.         *)
ASSUME DirectoriesAssumption ==
  \A c \in Configs : \A inputs \in Directories[c] :
    /\ inputs \in Seq(Range(inputs))
    /\ \A i \in DOMAIN inputs : Parsed(inputs[i].rule)

ASSUME SamplesAssumption == Samples \subseteq Seq(AnySymbol)

VARIABLES
  config,     \* the configuration the backend was built with
  registry,   \* FieldMappingRegistry.mappings
  bypassed,   \* history: a mapping to a bare name has been added
  pending,    \* what is still to convert
  nextId,     \* WazuhRuleIDGenerator.current_id
  emitted,    \* the rules of the file, each with the Sigma rule it is from
  reports     \* the validator's reports of the file, once it was run

vars == <<config, registry, bypassed, pending, nextId, emitted, reports>>

Modes == {"strict", "warn", "legacy"}

-----------------------------------------------------------------------------
(* The level: the name's, unless an advisor asks for another. *)

LevelMapping ==
  [critical |-> 15, high |-> 12, medium |-> 10, low |-> 5, informational |-> 3,
   experimental |-> 2]

\* Mutant: an override is taken as it comes.
LevelValidAny(override) == TRUE
LevelValid(override) == override = NoValue \/ override \in 0..15

ResolveLevel(rule, override) ==
  IF override # NoValue THEN override
  ELSE IF rule.level \in DOMAIN LevelMapping THEN LevelMapping[rule.level] ELSE 10

-----------------------------------------------------------------------------
(* The parent rules.  A table is a record of functions, one for each kind of *)
(* key; "bare" keys are values without their field's name.                   *)

DefaultParentRules ==
  [security_event_id |-> (4720 :> <<60109>>),
   service  |-> [security |-> <<60001>>, system |-> <<60002>>, application |-> <<60003>>,
                 sysmon |-> <<60004>>, windefend |-> <<60005>>, powershell |-> <<60000>>,
                 wmi |-> <<60018>>] @@ ("windows-defender" :> <<60005>>),
   category |-> [process_creation |-> <<61603>>, file_change |-> <<61604>>,
                 network_connection |-> <<61605>>, driver_load |-> <<61608>>,
                 image_load |-> <<61609>>, create_remote_thread |-> <<61610>>,
                 raw_access_thread |-> <<61611>>, process_access |-> <<61612>>,
                 file_event |-> <<61613>>, registry_add |-> <<61614>>,
                 registry_delete |-> <<61614>>, registry_event |-> <<61614, 61615, 61616>>,
                 registry_rename |-> <<61616>>, registry_set |-> <<61615>>,
                 create_stream_hash |-> <<61617>>, pipe_created |-> <<61645, 61646>>,
                 wmi_event |-> <<61647, 61648, 61649>>, dns_query |-> <<61650>>,
                 file_delete |-> <<61651, 61654>>, process_tampering |-> <<61653>>,
                 ps_script |-> <<91802>>, ps_module |-> <<91801>>,
                 ps_classic_start |-> <<91801>>, ps_classic_provider_start |-> <<91801>>],
   product  |-> [windows |-> <<60000>>],
   bare     |-> [default |-> <<60000>>]]

(* Every event id the detection names, in its selections or its filters.     *)
DetectionEventIds(rule) ==
  LET Numbers(g) == IF g.field \in {"EventID", "event_id"}
                    THEN [i \in DOMAIN g.values |-> g.values[i].text[1]] ELSE <<>>
  IN  FlattenSeq([i \in DOMAIN rule.groups |-> Numbers(rule.groups[i])])

CandidateKeys(rule) ==
  LET Security(id) == <<"security_event_id", id>>
      ids == DetectionEventIds(rule)
      Named(kind, value) == IF value = NoValue THEN <<>> ELSE << <<kind, value>>, <<"bare", value>> >>
      source == IF rule.service # NoValue THEN rule.service ELSE rule.product
  IN  (IF rule.service = "security" THEN [i \in DOMAIN ids |-> Security(ids[i])] ELSE <<>>)
        \o Named("service", rule.service)
        \o Named("category", rule.category)
        \o Named("product", rule.product)
        \o (IF source = NoValue THEN <<>> ELSE << <<"bare", source>> >>)
        \o << <<"bare", "default">> >>

(* The first key of the table; one without parents is passed over.           *)
ResolveParentRuleIds(table, rule) ==
  LET keys == CandidateKeys(rule)
      Known(key) == key[2] \in DOMAIN table[key[1]] /\ table[key[1]][key[2]] # <<>>
      known == { i \in DOMAIN keys : Known(keys[i]) }
  IN  IF known = {} THEN <<>> ELSE table[keys[Min(known)][1]][keys[Min(known)][2]]

-----------------------------------------------------------------------------
(* The fields and their patterns. *)

Context(rule) == [product |-> rule.product, service |-> rule.service,
                  category |-> rule.category]

FieldResult(rule, group) ==
  ResolveField(registry, config.overrides, group.field, Context(rule), config.mode)

(* Equal patterns are one predicate.                                         *)
PatternsOf(group) == { PatternForValue(group.values[i]) : i \in DOMAIN group.values }

AreOne(patterns) == \A p, q \in patterns : p = q

(* One pattern stays as it is.                                               *)
GroupPattern(group) ==
  LET patterns == PatternsOf(group)
  IN  CASE AreOne(patterns) -> CHOOSE p \in patterns : TRUE
        [] ~AreOne(patterns) /\ group.op = "all" -> AllOf(patterns)
        [] ~AreOne(patterns) /\ group.op = "any" -> AnyOf(patterns)

Element(rule, group) ==
  [field |-> FieldResult(rule, group).target, pattern |-> GroupPattern(group),
   negated |-> group.negated]

(* A conjunction needs every pattern to do as a lookahead.                   *)
Patternable(group) ==
  /\ \A i \in DOMAIN group.values : HasPattern(group.values[i])
  /\ group.op = "all" /\ ~AreOne(PatternsOf(group)) =>
       \A p \in PatternsOf(group) : LookaheadSafe(p)

Lowers(rule, group) == ShouldEmit(FieldResult(rule, group)) /\ Patternable(group)

IsStatic(element) == element.field.namespace = "bare" /\ element.field.name \in StaticFields

WithinLimits(elements) ==
  \A i \in DOMAIN elements : Size(elements[i].pattern) <= MaxPatternLength

-----------------------------------------------------------------------------
(* The rule as the validator reads it: only the patterns of <field> count.   *)

XmlPatterns(elements) ==
  LET typed == { i \in DOMAIN elements : ~IsStatic(elements[i]) }
      Entry(e) == [size |-> Size(e.pattern), bars |-> Bars(e.pattern), backrefs |-> 0,
                   compiles |-> Compiles(e.pattern)]
  IN  [i \in typed |-> Entry(elements[i])]

XmlRule(rule) ==
  [id |-> rule.id, level |-> rule.level, described |-> rule.described,
   patterns |-> XmlPatterns(rule.elements), groups |-> {rule.group}, decoder |-> Missing]

XmlFile(rules) ==
  [readable |-> TRUE, rules |-> [i \in DOMAIN rules |-> XmlRule(rules[i])]]

-----------------------------------------------------------------------------
Init ==
  /\ config \in Configs
  /\ registry = Builtin
  /\ bypassed = FALSE
  /\ pending \in Directories[config]
  /\ nextId = config.firstId
  /\ emitted = <<>>
  /\ reports = <<>>

Bare(mapping) == mapping.target.namespace = "bare"

\* Mutant: a batch is only checked for its form.
BatchSafeUnchecked(batch, mode) == \A i \in DOMAIN batch : ValidMapping(batch[i])
BatchSafe(batch, mode) ==
  \A i \in DOMAIN batch : ValidMapping(batch[i]) /\ SafeForMode(batch[i], mode)

(* add_mapping does not ask for a mode: a bare name gets past it.            *)
AddOne(mapping) ==
  /\ Len(registry) < Len(Builtin) + MaxAdded
  /\ ValidMapping(mapping)
  /\ registry' = AddMapping(registry, mapping)
  /\ bypassed' = (bypassed \/ Bare(mapping))
  /\ UNCHANGED <<config, pending, nextId, emitted, reports>>

(* The mode is the caller's, legacy among them.                              *)
AddBatch(batch, mode) ==
  /\ Len(registry) + Len(batch) <= Len(Builtin) + MaxAdded
  /\ BatchSafe(batch, mode)
  /\ registry' = AddCustomMappings(registry, batch)
  /\ bypassed' = (bypassed \/ (mode = "legacy" /\ \E i \in DOMAIN batch : Bare(batch[i])))
  /\ UNCHANGED <<config, pending, nextId, emitted, reports>>

(* SigmaRule.validate: what the converter asks before the backend.           *)
Valid(rule) ==
  /\ rule.titled
  /\ rule.groups # <<>>
  /\ {rule.product, rule.service, rule.category} # {NoValue}

Convertible(rule, override) ==
  /\ LevelValid(override)
  /\ \A i \in DOMAIN rule.groups : Lowers(rule, rule.groups[i])
  /\ nextId <= config.lastId

(* A rule that cannot be converted is left out, before it is given an id.    *)
SkipRule ==
  /\ pending # <<>>
  /\ LET next == Head(pending)
     IN  ~Valid(next.rule) \/ ~Convertible(next.rule, next.override)
  /\ pending' = Tail(pending)
  /\ UNCHANGED <<config, registry, bypassed, nextId, emitted, reports>>

(* The lengths of the patterns are looked at last: a rule rejected for them  *)
(* has used its id.                                                          *)
ConvertRule ==
  /\ pending # <<>>
  /\ LET rule == Head(pending).rule
         override == Head(pending).override
         elements == [i \in DOMAIN rule.groups |-> Element(rule, rule.groups[i])]
         xml == [id |-> nextId, level |-> ResolveLevel(rule, override),
                 described |-> rule.titled, group |-> rule.title,
                 parents |-> ResolveParentRuleIds(config.parents, rule),
                 elements |-> elements, from |-> rule]
     IN  /\ Valid(rule) /\ Convertible(rule, override)
         /\ emitted' = IF WithinLimits(elements) THEN Append(emitted, xml) ELSE emitted
  /\ pending' = Tail(pending)
  /\ nextId' = nextId + 1
  /\ UNCHANGED <<config, registry, bypassed, reports>>

(* The validator on the file the converter writes at the end.                *)
ValidateFile ==
  /\ pending = <<>> /\ emitted # <<>> /\ reports = <<>>
  /\ reports' = ValidateAll(<< XmlFile(emitted) >>)
  /\ UNCHANGED <<config, registry, bypassed, pending, nextId, emitted>>

Next ==
  \/ \E mapping \in CustomMappings : AddOne(mapping)
  \/ \E batch \in Batches, mode \in Modes : AddBatch(batch, mode)
  \/ SkipRule \/ ConvertRule
  \/ ValidateFile

Spec == Init /\ [][Next]_vars

-----------------------------------------------------------------------------
(* Every rule written has an id of the configured range, a level between 0   *)
(* and 15, which is narrower than what the validator accepts, and, if the    *)
(* table has a default, a parent.                                            *)
TypeOK ==
  /\ config \in Configs
  /\ bypassed \in BOOLEAN
  /\ nextId \in config.firstId .. config.lastId + 1
  /\ \A i \in DOMAIN emitted :
       /\ emitted[i].id \in config.firstId .. nextId - 1
       /\ emitted[i].level \in 0..15
       /\ emitted[i].described
       /\ "default" \in DOMAIN config.parents.bare /\ config.parents.bare["default"] # <<>> =>
            emitted[i].parents # <<>>
  /\ \A i \in DOMAIN reports : reports[i].fails \in BOOLEAN /\ reports[i].warns \in BOOLEAN

VerifiedFor(element, group) ==
  \E i \in DOMAIN registry :
    /\ registry[i].sigma = group.field
    /\ registry[i].target = element.field
    /\ element.field.namespace \in {"system", "eventdata"}

(* docs/windows-evtx-field-mapping.md: in strict and warn mode a Windows     *)
(* rule only selects fields a verified mapping leads to, Wazuh's own fields  *)
(* and what the configuration overrides, whatever was added to the registry, *)
(* in whatever order, as long as nobody asked for the unsafe mappings.       *)
StrictStaysVerified ==
  config.mode # "legacy" /\ ~bypassed =>
    \A i \in DOMAIN emitted :
      emitted[i].from.product = "windows" =>
        \A j \in DOMAIN emitted[i].elements :
          LET element == emitted[i].elements[j]
              group == emitted[i].from.groups[j]
          IN  \/ IsStatic(element)
              \/ group.field \in DOMAIN config.overrides
              \/ VerifiedFor(element, group)

GroupHolds(group, text) ==
  LET Holds(i) == SigmaMatches(group.values[i], text)
  IN  IF group.op = "all" THEN \A i \in DOMAIN group.values : Holds(i)
      ELSE \E i \in DOMAIN group.values : Holds(i)

(* ^a|b counts as safe in a lookahead (wazuh.py:1329) and matches less there *)
(* than by itself: its free branch is tried at one position only.            *)
PartlyAnchored(group) ==
  /\ group.op = "all"
  /\ \E i \in DOMAIN group.values :
       LET value == group.values[i]
       IN  /\ value.kind = "regex" /\ value.branches[1].start
           /\ \E k \in DOMAIN value.branches : ~value.branches[k].start

(* The pattern written for a group, alternation or chain of lookaheads,      *)
(* matches exactly the texts its Sigma values match, unless it is a chain    *)
(* with a partly anchored regex.                                             *)
PatternsExact ==
  \A i \in DOMAIN emitted :
    \A j \in DOMAIN emitted[i].elements, text \in Samples :
      ~PartlyAnchored(emitted[i].from.groups[j]) =>
        (Matches(emitted[i].elements[j].pattern, text)
           <=> GroupHolds(emitted[i].from.groups[j], text))

(* What the backend writes, the validator never fails: the ids are distinct  *)
(* and short enough, the levels in range and the patterns compile.           *)
EmittedPassesValidator == \A i \in DOMAIN reports : ~reports[i].fails
=============================================================================
