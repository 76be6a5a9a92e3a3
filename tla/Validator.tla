----------------------------- MODULE Validator -----------------------------
(***************************************************************************)
(* WazuhRuleValidator (validator/): the checks of the rules of a set of    *)
(* XML files, the reports it makes of them and its exit code.              *)
(*                                                                         *)
(* A file is [readable, rules], a rule                                     *)
(*   [id, level, described, patterns, groups, decoder]                     *)
(* where id, level and decoder may be Missing and patterns are the ones of *)
(* its match, regex, pcre and typed field elements, by their place, each   *)
(*   [size, bars, backrefs, compiles].                                     *)
(* Not here: timeframe, frequency and maxsize, the performance notes on    *)
(* <regex> elements and the sample logs, none of which the backend writes. *)
(***************************************************************************)
EXTENDS Integers, SequencesExt

CONSTANTS
  Missing,          \* an attribute or element that is not there
  MaxRuleId,        \* the largest id of seven digits
  MaxRegexLength,   \* MAX_REGEX_LENGTH
  CommonGroups,     \* COMMON_RULESETS
  CommonDecoders    \* COMMON_DECODERS

ASSUME ValidatorAssumption == Missing \notin Nat /\ MaxRuleId \in Nat

ValidLevels == 0..16
MaxAlternation == 5
MaxBackreferences == 5

-----------------------------------------------------------------------------
(* The checks of a rule.  A check that finds nothing passes.                *)

RuleIdFails(rule, seen) ==
  \/ rule.id = Missing
  \/ rule.id \notin 0 .. MaxRuleId
  \/ rule.id \in seen

RequiredMissing(rule) ==
  rule.id = Missing \/ rule.level = Missing \/ ~rule.described

LevelOutOfRange(rule) == rule.level # Missing /\ rule.level \notin ValidLevels

(* A pattern that is long or has many bars is only warned of: it is never    *)
(* compiled, so whether it is valid stays unknown.                           *)
PatternResult(pattern) ==
  IF \/ pattern.size > MaxRegexLength
     \/ pattern.bars > MaxAlternation
     \/ pattern.backrefs > MaxBackreferences
  THEN "WARN"
  ELSE IF pattern.compiles THEN "PASS" ELSE "FAIL"

DecoderUnknown(rule, decoders) ==
  rule.decoder # Missing /\ rule.decoder \notin CommonDecoders \cup decoders

GroupUnknown(rule, groups) == ~(rule.groups \subseteq CommonGroups \cup groups)

RuleFails(rule, seen) ==
  \/ RuleIdFails(rule, seen)
  \/ RequiredMissing(rule)
  \/ LevelOutOfRange(rule)
  \/ \E i \in DOMAIN rule.patterns : PatternResult(rule.patterns[i]) = "FAIL"

RuleWarns(rule, groups, decoders) ==
  \/ \E i \in DOMAIN rule.patterns : PatternResult(rule.patterns[i]) = "WARN"
  \/ DecoderUnknown(rule, decoders)
  \/ GroupUnknown(rule, groups)

-----------------------------------------------------------------------------
(* The two passes of validate_all.  The first collects what the files        *)
(* themselves declare, so that no name a file uses is unknown to it.         *)

Readable(files) == { i \in DOMAIN files : files[i].readable }
RulesOf(files) == UNION { Range(files[i].rules) : i \in Readable(files) }

DeclaredGroups(files) == UNION { rule.groups : rule \in RulesOf(files) }
DeclaredDecoders(files) == { rule.decoder : rule \in RulesOf(files) } \ {Missing}

Report(fails, warns) == [fails |-> fails, warns |-> warns]

(* The ids seen go from rule to rule and from file to file.  Ids that fail   *)
(* by themselves are not kept, which makes no difference: they fail again.   *)
SeenBefore(files, i, k) ==
  { rule.id : rule \in UNION { Range(files[j].rules) : j \in { j \in Readable(files) : j < i } } }
    \cup { files[i].rules[r].id : r \in 1 .. k - 1 }

ValidateRuleFile(files, i) ==
  LET rules == files[i].rules
      Fails(k) == RuleFails(rules[k], SeenBefore(files, i, k))
      Warns(k) == RuleWarns(rules[k], DeclaredGroups(files), DeclaredDecoders(files))
  IN  IF ~files[i].readable \/ rules = <<>> THEN Report(TRUE, FALSE)
      ELSE Report(\E k \in DOMAIN rules : Fails(k), \E k \in DOMAIN rules : Warns(k))

ValidateAll(files) ==
  IF files = <<>> THEN << Report(TRUE, FALSE) >>   \* no XML rule files found
  ELSE [i \in DOMAIN files |-> ValidateRuleFile(files, i)]

ExitCode(reports, strict) ==
  IF \/ reports = <<>>
     \/ \E i \in DOMAIN reports : reports[i].fails \/ (strict /\ reports[i].warns)
  THEN 1 ELSE 0

=============================================================================
