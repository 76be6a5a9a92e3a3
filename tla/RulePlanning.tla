---------------------------- MODULE RulePlanning ----------------------------
(***************************************************************************)
(* From the field predicates of a Sigma condition to Wazuh rules (backend/ *)
(* wazuh.py): the steps of the lowering to a disjunctive normal form, and  *)
(* the plan of the rules for it, one rule where one can say it and one for *)
(* each alternative otherwise.                                             *)
(*                                                                         *)
(* A predicate is [sigma, field, pattern, negated, lookaheadSafe], an      *)
(* alternative a sequence of predicates that all hold, a DNF a sequence of *)
(* alternatives; a planned rule is a sequence of predicates, too.  A       *)
(* pattern is                                                              *)
(*   [op |-> "value", value]   the expression written for one value        *)
(*   [op |-> "all", of]        a lookahead for each pattern of a sequence  *)
(*   [op |-> "any", of]        their alternation.                          *)
(* A value is a model value for the regular expression the backend writes  *)
(* for it.  FieldOf is what resolve_field answers for the log source of    *)
(* the rule; sizes are counted in values.                                  *)
(***************************************************************************)
EXTENDS Integers, SequencesExt

CONSTANTS
  Values,             \* the values conditions name
  Unlowerable,        \* values with no pattern: null, exists, flagged regexes
  Anchored,           \* regexes with a start anchor after their first token
  FieldOf,            \* SigmaFieldMapper.resolve_field: Sigma field -> Wazuh field
  NoField,            \* ... or this, when the field does not resolve
  MaxAlternatives,    \* max_dnf_alternatives
  MaxPredicates,      \* max_predicates_per_alternative
  MaxChildRules,      \* max_generated_child_rules
  MaxPatternSize      \* MAX_PATTERN_LENGTH, counted in values

-----------------------------------------------------------------------------
(* Results: a value, or the ValueError that ends the conversion. *)

Ok(x) == [ok |-> TRUE, val |-> x]
Err(why) == [ok |-> FALSE, val |-> why]
Bind(result, Op(_)) == IF result.ok THEN Op(result.val) ELSE result

(* The values of a sequence of results, or the first error among them. *)
AllOk(results) ==
  LET bad == { i \in DOMAIN results : ~results[i].ok }
  IN  IF bad = {} THEN Ok([i \in DOMAIN results |-> results[i].val])
      ELSE results[CHOOSE i \in bad : \A j \in bad : i <= j]

(* The elements at some of the places of a sequence, in their order. *)
Pick(s, places) ==
  [k \in 1 .. Cardinality(places) |->
     s[CHOOSE i \in places : Cardinality({ j \in places : j < i }) = k - 1]]

(* dict.fromkeys and the "seen" loops: the first of equal elements stays. *)
Dedupe(s) == Pick(s, { i \in DOMAIN s : \A j \in 1 .. i - 1 : s[j] # s[i] })

-----------------------------------------------------------------------------
(* _lower_field_predicate, and the steps of _lower_condition_ir: the limits  *)
(* are checked after each child of an AND and after each OR.                 *)

Value(v) == [op |-> "value", value |-> v]

\* Mutant: the predicate of an unresolved field is lowered as it is.
LowerFieldUnresolved(node) ==
  Ok([sigma |-> node.sigma, field |-> FieldOf[node.sigma], pattern |-> Value(node.value),
      negated |-> FALSE, lookaheadSafe |-> node.value \notin Anchored])

LowerField(node) ==
  IF FieldOf[node.sigma] = NoField THEN Err("unresolved field")
  ELSE IF node.value \in Unlowerable THEN Err("unsupported value")
  ELSE Ok([sigma |-> node.sigma, field |-> FieldOf[node.sigma],
           pattern |-> Value(node.value), negated |-> FALSE,
           lookaheadSafe |-> node.value \notin Anchored])

WithinDnfLimits(alternatives) ==
  IF Len(alternatives) > MaxAlternatives THEN Err("too many alternatives")
  ELSE IF \E i \in DOMAIN alternatives : Len(alternatives[i]) > MaxPredicates
    THEN Err("too many predicates")
  ELSE Ok(alternatives)

Product(left, right) ==
  LET WithLeft(l) == [j \in DOMAIN right |-> Dedupe(l \o right[j])]
  IN  Dedupe(FlattenSeq([i \in DOMAIN left |-> WithLeft(left[i])]))

LowerAnd(left, right) == WithinDnfLimits(Product(left, right))

LowerOr(parts) == WithinDnfLimits(Dedupe(FlattenSeq(parts)))

LowerNot(child) ==
  IF Len(child) # 1 \/ Len(child[1]) # 1 THEN Err("grouped NOT")
  ELSE Ok(<< <<[child[1][1] EXCEPT !.negated = ~@]>> >>)

-----------------------------------------------------------------------------
(* _collapse_conjunction and the three merges it and the OR use. *)

PatternsOf(group) == Dedupe([i \in DOMAIN group |-> group[i].pattern])

AllOf(group) ==
  [group[1] EXCEPT !.pattern = [op |-> "all", of |-> PatternsOf(group)]]

AnyOf(group, negated) ==
  [group[1] EXCEPT !.pattern = [op |-> "any", of |-> PatternsOf(group)],
                   !.negated = negated, !.lookaheadSafe = FALSE]

CollapseSameFieldAnd(group) ==
  IF \E i \in DOMAIN group : ~group[i].lookaheadSafe
    THEN Err("not lookahead-lowerable")
    ELSE Ok(AllOf(group))

\* Mutant: a negated predicate is merged into the alternation.
CollapseNegatedOr(group) ==
  IF \E i \in DOMAIN group : group[i].field # group[1].field
    THEN Err("child rules required")
    ELSE Ok(AnyOf(group, FALSE))

\* Mutant: the error for a negated predicate is not the one _plan_child_rules
\* recognises by its text.
CollapseReworded(group) ==
  IF \E i \in DOMAIN group : group[i].negated THEN Err("negated OR")
  ELSE IF \E i \in DOMAIN group : group[i].field # group[1].field
    THEN Err("child rules required")
  ELSE Ok(AnyOf(group, FALSE))

CollapseSameFieldOr(group) ==
  IF \E i \in DOMAIN group : group[i].field # group[1].field \/ group[i].negated
    THEN Err("child rules required")
    ELSE Ok(AnyOf(group, FALSE))

(* not A and not B on one field is not (A or B). *)
CollapseGroup(group) ==
  IF Len(group) = 1 THEN Ok(group[1])
  ELSE IF group[1].negated THEN Ok(AnyOf(group, TRUE))
  ELSE CollapseSameFieldAnd(group)

KeyOf(p) == <<p.field, p.negated>>

KeysOf(alternative) == Dedupe([i \in DOMAIN alternative |-> KeyOf(alternative[i])])

GroupOf(alternative, key) ==
  Pick(alternative, { i \in DOMAIN alternative : KeyOf(alternative[i]) = key })

CollapseConjunction(alternative) ==
  LET keys == KeysOf(alternative)
  IN  AllOk([k \in DOMAIN keys |-> CollapseGroup(GroupOf(alternative, keys[k]))])

CollapseEach(alternatives) ==
  AllOk([i \in DOMAIN alternatives |-> CollapseConjunction(alternatives[i])])

-----------------------------------------------------------------------------
(* _collapse_lowered_alternatives: one rule for the whole DNF, if exact. *)

InAll(p, alternatives) == \A i \in DOMAIN alternatives : Contains(alternatives[i], p)

CommonPredicates(alternatives) ==
  Pick(alternatives[1], { k \in DOMAIN alternatives[1] : InAll(alternatives[1][k], alternatives) })

Remainder(alternative, common) ==
  Pick(alternative, { k \in DOMAIN alternative : ~Contains(common, alternative[k]) })

Factor(alternatives) ==
  LET common == CommonPredicates(alternatives)
      rests == [i \in DOMAIN alternatives |-> Remainder(alternatives[i], common)]
      merged == CollapseSameFieldOr([i \in DOMAIN rests |-> rests[i][1]])
  IN  IF \A i \in DOMAIN rests : Len(rests[i]) = 1
        THEN IF merged.ok THEN Ok(Append(common, merged.val)) ELSE merged
      ELSE IF \A i \in DOMAIN rests : Len(rests[i]) = 0 THEN Ok(common)
      ELSE Err("child rules required")

CollapseAlternatives(alternatives) ==
  LET normal == CollapseEach(alternatives)
  IN  IF alternatives = <<>> THEN Err("empty condition")
      ELSE IF Len(alternatives) = 1 THEN CollapseConjunction(alternatives[1])
      ELSE IF normal.ok THEN Factor(normal.val) ELSE normal

-----------------------------------------------------------------------------
(* _plan_child_rules: one rule if it is exact and no pattern is oversized, *)
(* else one rule for each alternative.                                     *)

PatternSize(pattern) ==
  LET SizeOf(p) == IF p.op = "value" THEN 1 ELSE Len(p.of)
      Total(s) == FoldLeft(LAMBDA n, p : n + SizeOf(p), 0, s)
  IN  IF pattern.op = "value" THEN 1 ELSE Total(pattern.of)

Oversized(rule) == \E i \in DOMAIN rule : PatternSize(rule[i].pattern) > MaxPatternSize

Branches(alternatives) ==
  LET branches == CollapseEach(alternatives)
  IN  IF ~branches.ok THEN branches
      ELSE IF Len(Dedupe(branches.val)) > MaxChildRules THEN Err("too many child rules")
      ELSE Ok(Dedupe(branches.val))

PlanChildRules(dnf) ==
  LET alternatives == Dedupe([i \in DOMAIN dnf |-> Dedupe(dnf[i])])
      single == CollapseAlternatives(alternatives)
  IN  IF ~WithinDnfLimits(alternatives).ok THEN WithinDnfLimits(alternatives)
      ELSE IF single.ok /\ (~Oversized(single.val) \/ Len(alternatives) = 1)
        THEN Ok(<<single.val>>)
      ELSE IF ~single.ok /\ single.val # "child rules required" THEN single
      ELSE Branches(alternatives)

-----------------------------------------------------------------------------
(* What Wazuh makes of an event: the set of pairs of a field and a value     *)
(* whose expression the text of the field matches.                           *)

Text(event, field) == { v \in Values : <<field, v>> \in event }

(* A lookahead moves the position an inner start anchor is tried at, so a    *)
(* value with one is taken to match nothing there.                           *)
Matches(pattern, text) ==
  LET Fits(p) == IF p.op = "value" THEN p.value \in text
                 ELSE \A k \in DOMAIN p.of : p.of[k].value \in text \ Anchored
  IN  IF pattern.op = "any" THEN \E k \in DOMAIN pattern.of : Fits(pattern.of[k])
      ELSE Fits(pattern)

(* The predicates of a rule all have to hold; negate="yes" inverts one. *)
Holds(p, event) ==
  LET matches == Matches(p.pattern, Text(event, p.field))
  IN  IF p.negated THEN ~matches ELSE matches

Fires(rule, event) == \A k \in DOMAIN rule : Holds(rule[k], event)

Alerts(rules, event) == \E i \in DOMAIN rules : Fires(rules[i], event)
=============================================================================
