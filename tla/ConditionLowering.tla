------------------------- MODULE ConditionLowering -------------------------
(***************************************************************************)
(* How WazuhRuleGenerator.generate_rules (backend/wazuh.py) turns the      *)
(* condition of one Sigma rule into Wazuh rules: the tree pySigma parsed   *)
(* becomes an IR, the IR is normalised, lowered to a disjunctive normal    *)
(* form, planned as one Wazuh rule where one rule can say it or as one     *)
(* rule per alternative (RulePlanning), and emitted.  A rule whose         *)
(* condition cannot be represented exactly is rejected with a ValueError.  *)
(*                                                                         *)
(* The data of a predicate is abstracted: FieldOf is what resolve_field    *)
(* answers for the log source of the rule, static and dynamic fields are   *)
(* not told apart, and sizes are counted in values.  The ids of the rules  *)
(* are in IncrementalConversion.                                           *)
(*                                                                         *)
(* A condition is a tree of records                                        *)
(*   [op |-> "field", sigma, value]       sigma|modifiers: value           *)
(*   [op |-> "expansion", sigma, values]  a SigmaExpansion (windash)       *)
(*   [op |-> "keyword", value]            a value without a field          *)
(*   [op |-> "not", arg], [op |-> "and", args], [op |-> "or", args].       *)
(* An event is a set of pairs of a field and a value whose expression the  *)
(* text of the field matches, so any number of values may match a text.    *)
(***************************************************************************)
EXTENDS RulePlanning

CONSTANTS
  Conditions,         \* the parsed conditions to lower
  MaxHeight,          \* how many NOT, AND and OR are over a leaf of one of them
  MaxDepth,           \* max_condition_recursion_depth
  MaxFields,          \* MAX_FIELD_ELEMENTS
  MaxXmlSize          \* max_generated_rule_xml_bytes, counted in values

-----------------------------------------------------------------------------
(* Trees.                                                                    *)

Fields == [op : {"field"}, sigma : DOMAIN FieldOf, value : Values]

Leaves ==
  Fields \cup [op : {"expansion"}, sigma : DOMAIN FieldOf, values : Seq(Values) \ {<<>>}]
         \cup [op : {"keyword"}, value : Values]

Over(trees) == [op : {"not"}, arg : trees] \cup [op : {"and", "or"}, args : Seq(trees) \ {<<>>}]

(* The trees over some leaves, by their height. *)
TreesOver(leaves) ==
  LET trees[height \in Nat] ==
        IF height = 0 THEN leaves ELSE leaves \cup Over(trees[height - 1])
  IN  trees

Parsed == TreesOver(Leaves)[MaxHeight]

(* The IR of a leaf may be an OR. *)
Trees == TreesOver(Leaves)[MaxHeight + 1]
IRs == TreesOver(Fields)[MaxHeight + 1]
Negatable == TreesOver(Fields)[MaxHeight]

ASSUME LoweringAssumption ==
  /\ MaxHeight \in Nat
  /\ \A limit \in {MaxAlternatives, MaxPredicates, MaxChildRules, MaxDepth,
                    MaxPatternSize, MaxFields, MaxXmlSize} : limit \in Nat \ {0}
  /\ Conditions \subseteq Parsed

VARIABLES
  condition,  \* the parsed condition of the Sigma rule
  stage,      \* how far generate_rules is
  ir,         \* the condition IR
  lowered,    \* the DNF: a sequence of alternatives, each a sequence of predicates
  rules,      \* the planned Wazuh rules, each a sequence of predicates
  reason      \* why the rule was rejected

vars == <<condition, stage, ir, lowered, rules, reason>>

-----------------------------------------------------------------------------
(* _build_condition_ir: the expansion of a value becomes an OR; a value    *)
(* without a field is not supported.                                       *)

Map(f, s) == [i \in DOMAIN s |-> f[s[i]]]

Predicate(sigma, value) == [op |-> "field", sigma |-> sigma, value |-> value]

ExpansionIR(node) ==
  [op |-> "or", args |-> [i \in DOMAIN node.values |-> Predicate(node.sigma, node.values[i])]]

BuildIR[node \in Parsed] ==
  CASE node.op = "field" -> Ok(node)
    [] node.op = "expansion" -> Ok(ExpansionIR(node))
    [] node.op = "keyword" -> Err("fieldless value")
    [] node.op = "not" ->
         Bind(BuildIR[node.arg], LAMBDA child : Ok([op |-> "not", arg |-> child]))
    [] OTHER ->
         Bind(AllOk(Map(BuildIR, node.args)), LAMBDA children : Ok([node EXCEPT !.args = children]))

-----------------------------------------------------------------------------
(* _normalize_condition_ir and _normalize_not_ir: flatten nested AND and   *)
(* OR, drop equal children and push every NOT down to a field predicate.   *)
(* Both call each other one level deeper, down to the limit: "below" is    *)
(* what they answer there.                                                 *)

\* Mutant: NOT goes to the children and the operator stays.
DualForgotten(op) == op
Dual(op) == IF op = "and" THEN "or" ELSE "and"

Flatten(op, children) ==
  FlattenSeq([i \in DOMAIN children |->
                IF children[i].op = op THEN children[i].args ELSE <<children[i]>>])

NormalizeIR(below, node) ==
  CASE node.op = "field" -> Ok(node)
    [] node.op = "not" -> below.not[node.arg]
    [] OTHER ->
         Bind(AllOk(Map(below.ir, node.args)), LAMBDA children :
              Ok([node EXCEPT !.args = Dedupe(Flatten(node.op, children))]))

NormalizeNot(below, child) ==
  Bind(NormalizeIR(below, child), LAMBDA node :
    CASE node.op = "field" -> Ok([op |-> "not", arg |-> node])
      [] node.op = "not" -> below.ir[node.arg]
      [] OTHER ->
           Bind(AllOk(Map(below.not, node.args)), LAMBDA children :
                Ok([op |-> Dual(node.op), args |-> Dedupe(children)])))

TooDeep ==
  [ir |-> [node \in IRs |-> Err("condition too deep")],
   not |-> [node \in Negatable |-> Err("condition too deep")]]

(* By the number of levels that are left. *)
Normalized[levels \in 0 .. MaxDepth + 1] ==
  IF levels = 0 THEN TooDeep
  ELSE [ir |-> [node \in IRs |-> NormalizeIR(Normalized[levels - 1], node)],
        not |-> [node \in Negatable |-> NormalizeNot(Normalized[levels - 1], node)]]

-----------------------------------------------------------------------------
(* _lower_condition_ir: the DNF, with the same levels. *)

(* The children of an AND one after the other, up to the first error. *)
LowerChildren(parts) ==
  LET dnf[k \in 0 .. Len(parts)] ==
        IF k = 0 THEN Ok(<< <<>> >>)
        ELSE Bind(dnf[k - 1], LAMBDA left :
             Bind(parts[k], LAMBDA right : LowerAnd(left, right)))
  IN  dnf[Len(parts)]

LowerIR(below, node) ==
  CASE node.op = "field" -> Bind(LowerField(node), LAMBDA p : Ok(<< <<p>> >>))
    [] node.op = "and" -> LowerChildren(Map(below, node.args))
    [] node.op = "or" -> Bind(AllOk(Map(below, node.args)), LowerOr)
    [] OTHER -> Bind(below[node.arg], LowerNot)

Lowered[levels \in 0 .. MaxDepth + 1] ==
  IF levels = 0 THEN [node \in IRs |-> Err("DNF too deep")]
  ELSE [node \in IRs |-> LowerIR(Lowered[levels - 1], node)]

-----------------------------------------------------------------------------
(* The limits _emit_rule and _assert_total_xml_size put on the elements. *)
EmitRules(planned) ==
  LET SizeOfRule(rule) == FoldLeft(LAMBDA n, p : n + PatternSize(p.pattern), 0, rule)
      Total == FoldLeft(LAMBDA n, rule : n + SizeOfRule(rule), 0, planned)
  IN  IF planned = <<>> THEN Err("no rules planned")
      ELSE IF \E i \in DOMAIN planned : Len(planned[i]) > MaxFields THEN Err("too many fields")
      ELSE IF \E i \in DOMAIN planned : Oversized(planned[i]) THEN Err("pattern too long")
      ELSE IF Total > MaxXmlSize THEN Err("XML too large")
      ELSE Ok(planned)

-----------------------------------------------------------------------------
(* generate_rules, one action for each function it calls. *)

Init ==
  /\ condition \in Conditions
  /\ stage = "parsed"
  /\ ir = condition
  /\ lowered = <<>>
  /\ rules = <<>>
  /\ reason = "none"

Reject(result) ==
  /\ ~result.ok
  /\ stage' = "rejected"
  /\ reason' = result.val
  /\ UNCHANGED <<condition, ir, lowered, rules>>

Build ==
  /\ stage = "parsed"
  /\ LET result == BuildIR[condition] IN
     \/ Reject(result)
     \/ /\ result.ok
        /\ stage' = "built"
        /\ ir' = result.val
        /\ UNCHANGED <<condition, lowered, rules, reason>>

Normalize ==
  /\ stage = "built"
  /\ LET result == Normalized[MaxDepth + 1].ir[ir] IN
     \/ Reject(result)
     \/ /\ result.ok
        /\ stage' = "normalized"
        /\ ir' = result.val
        /\ UNCHANGED <<condition, lowered, rules, reason>>

Lower ==
  /\ stage = "normalized"
  /\ LET result == Lowered[MaxDepth + 1][ir] IN
     \/ Reject(result)
     \/ /\ result.ok
        /\ stage' = "lowered"
        /\ lowered' = result.val
        /\ UNCHANGED <<condition, ir, rules, reason>>

Plan ==
  /\ stage = "lowered"
  /\ LET result == PlanChildRules(lowered) IN
     \/ Reject(result)
     \/ /\ result.ok
        /\ stage' = "planned"
        /\ rules' = result.val
        /\ UNCHANGED <<condition, ir, lowered, reason>>

Emit ==
  /\ stage = "planned"
  /\ LET result == EmitRules(rules) IN
     \/ Reject(result)
     \/ /\ result.ok
        /\ stage' = "emitted"
        /\ UNCHANGED <<condition, ir, lowered, rules, reason>>

Next == Build \/ Normalize \/ Lower \/ Plan \/ Emit

Spec == Init /\ [][Next]_vars

-----------------------------------------------------------------------------
(* What Sigma makes of an event.                                           *)

Subtrees[node \in Trees] ==
  CASE node.op \in {"field", "expansion", "keyword"} -> {node}
    [] node.op = "not" -> {node} \cup Subtrees[node.arg]
    [] OTHER -> {node} \cup UNION {Subtrees[child] : child \in Range(node.args)}

LeavesOf(node) == Subtrees[node] \cap Leaves

LeafMatches(leaf) ==
  CASE leaf.op = "field" -> {<<FieldOf[leaf.sigma], leaf.value>>}
    [] leaf.op = "expansion" -> {<<FieldOf[leaf.sigma], v>> : v \in Range(leaf.values)}
    [] leaf.op = "keyword" -> {<<NoField, leaf.value>>}

(* The events a condition can tell apart. *)
EventsFor(node) == SUBSET UNION {LeafMatches(leaf) : leaf \in LeavesOf(node)}

TruthOf(event) ==
  LET truth[node \in Trees] ==
        CASE node.op = "not" -> ~truth[node.arg]
          [] node.op = "and" -> \A child \in Range(node.args) : truth[child]
          [] node.op = "or" -> \E child \in Range(node.args) : truth[child]
          [] OTHER -> LeafMatches(node) \cap event # {}
  IN  truth

IsTrue(node, event) == TruthOf(event)[node]

(* A predicate the backend has an exact pattern for in every position. *)
Supported(leaf) ==
  /\ leaf.op # "keyword"
  /\ FieldOf[leaf.sigma] # NoField
  /\ (IF leaf.op = "field" THEN {leaf.value} ELSE Range(leaf.values))
       \cap (Unlowerable \cup Anchored) = {}

(* NOT only over a field predicate, no AND in an AND, no OR in an OR, no   *)
(* child twice.                                                            *)
IsNormal(tree) ==
  \A node \in Subtrees[tree] :
    /\ node.op = "not" => node.arg.op = "field"
    /\ node.op \in {"and", "or"} =>
         /\ \A child \in Range(node.args) : child.op # node.op
         /\ IsInjective(node.args)

-----------------------------------------------------------------------------
(* The properties. *)

Stages == {"parsed", "built", "normalized", "lowered", "planned", "emitted", "rejected"}

(* A rule is in one of the stages, and every predicate of a planned rule   *)
(* tests a Wazuh field.                                                    *)
TypeOK ==
  /\ stage \in Stages
  /\ \A r \in Range(rules) : \A p \in Range(r) :
       p.field \in Range(FieldOf) \ {NoField} /\ p.negated \in BOOLEAN

(* "Normalize boolean IR without changing semantics": the normalised IR is *)
(* true of exactly the events the condition is true of, and it is normal,  *)
(* so the lowering never meets a NOT over a group.                         *)
NormalizationExact ==
  stage = "normalized" =>
    /\ IsNormal(ir)
    /\ \A event \in EventsFor(condition) : IsTrue(ir, event) <=> IsTrue(condition, event)

(* The emitted rules raise an alert for exactly the events the Sigma       *)
(* condition is true of: no branch is lost, widened, or dropped because    *)
(* its field or value has no translation.                                  *)
RulesExact ==
  stage = "emitted" =>
    \A event \in EventsFor(condition) :
      Alerts(rules, event) <=> IsTrue(condition, event)

LimitReasons ==
  {"condition too deep", "too many alternatives", "too many predicates",
   "too many child rules", "too many fields", "pattern too long", "XML too large"}

(* A condition made of supported predicates only is rejected for its size, *)
(* never because the lowering has no form for it: no grouped NOT, no OR    *)
(* over several fields, no empty condition and no tree the normalisation   *)
(* made deeper is left over.                                               *)
SupportedNeverRejected ==
  (stage = "rejected" /\ \A leaf \in LeavesOf(condition) : Supported(leaf))
    => reason \in LimitReasons
=============================================================================
