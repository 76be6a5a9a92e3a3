----------------------- MODULE MCConditionLowering -----------------------
(* Instances of ConditionLowering: two Wazuh fields, one of them the target *)
(* of two Sigma fields, and every tree over them up to the heights below.   *)
EXTENDS ConditionLowering

CONSTANTS A, B, C, Inner, Null, F, G   \* values and Wazuh fields

MCFieldOf ==
  [Image |-> F, ImageAlias |-> F, User |-> G, Unmapped |-> NoField]

Leaf(sigma, value) == [op |-> "field", sigma |-> sigma, value |-> value]
Not(node) == [op |-> "not", arg |-> node]
Op(op, args) == [op |-> op, args |-> args]
Pairs(S, T) == {Op(op, <<x, y>>) : op \in {"and", "or"}, x \in S, y \in T}
Triples(S) == {Op(op, <<x, y, z>>) : op \in {"and", "or"}, x \in S, y \in S, z \in S}

Plain == {Leaf("Image", A), Leaf("Image", B), Leaf("User", A)}
More == Plain \cup {Leaf("Image", C)}

(* Leaves that are special: an alias, an anchored regex, no pattern, no     *)
(* field, an expansion and a keyword.                                       *)
Special ==
  {Leaf("ImageAlias", A), Leaf("Image", Inner), Leaf("Image", Null),
   Leaf("Unmapped", A), [op |-> "keyword", value |-> A],
   [op |-> "expansion", sigma |-> "Image", values |-> <<A, C>>]}

Literals == More \cup {Not(l) : l \in More}
Height1 == Literals \cup Pairs(More, More)
Height2 == {Not(t) : t \in Height1} \cup Pairs(Height1, Height1)

MCConditions ==
  Height1 \cup Height2
    \cup {Not(t) : t \in Height2}
    \cup Pairs(Pairs(Pairs(Plain, Plain), Plain), Plain)
    \cup Pairs(Special, Special \cup Height1)
    \cup {Not(t) : t \in Pairs(Special, Special)}
    \cup Pairs({Not(t) : t \in Pairs(Special, Plain)}, Plain)
    \cup Pairs(Pairs(Pairs(Plain, Plain), Pairs(Plain, Plain)), Plain)
    \cup Triples(Literals \cup {Leaf("ImageAlias", A)})
    \cup {Not(Not(Not(Not(t)))) : t \in Pairs(Plain, Plain)}
=============================================================================
