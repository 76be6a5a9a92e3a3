----------------------------- MODULE Patterns -----------------------------
(***************************************************************************)
(* The PCRE2 patterns the backend writes for Sigma values (backend/        *)
(* wazuh.py): strings with wildcards, numbers, regular expressions and     *)
(* IPv4 networks, alone, as alternatives of one field and as conjunctions  *)
(* of lookaheads.                                                          *)
(*                                                                         *)
(* A text is a sequence of symbols: a character, or, in an address, an     *)
(* octet (the dots between octets are left out).  A pattern is             *)
(*   [kind |-> "branches", branches]   a|b|...                             *)
(*   [kind |-> "any", parts]           (?:p|q|...), an alternation of patterns *)
(*   [kind |-> "all", parts]           one lookahead for each part, then .* *)
(* where the parts are a set: an equal pattern is not written twice, and   *)
(* what the whole matches does not depend on their order.                  *)
(* A branch has atoms (a class of symbols, perhaps starred), may be        *)
(* anchored at either end and may begin with inline flags, (?i), which     *)
(* stand for their place in the pattern and not for what they select.      *)
(* Texts have no line break, so "." is every symbol.                       *)
(***************************************************************************)
EXTENDS Integers, SequencesExt

CONSTANTS
  Letters    \* characters, numbered above 255

AnyOctet == 0..255
AnySymbol == AnyOctet \cup Letters

(* The wildcards of a Sigma string, * and ?. *)
Multi == 1000
Single == 1001

Atom(class, star) == [class |-> class, star |-> star]
Branch(start, atoms, end) == [flags |-> FALSE, start |-> start, atoms |-> atoms, end |-> end]
Branches(branches) == [kind |-> "branches", branches |-> branches]
Whole(atoms) == Branches(<< Branch(TRUE, atoms, TRUE) >>)   \* ^...$

-----------------------------------------------------------------------------
(* The values pySigma makes of a rule.                                       *)

ParsedBranch(branch) ==
  branch \in [flags : BOOLEAN, start : BOOLEAN, atoms : Seq(Range(branch.atoms)), end : BOOLEAN]

ParsedValue(value) ==
  /\ value.kind \in {"string", "number", "cidr", "cidr6", "regex", "null", "exists", "expansion"}
  /\ value.kind = "string" => value.parts \in Seq(AnySymbol \cup {Multi, Single})
  /\ value.kind = "number" => value.text \in Seq(Range(value.text))
  /\ value.kind = "cidr" => value.octets \in [1..4 -> AnyOctet] /\ value.prefix \in 0..32
  /\ value.kind = "regex" =>
       /\ value.branches \in Seq(Range(value.branches)) /\ value.branches # <<>>
       /\ \A i \in DOMAIN value.branches :
            ParsedBranch(value.branches[i]) /\ (value.branches[i].flags => i = 1)

(* Values that have no pattern: the error paths of _pattern_for_sigma_value. *)

HasPattern(value) ==
  /\ value.kind \notin {"null", "exists", "expansion", "cidr6"}
  /\ value.kind = "regex" => ~value.flagged

(* A literal character stands for itself: spaces are written unescaped and  *)
(* "<" and ">" as their hexadecimal code, all of which match themselves.    *)
EscapeLiteral(symbol) == Atom({symbol}, FALSE)

PartAtom(part) ==
  CASE part = Multi  -> Atom(AnySymbol, TRUE)
    [] part = Single -> Atom(AnySymbol, FALSE)
    [] OTHER         -> EscapeLiteral(part)

StringPattern(parts) == Whole([i \in DOMAIN parts |-> PartAtom(parts[i])])

(* The number of values of so many bits, up to an octet.                     *)
PowerOfTwo(bits) == <<1, 2, 4, 8, 16, 32, 64, 128, 256>>[bits + 1]

\* Mutant: the range of the partial octet has one octet too many.
OctetRangeLong(low, hostBits) == low .. low + PowerOfTwo(hostBits)
OctetRange(low, hostBits) == low .. low + PowerOfTwo(hostBits) - 1

(* ip_network has cleared the host bits; the octet the prefix ends in is an  *)
(* alternation of its values, those behind it any octet.                     *)
CidrPattern(octets, prefix) ==
  LET full == prefix \div 8
      hostBits == 8 - (prefix % 8)
      low == (octets[full + 1] \div PowerOfTwo(hostBits)) * PowerOfTwo(hostBits)
      Class(i) == CASE i <= full -> {octets[i]}
                    [] i = full + 1 /\ prefix % 8 # 0 -> OctetRange(low, hostBits)
                    [] OTHER -> AnyOctet
  IN  Whole([i \in 1..4 |-> Atom(Class(i), FALSE)])

PatternForValue(value) ==
  CASE value.kind = "string" -> StringPattern(value.parts)
    [] value.kind = "number" -> Whole([i \in DOMAIN value.text |-> EscapeLiteral(value.text[i])])
    [] value.kind = "cidr"   -> CidrPattern(value.octets, value.prefix)
    [] value.kind = "regex"  -> Branches(value.branches)

-----------------------------------------------------------------------------
(* Embedding one pattern in another. *)

\* Mutant: the flags stay where they are.
ScopeLeadingFlagsNot(pattern) == pattern

(* (?i)a|b becomes (?i:a|b): the flags are no longer at the front, and the  *)
(* group they open is.                                                      *)
ScopeLeadingFlags(pattern) ==
  IF pattern.kind = "branches" /\ pattern.branches[1].flags
  THEN [kind |-> "branches", branches |-> [pattern.branches EXCEPT ![1].flags = FALSE],
        scoped |-> TRUE]
  ELSE pattern

Scoped(pattern) == "scoped" \in DOMAIN pattern

(* The index of the first start anchor outside a class: none, 0 or later.   *)
FirstStartAnchor(pattern) ==
  IF pattern.kind # "branches" \/ \A i \in DOMAIN pattern.branches : ~pattern.branches[i].start
  THEN "none"
  ELSE IF pattern.branches[1].start /\ ~Scoped(pattern) THEN "front" ELSE "inside"

(* _is_regex_lookahead_safe; the other patterns are anchored at the front.   *)
LookaheadSafe(pattern) == FirstStartAnchor(ScopeLeadingFlags(pattern)) # "inside"

(* (?=^a)(?=.*(?:b)).*                                                       *)
AllOf(patterns) == [kind |-> "all", parts |-> { ScopeLeadingFlags(p) : p \in patterns }]

(* (?:a|b)                                                                   *)
AnyOf(patterns) == [kind |-> "any", parts |-> { ScopeLeadingFlags(p) : p \in patterns }]

(* Flags behind the front of an expression do not compile, and no part of    *)
(* one is at its front.                                                      *)
Compiles(pattern) ==
  LET Inside(branches, first) == \A i \in DOMAIN branches : branches[i].flags => first /\ i = 1
  IN  IF pattern.kind = "branches" THEN Inside(pattern.branches, TRUE)
      ELSE \A part \in pattern.parts : Inside(part.branches, FALSE)

-----------------------------------------------------------------------------
(* What a pattern matches: PCRE2 searches, so a match may begin anywhere.    *)

Advance(text, from, atom) ==
  IF atom.star
  THEN { j \in 1 .. Len(text) + 1 :
           \E i \in from : i <= j /\ \A k \in i .. j - 1 : text[k] \in atom.class }
  ELSE { i + 1 : i \in { k \in from : k <= Len(text) /\ text[k] \in atom.class } }

(* Where a branch can be after each of its atoms.                            *)
Reach(atoms, text, starts) ==
  LET reach[k \in 0 .. Len(atoms)] ==
        IF k = 0 THEN starts ELSE Advance(text, reach[k - 1], atoms[k])
  IN  reach

BranchMatches(branch, text, from) ==
  LET starts == IF branch.start THEN from \cap {1} ELSE from
      ends == Reach(branch.atoms, text, starts)[Len(branch.atoms)]
  IN  IF branch.end THEN Len(text) + 1 \in ends ELSE ends # {}

MatchesFrom(branches, text, from) ==
  \E i \in DOMAIN branches : BranchMatches(branches[i], text, from)

(* The lookahead of a part, at a position: with its own anchor at the front  *)
(* the part is tried there, otherwise there and anywhere behind.             *)
LookaheadHolds(part, text, position) ==
  MatchesFrom(part.branches, text,
              IF FirstStartAnchor(part) = "front" THEN {position}
              ELSE position .. Len(text) + 1)

Matches(pattern, text) ==
  LET positions == 1 .. Len(text) + 1
  IN  CASE pattern.kind = "branches" -> MatchesFrom(pattern.branches, text, positions)
        [] pattern.kind = "any" ->
             \E part \in pattern.parts : MatchesFrom(part.branches, text, positions)
        [] pattern.kind = "all" ->
             \E position \in positions :
               \A part \in pattern.parts : LookaheadHolds(part, text, position)

-----------------------------------------------------------------------------
(* What a Sigma value matches, said without patterns: a string is cut into   *)
(* the texts of its parts, a network is compared by its leading bits.        *)

PartFits(part, text, i, j) ==
  CASE part = Multi  -> i <= j
    [] part = Single -> j = i + 1
    [] OTHER -> j = i + 1 /\ text[j] = part

CutInto(parts, text) ==
  \E cut \in [0 .. Len(parts) -> 0 .. Len(text)] :
    /\ cut[0] = 0 /\ cut[Len(parts)] = Len(text)
    /\ \A i \in 1 .. Len(parts) : PartFits(parts[i], text, cut[i - 1], cut[i])

InNetwork(octets, prefix, text) ==
  /\ Len(text) = 4
  /\ \A i \in 1..4 :
       /\ text[i] \in AnyOctet
       /\ LET hostBits == IF prefix >= 8 * i THEN 0
                          ELSE IF prefix <= 8 * (i - 1) THEN 8 ELSE 8 * i - prefix
          IN  text[i] \div PowerOfTwo(hostBits) = octets[i] \div PowerOfTwo(hostBits)

SigmaMatches(value, text) ==
  CASE value.kind = "string" -> CutInto(value.parts, text)
    [] value.kind = "number" -> text = value.text
    [] value.kind = "cidr"   -> InNetwork(value.octets, value.prefix, text)
    [] value.kind = "regex"  -> MatchesFrom(value.branches, text, 1 .. Len(text) + 1)

-----------------------------------------------------------------------------
(* What the validator counts in a pattern: the bars of its alternations and  *)
(* its length, in atoms.  A free octet is written with three bars.           *)

Total(numbers) == FoldLeft(LAMBDA sum, n : sum + n, 0, numbers)

ClassBars(class) ==
  CASE class = AnyOctet -> 3
    [] class = AnySymbol -> 0
    [] OTHER -> Cardinality(class) - 1

BranchesBars(branches) ==
  Len(branches) - 1
    + Total([i \in DOMAIN branches |->
              Total([j \in DOMAIN branches[i].atoms |-> ClassBars(branches[i].atoms[j].class)])])

BranchesSize(branches) == Total([i \in DOMAIN branches |-> Len(branches[i].atoms)])

Bars(pattern) ==
  LET Sum == MapThenSumSet(LAMBDA part : BranchesBars(part.branches), pattern.parts)
  IN  CASE pattern.kind = "branches" -> BranchesBars(pattern.branches)
        [] pattern.kind = "any" -> Sum + Cardinality(pattern.parts) - 1
        [] pattern.kind = "all" -> Sum

Size(pattern) ==
  IF pattern.kind = "branches" THEN BranchesSize(pattern.branches)
  ELSE MapThenSumSet(LAMBDA part : BranchesSize(part.branches), pattern.parts)

=============================================================================
