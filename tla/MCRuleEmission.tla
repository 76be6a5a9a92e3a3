--------------------------- MODULE MCRuleEmission ---------------------------
(* Instances of RuleEmission: the repository's table of mappings, rules that *)
(* vary in their log source and field, and rules that vary in their values.  *)
EXTENDS RuleEmission

A == 300
B == 301
C == 302

Text(parts) == [kind |-> "string", parts |-> parts]
Number(n) == [kind |-> "number", text |-> <<n>>]
Regex(branches) == [kind |-> "regex", branches |-> branches, flagged |-> FALSE]
Cidr(octets, prefix) == [kind |-> "cidr", octets |-> octets, prefix |-> prefix]

Char(c) == Atom({c}, FALSE)
Search(c) == Branch(FALSE, << Char(c) >>, FALSE)
FromStart(c) == Branch(TRUE, << Char(c) >>, FALSE)

Group(field, op, negated, values) ==
  [field |-> field, op |-> op, negated |-> negated, values |-> values]

SigmaRule(title, level, product, service, category, groups) ==
  [titled |-> TRUE, title |-> title, level |-> level, product |-> product,
   service |-> service, category |-> category, groups |-> groups]

Windows(groups) ==
  SigmaRule("pattern", "high", "windows", "sysmon", "process_creation", groups)

-----------------------------------------------------------------------------
(* Log sources and fields: some verified everywhere, some in one log source *)
(* only, some nowhere, one of Wazuh's own.                                   *)

MCFields == {"Image", "Description", "Data", "Path", "NewProcessName", "user", "Unknown"}

MCLogsources ==
  { <<"windows", "sysmon", "process_creation">>, <<"windows", NoValue, "file_event">>,
    <<"windows", "security", NoValue>>, <<"windows", "application", "process_creation">>,
    <<"linux", NoValue, NoValue>>, <<NoValue, "powershell", NoValue>> }

Plain == Text(<<A>>)
FieldRules ==
  { SigmaRule("field", "low", source[1], source[2], source[3],
              << Group(field, "any", FALSE, << Plain >>) >>) :
      source \in MCLogsources, field \in MCFields }

EventRules ==
  { SigmaRule("event", level, "windows", "security", NoValue,
              << Group("EventID", "any", negated, << Number(id) >>) >>) :
      level \in {"critical", "odd"}, negated \in BOOLEAN, id \in {4720, 4625} }

(* No title, no log source, no condition.                                    *)
InvalidRules ==
  { [Windows(<< Group("Image", "any", FALSE, << Plain >>) >>) EXCEPT !.titled = FALSE],
    SigmaRule("nowhere", "low", NoValue, NoValue, NoValue,
              << Group("Image", "any", FALSE, << Plain >>) >>),
    Windows(<<>>) }

-----------------------------------------------------------------------------
(* Values. *)

Strings ==
  { Text(<<A>>), Text(<<>>), Text(<<Multi, A>>), Text(<<A, Multi>>), Text(<<Multi, B, Multi>>),
    Text(<<A, Single, B>>), Text(<<C>>), Text(<<Multi, C, Multi, A>>) }

Regexes ==
  { Regex(<< Search(A) >>), Regex(<< FromStart(A) >>), Regex(<< Search(B), FromStart(A) >>), Regex(<< FromStart(A), Search(B) >>),
    Regex(<< Search(A), Search(C) >>),
    Regex(<< [Search(B) EXCEPT !.flags = TRUE], Search(A) >>),
    Regex(<< [FromStart(B) EXCEPT !.flags = TRUE] >>),
    Regex(<< Branch(FALSE, << Char(A), Atom(AnySymbol, TRUE), Char(B) >>, TRUE) >>) }

Unlowerable ==
  { [kind |-> "null"], [kind |-> "exists"], [kind |-> "expansion"], [kind |-> "cidr6"],
    [Regex(<< Search(A) >>) EXCEPT !.flagged = TRUE] }

Networks == { Cidr(<<10, 128, 65, 200>>, prefix) : prefix \in 0..32 }
              \cup { Cidr(<<255, 255, 255, 255>>, 1), Cidr(<<0, 0, 0, 0>>, 7) }

LongPattern == << Group("Image", "any", FALSE, <<Text([i \in 1..9 |-> A])>>) >>

One(values) == { << Group("Image", "any", FALSE, <<v>>) >> : v \in values }
Two(values, ops) ==
  { << Group("Image", op, negated, <<v, w>>) >> :
      op \in ops, negated \in {FALSE}, v \in values, w \in values }

PatternRules ==
  { Windows(groups) :
      groups \in One(Strings \cup Regexes \cup Unlowerable \cup Networks)
                   \cup Two(Strings \cup Regexes, {"any", "all"})
                   \cup { << Group("Image", "any", TRUE, <<Plain, Text(<<B>>)>>) >>,
                          << Group("Image", "all", FALSE, <<Plain, Cidr(<<10, 0, 0, 0>>, 8)>>) >>,
                          << Group("Image", "any", FALSE, <<Text(<<Multi, A>>), Text(<<A, Multi>>), Text(<<B>>)>>) >>,
                          LongPattern,
                          << Group("Image", "all", FALSE, <<Plain, Plain>>),
                             Group("user", "any", FALSE, <<Plain>>),
                             Group("User", "any", TRUE, <<Plain>>) >> } }

Input(rule) == [rule |-> rule, override |-> NoValue]

(* One rule alone, or after one that is written, or that is rejected.        *)
PatternDirectories == { << Input(rule) >> : rule \in PatternRules }
FieldDirectories ==
  { << Input(rule) >> : rule \in FieldRules \cup EventRules }
    \cup { << Input(first), Input(rule), Input(rule) >> :
             first \in InvalidRules, rule \in EventRules }
    \cup { << [rule |-> rule, override |-> level], Input(rule) >> :
             level \in {0, 15, 16}, rule \in EventRules }
    \cup { << Input(long), Input(rule), Input(rule) >> :
             long \in {Windows(LongPattern)}, rule \in EventRules }

Addresses ==
  { <<10, 128, 65, 200>>, <<10, 128, 65, 201>>, <<10, 128, 65, 199>>, <<10, 128, 64, 0>>,
    <<10, 128, 66, 0>>, <<10, 128, 63, 255>>, <<10, 129, 0, 0>>, <<10, 127, 255, 255>>,
    <<11, 0, 0, 0>>, <<9, 255, 255, 255>>, <<255, 255, 255, 255>>, <<127, 255, 255, 255>>,
    <<128, 0, 0, 0>>, <<0, 0, 0, 0>>, <<1, 255, 0, 0>>, <<2, 0, 0, 0>>, <<10, 192, 0, 0>>,
    <<10, 128, 128, 0>>, <<10, 128, 72, 0>>, <<10, 128, 65, 224>>, <<10, 128, 65, 208>>,
    <<10, 0, 0, 0>>, <<64, 0, 0, 0>>, <<16, 0, 0, 0>> }

MCSamples == UNION { [1..n -> {A, B, C}] : n \in 0..3 } \cup Addresses

-----------------------------------------------------------------------------
(* Configurations and additions. *)

MCOverrides == [Unknown |-> Target("bare", "legacy_name"), Image |-> Target("eventdata", "Image")]
OwnParents == [DefaultParentRules EXCEPT !.service = [sysmon |-> <<100010>>], !.bare = <<>>]

Config(mode, overrides, parents) ==
  [mode |-> mode, overrides |-> overrides, parents |-> parents,
   firstId |-> 9999998, lastId |-> 9999999]

Strict == Config("strict", <<>>, DefaultParentRules)
Warn == Config("warn", <<>>, DefaultParentRules)
Legacy == Config("legacy", <<>>, DefaultParentRules)
Own == Config("strict", MCOverrides, OwnParents)

MCConfigs == {Strict, Warn, Legacy, Own}

MCDirectories ==
  [c \in MCConfigs |-> FieldDirectories \cup IF c = Strict THEN PatternDirectories ELSE {}]

Safe == FieldMapping("Unknown", Decoded("Unknown"), {"sysmon"}, {})
Unsafe == FieldMapping("Unknown", Target("bare", "unknown"), {}, {})
Everywhere == [Unsafe EXCEPT !.products = {}]
Elsewhere == [Unsafe EXCEPT !.products = {"linux"}]
Malformed == FieldMapping("Unknown", Target("other", "unknown"), {}, {})
Undocumented == [Safe EXCEPT !.documented = FALSE]
Shadowing == FieldMapping("Data", Decoded("Other"), {"application"}, {"process_creation"})

MCCustomMappings == {Safe, Unsafe, Malformed, Undocumented, Shadowing}
MCBatches == { <<Elsewhere, Safe>>, <<Safe, Everywhere>>, <<Unsafe>>, <<Safe, Undocumented>> }
=============================================================================
