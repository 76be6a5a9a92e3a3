-------------------------- MODULE MCTestGeneration --------------------------
(* Instances of TestGeneration: three rules, two of one title, and a file of *)
(* no rule; the directory's order is not the rules'.                         *)
EXTENDS TestGeneration

MCSlugs == { <<1, 2>>, <<3, 1>>, <<2, 3, 2>> }
=============================================================================
