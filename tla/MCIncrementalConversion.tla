---------------------- MODULE MCIncrementalConversion ----------------------
(***************************************************************************)
(* Instances of IncrementalConversion for TLC.                             *)
(***************************************************************************)
EXTENDS IncrementalConversion, TLC

MCSingle == [v \in Versions |-> 1]

\* One content per behaviour of the backend.
MCBranches == [v \in Versions |-> CASE v = "unsupported" -> 0
                                    [] v = "triple"      -> 3
                                    [] v \in {"double", "huge"} -> 2
                                    [] OTHER -> 1]

Symmetry == Permutations(Identities)
============================================================================
