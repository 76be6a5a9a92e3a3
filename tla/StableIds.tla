------------------------------ MODULE StableIds ------------------------------
(***************************************************************************)
(* What the persistent rule manifest promises, with everything about runs, *)
(* caches and crashes hidden: an identity that has once been given a rule  *)
(* id keeps it, as an active rule and, when its rule is deleted, as a      *)
(* retired one for ever; no two identities ever hold the same id.          *)
(* IncrementalConversion implements this specification by the manifest     *)
(* file on disk.                                                           *)
(***************************************************************************)
EXTENDS Naturals

CONSTANTS Identities,   \* rule identities (Sigma UUIDs or fallback hashes)
          NoId          \* not a rule id: the identity holds none

VARIABLES active,       \* id of every identity the manifest lists as active
          retired       \* id of every identity it lists as retired

ids == <<active, retired>>

\* The id an identity holds, in either half of the manifest.
Held(a, r, i) == IF a[i] # NoId THEN a[i] ELSE r[i]

StableInit ==
  /\ active  = [i \in Identities |-> NoId]
  /\ retired = [i \in Identities |-> NoId]

\* One replacement of the manifest: any number of new identities are given
\* fresh ids, and any number of active ones are retired with the id they had.
Commit ==
  /\ \A i \in Identities :
       \/ active[i] # NoId /\ active'[i] = active[i] /\ retired'[i] = NoId
       \/ active[i] # NoId /\ active'[i] = NoId /\ retired'[i] = active[i]
       \/ active[i] = NoId /\ retired[i] # NoId
            /\ active'[i] = NoId /\ retired'[i] = retired[i]
       \/ active[i] = NoId /\ retired[i] = NoId /\ retired'[i] = NoId
  /\ \A i, j \in Identities :
       /\ i # j
       /\ Held(active', retired', i) # NoId
       => Held(active', retired', i) # Held(active', retired', j)

StableSpec == StableInit /\ [][Commit]_ids
==============================================================================
