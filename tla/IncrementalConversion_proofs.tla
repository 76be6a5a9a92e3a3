--------------------- MODULE IncrementalConversion_proofs ---------------------
(***************************************************************************)
(* Proofs about IncrementalConversion for every directory, range, backend, *)
(* configuration and pattern of failures.                                  *)
(***************************************************************************)
EXTENDS IncrementalConversion, FiniteSetTheorems, TLAPS

(***************************************************************************)
(* The inductive invariant.                                                *)
(***************************************************************************)
\* Between runs nothing is left in memory.
MemoryEmpty ==
  /\ file = 1
  /\ manifest = EmptyManifest
  /\ current = {}
  /\ used = {}
  /\ cursor = RuleIdStart
  /\ elements = {}

\* The manifest in memory adds to the one on disk identities of this run only.
ExtendsSaved ==
  \A i \in Identities :
    /\ manifest.retired[i] = saved.retired[i]
    /\ IsActive(saved, i) => manifest.active[i] = saved.active[i]
    /\ IsActive(manifest, i) /\ ~IsActive(saved, i) => i \in current

\* A cached fragment is the main rule of the identity it is filed under.
EntriesFiled ==
  \A e \in cache : e.fragment.base /\ e.fragment.identity = e.key[1].identity

\* Every element has its own id, taken from the generator, and belongs to an
\* identity of this run; a main rule has the id the manifest gives it.
ElementsOwned ==
  /\ \A e \in elements :
       /\ e.id \in used
       /\ e.identity \in current
       /\ IsActive(manifest, e.identity)
       /\ e.base => e.id = manifest.active[e.identity]
  /\ \A e1, e2 \in elements : e1.id = e2.id => e1 = e2

IInv ==
  /\ TypeOK
  /\ ManifestSound
  /\ EntriesFiled
  /\ PublishedIdsUnique
  /\ stage = "idle" => MemoryEmpty
  /\ stage # "idle" => ElementsOwned
  /\ stage # "idle" => ExtendsSaved /\ outcome = "none"
  /\ stage \in {"chunks", "finalize"} => published = elements
  /\ "lost_manifest" \notin Faults => PublishedAgreesWithManifest

(***************************************************************************)
(* Lemmas on the manifest operators.                                       *)
(***************************************************************************)
LEMMA EmptySound == EmptyManifest \in Manifest /\ Sound(EmptyManifest)
  BY RangeAssumption
     DEF EmptyManifest, Manifest, Sound, IsActive, IsRetired, Ids, NoId, IdCursors

\* Giving an identity an id keeps the manifest sound and gives nobody else's id.
LEMMA EnrolSound ==
  ASSUME NEW m \in Manifest, Sound(m), NEW i \in Identities, Resolvable(m, i)
  PROVE  /\ Enrol(m, i) \in Manifest
         /\ Sound(Enrol(m, i))
         /\ IdFor(m, i) \in Ids
         /\ Enrol(m, i).active[i] = IdFor(m, i)
         /\ IsActive(Enrol(m, i), i)
         /\ \A j \in Identities \ {i} : Enrol(m, i).active[j] = m.active[j]
         /\ Enrol(m, i).retired = m.retired
<1> USE RangeAssumption DEF Manifest, Ids, NoId, IdCursors, IsActive, IsRetired
<1>1. CASE IsActive(m, i)
  BY <1>1 DEF Enrol, IdFor, Sound
<1>2. CASE ~IsActive(m, i)
  <2> DEFINE n == Enrol(m, i)
  <2>1. /\ ~IsRetired(m, i)
        /\ m.next_id \in Ids
        /\ n = [active  |-> [m.active EXCEPT ![i] = m.next_id],
               retired |-> m.retired,
               next_id |-> m.next_id + 1]
        /\ IdFor(m, i) = m.next_id
    BY <1>2 DEF Resolvable, Enrol, IdFor
  <2>2. /\ n \in Manifest
        /\ n.active = [m.active EXCEPT ![i] = m.next_id]
        /\ n.retired = m.retired
        /\ n.next_id = m.next_id + 1
    BY <2>1
  <2> HIDE DEF n
  <2>3. Sound(n)
    BY <2>1, <2>2 DEF Sound
  <2> QED BY <2>1, <2>2, <2>3 DEF n
<1> QED BY <1>1, <1>2

\* Retiring what was not seen keeps the manifest sound.
LEMMA RetireSound ==
  ASSUME NEW m \in Manifest, Sound(m), NEW S
  PROVE  /\ RetireUnseen(m, S) \in Manifest
         /\ Sound(RetireUnseen(m, S))
<1> USE RangeAssumption DEF Manifest, Ids, NoId, IdCursors, IsActive, IsRetired
<1> DEFINE n == RetireUnseen(m, S)
<1>1. /\ n \in Manifest
      /\ n.next_id = m.next_id
      /\ \A i \in Identities :
           /\ n.active[i] = IF i \in S THEN m.active[i] ELSE NoId
           /\ n.retired[i] = IF i \notin S /\ IsActive(m, i) THEN m.active[i]
                                                             ELSE m.retired[i]
  BY DEF RetireUnseen
<1> HIDE DEF n
<1>2. Sound(n)
  BY <1>1 DEF Sound
<1> QED BY <1>1, <1>2 DEF n

(***************************************************************************)
(* The invariant holds initially and every step keeps it.                  *)
(***************************************************************************)
LEMMA InitInv == Init => IInv
<1> SUFFICES ASSUME Init PROVE IInv
  OBVIOUS
<1>1. TypeOK
  <2>1. /\ budget \in 0..Budget
        /\ cursor \in IdCursors
        /\ file \in 1..(NumFiles + 1)
    BY FilesAssumption, RangeAssumption, EnvAssumption DEF Init, IdCursors
  <2> QED BY <2>1, EmptySound DEF Init, TypeOK
<1>2. ManifestSound
  BY EmptySound DEF Init, ManifestSound
<1>3. stage = "idle" /\ MemoryEmpty
  BY DEF Init, MemoryEmpty
<1>4. EntriesFiled /\ PublishedIdsUnique /\ PublishedAgreesWithManifest
  BY DEF Init, EntriesFiled, PublishedIdsUnique, PublishedAgreesWithManifest
<1> QED BY <1>1, <1>2, <1>3, <1>4 DEF IInv

\* The end of a run that leaves the disk as it is.
LEMMA EndRunInv ==
  ASSUME IInv, NEW result \in {"refused", "failed", "aborted", "crashed"},
         EndRun(result), budget' \in 0..Budget, UNCHANGED <<env, disk>>
  PROVE  IInv'
<1>1. TypeOK'
  BY EmptySound, RangeAssumption, FilesAssumption
     DEF IInv, TypeOK, EndRun, env, disk, IdCursors
<1>2. ManifestSound'
  BY EmptySound DEF IInv, ManifestSound, EndRun, disk
<1>3. EntriesFiled' /\ PublishedIdsUnique'
  BY DEF IInv, EntriesFiled, PublishedIdsUnique, disk
<1>4. stage' = "idle" /\ MemoryEmpty' /\ outcome' # "done"
  BY DEF EndRun, MemoryEmpty
<1> QED
  BY <1>1, <1>2, <1>3, <1>4 DEF IInv, PublishedAgreesWithManifest

LEMMA StartRunInv == ASSUME IInv, StartRun PROVE IInv'
<1>1. stage = "idle" /\ MemoryEmpty
  BY DEF IInv, StartRun
<1>2. /\ Rebased(saved) \in Manifest
      /\ Sound(Rebased(saved))
      /\ Rebased(saved).active = saved.active
      /\ Rebased(saved).retired = saved.retired
  <2>1. saved \in Manifest /\ Sound(saved)
    BY DEF IInv, TypeOK, ManifestSound
  <2>2. CASE \E i \in Identities : IsActive(saved, i) \/ IsRetired(saved, i)
    BY <2>1, <2>2 DEF Rebased
  <2>3. CASE ~\E i \in Identities : IsActive(saved, i) \/ IsRetired(saved, i)
    BY <2>1, <2>3, RangeAssumption
       DEF Rebased, Manifest, Sound, IsActive, IsRetired, NoId, IdCursors, Ids
  <2> QED BY <2>2, <2>3
<1>3. TypeOK'
  BY <1>2 DEF IInv, TypeOK, StartRun, env, disk, ids
<1>4. ManifestSound'
  BY <1>2 DEF IInv, ManifestSound, StartRun, disk
<1>5. EntriesFiled' /\ PublishedIdsUnique'
  BY DEF IInv, EntriesFiled, PublishedIdsUnique, StartRun, disk
<1>6. ExtendsSaved'
  BY <1>2 DEF ExtendsSaved, StartRun, disk, IsActive
<1>7. ElementsOwned'
  BY <1>1 DEF ElementsOwned, StartRun, MemoryEmpty
<1>8. stage' = "convert" /\ outcome' = "none"
  BY DEF StartRun
<1>9. PublishedAgreesWithManifest'
  BY <1>8 DEF PublishedAgreesWithManifest
<1>10. /\ stage' # "idle" /\ outcome' = "none"
       /\ stage' \notin {"chunks", "finalize"}
  BY <1>8
<1> QED
  BY <1>3, <1>4, <1>5, <1>6, <1>7, <1>9, <1>10 DEF IInv

LEMMA SkipFileInv == ASSUME IInv, SkipFile PROVE IInv'
<1>1. TypeOK'
  BY FilesAssumption DEF IInv, TypeOK, SkipFile, Files, env, disk, ids
<1>2. ManifestSound' /\ EntriesFiled' /\ PublishedIdsUnique'
  BY DEF IInv, ManifestSound, EntriesFiled, PublishedIdsUnique, SkipFile, disk
<1>3. ElementsOwned' /\ ExtendsSaved'
  BY DEF IInv, ElementsOwned, ExtendsSaved, SkipFile, disk, ids
<1>4. stage = "convert" /\ stage' = "convert" /\ outcome' = outcome
  BY DEF SkipFile
<1>5. PublishedAgreesWithManifest' <=> PublishedAgreesWithManifest
  BY DEF PublishedAgreesWithManifest, SkipFile, disk
<1> QED
  BY <1>1, <1>2, <1>3, <1>4, <1>5 DEF IInv

\* What the conversions of an admitted rule have in common: they add elements
\* whose ids are new to the run, the main one under the identity's own id.
LEMMA AdmitInv ==
  ASSUME IInv, NEW r \in Rule, NEW id \in Ids, Converting(r, id), Admit(r),
         elements \subseteq elements', elements' \subseteq Element,
         \A e \in elements' \ elements :
            /\ e.id \in used' \ used
            /\ e.identity = r.identity
            /\ e.base => e.id = id,
         \A e1, e2 \in elements' \ elements : e1.id = e2.id => e1 = e2,
         used' \subseteq Ids, used \subseteq used', cursor' \in IdCursors,
         cache' \subseteq Entry, EntriesFiled'
  PROVE  IInv'
<1> DEFINE i == r.identity
<1>1. /\ stage = "convert" /\ stage' = "convert" /\ outcome' = outcome
      /\ saved' = saved /\ published' = published /\ UNCHANGED <<env, budget, manifestExists>>
      /\ manifest' = Enrol(manifest, i)
      /\ current' = current \cup {i}
      /\ i \notin current /\ Resolvable(manifest, i)
      /\ id = IdFor(manifest, i)
      /\ file \in Files /\ file' = file + 1
  BY DEF Admit, Admitted, Converting
<1>2. i \in Identities
  BY DEF Rule
<1>3. manifest \in Manifest /\ Sound(manifest) /\ ElementsOwned /\ ExtendsSaved
  BY <1>1 DEF IInv, TypeOK, ManifestSound
<1>4. /\ manifest' \in Manifest
      /\ Sound(manifest')
      /\ manifest'.active[i] = id
      /\ IsActive(manifest', i)
      /\ \A j \in Identities \ {i} : manifest'.active[j] = manifest.active[j]
      /\ manifest'.retired = manifest.retired
  BY <1>1, <1>2, <1>3, EnrolSound
<1>5. TypeOK'
  BY <1>1, <1>2, <1>4, FilesAssumption DEF IInv, TypeOK, Files, env
<1>6. ManifestSound' /\ PublishedIdsUnique'
  BY <1>1, <1>4 DEF IInv, ManifestSound, PublishedIdsUnique
<1>7. ElementsOwned'
  <2>1. ASSUME NEW e \in elements'
        PROVE  /\ e.id \in used'
               /\ e.identity \in current'
               /\ IsActive(manifest', e.identity)
               /\ e.base => e.id = manifest'.active[e.identity]
    <3>1. CASE e \notin elements
      BY <3>1, <1>1, <1>4
    <3>2. CASE e \in elements
      <4>1. e.id \in used /\ e.identity \in current
        BY <3>2, <1>3 DEF ElementsOwned
      <4>2. e.identity \in Identities \ {i}
        BY <4>1, <1>1 DEF IInv, TypeOK
      <4>3. manifest'.active[e.identity] = manifest.active[e.identity]
        BY <4>2, <1>4
      <4> QED BY <4>1, <4>3, <3>2, <1>1, <1>3 DEF ElementsOwned, IsActive
    <3> QED BY <2>1, <3>1, <3>2
  <2>2. \A e \in elements : e.id \in used
    BY <1>3 DEF ElementsOwned
  <2>3. \A e1, e2 \in elements' : e1.id = e2.id => e1 = e2
    BY <2>2, <1>3 DEF ElementsOwned
  <2> QED BY <2>1, <2>3 DEF ElementsOwned
<1>8. ExtendsSaved'
  <2> SUFFICES ASSUME NEW j \in Identities
               PROVE  /\ manifest'.retired[j] = saved'.retired[j]
                      /\ IsActive(saved', j) => manifest'.active[j] = saved'.active[j]
                      /\ IsActive(manifest', j) /\ ~IsActive(saved', j) => j \in current'
    BY DEF ExtendsSaved
  <2>1. CASE j = i
    <3>1. IsActive(saved, i) => manifest'.active[i] = saved.active[i]
      BY <1>1, <1>2, <1>3, <1>4 DEF ExtendsSaved, IdFor, IsActive
    <3> QED BY <3>1, <2>1, <1>1, <1>3, <1>4 DEF ExtendsSaved
  <2>2. CASE j # i
    BY <2>2, <1>1, <1>3, <1>4 DEF ExtendsSaved, IsActive
  <2> QED BY <2>1, <2>2
<1>9. PublishedAgreesWithManifest' <=> PublishedAgreesWithManifest
  BY <1>1 DEF PublishedAgreesWithManifest
<1>10. stage' # "idle" /\ stage' \notin {"chunks", "finalize"} /\ outcome' = "none"
  BY <1>1 DEF IInv
<1> QED
  BY <1>5, <1>6, <1>7, <1>8, <1>9, <1>10 DEF IInv

\* The generator's steps stay in the owned range.
LEMMA AllocateType ==
  ASSUME used \subseteq Ids, cursor \in IdCursors,
         NEW id \in Ids, NEW n, NEW c, Allocate(id, n, c)
  PROVE  /\ used' \subseteq Ids
         /\ cursor' \in IdCursors
         /\ used \subseteq used'
         /\ id \in used' \ used
         /\ Unused(CursorAfter(id), c) \subseteq used' \ used
         /\ id \notin Unused(CursorAfter(id), c)
<1> USE RangeAssumption DEF Ids, IdCursors
<1>1. id \in Ids /\ id \notin used /\ c \in IdCursors
  BY DEF Allocate, Reservable, CursorAfter
<1>2. used' = used \cup {id} \cup Unused(CursorAfter(id), c) /\ cursor' = c
  BY DEF Allocate
<1>3. Unused(CursorAfter(id), c) \subseteq Ids \ used
  BY <1>1 DEF Unused, CursorAfter
<1>4. id \notin Unused(CursorAfter(id), c)
  BY <1>1 DEF Unused, CursorAfter
<1> QED BY <1>1, <1>2, <1>3, <1>4

LEMMA ReserveType ==
  ASSUME used \subseteq Ids, cursor \in IdCursors, NEW id \in Ids, Reserve(id)
  PROVE  /\ used' \subseteq Ids
         /\ cursor' \in IdCursors
         /\ used \subseteq used'
         /\ id \in used' \ used
<1>1. id \notin used /\ used' = used \cup {id} /\ cursor' = CursorAfter(id)
  BY DEF Reserve, Reservable
<1>2. CursorAfter(id) \in IdCursors
  BY RangeAssumption DEF CursorAfter, Ids, IdCursors
<1> QED BY <1>1, <1>2

LEMMA ReuseFragmentInv ==
  ASSUME IInv, NEW r \in Rule, NEW id \in Ids, ReuseFragment(r, id)
  PROVE  IInv'
<1>1. PICK e \in Entries(Fingerprint(r, id)) :
         Usable(e, id) /\ elements' = elements \cup {e.fragment}
  BY DEF ReuseFragment
<1>2. /\ e \in cache /\ e.key = <<r, id, config.mapping>>
      /\ e.fragment.id = id
      /\ cache \subseteq Entry /\ used \subseteq Ids /\ cursor \in IdCursors
      /\ EntriesFiled
  BY <1>1 DEF Entries, Fingerprint, Usable, IInv, TypeOK
<1>3. /\ e.fragment \in Element
      /\ e.fragment.identity = r.identity
  BY <1>2 DEF Entry, EntriesFiled
<1>4. /\ Converting(r, id) /\ Admit(r) /\ Reserve(id) /\ cache' = cache
  BY DEF ReuseFragment
<1>5. /\ used' \subseteq Ids /\ used \subseteq used' /\ id \in used' \ used
      /\ cursor' \in IdCursors
  BY <1>2, <1>4, ReserveType
<1>6. EntriesFiled' /\ cache' \subseteq Entry
  BY <1>2, <1>4 DEF EntriesFiled
<1>7. /\ elements \subseteq elements' /\ elements' \subseteq Element
      /\ \A x \in elements' \ elements :
           /\ x.id \in used' \ used
           /\ x.identity = r.identity
           /\ x.base => x.id = id
      /\ \A e1, e2 \in elements' \ elements : e1.id = e2.id => e1 = e2
  BY <1>1, <1>2, <1>3, <1>5 DEF IInv, TypeOK
<1> QED
  BY <1>4, <1>5, <1>6, <1>7, AdmitInv

\* A conversion that fails after admission adds no element.
LEMMA NoElementInv ==
  ASSUME IInv, NEW r \in Rule, NEW id \in Ids, Converting(r, id), Admit(r),
         used' \subseteq Ids, used \subseteq used', cursor' \in IdCursors,
         UNCHANGED <<cache, elements>>
  PROVE  IInv'
<1>1. cache' \subseteq Entry /\ EntriesFiled'
  BY DEF IInv, TypeOK, EntriesFiled
<1>2. elements' \subseteq Element /\ elements' \ elements = {}
  BY DEF IInv, TypeOK
<1> QED
  BY <1>1, <1>2, AdmitInv

LEMMA FailedRuleInv ==
  ASSUME IInv, NEW r \in Rule, NEW id \in Ids,
         \/ DropRule(r, id)
         \/ ExhaustBranches(r, id)
         \/ RejectOversized(r, id)
  PROVE  IInv'
<1>1. used \subseteq Ids /\ cursor \in IdCursors
  BY DEF IInv, TypeOK
<1>2. CASE DropRule(r, id)
  <2>1. Converting(r, id) /\ Admit(r) /\ used' = used /\ cursor' = cursor
        /\ UNCHANGED <<cache, elements>>
    BY <1>2 DEF DropRule, ids
  <2> QED BY <2>1, <1>1, NoElementInv
<1>3. CASE ExhaustBranches(r, id)
  <2>1. /\ Converting(r, id) /\ Admit(r) /\ UNCHANGED <<cache, elements>>
        /\ used' = used \cup {id} \cup Unused(CursorAfter(id), RuleIdEnd + 1)
        /\ cursor' = RuleIdEnd + 1
    BY <1>3 DEF ExhaustBranches
  <2>2. Unused(CursorAfter(id), RuleIdEnd + 1) \subseteq Ids
    BY <1>1, RangeAssumption DEF Unused, CursorAfter, Ids, IdCursors
  <2>3. RuleIdEnd + 1 \in IdCursors
    BY RangeAssumption DEF IdCursors
  <2>4. used' \subseteq Ids /\ used \subseteq used' /\ cursor' \in IdCursors
    BY <2>1, <2>2, <2>3, <1>1
  <2> QED BY <2>1, <2>4, NoElementInv
<1>4. CASE RejectOversized(r, id)
  <2>1. PICK c \in IdCursors : Allocate(id, Branches[r.version], c)
    BY <1>4 DEF RejectOversized
  <2>2. used' \subseteq Ids /\ used \subseteq used' /\ cursor' \in IdCursors
    BY <2>1, <1>1, AllocateType
  <2>3. Converting(r, id) /\ Admit(r) /\ UNCHANGED <<cache, elements>>
    BY <1>4 DEF RejectOversized
  <2> QED BY <2>2, <2>3, NoElementInv
<1> QED BY <1>2, <1>3, <1>4

LEMMA EmitRulesInv ==
  ASSUME IInv, NEW r \in Rule, NEW id \in Ids, EmitRules(r, id)
  PROVE  IInv'
<1>1. /\ used \subseteq Ids /\ cursor \in IdCursors
      /\ config \in Config /\ cache \subseteq Entry /\ elements \subseteq Element
      /\ EntriesFiled
  BY DEF IInv, TypeOK
<1>2. PICK c \in IdCursors :
        /\ Allocate(id, Branches[r.version], c)
        /\ elements' = elements \cup Rules(r, id, Unused(CursorAfter(id), c))
  BY DEF EmitRules
<1> DEFINE new == Unused(CursorAfter(id), c)
<1>3. /\ used' \subseteq Ids /\ used \subseteq used' /\ cursor' \in IdCursors
      /\ id \in used' \ used /\ new \subseteq used' \ used /\ id \notin new
  BY <1>1, <1>2, AllocateType
<1>4. \A x \in Ids, b \in BOOLEAN :
        /\ Emitted(r, x, b) \in Element
        /\ Emitted(r, x, b).id = x
        /\ Emitted(r, x, b).identity = r.identity
        /\ Emitted(r, x, b).base = b
  BY <1>1 DEF Emitted, Element, Config, Rule
<1>5. elements' = elements \cup {Emitted(r, id, TRUE)} \cup {Emitted(r, b, FALSE) : b \in new}
  BY <1>2 DEF Rules
<1> HIDE DEF new
<1>6. /\ elements \subseteq elements' /\ elements' \subseteq Element
      /\ \A x \in elements' \ elements :
           /\ x.id \in used' \ used
           /\ x.identity = r.identity
           /\ x.base => x.id = id
  <2>1. \A b \in new : b \in Ids
    BY <1>3
  <2>2. ASSUME NEW x \in elements' \ elements
        PROVE  /\ x \in Element
               /\ x.id \in used' \ used
               /\ x.identity = r.identity
               /\ x.base => x.id = id
    <3>1. CASE x = Emitted(r, id, TRUE)
      BY <3>1, <1>3, <1>4
    <3>2. ASSUME NEW b \in new, x = Emitted(r, b, FALSE)
          PROVE  /\ x \in Element
                 /\ x.id \in used' \ used
                 /\ x.identity = r.identity
                 /\ x.base => x.id = id
      <4>1. b \in Ids /\ b \in used' \ used
        BY <2>1, <1>3
      <4>2. x.base = FALSE
        BY <4>1, <3>2, <1>4
      <4> QED BY <4>1, <4>2, <3>2, <1>4
    <3> QED BY <3>1, <3>2, <1>5
  <2> QED BY <2>2, <1>1, <1>5
<1>7. \A e1, e2 \in elements' \ elements : e1.id = e2.id => e1 = e2
  <2> SUFFICES ASSUME NEW e1 \in elements' \ elements, NEW e2 \in elements' \ elements,
                      e1.id = e2.id
               PROVE  e1 = e2
    OBVIOUS
  <2>1. ASSUME NEW b \in new PROVE Emitted(r, b, FALSE).id = b
    BY <1>3, <1>4
  <2>2. ASSUME NEW e \in elements' \ elements, e # Emitted(r, id, TRUE)
        PROVE  e.id \in new /\ e = Emitted(r, e.id, FALSE)
    <3>1. PICK b \in new : e = Emitted(r, b, FALSE)
      BY <2>2, <1>5
    <3> QED BY <3>1, <2>1
  <2>3. Emitted(r, id, TRUE).id = id
    BY <1>4
  <2>4. CASE e1 = Emitted(r, id, TRUE)
    BY <2>4, <2>2, <2>3, <1>3
  <2>5. CASE e2 = Emitted(r, id, TRUE)
    BY <2>5, <2>2, <2>3, <1>3
  <2>6. CASE e1 # Emitted(r, id, TRUE) /\ e2 # Emitted(r, id, TRUE)
    BY <2>6, <2>2
  <2> QED BY <2>4, <2>5, <2>6
<1>8. cache' \subseteq Entry /\ EntriesFiled'
  <2>1. CASE cache' = cache
    BY <2>1, <1>1 DEF EntriesFiled
  <2>2. CASE cache' = Put(Fingerprint(r, id), Emitted(r, id, TRUE))
    <3> DEFINE e == [key |-> Fingerprint(r, id), fragment |-> Emitted(r, id, TRUE),
                     intact |-> TRUE]
    <3>1. Fingerprint(r, id) = <<r, id, config.mapping>> /\ config.mapping \in Mappings
      BY <1>1 DEF Fingerprint, Config
    <3>2. e \in Entry /\ e.fragment.base /\ e.fragment.identity = e.key[1].identity
      <4>1. /\ Emitted(r, id, TRUE) \in Element
            /\ Emitted(r, id, TRUE).base
            /\ Emitted(r, id, TRUE).identity = r.identity
        BY <1>4
      <4>2. /\ e.key = <<r, id, config.mapping>>
            /\ e.key \in Rule \X Ids \X Mappings
            /\ e.key[1] = r
            /\ e.fragment = Emitted(r, id, TRUE)
        BY <3>1
      <4>3. e \in Entry
        BY <4>1, <4>2 DEF Entry
      <4> HIDE DEF e
      <4> QED BY <4>1, <4>2, <4>3
    <3>3. \A x \in cache' : x \in cache \/ x = e
      BY <2>2 DEF Put
    <3> QED BY <3>2, <3>3, <1>1 DEF EntriesFiled
  <2> QED BY <2>1, <2>2 DEF EmitRules
<1>9. Converting(r, id) /\ Admit(r)
  BY DEF EmitRules
<1> QED
  BY <1>3, <1>6, <1>7, <1>8, <1>9, AdmitInv

LEMMA ConvertFileInv == ASSUME IInv, ConvertFile PROVE IInv'
<1>1. CASE SkipFile
  BY <1>1, SkipFileInv
<1>2. ASSUME NEW r \in Rule, AbortOnIdentity(r) PROVE IInv'
  BY <1>2, EndRunInv DEF AbortOnIdentity, IInv, TypeOK
<1>3. ASSUME NEW r \in Rule, NEW id \in Ids, AbortOnEntry(r, id) PROVE IInv'
  BY <1>3, EndRunInv DEF AbortOnEntry, IInv, TypeOK
<1>4. ASSUME NEW r \in Rule, NEW id \in Ids, FailCacheWrite(r, id) PROVE IInv'
  <2>1. budget' \in 0..Budget
    BY <1>4, EnvAssumption DEF FailCacheWrite, IInv, TypeOK
  <2> QED BY <2>1, <1>4, EndRunInv DEF FailCacheWrite
<1> QED
  BY <1>1, <1>2, <1>3, <1>4, ReuseFragmentInv, FailedRuleInv, EmitRulesInv
     DEF ConvertFile

LEMMA PublishXmlInv == ASSUME IInv, PublishXml PROVE IInv'
<1>1. /\ stage = "convert" /\ stage' = "chunks" /\ outcome' = outcome
      /\ published' = elements /\ elements' = elements
      /\ UNCHANGED <<env, budget, saved, manifestExists, cache, file, manifest, current, ids>>
  BY DEF PublishXml
<1>2. TypeOK /\ ManifestSound /\ EntriesFiled /\ ElementsOwned /\ ExtendsSaved
  BY <1>1 DEF IInv
<1>3. TypeOK'
  BY <1>1, <1>2 DEF TypeOK, env, ids
<1>4. ManifestSound' /\ EntriesFiled' /\ ExtendsSaved'
  BY <1>1, <1>2 DEF ManifestSound, EntriesFiled, ExtendsSaved
<1>5. ElementsOwned' /\ PublishedIdsUnique'
  BY <1>1, <1>2 DEF ElementsOwned, PublishedIdsUnique, ids
<1>6. outcome' = "none" /\ PublishedAgreesWithManifest'
  BY <1>1 DEF IInv, PublishedAgreesWithManifest
<1> QED
  BY <1>1, <1>3, <1>4, <1>5, <1>6 DEF IInv

LEMMA WriteChunksInv == ASSUME IInv, WriteChunks PROVE IInv'
<1>1. /\ stage = "chunks" /\ stage' = "finalize" /\ outcome' = outcome
      /\ UNCHANGED <<env, disk, budget, file, manifest, current, ids, elements>>
  BY DEF WriteChunks
<1>2. TypeOK'
  BY <1>1 DEF IInv, TypeOK, env, disk, ids
<1>3. ManifestSound' /\ EntriesFiled' /\ PublishedIdsUnique'
  BY <1>1 DEF IInv, ManifestSound, EntriesFiled, PublishedIdsUnique, disk
<1>4. ElementsOwned' /\ ExtendsSaved' /\ published' = elements'
  BY <1>1 DEF IInv, ElementsOwned, ExtendsSaved, disk, ids
<1>5. PublishedAgreesWithManifest' <=> PublishedAgreesWithManifest
  BY <1>1 DEF PublishedAgreesWithManifest, disk
<1> QED
  BY <1>1, <1>2, <1>3, <1>4, <1>5 DEF IInv

LEMMA SaveManifestInv == ASSUME IInv, SaveManifest PROVE IInv'
<1> DEFINE m == RetireUnseen(manifest, current)
<1>1. /\ stage = "finalize" /\ saved' = m /\ outcome' = "done" /\ stage' = "idle"
      /\ EndRun("done")
      /\ manifestExists' = TRUE
      /\ UNCHANGED <<env, budget, cache, published>>
  BY DEF SaveManifest, EndRun
<1>2. manifest \in Manifest /\ Sound(manifest) /\ published = elements /\ ElementsOwned
  BY <1>1 DEF IInv, TypeOK, ManifestSound
<1>3. m \in Manifest /\ Sound(m)
  BY <1>2, RetireSound
<1>4. \A i \in Identities : i \in current => m.active[i] = manifest.active[i]
  BY DEF RetireUnseen
<1> HIDE DEF m
<1>5. TypeOK'
  BY <1>1, <1>3, EmptySound, RangeAssumption, FilesAssumption
     DEF IInv, TypeOK, EndRun, env, IdCursors
<1>6. ManifestSound' /\ EntriesFiled' /\ PublishedIdsUnique' /\ MemoryEmpty'
  BY <1>1, <1>3, EmptySound
     DEF IInv, ManifestSound, EntriesFiled, PublishedIdsUnique, EndRun, MemoryEmpty
<1>7. PublishedAgreesWithManifest'
  <2> SUFFICES ASSUME NEW e \in published'
               PROVE  /\ IsActive(saved', e.identity)
                      /\ e.base => e.id = saved'.active[e.identity]
    BY DEF PublishedAgreesWithManifest
  <2>1. /\ e \in elements
        /\ e.identity \in current
        /\ e.identity \in Identities
        /\ IsActive(manifest, e.identity)
        /\ e.base => e.id = manifest.active[e.identity]
    BY <1>1, <1>2 DEF ElementsOwned, IInv, TypeOK
  <2> QED BY <2>1, <1>1, <1>4 DEF IsActive
<1> QED
  BY <1>1, <1>5, <1>6, <1>7 DEF IInv

LEMMA RunStepInv == ASSUME IInv, RunStep PROVE IInv'
<1>1. ASSUME NEW fault, NEW at, FailWrite(fault, at) PROVE IInv'
  <2>1. budget' \in 0..Budget
    BY <1>1, EnvAssumption DEF FailWrite, IInv, TypeOK
  <2> QED BY <2>1, <1>1, EndRunInv DEF FailWrite
<1>2. CASE NothingConverted
  BY <1>2, EndRunInv DEF NothingConverted, IInv, TypeOK
<1> QED
  BY <1>1, <1>2, ConvertFileInv, PublishXmlInv, WriteChunksInv, SaveManifestInv
     DEF RunStep, FailXmlWrite, FailChunkWrite, FailManifestWrite

LEMMA EnvironmentInv == ASSUME IInv, Environment PROVE IInv'
<1>1. CASE Crash
  <2>1. budget' \in 0..Budget
    BY <1>1, EnvAssumption DEF Crash, IInv, TypeOK
  <2> QED BY <2>1, <1>1, EndRunInv DEF Crash
<1>2. ASSUME Disturb, UNCHANGED RunVars,
             TypeOK', ManifestSound', EntriesFiled', PublishedIdsUnique',
             "lost_manifest" \notin Faults => saved' = saved,
             published' = published
      PROVE  IInv'
  <2>1. stage' = "idle" /\ MemoryEmpty'
    BY <1>2 DEF IInv, Disturb, RunVars, MemoryEmpty
  <2>2. "lost_manifest" \notin Faults =>
          (PublishedAgreesWithManifest' <=> PublishedAgreesWithManifest)
    BY <1>2 DEF PublishedAgreesWithManifest, RunVars
  <2> QED BY <2>1, <2>2, <1>2 DEF IInv
<1>3. ASSUME Disturb PROVE budget' \in 0..Budget
  BY <1>3, EnvAssumption DEF Disturb, IInv, TypeOK
<1>4. CASE EditSource \/ EditConfig
  <2>1. Disturb /\ UNCHANGED <<disk, RunVars>>
    BY <1>4 DEF EditSource, EditConfig
  <2>2. source' \in [Files -> Rule \cup {NoRule}] /\ config' \in Config
    BY <1>4 DEF EditSource, EditConfig, IInv, TypeOK
  <2>3. TypeOK'
    BY <2>1, <2>2, <1>3 DEF IInv, TypeOK, disk, RunVars
  <2>4. ManifestSound' /\ EntriesFiled' /\ PublishedIdsUnique'
    BY <2>1 DEF IInv, ManifestSound, EntriesFiled, PublishedIdsUnique, disk, RunVars
  <2> QED BY <2>1, <2>3, <2>4, <1>2 DEF disk
<1>5. CASE DamageEntry
  <2>1. /\ Disturb /\ UNCHANGED <<env, saved, manifestExists, published, RunVars>>
        /\ cache' \subseteq Entry /\ EntriesFiled'
    <3>1. PICK e \in cache : cache' = (cache \ {e}) \cup {[e EXCEPT !.intact = FALSE]}
      BY <1>5 DEF DamageEntry
    <3>2. e \in Entry /\ e.fragment.base /\ e.fragment.identity = e.key[1].identity
      BY DEF IInv, TypeOK, EntriesFiled
    <3> DEFINE d == [e EXCEPT !.intact = FALSE]
    <3>3. d \in Entry /\ d.fragment = e.fragment /\ d.key = e.key
      BY <3>2 DEF Entry
    <3> HIDE DEF d
    <3>4. cache' \subseteq Entry /\ EntriesFiled'
      BY <3>1, <3>2, <3>3 DEF IInv, TypeOK, EntriesFiled, d
    <3> QED BY <3>4, <1>5 DEF DamageEntry
  <2>2. TypeOK'
    BY <2>1, <1>3 DEF IInv, TypeOK, env, RunVars
  <2>3. ManifestSound' /\ PublishedIdsUnique'
    BY <2>1 DEF IInv, ManifestSound, PublishedIdsUnique, RunVars
  <2> QED BY <2>1, <2>2, <2>3, <1>2
<1>6. CASE LoseManifest
  <2>1. /\ Disturb /\ UNCHANGED <<env, cache, published, RunVars>>
        /\ "lost_manifest" \in Faults
        /\ manifestExists' = FALSE /\ saved' = EmptyManifest
    BY <1>6 DEF LoseManifest
  <2>2. TypeOK'
    BY <2>1, <1>3, EmptySound DEF IInv, TypeOK, env, RunVars
  <2>3. ManifestSound' /\ EntriesFiled' /\ PublishedIdsUnique'
    BY <2>1, EmptySound DEF IInv, ManifestSound, EntriesFiled, PublishedIdsUnique, RunVars
  <2> QED BY <2>1, <2>2, <2>3, <1>2
<1> QED BY <1>1, <1>4, <1>5, <1>6 DEF Environment

LEMMA NextInv == IInv /\ [Next]_vars => IInv'
<1> SUFFICES ASSUME IInv, [Next]_vars PROVE IInv'
  OBVIOUS
<1>1. CASE RefuseRun
  BY <1>1, EndRunInv DEF RefuseRun, IInv, TypeOK
<1>2. CASE UNCHANGED vars
  BY <1>2 DEF vars, IInv, TypeOK, ManifestSound, EntriesFiled, PublishedIdsUnique,
              MemoryEmpty, ElementsOwned, ExtendsSaved, PublishedAgreesWithManifest
<1> QED BY <1>1, <1>2, StartRunInv, RunStepInv, EnvironmentInv DEF Next

(***************************************************************************)
(* The theorems.                                                           *)
(***************************************************************************)
THEOREM Invariance == Spec => []IInv
  BY InitInv, NextInv, PTL DEF Spec

\* Every variable keeps its type: no id ever leaves the owned range.
THEOREM TypeCorrect == Spec => []TypeOK
<1>1. IInv => TypeOK
  BY DEF IInv
<1> QED BY <1>1, Invariance, PTL

\* The manifest, on disk and in memory, is sound whatever fails and whenever
\* the run is killed: the integrity check before a save never has to raise.
THEOREM ManifestsSound == Spec => []ManifestSound
<1>1. IInv => ManifestSound
  BY DEF IInv
<1> QED BY <1>1, Invariance, PTL

\* No two published rules share an id, branch rules and reused fragments
\* included.
THEOREM UniquePublishedIds == Spec => []PublishedIdsUnique
<1>1. IInv => PublishedIdsUnique
  BY DEF IInv
<1> QED BY <1>1, Invariance, PTL

\* As long as nobody loses the manifest, a completed run leaves an XML and a
\* manifest that agree on the id of every identity.
THEOREM PublishedAgrees ==
  ASSUME "lost_manifest" \notin Faults
  PROVE  Spec => []PublishedAgreesWithManifest
<1>1. IInv => PublishedAgreesWithManifest
  BY DEF IInv
<1> QED BY <1>1, Invariance, PTL

\* A save is a commit of the abstract specification.
LEMMA SaveCommits == ASSUME IInv, SaveManifest PROVE Stable!Commit
<1>1. /\ saved' = RetireUnseen(manifest, current)
      /\ saved \in Manifest /\ Sound(saved)
      /\ manifest \in Manifest /\ Sound(manifest) /\ ExtendsSaved
  BY DEF SaveManifest, IInv, TypeOK, ManifestSound
<1>2. saved' \in Manifest /\ Sound(saved')
  BY <1>1, RetireSound
<1>3. ASSUME NEW i \in Identities
      PROVE  \/ /\ saved.active[i] # NoId
                /\ saved'.active[i] = saved.active[i] /\ saved'.retired[i] = NoId
             \/ /\ saved.active[i] # NoId
                /\ saved'.active[i] = NoId /\ saved'.retired[i] = saved.active[i]
             \/ /\ saved.active[i] = NoId /\ saved.retired[i] # NoId
                /\ saved'.active[i] = NoId /\ saved'.retired[i] = saved.retired[i]
             \/ /\ saved.active[i] = NoId /\ saved.retired[i] = NoId
                /\ saved'.retired[i] = NoId
  <2>1. /\ saved'.active[i] = IF i \in current THEN manifest.active[i] ELSE NoId
        /\ saved'.retired[i] = IF i \notin current /\ IsActive(manifest, i)
                               THEN manifest.active[i] ELSE manifest.retired[i]
    BY <1>1 DEF RetireUnseen
  <2>2. /\ manifest.retired[i] = saved.retired[i]
        /\ IsActive(saved, i) => manifest.active[i] = saved.active[i]
        /\ IsActive(manifest, i) /\ ~IsActive(saved, i) => i \in current
        /\ ~(IsActive(manifest, i) /\ IsRetired(manifest, i))
        /\ ~(IsActive(saved, i) /\ IsRetired(saved, i))
    BY <1>1 DEF ExtendsSaved, Sound
  <2> QED BY <2>1, <2>2 DEF IsActive, IsRetired
<1>4. ASSUME NEW i \in Identities, NEW j \in Identities, i # j,
             Stable!Held(saved'.active, saved'.retired, i) # NoId
      PROVE  Stable!Held(saved'.active, saved'.retired, i)
               # Stable!Held(saved'.active, saved'.retired, j)
  BY <1>2, <1>4 DEF Stable!Held, Sound, IsActive, IsRetired
<1> QED BY <1>3, <1>4 DEF Stable!Commit

\* The manifest file, replaced as a whole at the end of a run, implements the
\* abstract specification of stable ids: an identity keeps its id for ever.
THEOREM ImplementsStable ==
  ASSUME "lost_manifest" \notin Faults
  PROVE  Spec => ImplementsStableIds
<1>1. Init => Stable!StableInit
  BY DEF Init, Stable!StableInit, EmptyManifest
<1>2. IInv /\ [Next]_vars => [Stable!Commit]_(Stable!ids)
  <2> SUFFICES ASSUME IInv, [Next]_vars PROVE Stable!Commit \/ UNCHANGED Stable!ids
    OBVIOUS
  <2>1. CASE SaveManifest
    BY <2>1, SaveCommits
  <2>2. CASE UNCHANGED saved
    BY <2>2 DEF Stable!ids
  <2>3. CASE RunStep /\ ~SaveManifest
    BY <2>3, <2>2, ZenonT(30)
       DEF RunStep, ConvertFile, SkipFile, AbortOnIdentity, AbortOnEntry, ReuseFragment,
           DropRule, ExhaustBranches, RejectOversized, EmitRules, FailCacheWrite, Admit,
           NothingConverted, PublishXml, WriteChunks, FailXmlWrite, FailChunkWrite,
           FailManifestWrite, FailWrite, disk
  <2>4. CASE Environment
    BY <2>4, <2>2
       DEF Environment, EditSource, EditConfig, DamageEntry, LoseManifest, Crash, disk
  <2> QED
    BY <2>1, <2>2, <2>3, <2>4 DEF Next, RefuseRun, StartRun, disk, vars
<1> QED
  BY <1>1, <1>2, Invariance, PTL DEF Spec, ImplementsStableIds, Stable!StableSpec

(***************************************************************************)
(* What a run makes of its sources.                                        *)
(***************************************************************************)
\* The backend emits rules of these contents.
Emits(v) == Branches[v] > 0 /\ v \notin Oversized \cup Invalid

Single == \A v \in Versions : Branches[v] <= 1

\* What an element was made of, but for parent_rules, and that of a content the
\* backend emits.
MadeOf(e, r, mapping) ==
  /\ e.identity = r.identity /\ e.version = r.version /\ e.mapping = mapping
  /\ Emits(r.version)

EntriesCurrent == \A e \in cache : MadeOf(e.fragment, e.key[1], e.key[3])

\* The files behind the current one: their elements, and who was seen in them.
Behind == 1..(file - 1)

ElementsMade ==
  \A e \in elements : \E f \in Behind :
    source[f] # NoRule /\ MadeOf(e, source[f], config.mapping)

SeenBehind ==
  \A f \in Behind :
    source[f] # NoRule /\ source[f].version \notin Invalid => source[f].identity \in current

CurrentInv ==
  /\ EntriesCurrent
  /\ \A e \in published : Emits(e.version)
  /\ stage # "idle" => ElementsMade /\ SeenBehind
  /\ stage \in {"chunks", "finalize"} => file = NumFiles + 1

\* Without branches an id is used for the identity that holds it, so none is
\* taken from a later file: everything that can be emitted is.
EmittedBehind ==
  \A f \in Behind :
    source[f] # NoRule /\ Emits(source[f].version) =>
      \E e \in elements : e.base /\ e.identity = source[f].identity

SingleInv ==
  /\ \A e \in published \cup elements : e.base
  /\ published \cup elements # {} => cache # {}
  /\ stage # "idle" => /\ \A u \in used : \E i \in current : manifest.active[i] = u
                       /\ EmittedBehind

\* Every published id is in the manifest, under the identity it is published for.
Recorded ==
  \A e \in published :
    saved.active[e.identity] = e.id \/ saved.retired[e.identity] = e.id

RecordedInv == stage = "convert" \/ (stage = "idle" /\ manifestExists) => Recorded

(***************************************************************************)
(* The sources and the elements: CurrentInv is inductive.                  *)
(***************************************************************************)
LEMMA InitCurrent == ASSUME Init PROVE CurrentInv
BY DEF Init, CurrentInv, EntriesCurrent

\* The end of a run that leaves the cache and the XML as they are.
LEMMA EndRunCurrent ==
  ASSUME CurrentInv, NEW result, EndRun(result), UNCHANGED <<cache, published>>
  PROVE  CurrentInv'
BY DEF CurrentInv, EntriesCurrent, EndRun

\* The file just converted is behind the next one.
LEMMA NextFile ==
  ASSUME IInv, file \in Files, file' = file + 1
  PROVE  Behind' = Behind \cup {file} /\ file \in Nat /\ Behind \subseteq Files
<1>1. file \in Nat /\ file >= 1 /\ NumFiles \in Nat /\ file <= NumFiles
  BY FilesAssumption DEF Files
<1> QED
  BY <1>1 DEF Behind, Files

LEMMA SkipFileCurrent == ASSUME IInv, CurrentInv, SkipFile PROVE CurrentInv'
<1>1. /\ stage = "convert" /\ stage' = "convert" /\ file \in Files /\ file' = file + 1
      /\ source[file] = NoRule \/ source[file].version \in Invalid
      /\ UNCHANGED <<source, config, cache, published, current, elements>>
  BY DEF SkipFile, env, disk
<1>2. Behind' = Behind \cup {file}
  BY <1>1, NextFile
<1>3. ElementsMade /\ SeenBehind /\ EntriesCurrent
  BY <1>1 DEF CurrentInv
<1>4. ElementsMade'
  BY <1>1, <1>2, <1>3 DEF ElementsMade, MadeOf
<1>5. SeenBehind'
  BY <1>1, <1>2, <1>3 DEF SeenBehind
<1> QED
  BY <1>1, <1>4, <1>5 DEF CurrentInv, EntriesCurrent

\* An admitted rule is seen, and adds only elements made of it.
LEMMA AdmitCurrent ==
  ASSUME IInv, CurrentInv, NEW r \in Rule, NEW id \in Ids, Converting(r, id), Admit(r),
         \A e \in elements' : e \in elements \/ MadeOf(e, r, config.mapping),
         EntriesCurrent'
  PROVE  CurrentInv'
<1>1. /\ stage = "convert" /\ stage' = "convert" /\ file \in Files /\ file' = file + 1
      /\ source[file] # NoRule /\ source[file] = r
      /\ UNCHANGED <<source, config, published>> /\ current' = current \cup {r.identity}
  BY DEF Converting, Admit, env
<1>2. Behind' = Behind \cup {file}
  BY <1>1, NextFile
<1>3. ElementsMade /\ SeenBehind
  BY <1>1 DEF CurrentInv
<1>4. ElementsMade'
  <2>1. ASSUME NEW e \in elements'
        PROVE  \E f \in Behind' : source'[f] # NoRule /\ MadeOf(e, source'[f], config'.mapping)
    <3>1. CASE e \in elements
      BY <1>1, <1>2, <1>3, <3>1 DEF ElementsMade
    <3>2. CASE MadeOf(e, r, config.mapping)
      BY <1>1, <1>2, <3>2
    <3> QED
      BY <3>1, <3>2
  <2> QED
    BY <2>1 DEF ElementsMade, MadeOf
<1>5. SeenBehind'
  BY <1>1, <1>2, <1>3 DEF SeenBehind
<1> QED
  BY <1>1, <1>4, <1>5 DEF CurrentInv

LEMMA ReuseFragmentCurrent ==
  ASSUME IInv, CurrentInv, NEW r \in Rule, NEW id \in Ids, ReuseFragment(r, id)
  PROVE  CurrentInv'
<1>1. PICK e \in Entries(Fingerprint(r, id)) : elements' = elements \cup {e.fragment}
  BY DEF ReuseFragment
<1>2. e \in cache /\ e.key = <<r, id, config.mapping>>
  BY DEF Entries, Fingerprint
<1>3. MadeOf(e.fragment, r, config.mapping)
  BY <1>2 DEF CurrentInv, EntriesCurrent
<1>4. EntriesCurrent'
  BY DEF CurrentInv, EntriesCurrent, ReuseFragment
<1>5. \A x \in elements' : x \in elements \/ MadeOf(x, r, config.mapping)
  BY <1>1, <1>3
<1> QED
  BY <1>4, <1>5, AdmitCurrent DEF ReuseFragment

LEMMA FailedRuleCurrent ==
  ASSUME IInv, CurrentInv, NEW r \in Rule, NEW id \in Ids,
         DropRule(r, id) \/ ExhaustBranches(r, id) \/ RejectOversized(r, id)
  PROVE  CurrentInv'
<1>1. Converting(r, id) /\ Admit(r) /\ UNCHANGED <<cache, elements>>
  BY DEF DropRule, ExhaustBranches, RejectOversized
<1>2. EntriesCurrent'
  BY <1>1 DEF CurrentInv, EntriesCurrent
<1> QED
  BY <1>1, <1>2, AdmitCurrent

LEMMA EmitRulesCurrent ==
  ASSUME IInv, CurrentInv, NEW r \in Rule, NEW id \in Ids, EmitRules(r, id)
  PROVE  CurrentInv'
<1>1. Converting(r, id) /\ Admit(r) /\ Emits(r.version)
  BY DEF EmitRules, Emits, Converting
<1>2. \A x, b : MadeOf(Emitted(r, x, b), r, config.mapping)
  BY <1>1 DEF MadeOf, Emitted
<1>3. \A e \in elements' : e \in elements \/ MadeOf(e, r, config.mapping)
  <2>1. PICK c \in IdCursors :
          elements' = elements \cup Rules(r, id, Unused(CursorAfter(id), c))
    BY DEF EmitRules
  <2> QED
    BY <1>2, <2>1 DEF Rules
<1>4. EntriesCurrent'
  <2> DEFINE e == [key |-> Fingerprint(r, id), fragment |-> Emitted(r, id, TRUE),
                   intact |-> TRUE]
  <2>1. \A x \in cache' : x \in cache \/ x = e
    BY DEF EmitRules, Put
  <2>2. MadeOf(e.fragment, e.key[1], e.key[3])
    BY <1>2 DEF Fingerprint
  <2> HIDE DEF e
  <2>3. \A x \in cache' : MadeOf(x.fragment, x.key[1], x.key[3])
    BY <2>1, <2>2 DEF CurrentInv, EntriesCurrent
  <2> QED
    BY <2>3 DEF EntriesCurrent, MadeOf
<1> QED
  BY <1>1, <1>3, <1>4, AdmitCurrent

LEMMA NextCurrent == ASSUME IInv, CurrentInv, [Next]_vars PROVE CurrentInv'
<1>1. CASE UNCHANGED vars
  BY <1>1 DEF vars, CurrentInv, EntriesCurrent, ElementsMade, SeenBehind, Behind, MadeOf
<1>2. CASE StartRun
  <2>1. /\ file' = 1 /\ elements' = {} /\ stage' = "convert"
        /\ UNCHANGED <<cache, published>>
    BY <1>2 DEF StartRun, IInv, MemoryEmpty, disk
  <2>2. ElementsMade' /\ SeenBehind'
    BY <2>1 DEF ElementsMade, SeenBehind, Behind
  <2> QED
    BY <2>1, <2>2 DEF CurrentInv, EntriesCurrent
<1>3. CASE Environment
  <2>1. CASE Crash
    BY <2>1, EndRunCurrent DEF Crash, disk
  <2>2. CASE EditSource \/ EditConfig \/ LoseManifest
    <3>1. stage' = "idle" /\ UNCHANGED <<cache, published>>
      BY <2>2 DEF EditSource, EditConfig, LoseManifest, Disturb, RunVars, disk
    <3> QED
      BY <3>1 DEF CurrentInv, EntriesCurrent
  <2>3. CASE DamageEntry
    <3>1. stage' = "idle" /\ UNCHANGED published
      BY <2>3 DEF DamageEntry, Disturb, RunVars
    <3>2. PICK e \in cache : cache' = (cache \ {e}) \cup {[e EXCEPT !.intact = FALSE]}
      BY <2>3 DEF DamageEntry
    <3> DEFINE d == [e EXCEPT !.intact = FALSE]
    <3>3. d.fragment = e.fragment /\ d.key = e.key
      BY DEF IInv, TypeOK, Entry
    <3> HIDE DEF d
    <3>4. \A x \in cache' : x \in cache \/ x = d
      BY <3>2 DEF d
    <3>5. \A x \in cache' : MadeOf(x.fragment, x.key[1], x.key[3])
      BY <3>3, <3>4 DEF CurrentInv, EntriesCurrent
    <3> QED
      BY <3>1, <3>5 DEF CurrentInv, EntriesCurrent, MadeOf
  <2> QED
    BY <1>3, <2>1, <2>2, <2>3 DEF Environment
<1>4. CASE \/ RefuseRun \/ NothingConverted \/ FailXmlWrite \/ FailChunkWrite \/ FailManifestWrite
           \/ \E r \in Rule : AbortOnIdentity(r)
           \/ \E r \in Rule, id \in Ids : AbortOnEntry(r, id) \/ FailCacheWrite(r, id)
  <2>1. (\E result : EndRun(result)) /\ UNCHANGED <<cache, published>>
    BY <1>4 DEF RefuseRun, NothingConverted, FailXmlWrite, FailChunkWrite, FailManifestWrite,
                FailWrite, AbortOnIdentity, AbortOnEntry, FailCacheWrite, disk
  <2> QED
    BY <2>1, EndRunCurrent
<1>5. CASE PublishXml
  <2>1. /\ stage = "convert" /\ stage' = "chunks" /\ published' = elements /\ file \notin Files
        /\ UNCHANGED <<source, config, cache, file, current, elements>>
    BY <1>5 DEF PublishXml, env
  <2>2. file = NumFiles + 1
    BY <2>1, FilesAssumption DEF IInv, TypeOK, Files
  <2>3. ElementsMade /\ SeenBehind
    BY <2>1 DEF CurrentInv
  <2>4. \A e \in published' : Emits(e.version)
    BY <2>1, <2>3 DEF ElementsMade, MadeOf
  <2>5. ElementsMade' /\ SeenBehind'
    BY <2>1, <2>3 DEF ElementsMade, SeenBehind, Behind, MadeOf
  <2> QED
    BY <2>1, <2>2, <2>4, <2>5 DEF CurrentInv, EntriesCurrent
<1>6. CASE WriteChunks
  BY <1>6 DEF WriteChunks, env, disk, CurrentInv, EntriesCurrent, ElementsMade, SeenBehind,
              Behind, MadeOf
<1>7. CASE SaveManifest
  BY <1>7, EndRunCurrent DEF SaveManifest
<1> QED
  BY <1>1, <1>2, <1>3, <1>4, <1>5, <1>6, <1>7, SkipFileCurrent, ReuseFragmentCurrent,
     FailedRuleCurrent, EmitRulesCurrent DEF Next, RunStep, ConvertFile

LEMMA CurrentHolds == Spec => []CurrentInv
<1>1. Init => CurrentInv
  BY InitCurrent
<1>2. IInv /\ CurrentInv /\ [Next]_vars => CurrentInv'
  BY NextCurrent
<1> QED
  BY <1>1, <1>2, Invariance, PTL DEF Spec

\* With one parent_rules configuration, whatever the run takes from the cache is
\* what it would convert now: the fingerprint covers everything else
\* (fingerprint.py), whatever entries are damaged and whatever run wrote them.
THEOREM ElementsAreCurrent ==
  ASSUME \A a, b \in Parents : a = b
  PROVE  Spec => []ElementsCurrent
<1>1. ASSUME IInv, CurrentInv PROVE ElementsCurrent
  <2>1. SUFFICES ASSUME NEW e \in elements
                 PROVE  /\ e.mapping = config.mapping /\ e.parents = config.parents
                        /\ \E f \in Files :
                             source[f] = [identity |-> e.identity, version |-> e.version]
    BY DEF ElementsCurrent
  <2>2. stage # "idle"
    BY <1>1 DEF IInv, MemoryEmpty
  <2>3. PICK f \in Behind : source[f] # NoRule /\ MadeOf(e, source[f], config.mapping)
    BY <1>1, <2>2 DEF CurrentInv, ElementsMade
  <2>4. f \in Files /\ source[f] \in Rule
    <3>1. file \in 1..(NumFiles + 1) /\ source \in [Files -> Rule \cup {NoRule}]
      BY <1>1 DEF IInv, TypeOK
    <3>2. f \in Files
      BY <3>1, FilesAssumption DEF Behind, Files
    <3> QED
      BY <2>3, <3>1, <3>2
  <2>5. e.parents = config.parents
    BY <1>1 DEF IInv, TypeOK, Element, Config
  <2> QED
    BY <2>3, <2>4, <2>5 DEF MadeOf, Rule
<1> QED
  BY <1>1, Invariance, CurrentHolds, PTL

\* The manifest file changes when a run saves it, or is lost.
LEMMA OnlySaves ==
  ASSUME [Next]_vars, saved' # saved PROVE SaveManifest \/ saved' = EmptyManifest
BY ZenonT(30) DEF Next, RunStep, ConvertFile, SkipFile, AbortOnIdentity, AbortOnEntry, ReuseFragment,
       DropRule, ExhaustBranches, RejectOversized, EmitRules, FailCacheWrite, Admit,
       NothingConverted, PublishXml, WriteChunks, FailXmlWrite, FailChunkWrite,
       FailManifestWrite, FailWrite, Environment, EditSource, EditConfig, DamageEntry,
       LoseManifest, Crash, RefuseRun, StartRun, disk, vars

\* The XML changes when a run publishes.
LEMMA OnlyPublishes ==
  ASSUME [Next]_vars, published' # published PROVE PublishXml
BY ZenonT(30) DEF Next, RunStep, ConvertFile, SkipFile, AbortOnIdentity, AbortOnEntry, ReuseFragment,
       DropRule, ExhaustBranches, RejectOversized, EmitRules, FailCacheWrite, Admit,
       NothingConverted, SaveManifest, WriteChunks, FailXmlWrite, FailChunkWrite,
       FailManifestWrite, FailWrite, Environment, EditSource, EditConfig, DamageEntry,
       LoseManifest, Crash, RefuseRun, StartRun, disk, vars

\* A run that saves has seen the identity of every file it could load, whatever
\* became of its conversion: none of them is retired (service.py:201-218).
THEOREM RetiredIsGone ==
  ASSUME Invalid = {}
  PROVE  Spec => RetiredOnlyIfGone
<1>1. ASSUME IInv, CurrentInv, SaveManifest, NEW i \in Identities,
             IsRetired(saved', i), ~IsRetired(saved, i), NEW f \in Files, source[f] # NoRule
      PROVE  source[f].identity # i
  <2>1. stage = "finalize" /\ saved' = RetireUnseen(manifest, current)
    BY <1>1 DEF SaveManifest
  <2>2. f \in Behind
    <3>1. file = NumFiles + 1
      BY <1>1, <2>1 DEF CurrentInv
    <3> QED
      BY <3>1, FilesAssumption DEF Behind, Files
  <2>3. source[f].identity \in current
    BY <1>1, <2>1, <2>2 DEF CurrentInv, SeenBehind
  <2>4. manifest.retired[i] = saved.retired[i]
    BY <1>1, <2>1 DEF IInv, ExtendsSaved
  <2>5. i \in current => saved'.retired[i] = manifest.retired[i]
    BY <2>1 DEF RetireUnseen
  <2> QED
    BY <1>1, <2>3, <2>4, <2>5 DEF IsRetired
<1>2. ASSUME IInv, CurrentInv, [Next]_vars, saved' # saved,
             NEW i \in Identities, IsRetired(saved', i), ~IsRetired(saved, i),
             NEW f \in Files, source[f] # NoRule
      PROVE  source[f].identity # i
  <2>1. saved' # EmptyManifest
    BY <1>2 DEF EmptyManifest, IsRetired
  <2> QED
    BY <1>1, <1>2, <2>1, OnlySaves
<1>3. IInv /\ CurrentInv /\ [Next]_vars =>
        [\A i \in Identities :
           IsRetired(saved', i) /\ ~IsRetired(saved, i) =>
             \A f \in Files : source[f] # NoRule => source[f].identity # i]_saved
  BY <1>2
<1> QED
  BY <1>3, Invariance, CurrentHolds, PTL DEF Spec, RetiredOnlyIfGone

(***************************************************************************)
(* Backends that plan one rule at most: SingleInv is inductive.            *)
(***************************************************************************)
\* The id of a rule is the id of no other identity, seen or not.
LEMMA FreshId ==
  ASSUME IInv, SingleInv, NEW r \in Rule, NEW id \in Ids, Converting(r, id), Admitted(r)
  PROVE  id \notin used
<1>1. SUFFICES ASSUME id \in used PROVE FALSE
  OBVIOUS
<1>2. PICK i \in current : manifest.active[i] = id
  BY <1>1 DEF SingleInv, Converting
<1>3. /\ i \in Identities /\ r.identity \in Identities /\ i # r.identity
      /\ manifest \in Manifest /\ Sound(manifest) /\ id # NoId
  BY RangeAssumption DEF IInv, TypeOK, ManifestSound, Admitted, Rule, Ids, NoId
<1>4. IsActive(manifest, i)
  BY <1>2, <1>3 DEF IsActive
<1>5. CASE IsActive(manifest, r.identity)
  BY <1>2, <1>3, <1>4, <1>5 DEF Converting, IdFor, Sound
<1>6. CASE ~IsActive(manifest, r.identity)
  <2>1. id = manifest.next_id /\ manifest.active[i] < manifest.next_id /\ id \in Nat
    BY <1>3, <1>6, RangeAssumption DEF Converting, IdFor, Sound, Ids
  <2> QED
    BY <1>2, <2>1
<1> QED
  BY <1>5, <1>6

\* Ids that are none are no ids.
LEMMA NoBranches ==
  ASSUME used \subseteq Ids, cursor \in IdCursors, NEW id \in Ids, NEW c \in IdCursors
  PROVE  /\ CanGenerate(CursorAfter(id), 0)
         /\ Generates(CursorAfter(id), c, 0) => Unused(CursorAfter(id), c) = {}
<1>1. \A to \in IdCursors : /\ IsFiniteSet(Unused(CursorAfter(id), to))
                            /\ Cardinality(Unused(CursorAfter(id), to)) \in Nat
  <2>1. SUFFICES ASSUME NEW to \in IdCursors
                 PROVE  IsFiniteSet(Unused(CursorAfter(id), to))
    BY FS_CardinalityType
  <2>2. CursorAfter(id) \in Int /\ to - 1 \in Int
    BY RangeAssumption DEF CursorAfter, Ids, IdCursors
  <2>3. IsFiniteSet(CursorAfter(id) .. (to - 1))
    BY <2>2, FS_Interval
  <2> QED
    BY <2>3, FS_Subset DEF Unused
<1>2. RuleIdEnd + 1 \in IdCursors
  BY RangeAssumption DEF IdCursors
<1> QED
  BY <1>1, <1>2, FS_EmptySet DEF CanGenerate, Generates

\* An admitted rule uses its own id only, and is emitted if it can be.
LEMMA AdmitSingle ==
  ASSUME IInv, SingleInv, NEW r \in Rule, NEW id \in Ids, Converting(r, id), Admit(r),
         elements \subseteq elements', \A e \in elements' \ elements : e.base,
         used' \subseteq used \cup {id}, cache # {} => cache' # {},
         elements' # elements => cache' # {},
         Emits(r.version) => \E e \in elements' : e.base /\ e.identity = r.identity
  PROVE  SingleInv'
<1>1. /\ stage = "convert" /\ stage' = "convert" /\ file \in Files /\ file' = file + 1
      /\ source[file] = r /\ UNCHANGED <<source, config, published>>
      /\ current' = current \cup {r.identity} /\ r.identity \notin current
      /\ manifest' = Enrol(manifest, r.identity) /\ Resolvable(manifest, r.identity)
      /\ id = IdFor(manifest, r.identity)
  BY DEF Converting, Admit, Admitted, env
<1>2. Behind' = Behind \cup {file}
  BY <1>1, NextFile
<1>3. /\ \A u \in used : \E i \in current : manifest.active[i] = u
      /\ EmittedBehind /\ current \subseteq Identities
      /\ manifest \in Manifest /\ Sound(manifest) /\ r.identity \in Identities
  BY <1>1 DEF SingleInv, IInv, TypeOK, ManifestSound, Rule
<1>4. /\ manifest'.active[r.identity] = id
      /\ \A j \in Identities \ {r.identity} : manifest'.active[j] = manifest.active[j]
  BY <1>1, <1>3, EnrolSound
<1>5. \A u \in used' : \E i \in current' : manifest'.active[i] = u
  <2> SUFFICES ASSUME NEW u \in used' PROVE \E i \in current' : manifest'.active[i] = u
    OBVIOUS
  <2>1. CASE u = id
    BY <1>1, <1>4, <2>1
  <2>2. CASE u # id
    <3>1. PICK i \in current : manifest.active[i] = u
      BY <1>3, <2>2
    <3> QED
      BY <1>1, <1>3, <1>4, <3>1
  <2> QED
    BY <2>1, <2>2
<1>6. EmittedBehind'
  BY <1>1, <1>2, <1>3 DEF EmittedBehind, Emits
<1>7. /\ \A e \in published' \cup elements' : e.base
      /\ published' \cup elements' # {} => cache' # {}
  BY <1>1 DEF SingleInv
<1> QED
  BY <1>5, <1>6, <1>7 DEF SingleInv

LEMMA ConvertSingle ==
  ASSUME Single, IInv, SingleInv, NEW r \in Rule, NEW id \in Ids,
         \/ ReuseFragment(r, id) \/ DropRule(r, id) \/ ExhaustBranches(r, id)
         \/ RejectOversized(r, id) \/ EmitRules(r, id)
  PROVE  SingleInv'
<1>1. /\ Converting(r, id) /\ Admit(r) /\ Admitted(r)
      /\ used \subseteq Ids /\ cursor \in IdCursors /\ r.version \in Versions
  BY DEF ReuseFragment, DropRule, ExhaustBranches, RejectOversized, EmitRules, Admit, IInv,
         TypeOK, Rule
<1>2. Branches[r.version] \in Nat /\ Branches[r.version] <= 1
  BY <1>1, VersionsAssumption DEF Single
<1>3. CASE ReuseFragment(r, id)
  <2>1. PICK e \in Entries(Fingerprint(r, id)) : elements' = elements \cup {e.fragment}
    BY <1>3 DEF ReuseFragment
  <2>2. e \in cache /\ e.fragment.base /\ e.fragment.identity = r.identity
    BY <2>1 DEF Entries, Fingerprint, IInv, EntriesFiled
  <2>3. used' = used \cup {id} /\ cache' = cache
    BY <1>3 DEF ReuseFragment, Reserve
  <2> QED
    BY <1>1, <2>1, <2>2, <2>3, AdmitSingle
<1>4. CASE DropRule(r, id)
  <2>1. Reservable(id)
    BY <1>1, FreshId DEF Reservable
  <2>2. ~Emits(r.version)
    BY <1>4, <2>1 DEF DropRule, Emits
  <2>3. UNCHANGED <<cache, used, elements>>
    BY <1>4 DEF DropRule, ids
  <2> QED
    BY <1>1, <2>2, <2>3, AdmitSingle
<1>5. CASE ExhaustBranches(r, id)
  <2>1. Branches[r.version] - 1 = 0 /\ RuleIdEnd + 1 \in IdCursors
    BY <1>2, <1>5, RangeAssumption DEF ExhaustBranches, IdCursors
  <2> QED
    BY <1>1, <1>5, <2>1, NoBranches DEF ExhaustBranches
<1>6. ASSUME NEW c \in IdCursors, Allocate(id, Branches[r.version], c),
             Branches[r.version] > 0
      PROVE  used' = used \cup {id} /\ Unused(CursorAfter(id), c) = {}
  <2>1. Branches[r.version] - 1 = 0
    BY <1>2, <1>6
  <2>2. Unused(CursorAfter(id), c) = {}
    BY <1>1, <1>6, <2>1, NoBranches DEF Allocate
  <2> QED
    BY <1>6, <2>2 DEF Allocate
<1>7. CASE RejectOversized(r, id)
  <2>1. used' = used \cup {id} /\ UNCHANGED <<cache, elements>>
    BY <1>6, <1>7 DEF RejectOversized
  <2>2. ~Emits(r.version)
    BY <1>7 DEF RejectOversized, Emits
  <2> QED
    BY <1>1, <2>1, <2>2, AdmitSingle
<1>8. CASE EmitRules(r, id)
  <2> DEFINE e == Emitted(r, id, TRUE)
  <2>1. PICK c \in IdCursors :
          /\ Allocate(id, Branches[r.version], c)
          /\ elements' = elements \cup Rules(r, id, Unused(CursorAfter(id), c))
    BY <1>8 DEF EmitRules
  <2>2. used' = used \cup {id} /\ Unused(CursorAfter(id), c) = {}
    BY <1>6, <1>8, <2>1 DEF EmitRules
  <2>3. elements' = elements \cup {e}
    BY <2>1, <2>2 DEF Rules
  <2>4. e.base /\ e.identity = r.identity
    BY DEF Emitted
  <2>5. cache' # {}
    <3>1. Branches[r.version] = 1
      BY <1>2, <1>8 DEF EmitRules
    <3>2. [key |-> Fingerprint(r, id), fragment |-> e, intact |-> TRUE] \in cache'
      BY <1>8, <3>1 DEF EmitRules, Put
    <3> QED
      BY <3>2
  <2> HIDE DEF e
  <2> QED
    BY <1>1, <2>2, <2>3, <2>4, <2>5, AdmitSingle
<1> QED
  BY <1>3, <1>4, <1>5, <1>7, <1>8

LEMMA NextSingle == ASSUME Single, IInv, SingleInv, [Next]_vars PROVE SingleInv'
<1>1. CASE UNCHANGED vars
  BY <1>1 DEF vars, SingleInv, EmittedBehind, Behind
<1>2. CASE StartRun
  <2>1. /\ file' = 1 /\ elements' = {} /\ used' = {} /\ UNCHANGED <<cache, published>>
    BY <1>2 DEF StartRun, IInv, MemoryEmpty, disk, ids
  <2>2. EmittedBehind'
    BY <2>1 DEF EmittedBehind, Behind
  <2> QED
    BY <2>1, <2>2 DEF SingleInv
<1>3. CASE SkipFile
  <2>1. /\ stage = "convert" /\ file \in Files /\ file' = file + 1
        /\ source[file] = NoRule \/ source[file].version \in Invalid
        /\ UNCHANGED <<source, cache, published, manifest, current, used, elements>>
    BY <1>3 DEF SkipFile, env, disk, ids
  <2>2. Behind' = Behind \cup {file} /\ EmittedBehind
    BY <2>1, NextFile DEF SingleInv
  <2>3. EmittedBehind'
    BY <2>1, <2>2 DEF EmittedBehind, Emits
  <2> QED
    BY <2>1, <2>3 DEF SingleInv
<1>4. ASSUME NEW result, EndRun(result), UNCHANGED <<cache, published>> PROVE SingleInv'
  BY <1>4 DEF EndRun, SingleInv
<1>5. CASE \/ RefuseRun \/ NothingConverted \/ FailXmlWrite \/ FailChunkWrite \/ FailManifestWrite
           \/ SaveManifest \/ Crash
           \/ \E r \in Rule : AbortOnIdentity(r)
           \/ \E r \in Rule, id \in Ids : AbortOnEntry(r, id) \/ FailCacheWrite(r, id)
  <2>1. (\E result : EndRun(result)) /\ UNCHANGED <<cache, published>>
    BY <1>5 DEF RefuseRun, NothingConverted, FailXmlWrite, FailChunkWrite, FailManifestWrite,
                FailWrite, AbortOnIdentity, AbortOnEntry, FailCacheWrite, SaveManifest, Crash,
                disk
  <2> QED
    BY <1>4, <2>1
<1>6. CASE EditSource \/ EditConfig \/ LoseManifest \/ DamageEntry
  <2>1. stage' = "idle" /\ UNCHANGED <<published, elements>>
    BY <1>6 DEF EditSource, EditConfig, LoseManifest, DamageEntry, Disturb, RunVars, disk
  <2>2. cache # {} => cache' # {}
    BY <1>6 DEF EditSource, EditConfig, LoseManifest, DamageEntry, disk
  <2> QED
    BY <2>1, <2>2 DEF SingleInv
<1>7. CASE PublishXml \/ WriteChunks
  <2>1. /\ stage # "idle" /\ published' \subseteq published \cup elements
        /\ UNCHANGED <<source, cache, file, manifest, current, used, elements>>
    BY <1>7 DEF PublishXml, WriteChunks, env, disk, ids
  <2>2. EmittedBehind'
    BY <2>1 DEF SingleInv, EmittedBehind, Behind
  <2> QED
    BY <2>1, <2>2 DEF SingleInv
<1> QED
  BY <1>1, <1>2, <1>3, <1>5, <1>6, <1>7, ConvertSingle DEF Next, RunStep, ConvertFile, Environment

LEMMA SingleHolds == ASSUME Single PROVE Spec => []SingleInv
<1>1. Init => SingleInv
  BY DEF Init, SingleInv
<1>2. IInv /\ SingleInv /\ [Next]_vars => SingleInv'
  BY NextSingle
<1> QED
  BY <1>1, <1>2, Invariance, PTL DEF Spec

\* If no content is planned as several rules, what was published and is still in
\* a source file is published again when the XML is replaced, whatever happened
\* to the other files, the manifest, the entries and the runs between
\* (PublishedIdsAreStable is about its id).
THEOREM UnchangedRulesAreKept ==
  ASSUME Single
  PROVE  Spec => UnchangedRulesKept
<1>1. ASSUME IInv, CurrentInv, SingleInv, [Next]_vars, published' # published,
             NEW e \in published, NEW f \in Files,
             source[f] = [identity |-> e.identity, version |-> e.version]
      PROVE  \E e2 \in published' : e2.identity = e.identity /\ e2.base
  <2>1. PublishXml
    BY <1>1, OnlyPublishes
  <2>2. stage = "convert" /\ file \notin Files /\ published' = elements
    BY <2>1 DEF PublishXml
  <2>3. f \in Behind
    <3>1. file = NumFiles + 1
      BY <1>1, <2>2, FilesAssumption DEF IInv, TypeOK, Files
    <3> QED
      BY <3>1, FilesAssumption DEF Behind, Files
  <2>4. source[f] # NoRule
    <3>1. e.identity \in Identities /\ e.version \in Versions
      BY <1>1 DEF IInv, TypeOK, Element
    <3> QED
      BY <1>1, <3>1, NoRuleAssumption DEF Rule
  <2>5. Emits(source[f].version)
    BY <1>1 DEF CurrentInv
  <2> QED
    BY <1>1, <2>2, <2>3, <2>4, <2>5 DEF SingleInv, EmittedBehind
<1>2. IInv /\ CurrentInv /\ SingleInv /\ [Next]_vars =>
        [\A e \in published :
           published' # published =>
             ((\E f \in Files : source[f] = [identity |-> e.identity, version |-> e.version])
                => \E e2 \in published' : e2.identity = e.identity /\ e2.base)]_published
  BY <1>1
<1> QED
  BY <1>2, Invariance, CurrentHolds, SingleHolds, PTL DEF Spec, UnchangedRulesKept

(***************************************************************************)
(* And no run ends between the XML and the manifest: RecordedInv is        *)
(* inductive.                                                              *)
(***************************************************************************)
Unbroken == Faults \cap {"crash", "chunk_write", "manifest_write"} = {}

LEMMA NextRecorded ==
  ASSUME Unbroken, IInv, SingleInv, RecordedInv, [Next]_vars PROVE RecordedInv'
<1>1. CASE UNCHANGED vars
  BY <1>1 DEF vars, RecordedInv, Recorded
<1>2. CASE StartRun
  <2>1. stage = "idle" /\ UNCHANGED <<saved, published>> /\ (manifestExists \/ cache = {})
    BY <1>2 DEF StartRun, Refuses, disk
  <2>2. CASE manifestExists
    BY <2>1, <2>2 DEF RecordedInv, Recorded
  <2>3. CASE cache = {}
    <3>1. published = {}
      BY <2>3 DEF SingleInv
    <3> QED
      BY <2>1, <3>1 DEF RecordedInv, Recorded
  <2> QED
    BY <2>1, <2>2, <2>3
<1>3. CASE RunStep /\ stage = "convert" /\ ~PublishXml
  <2>1. UNCHANGED <<saved, published>>
    BY <1>3, ZenonT(30) DEF RunStep, ConvertFile, SkipFile, AbortOnIdentity, AbortOnEntry, ReuseFragment,
       DropRule, ExhaustBranches, RejectOversized, EmitRules, FailCacheWrite, Admit,
       NothingConverted, WriteChunks, SaveManifest, FailXmlWrite, FailChunkWrite,
       FailManifestWrite, FailWrite, disk
  <2> QED
    BY <1>3, <2>1 DEF RecordedInv, Recorded
<1>4. CASE PublishXml \/ WriteChunks
  BY <1>4 DEF PublishXml, WriteChunks, RecordedInv
<1>5. CASE SaveManifest
  <2>1. /\ stage = "finalize" /\ saved' = RetireUnseen(manifest, current)
        /\ published' = published
    BY <1>5 DEF SaveManifest
  <2>2. published = elements /\ ElementsOwned /\ elements \subseteq Element
    BY <2>1 DEF IInv, TypeOK
  <2>3. ASSUME NEW e \in published' PROVE saved'.active[e.identity] = e.id
    <3>1. /\ e.base /\ e.identity \in current /\ e.identity \in Identities
          /\ e.id = manifest.active[e.identity]
      BY <2>1, <2>2 DEF SingleInv, ElementsOwned, Element
    <3> QED
      BY <2>1, <3>1 DEF RetireUnseen
  <2> QED
    BY <2>3 DEF RecordedInv, Recorded
<1>6. CASE FailChunkWrite \/ FailManifestWrite \/ Crash
  BY <1>6 DEF FailChunkWrite, FailManifestWrite, FailWrite, Crash, Unbroken
<1>7. CASE RefuseRun
  BY <1>7 DEF RefuseRun, EndRun, RecordedInv, Recorded, disk
<1>8. CASE EditSource \/ EditConfig \/ DamageEntry
  <2>1. UNCHANGED <<saved, manifestExists, published, stage>>
    BY <1>8 DEF EditSource, EditConfig, DamageEntry, Disturb, RunVars, disk
  <2> QED
    BY <2>1 DEF RecordedInv, Recorded
<1>9. CASE LoseManifest
  BY <1>9 DEF LoseManifest, Disturb, RunVars, RecordedInv
<1>10. RunStep => \/ RunStep /\ stage = "convert" /\ ~PublishXml
                  \/ PublishXml \/ WriteChunks \/ SaveManifest \/ FailChunkWrite \/ FailManifestWrite
  BY ZenonT(30) DEF RunStep, ConvertFile, SkipFile, AbortOnIdentity, AbortOnEntry, ReuseFragment,
         DropRule, ExhaustBranches, RejectOversized, EmitRules, FailCacheWrite, Converting,
         NothingConverted, FailXmlWrite, FailWrite
<1> QED
  BY <1>1, <1>2, <1>3, <1>4, <1>5, <1>6, <1>7, <1>8, <1>9, <1>10 DEF Next, Environment

LEMMA RecordedHolds == ASSUME Single, Unbroken PROVE Spec => []RecordedInv
<1>1. Init => RecordedInv
  BY DEF Init, RecordedInv, Recorded
<1>2. IInv /\ SingleInv /\ RecordedInv /\ [Next]_vars => RecordedInv'
  BY NextRecorded
<1> QED
  BY <1>1, <1>2, Invariance, SingleHolds, PTL DEF Spec

\* If no content is planned as several rules and no run ends between the XML and
\* the manifest, then from one published XML to the next an id stays with its
\* identity and an identity with its id, even when the manifest is lost: the
\* entries that remain make the service refuse to number anything afresh
\* (service.py:60-64).
THEOREM PublishedIdsAreStable ==
  ASSUME Single, Unbroken
  PROVE  Spec => PublishedIdsStable
<1>1. ASSUME IInv, SingleInv, RecordedInv, [Next]_vars, published' # published,
             NEW e1 \in published, NEW e2 \in published'
      PROVE  e1.id = e2.id <=> e1.identity = e2.identity
  <2>1. PublishXml
    BY <1>1, OnlyPublishes
  <2>2. stage = "convert" /\ published' = elements
    BY <2>1 DEF PublishXml
  <2>3. /\ saved.active[e1.identity] = e1.id \/ saved.retired[e1.identity] = e1.id
        /\ e1.identity \in Identities /\ e2.identity \in Identities
        /\ e1.id # NoId /\ e2.id # NoId
    BY <1>1, <2>2, RangeAssumption DEF RecordedInv, Recorded, IInv, TypeOK, Element, Ids, NoId
  <2>4. e2.id = manifest.active[e2.identity]
    BY <1>1, <2>2 DEF SingleInv, IInv, ElementsOwned
  <2>5. manifest.active[e1.identity] = e1.id \/ manifest.retired[e1.identity] = e1.id
    BY <2>2, <2>3, <1>1 DEF IInv, ExtendsSaved, IsActive
  <2>6. Sound(manifest)
    BY <1>1 DEF IInv, ManifestSound
  <2>7. e1.id = e2.id => e1.identity = e2.identity
    BY <2>3, <2>4, <2>5, <2>6 DEF Sound, IsActive, IsRetired
  <2>8. e1.identity = e2.identity => e1.id = e2.id
    BY <2>3, <2>4, <2>5, <2>6 DEF Sound, IsActive, IsRetired
  <2> QED
    BY <2>7, <2>8
<1>2. IInv /\ SingleInv /\ RecordedInv /\ [Next]_vars =>
        [\A e1 \in published, e2 \in published' :
           /\ e1.id = e2.id => e1.identity = e2.identity
           /\ e1.base /\ e2.base /\ e1.identity = e2.identity => e1.id = e2.id]_published
  BY <1>1
<1> QED
  BY <1>2, Invariance, SingleHolds, RecordedHolds, PTL DEF Spec, PublishedIdsStable
==============================================================================
