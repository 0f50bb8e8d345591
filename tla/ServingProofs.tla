--------------------------- MODULE ServingProofs ----------------------------
(***************************************************************************)
(* Types and routing of Mods for every set of mods, paths and ids, and the *)
(* safety of the serving part for every number of connections, threads and *)
(* requests, whatever mods are installed.                                  *)
(***************************************************************************)
EXTENDS Serving, FiniteSetTheorems, SequenceTheorems, WellFoundedInduction, TLAPS

\* What find_modules has collected: the usable ones among the directories it
\* has visited, each once.
Collected ==
    /\ phase = "finding" =>
          /\ {mods[k] : k \in DOMAIN mods} = Usable \ dirs
          /\ Len(mods) = Cardinality(Usable \ dirs)
          /\ Len(mods) + Cardinality(dirs) <= Cardinality(Mod)
    /\ phase \in {"starting", "serving"} =>
          /\ {mods[k] : k \in DOMAIN mods} = Usable
          /\ Len(mods) = Cardinality(Usable)
          /\ \A k \in 1..(Len(mods) - 1) :
                config[mods[k]].id <= config[mods[k + 1]].id
          /\ \A p \in Path : lookup[p] = PathOwner(mods, p)
          /\ \A i \in Id : byId[i] = IdOwner(mods, i)

ModsIInv == ModsTypeOK /\ Collected

-----------------------------------------------------------------------------

\* Sets of naturals have a least element.
LEMMA Least ==
  ASSUME NEW T, T \subseteq Nat, T # {}
  PROVE  \E x \in T : \A y \in T : x <= y
<1>1. PICK x \in T : \A y \in T : ~(<<y, x>> \in OpToRel(<, Nat))
  BY NatLessThanWellFounded, WFMin
<1>2. \A y \in T : ~(y < x)
  BY <1>1 DEF OpToRel
<1> QED BY <1>2

\* So have bounded ones a greatest.
LEMMA Greatest ==
  ASSUME NEW n \in Nat, NEW T, T \subseteq 0..n, T # {}
  PROVE  \E x \in T : \A y \in T : y <= x
<1> DEFINE D == {n - y : y \in T}
<1>1. \A y \in T : n - y \in Nat /\ y \in Nat
  OBVIOUS
<1>2. D \subseteq Nat /\ D # {}
  BY <1>1
<1>3. PICK d \in D : \A e \in D : d <= e
  BY <1>2, Least
<1>4. PICK x \in T : d = n - x
  BY <1>3
<1>5. \A y \in T : n - x <= n - y
  BY <1>3, <1>4
<1>6. ASSUME NEW y \in T PROVE y <= x
  BY <1>1, <1>5
<1> QED BY <1>6

\* Neighbours in order are all in order.
LEMMA SortedAll ==
  ASSUME NEW n \in Nat, NEW f \in [1..n -> Nat],
         \A k \in 1..(n - 1) : f[k] <= f[k + 1],
         NEW k \in 1..n, NEW l \in 1..n, k <= l
  PROVE  f[k] <= f[l]
<1> DEFINE Bad == {j \in k..n : f[j] < f[k]}
<1> SUFFICES ASSUME ~(f[k] <= f[l]) PROVE FALSE
  OBVIOUS
<1>0. Bad \subseteq Nat /\ l \in Bad
  <2>1. l \in k..n /\ f[l] \in Nat /\ f[k] \in Nat
    OBVIOUS
  <2>2. f[l] < f[k]
    BY <2>1
  <2>3. k..n \subseteq Nat
    OBVIOUS
  <2> QED BY <2>1, <2>2, <2>3
<1> HIDE DEF Bad
<1>1. PICK j \in Bad : \A i \in Bad : j <= i
  BY <1>0, Least
<1>2. j \in k..n /\ f[j] < f[k]
  BY <1>1 DEF Bad
<1>3. j # k /\ j \in Int /\ k \in Int /\ 1 <= k /\ k <= j /\ j <= n
  <2>1. f[k] \in Nat
    OBVIOUS
  <2>2. ~(f[k] < f[k])
    BY <2>1
  <2>3. j \in Int /\ k \in Int /\ 1 <= k /\ k <= j /\ j <= n
    BY <1>2
  <2> QED BY <1>2, <2>2, <2>3
<1>4. j - 1 \in k..n /\ j - 1 \in 1..(n - 1)
  BY <1>3
<1>5. j - 1 \notin Bad
  BY <1>1, <1>2, <1>4
<1>6. f[j - 1] >= f[k]
  BY <1>4, <1>5 DEF Bad
<1>7. f[j - 1] <= f[(j - 1) + 1] /\ (j - 1) + 1 = j
  BY <1>2, <1>4
<1> QED BY <1>2, <1>4, <1>6, <1>7

-----------------------------------------------------------------------------
(* Who owns a path, and an id.                                             *)

\* PathOwner is the first mod with the path.
LEMMA FirstOwns ==
  ASSUME NEW s \in Seq(Mod), NEW p, \E k \in DOMAIN s : config[s[k]].path = p
  PROVE  \E k \in DOMAIN s :
            /\ PathOwner(s, p) = s[k] /\ config[s[k]].path = p
            /\ \A l \in DOMAIN s : config[s[l]].path = p => k <= l
<1> DEFINE I == {k \in DOMAIN s : config[s[k]].path = p}
<1>1. I \subseteq Nat /\ I # {}
  OBVIOUS
<1>2. \E k \in I : \A l \in I : k <= l
  BY <1>1, Least
<1> DEFINE first == CHOOSE k \in I : \A l \in I : k <= l
<1>3. first \in I /\ \A l \in I : first <= l
  BY <1>2
<1>4. PathOwner(s, p) = s[first]
  BY <1>1 DEF PathOwner
<1> QED BY <1>3, <1>4

\* IdOwner is the last mod with the id.
LEMMA LastOwns ==
  ASSUME NEW s \in Seq(Mod), NEW id, \E k \in DOMAIN s : config[s[k]].id = id
  PROVE  \E k \in DOMAIN s :
            /\ IdOwner(s, id) = s[k] /\ config[s[k]].id = id
            /\ \A l \in DOMAIN s : config[s[l]].id = id => l <= k
<1> DEFINE I == {k \in DOMAIN s : config[s[k]].id = id}
<1>1. I \subseteq 0..Len(s) /\ Len(s) \in Nat /\ I # {}
  OBVIOUS
<1>2. \E k \in I : \A l \in I : l <= k
  BY <1>1, Greatest
<1> DEFINE last == CHOOSE k \in I : \A l \in I : l <= k
<1>3. last \in I /\ \A l \in I : l <= last
  BY <1>2
<1>4. IdOwner(s, id) = s[last]
  BY <1>1 DEF IdOwner
<1> QED BY <1>3, <1>4

\* Nobody owns the path of no mod, and an owner is a mod of the sequence.
LEMMA PathOwnerType ==
  ASSUME NEW s \in Seq(Mod), NEW p
  PROVE  PathOwner(s, p) \in Mod \cup {Null}
<1>1. CASE \E k \in DOMAIN s : config[s[k]].path = p
  <2>1. PICK k \in DOMAIN s : PathOwner(s, p) = s[k]
    BY <1>1, FirstOwns
  <2> QED BY <2>1
<1>2. CASE ~ \E k \in DOMAIN s : config[s[k]].path = p
  BY <1>2 DEF PathOwner
<1> QED BY <1>1, <1>2

\* So it is with ids, which the last mod has.
LEMMA IdOwnerType ==
  ASSUME NEW s \in Seq(Mod), NEW id
  PROVE  IdOwner(s, id) \in Mod \cup {Null}
<1>1. CASE \E k \in DOMAIN s : config[s[k]].id = id
  <2>1. PICK k \in DOMAIN s : IdOwner(s, id) = s[k]
    BY <1>1, LastOwns
  <2> QED BY <2>1
<1>2. CASE ~ \E k \in DOMAIN s : config[s[k]].id = id
  BY <1>2 DEF IdOwner
<1> QED BY <1>1, <1>2

-----------------------------------------------------------------------------

\* Nothing is collected at first.
LEMMA ModsInitIInv == ModsInit => ModsIInv
<1> SUFFICES ASSUME ModsInit PROVE ModsIInv
  OBVIOUS
<1>1. ModsTypeOK
  BY ModsAssumption, FS_CardinalityType DEF ModsInit, ModsTypeOK
<1>2. Usable \ dirs = {}
  BY DEF ModsInit, Usable
<1>3. Collected
  <2>1. phase = "finding" /\ mods = <<>> /\ dirs = Mod
    BY DEF ModsInit
  <2>2. {mods[k] : k \in DOMAIN mods} = {} /\ Len(mods) = 0
    BY <2>1
  <2>3. Cardinality(Usable \ dirs) = 0 /\ Cardinality(Mod) \in Nat
    BY <1>2, ModsAssumption, FS_CardinalityType, FS_EmptySet
  <2>4. Len(mods) + Cardinality(dirs) <= Cardinality(Mod)
    BY <2>1, <2>2, <2>3
  <2> QED BY <1>2, <2>1, <2>2, <2>3, <2>4 DEF Collected
<1> QED BY <1>1, <1>3 DEF ModsIInv

\* A directory is visited: a usable mod joins those collected.
LEMMA VisitKeeps ==
  ASSUME ModsIInv, NEW m \in Mod, Visit(m)
  PROVE  ModsIInv'
<1> USE DEF ModsIInv
<1>1. /\ phase = "finding" /\ m \in dirs /\ dirs' = dirs \ {m}
      /\ UNCHANGED <<config, lookup, byId, started, info>>
  BY DEF Visit
<1>2. IsFiniteSet(dirs) /\ Cardinality(dirs) \in Nat /\ Cardinality(Mod) \in Nat
      /\ Cardinality(dirs') = Cardinality(dirs) - 1 /\ Cardinality(dirs') \in Nat
  <2>1. IsFiniteSet(dirs) /\ IsFiniteSet(dirs')
    BY <1>1, ModsAssumption, FS_Subset DEF ModsTypeOK
  <2>2. Cardinality(dirs') = Cardinality(dirs) - 1
    BY <1>1, <2>1, FS_RemoveElement
  <2> QED BY <2>1, <2>2, ModsAssumption, FS_CardinalityType
<1>3. mods \in Seq(Mod) /\ Len(mods) \in Nat
      /\ Len(mods) + Cardinality(dirs) <= Cardinality(Mod)
      /\ {mods[k] : k \in DOMAIN mods} = Usable \ dirs
      /\ Len(mods) = Cardinality(Usable \ dirs) /\ IsFiniteSet(Usable \ dirs)
  <2>1. IsFiniteSet(Usable \ dirs)
    BY ModsAssumption, FS_Subset DEF Usable
  <2>2. mods \in Seq(Mod) /\ Len(mods) \in Nat
    BY DEF ModsTypeOK
  <2> QED BY <1>1, <2>1, <2>2 DEF Collected
<1>4. CASE config[m].enabled /\ config[m].loaded
  <2>1. mods' = Append(mods, m) /\ phase' = phase
    BY <1>4 DEF Visit
  <2>2. mods' \in Seq(Mod) /\ Len(mods') = Len(mods) + 1
        /\ (\A k \in DOMAIN mods : mods'[k] = mods[k])
        /\ mods'[Len(mods) + 1] = m
        /\ DOMAIN mods' = DOMAIN mods \cup {Len(mods) + 1}
    <3>1. mods \in Seq(Mod) /\ mods' = Append(mods, m)
      BY <1>3, <2>1
    <3> QED BY <3>1
  <2>3. {mods'[k] : k \in DOMAIN mods'} = {mods[k] : k \in DOMAIN mods} \cup {m}
    <3>1. \A k \in DOMAIN mods' :
             \/ k \in DOMAIN mods /\ mods'[k] = mods[k]
             \/ k = Len(mods) + 1 /\ mods'[k] = m
      BY <2>2
    <3>2. \A k \in DOMAIN mods : k \in DOMAIN mods' /\ mods'[k] = mods[k]
      BY <2>2
    <3>3. Len(mods) + 1 \in DOMAIN mods'
      BY <2>2
    <3>4. {mods'[k] : k \in DOMAIN mods'} \subseteq {mods[k] : k \in DOMAIN mods} \cup {m}
      BY <3>1
    <3>5. {mods[k] : k \in DOMAIN mods} \cup {m} \subseteq {mods'[k] : k \in DOMAIN mods'}
      BY <2>2, <3>2, <3>3
    <3> QED BY <3>4, <3>5
  <2>4. Usable' = Usable /\ m \in Usable
    BY <1>1, <1>4 DEF Usable
  <2>5. Len(mods') + Cardinality(dirs') <= Cardinality(Mod)
        /\ Len(mods') <= Cardinality(Mod)
    <3>1. Len(mods') + Cardinality(dirs') = Len(mods) + Cardinality(dirs)
      BY <1>2, <1>3, <2>2
    <3>2. Len(mods') \in Nat
      BY <2>2
    <3> QED BY <1>2, <1>3, <3>1, <3>2
  <2>6. ModsTypeOK'
    BY <1>1, <2>1, <2>2, <2>5 DEF ModsTypeOK
  <2>7. Len(mods') = Cardinality(Usable' \ dirs')
    <3>1. Usable' \ dirs' = (Usable \ dirs) \cup {m} /\ m \notin Usable \ dirs
      BY <1>1, <2>4
    <3>2. Cardinality(Usable' \ dirs') = Cardinality(Usable \ dirs) + 1
      BY <1>3, <3>1, FS_AddElement
    <3> QED BY <1>3, <2>2, <3>2
  <2>8. {mods'[k] : k \in DOMAIN mods'} = Usable' \ dirs'
    BY <1>1, <1>3, <2>3, <2>4
  <2>9. Collected'
    BY <1>1, <2>1, <2>5, <2>7, <2>8 DEF Collected
  <2> QED BY <2>6, <2>9
<1>5. CASE ~(config[m].enabled /\ config[m].loaded)
  <2>1. mods' = mods /\ phase' \in {"finding", "crashed"}
    BY <1>1, <1>5 DEF Visit
  <2>2. Usable' = Usable /\ m \notin Usable
    BY <1>1, <1>5 DEF Usable
  <2>3. ModsTypeOK'
    BY <1>1, <2>1 DEF ModsTypeOK
  <2>4. Len(mods') + Cardinality(dirs') <= Cardinality(Mod)
    BY <1>2, <1>3, <2>1
  <2>5. Usable' \ dirs' = Usable \ dirs
    BY <1>1, <2>2
  <2>6. Collected'
    BY <1>1, <1>3, <2>1, <2>4, <2>5 DEF Collected
  <2> QED BY <2>3, <2>6
<1> QED BY <1>4, <1>5

\* Sorting keeps the mods and orders them, and fills the tables.
LEMMA PopulateKeeps ==
  ASSUME ModsIInv, Populate
  PROVE  ModsIInv'
<1> USE DEF ModsIInv
<1>1. /\ phase = "finding" /\ dirs = {} /\ phase' = "starting"
      /\ UNCHANGED <<config, dirs, started, info>>
  BY DEF Populate
<1>2. mods \in Seq(Mod) /\ Len(mods) \in Nat /\ DOMAIN mods = 1..Len(mods)
      /\ {mods[k] : k \in DOMAIN mods} = Usable
      /\ Len(mods) = Cardinality(Usable)
  <2>1. Usable \ dirs = Usable
    BY <1>1
  <2> QED BY <1>1, <2>1 DEF ModsTypeOK, Collected
<1>3. PICK s \in Sorted : /\ mods' = s
                          /\ lookup' = [p \in Path |-> PathOwner(s, p)]
                          /\ byId' = [i \in Id |-> IdOwner(s, i)]
  BY DEF Populate
<1>4. /\ s \in [1..Len(mods) -> Usable]
      /\ \A m \in Usable : \E k \in 1..Len(mods) : s[k] = m
      /\ \A k \in 1..(Len(mods) - 1) : config[s[k]].id <= config[s[k + 1]].id
  BY <1>2 DEF Sorted
<1>5. s \in Seq(Mod) /\ Len(s) = Len(mods) /\ DOMAIN s = 1..Len(mods)
  <2>1. s \in [1..Len(mods) -> Mod]
    BY <1>4 DEF Usable
  <2> QED BY <2>1, <1>2
<1>6. {s[k] : k \in DOMAIN s} = Usable
  <2>1. ASSUME NEW k \in DOMAIN s PROVE s[k] \in Usable
    BY <2>1, <1>4, <1>5
  <2>2. ASSUME NEW m \in Usable PROVE \E k \in DOMAIN s : m = s[k]
    BY <2>2, <1>4, <1>5
  <2> QED BY <2>1, <2>2
<1>7. /\ lookup' \in [Path -> Mod \cup {Null}]
      /\ byId' \in [Id -> Mod \cup {Null}]
  BY <1>3, <1>5, PathOwnerType, IdOwnerType
<1>8. ModsTypeOK'
  BY <1>1, <1>3, <1>5, <1>7 DEF ModsTypeOK
<1>9. /\ Usable' = Usable
      /\ \A p \in Path : PathOwner(s, p)' = PathOwner(s, p)
      /\ \A i \in Id : IdOwner(s, i)' = IdOwner(s, i)
  BY <1>1 DEF Usable, PathOwner, IdOwner
<1>10. Collected'
  BY <1>1, <1>2, <1>3, <1>4, <1>5, <1>6, <1>9 DEF Collected
<1> QED BY <1>8, <1>10

\* Starting moves on or ends the process.
LEMMA StartKeeps ==
  ASSUME ModsIInv, StartMod \/ StartServing
  PROVE  ModsIInv'
<1> USE DEF ModsIInv
<1>1. /\ phase = "starting" /\ phase' \in {"starting", "serving", "crashed"}
      /\ UNCHANGED <<config, dirs, mods, lookup, byId>>
  BY DEF StartMod, StartServing
<1>2. started' \in 0..Len(mods) /\ info' \subseteq Mod
  <2>1. CASE StartServing
    BY <2>1 DEF StartServing, ModsTypeOK
  <2>2. CASE StartMod
    <3>1. mods \in Seq(Mod) /\ started \in 0..Len(mods) /\ info \subseteq Mod
          /\ started < Len(mods) /\ Len(mods) \in Nat
      BY <2>2 DEF StartMod, ModsTypeOK
    <3>2. mods[started + 1] \in Mod /\ started + 1 \in 0..Len(mods)
      BY <3>1
    <3> QED BY <2>2, <3>1, <3>2 DEF StartMod
  <2> QED BY <2>1, <2>2
<1>3. ModsTypeOK'
  BY <1>1, <1>2 DEF ModsTypeOK
<1>4. /\ Usable' = Usable
      /\ \A p \in Path : PathOwner(mods, p)' = PathOwner(mods, p)
      /\ \A i \in Id : IdOwner(mods, i)' = IdOwner(mods, i)
  BY <1>1 DEF Usable, PathOwner, IdOwner
<1>5. Collected'
  BY <1>1, <1>4 DEF Collected
<1> QED BY <1>3, <1>5

\* Once it serves nothing changes.
LEMMA ModsStutter ==
  ASSUME ModsIInv, UNCHANGED modsVars
  PROVE  ModsIInv'
<1> USE DEF ModsIInv, modsVars
<1>1. ModsTypeOK'
  BY DEF ModsTypeOK
<1>2. /\ Usable' = Usable
      /\ \A p \in Path : PathOwner(mods, p)' = PathOwner(mods, p)
      /\ \A i \in Id : IdOwner(mods, i)' = IdOwner(mods, i)
  BY DEF Usable, PathOwner, IdOwner
<1>3. Collected'
  BY <1>2 DEF Collected
<1> QED BY <1>1, <1>3

\* ModsIInv is inductive.
LEMMA ModsInductive == ModsIInv /\ [ModsNext]_modsVars => ModsIInv'
  BY VisitKeeps, PopulateKeeps, StartKeeps, ModsStutter DEF ModsNext

\* Once it serves, the first of the sorted mods with a path has it, which has the
\* least id of them, and the last with an id has that.
LEMMA RoutesAlike == ModsIInv => PathsRouteAlike
<1> SUFFICES ASSUME ModsIInv, phase = "serving" PROVE PathsRouteAlike
  BY DEF PathsRouteAlike
<1>1. /\ mods \in Seq(Mod) /\ Len(mods) \in Nat /\ DOMAIN mods = 1..Len(mods)
      /\ {mods[k] : k \in DOMAIN mods} = Usable
      /\ \A k \in 1..(Len(mods) - 1) :
            config[mods[k]].id <= config[mods[k + 1]].id
      /\ \A p \in Path : lookup[p] = PathOwner(mods, p)
      /\ \A i \in Id : byId[i] = IdOwner(mods, i)
      /\ Len(mods) = Cardinality(Usable)
  <2>1. mods \in Seq(Mod)
    BY DEF ModsIInv, ModsTypeOK
  <2>2. Len(mods) \in Nat /\ DOMAIN mods = 1..Len(mods)
    BY <2>1
  <2> QED BY <2>1, <2>2 DEF ModsIInv, Collected
<1>0. \A k, l \in DOMAIN mods : mods[k] = mods[l] => k = l
  <2>1. mods \in Surjection(1..Len(mods), Usable)
    <3>1. \A k \in 1..Len(mods) : mods[k] \in Usable
      BY <1>1
    <3>2. \A m \in Usable : \E k \in 1..Len(mods) : mods[k] = m
      BY <1>1
    <3>3. mods \in [1..Len(mods) -> Usable]
      BY <1>1, <3>1
    <3> QED BY <3>2, <3>3 DEF Surjection
  <2>2. IsFiniteSet(1..Len(mods)) /\ Cardinality(1..Len(mods)) = Len(mods)
    BY <1>1, FS_Interval
  <2>3. mods \in Injection(1..Len(mods), Usable)
    BY <1>1, <2>1, <2>2, FS_SurjSameCardinalityImpliesInj
  <2> QED BY <1>1, <2>3 DEF Injection, IsInjective
<1>2. \A m \in Mod : config[m].id \in Id /\ config[m].path \in Path
  BY ModsAssumption DEF ModsIInv, ModsTypeOK, Config
<1>3. Id \subseteq Nat
  BY ModsAssumption
<1>4. \A m \in Usable : m \in Mod /\ \E k \in DOMAIN mods : mods[k] = m
  BY <1>1 DEF Usable
<1>5. \A k \in DOMAIN mods : mods[k] \in Usable
  BY <1>1
<1>6. ASSUME NEW k \in DOMAIN mods, NEW l \in DOMAIN mods, k <= l
      PROVE  config[mods[k]].id <= config[mods[l]].id
  <2> DEFINE ids == [j \in 1..Len(mods) |-> config[mods[j]].id]
  <2>1. ids \in [1..Len(mods) -> Nat]
    BY <1>1, <1>2, <1>3, <1>4, <1>5
  <2>2. \A j \in 1..(Len(mods) - 1) : ids[j] <= ids[j + 1]
    BY <1>1
  <2> HIDE DEF ids
  <2>3. ids[k] <= ids[l]
    BY <1>1, <1>6, <2>1, <2>2, SortedAll
  <2> QED BY <1>1, <2>3 DEF ids
<1>7. ASSUME NEW p \in Path, lookup[p] # Null PROVE lookup[p] \in Usable
  <2>1. \E k \in DOMAIN mods : config[mods[k]].path = p
    BY <1>1, <1>7 DEF PathOwner
  <2>2. PICK k \in DOMAIN mods : PathOwner(mods, p) = mods[k]
    BY <1>1, <2>1, FirstOwns
  <2> QED BY <1>1, <1>5, <2>2
<1>8. ASSUME NEW m \in Usable
      PROVE  LET others == Usable \ {m}
                 path == config[m].path
                 id == config[m].id
                 rivals == {r \in others : config[r].path = path}
                 twins == {r \in others : config[r].id = id}
             IN  /\ lookup[path] \in rivals \cup {m}
                 /\ lookup[path] = m => \A r \in rivals : id <= config[r].id
                 /\ (\A r \in rivals : id < config[r].id) => lookup[path] = m
                 /\ byId[id] \in twins \cup {m}
                 /\ lookup[path] = m /\ byId[id] = m => rivals \cap twins = {}
  <2> DEFINE others == Usable \ {m}
             path == config[m].path
             id == config[m].id
             rivals == {r \in others : config[r].path = path}
             twins == {r \in others : config[r].id = id}
  <2>1. path \in Path /\ id \in Id /\ id \in Nat
    BY <1>2, <1>3, <1>4
  <2>2. PICK f \in DOMAIN mods :
           /\ lookup[path] = mods[f] /\ config[mods[f]].path = path
           /\ \A l \in DOMAIN mods : config[mods[l]].path = path => f <= l
    BY <1>1, <1>4, <2>1, FirstOwns
  <2>3. PICK g \in DOMAIN mods :
           /\ byId[id] = mods[g] /\ config[mods[g]].id = id
           /\ \A l \in DOMAIN mods : config[mods[l]].id = id => l <= g
    <3>1. \E k \in DOMAIN mods : config[mods[k]].id = id
      BY <1>4
    <3>2. mods \in Seq(Mod) /\ byId[id] = IdOwner(mods, id)
      BY <1>1, <2>1
    <3> HIDE DEF id
    <3> QED BY <3>1, <3>2, LastOwns
  <2>4. lookup[path] \in rivals \cup {m}
    BY <1>5, <2>2
  <2>5. byId[id] \in twins \cup {m}
    BY <1>5, <2>3
  <2>6. ASSUME NEW r \in rivals \cup {m}
        PROVE  config[lookup[path]].id <= config[r].id
    <3>1. PICK l \in DOMAIN mods : mods[l] = r
      BY <1>4
    <3>2. f <= l
      BY <2>2, <3>1
    <3> QED BY <1>6, <2>2, <3>1, <3>2
  <2>7. ASSUME \A r \in rivals : id < config[r].id PROVE lookup[path] = m
    <3> SUFFICES ASSUME lookup[path] # m PROVE FALSE
      OBVIOUS
    <3>1. /\ lookup[path] \in rivals
          /\ config[lookup[path]].id <= id
      BY <2>4, <2>6
    <3>2. config[lookup[path]].id \in Nat
      BY <1>2, <1>3, <1>4, <3>1
    <3> QED BY <2>1, <2>7, <3>1, <3>2
  <2>8. ASSUME lookup[path] = m, byId[id] = m, NEW r \in rivals \cap twins
        PROVE  FALSE
    <3>1. PICK l \in DOMAIN mods : mods[l] = r
      BY <1>4
    <3>2. f <= l /\ l <= g
      BY <2>2, <2>3, <3>1
    <3>3. PICK h \in DOMAIN mods : mods[h] = m
      BY <1>4
    <3>4. h = f /\ h = g
      BY <1>0, <2>2, <2>3, <2>8, <3>3
    <3>5. l = f
      BY <1>1, <3>2, <3>4
    <3> QED BY <2>2, <2>8, <3>1, <3>5
  <2>9. lookup[path] = m => \A r \in rivals : id <= config[r].id
    BY <2>6
  <2> QED BY <2>4, <2>5, <2>7, <2>8, <2>9
<1> QED BY <1>7, <1>8 DEF PathsRouteAlike

-----------------------------------------------------------------------------
(***************************************************************************)
(* Serving connections.                                                    *)
(***************************************************************************)

\* A connection has read the request it routes, and no cookie or login is of a
\* request that was not read.
RequestsRead ==
    \A c \in Conn :
        /\ stage[c] \in {"routing", "fetching", "mod", "torn"} => number[c] > 0
        /\ cookies[c] <= number[c] /\ login[c] <= number[c]
        /\ stage[c] = "routing" => login[c] < number[c]

ServingIInv ==
    /\ ModsIInv
    /\ ServedTypeOK
    /\ RequestsRead
    /\ OneAnswerEach
    /\ HeldRequestKept
    /\ WorkersWoken
    /\ NoCookiesFromBeforeLogin

\* What each step of the serving part is, the choice of a target left out.
Step ==
    \/ UNCHANGED <<connVars, poolVars>>
    \/ \E c \in Conn :
          \/ Accept(c) \/ Read(c) \/ Written(c) \/ KeyArrives(c)
          \/ Page(c) \/ Portal(c) \/ LogIn(c) \/ Handshake(c)
          \/ ToMod(c)
    \/ \E w \in Worker : Sleep(w) \/ Pop(w) \/ ModReturns(w) \/ SpuriousWake(w)
    \/ \E t \in Task : Callback(t)

\* The steps of the serving part, and of the start.
LEMMA NextIsStep == [ServingNext]_servingVars => Step /\ [ModsNext]_modsVars
<1> SUFFICES ASSUME [ServingNext]_servingVars PROVE Step /\ [ModsNext]_modsVars
  OBVIOUS
<1>1. Step
  BY DEF ServingNext, Step, Route, servingVars
<1>2. ASSUME NEW c \in Conn,
             Accept(c) \/ Read(c) \/ Written(c) \/ Route(c) \/ KeyArrives(c)
      PROVE  UNCHANGED modsVars
  BY <1>2 DEF Accept, Read, Written, KeyArrives, Route, Page, Portal, LogIn,
              Handshake, ToMod
<1>3. ASSUME NEW w \in Worker,
             Sleep(w) \/ Pop(w) \/ ModReturns(w) \/ SpuriousWake(w)
      PROVE  UNCHANGED modsVars
  BY <1>3 DEF Sleep, Pop, ModReturns, SpuriousWake
<1>4. ASSUME NEW t \in Task, Callback(t) PROVE UNCHANGED modsVars
  BY <1>4 DEF Callback
<1> QED BY <1>1, <1>2, <1>3, <1>4 DEF ServingNext, servingVars

-----------------------------------------------------------------------------

\* A sequence without an element is one over the other elements.
LEMMA SeqAvoids ==
  ASSUME NEW S, NEW x, NEW q \in Seq(S), \A i \in DOMAIN q : q[i] # x
  PROVE  q \in Seq(S \ {x})
  OBVIOUS

\* Emplace makes a task of the request it is called for.
LEMMA EmplaceTypes ==
  ASSUME ServedTypeOK, NEW c \in Conn, number[c] > 0, Emplace(c)
  PROVE  /\ held' \subseteq Task
         /\ queue' \in Seq(held')
         /\ worker' \in [Worker -> {"ready", "asleep", "busy"}]
<1> DEFINE t == [conn |-> c, number |-> number[c]]
<1>1. t \in Task
  BY ServingAssumption DEF ServedTypeOK, Task
<1>2. held' = held \cup {t} /\ queue' = Append(queue, t) /\ Notify
  BY DEF Emplace
<1>3. queue \in Seq(held')
  BY <1>2, SeqMonotonic DEF ServedTypeOK
<1>4. queue' \in Seq(held')
  BY <1>2, <1>3
<1>5. worker' \in [Worker -> {"ready", "asleep", "busy"}]
  BY <1>2 DEF Notify, ServedTypeOK
<1> QED
  BY <1>1, <1>2, <1>4, <1>5 DEF ServedTypeOK

\* An answer that is due can be counted.
LEMMA RespondTypes ==
  ASSUME ServedTypeOK, OneAnswerEach, NEW c \in Conn,
         stage[c] \in {"routing", "fetching", "mod"}
  PROVE  /\ answers[c] + 1 \in 0..MaxRequests
         /\ answers[c] + 1 = number[c] /\ number[c] \in Int
         /\ answers[c] \in Int
         /\ Respond(c) =>
              /\ stage' \in [Conn -> {"new", "reading", "routing", "fetching",
                                     "mod", "writing", "closed", "torn"}]
              /\ answers' \in [Conn -> 0..(MaxRequests + 2)]
<1>1. answers[c] = number[c] - 1 /\ number[c] \in 0..MaxRequests
      /\ answers[c] \in 0..(MaxRequests + 2)
  BY DEF ServedTypeOK, OneAnswerEach
<1>2. answers[c] + 1 \in 0..MaxRequests
  BY <1>1, ServingAssumption
<1>3. answers[c] + 1 \in 0..(MaxRequests + 2)
  BY <1>2, ServingAssumption
<1>4. Respond(c) =>
         /\ stage' \in [Conn -> {"new", "reading", "routing", "fetching",
                                "mod", "writing", "closed", "torn"}]
         /\ answers' \in [Conn -> 0..(MaxRequests + 2)]
  BY <1>3 DEF ServedTypeOK, Respond
<1> QED
  BY <1>1, <1>2, <1>4

\* Every action keeps the types.
LEMMA StepTypes == ServingIInv /\ Step => ServedTypeOK'
<1> SUFFICES ASSUME ServingIInv, Step PROVE ServedTypeOK'
  OBVIOUS
<1> USE ServingAssumption
    DEF ServingIInv, ServedTypeOK, connVars, poolVars, Go, Respond
<1>1. CASE UNCHANGED <<connVars, poolVars>>
  BY <1>1
<1>2. ASSUME NEW c \in Conn, Accept(c) PROVE ServedTypeOK'
  BY <1>2 DEF Accept
<1>3. ASSUME NEW c \in Conn, Read(c) PROVE ServedTypeOK'
  <2>1. number[c] < MaxRequests => number[c] + 1 \in 0..MaxRequests
    BY DEF Read
  <2> QED BY <1>3, <2>1 DEF Read
<1>4. ASSUME NEW c \in Conn, Written(c) PROVE ServedTypeOK'
  BY <1>4 DEF Written
<1>5. ASSUME NEW c \in Conn, KeyArrives(c) PROVE ServedTypeOK'
  <2>1. /\ stage[c] = "fetching"
        /\ \A n \in 2..3 : answers[c] + n \in 0..(MaxRequests + 2)
    BY <1>5, RespondTypes DEF KeyArrives
  <2>2. CASE Respond(c)
    BY <1>5, <2>1, <2>2, RespondTypes DEF KeyArrives
  <2>3. CASE ~Respond(c)
    <3>1. stage' \in [Conn -> {"new", "reading", "routing", "fetching", "mod",
                               "writing", "closed", "torn"}]
      BY <1>5, <2>3 DEF KeyArrives
    <3>2. PICK n \in 2..3 : answers' = [answers EXCEPT ![c] = @ + n]
      BY <1>5, <2>3 DEF KeyArrives
    <3>3. answers' \in [Conn -> 0..(MaxRequests + 2)]
      BY <2>1, <3>2
    <3> QED BY <1>5, <3>1, <3>3 DEF KeyArrives
  <2> QED BY <2>2, <2>3
<1>6. ASSUME NEW c \in Conn, Page(c) PROVE ServedTypeOK'
  BY <1>6, RespondTypes DEF Page
<1>7. ASSUME NEW c \in Conn, Portal(c) PROVE ServedTypeOK'
  BY <1>7, RespondTypes DEF Portal, GetCookies
<1>8. ASSUME NEW c \in Conn, LogIn(c) PROVE ServedTypeOK'
  <2>1. stage[c] = "routing" /\ Respond(c)
    BY <1>8 DEF LogIn
  <2>2. /\ stage' \in [Conn -> {"new", "reading", "routing", "fetching", "mod",
                                "writing", "closed", "torn"}]
        /\ answers' \in [Conn -> 0..(MaxRequests + 2)]
    BY <2>1, RespondTypes
  <2>3. login' \in [Conn -> 0..MaxRequests] /\ cookies' \in [Conn -> 0..MaxRequests]
    BY <1>8 DEF LogIn
  <2> QED BY <1>8, <2>2, <2>3 DEF LogIn
<1>9. ASSUME NEW c \in Conn, Handshake(c) PROVE ServedTypeOK'
  BY <1>9 DEF Handshake
<1>10. ASSUME NEW c \in Conn, ToMod(c) PROVE ServedTypeOK'
  <2>1. cookies' \in [Conn -> 0..MaxRequests]
    BY <1>10 DEF ToMod, GetCookies
  <2>2. CASE Refuse(c)
    BY <1>10, <2>1, <2>2, RespondTypes DEF ToMod, Refuse
  <2>3. CASE Forward(c)
    BY <1>10, <2>1, <2>3, EmplaceTypes
    DEF ToMod, Forward, RequestsRead
  <2> QED BY <1>10, <2>2, <2>3 DEF ToMod
<1>11. ASSUME NEW w \in Worker, Sleep(w) PROVE ServedTypeOK'
  BY <1>11 DEF Sleep
<1>12. ASSUME NEW w \in Worker, Pop(w) PROVE ServedTypeOK'
  BY <1>12 DEF Pop
<1>13. ASSUME NEW w \in Worker, ModReturns(w) PROVE ServedTypeOK'
  BY <1>13 DEF ModReturns
<1>14. ASSUME NEW w \in Worker, SpuriousWake(w) PROVE ServedTypeOK'
  BY <1>14 DEF SpuriousWake
<1>15. ASSUME NEW t \in Task, Callback(t) PROVE ServedTypeOK'
  <2>1. queue' \in Seq(held')
    BY <1>15, SeqAvoids DEF Callback
  <2>2. t.conn \in Conn /\ stage[t.conn] = "mod"
    BY <1>15 DEF Callback, Task, HeldRequestKept
  <2>3. /\ stage' \in [Conn -> {"new", "reading", "routing", "fetching", "mod",
                                "writing", "closed", "torn"}]
        /\ answers' \in [Conn -> 0..(MaxRequests + 2)]
    BY <1>15, <2>2, RespondTypes DEF Callback
  <2> QED
    BY <1>15, <2>1, <2>3 DEF Callback
<1> QED
  BY <1>1, <1>2, <1>3, <1>4, <1>5, <1>6, <1>7, <1>8, <1>9, <1>10, <1>11,
     <1>12, <1>13, <1>14, <1>15 DEF Step

-----------------------------------------------------------------------------
(* One answer for each request.                                            *)

\* An answer by whoever holds the connection is the one its request lacks.
LEMMA RespondAnswers ==
  ASSUME ServedTypeOK, OneAnswerEach, NEW c \in Conn,
         stage[c] \in {"routing", "fetching", "mod"},
         Respond(c), UNCHANGED number
  PROVE  OneAnswerEach'
  BY DEF ServedTypeOK, OneAnswerEach, Respond

\* Every action keeps answers and requests in step.
LEMMA StepAnswers == ServingIInv /\ Step => OneAnswerEach'
<1> SUFFICES ASSUME ServingIInv, Step PROVE OneAnswerEach'
  OBVIOUS
<1> USE ServingAssumption DEF ServingIInv
<1>1. CASE UNCHANGED <<connVars, poolVars>>
  BY <1>1 DEF connVars, OneAnswerEach
<1>2. ASSUME NEW c \in Conn,
             Accept(c) \/ Read(c) \/ Written(c) \/ Handshake(c)
      PROVE  OneAnswerEach'
  <2> USE DEF Go, ServedTypeOK, OneAnswerEach
  <2>1. CASE Accept(c)
    BY <2>1 DEF Accept
  <2>2. CASE Read(c)
    <3>1. CASE /\ Go(c, "reading", "routing") /\ answers' = answers
               /\ number' = [number EXCEPT ![c] = @ + 1]
      BY <3>1
    <3>2. CASE /\ Go(c, "reading", "closed") /\ answers' = answers
               /\ number' = number
      BY <3>2
    <3> QED BY <2>2, <3>1, <3>2 DEF Read
  <2>3. CASE Written(c)
    BY <2>3 DEF Written
  <2>4. CASE Handshake(c)
    BY <2>4 DEF Handshake
  <2> QED BY <1>2, <2>1, <2>2, <2>3, <2>4
<1>3. ASSUME NEW c \in Conn, KeyArrives(c) PROVE OneAnswerEach'
  <2>1. CASE Respond(c)
    BY <1>3, <2>1, RespondAnswers DEF KeyArrives
  <2>2. CASE ~Respond(c)
    <3>1. PICK n \in 2..3 :
             /\ stage[c] = "fetching" /\ number' = number
             /\ stage' = [stage EXCEPT ![c] = "torn"]
             /\ answers' = [answers EXCEPT ![c] = @ + n]
      BY <1>3, <2>2 DEF KeyArrives, Go
    <3>2. answers[c] + n \in number[c] + 1 .. number[c] + 2
      BY <3>1, RespondTypes
    <3>3. /\ stage'[c] = "torn"
          /\ answers'[c] \in number'[c] + 1 .. number'[c] + 2
          /\ \A d \in Conn \ {c} : /\ stage'[d] = stage[d]
                                   /\ answers'[d] = answers[d]
                                   /\ number'[d] = number[d]
      BY <3>1, <3>2 DEF ServedTypeOK
    <3>4. ASSUME NEW d \in Conn \ {c} PROVE OneAnswerEach!(d)'
      BY <3>3 DEF OneAnswerEach
    <3> QED BY <3>3, <3>4 DEF OneAnswerEach
  <2> QED BY <2>1, <2>2
<1>4. ASSUME NEW c \in Conn, Page(c) \/ Portal(c) \/ LogIn(c)
      PROVE  OneAnswerEach'
  BY <1>4, RespondAnswers DEF Page, Portal, LogIn
<1>5. ASSUME NEW c \in Conn, ToMod(c) PROVE OneAnswerEach'
  <2>1. CASE Refuse(c)
    BY <1>5, <2>1, RespondAnswers DEF ToMod, Refuse
  <2>2. CASE Forward(c)
    BY <1>5, <2>2 DEF ToMod, Forward, Go, ServedTypeOK, OneAnswerEach
  <2> QED BY <1>5, <2>1, <2>2 DEF ToMod
<1>6. ASSUME NEW w \in Worker,
             Sleep(w) \/ Pop(w) \/ ModReturns(w) \/ SpuriousWake(w)
      PROVE  OneAnswerEach'
  BY <1>6 DEF Sleep, Pop, ModReturns, SpuriousWake, connVars, OneAnswerEach
<1>7. ASSUME NEW t \in Task, Callback(t) PROVE OneAnswerEach'
  <2>1. t.conn \in Conn /\ stage[t.conn] = "mod"
    BY <1>7 DEF Callback, Task, HeldRequestKept
  <2>2. CASE Respond(t.conn)
    BY <1>7, <2>1, <2>2, RespondAnswers DEF Callback
  <2>3. CASE ~Respond(t.conn)
    BY <1>7, <2>1, <2>3 DEF Callback, ServedTypeOK, OneAnswerEach
  <2> QED BY <2>2, <2>3
<1> QED
  BY <1>1, <1>2, <1>3, <1>4, <1>5, <1>6, <1>7 DEF Step

-----------------------------------------------------------------------------
(* What is held by mods.                                                   *)

\* What a Callback does to the connection of its task.
LEMMA CallbackStep ==
  ASSUME ServingIInv, NEW t \in Task, Callback(t)
  PROVE  /\ t.conn \in Conn /\ stage[t.conn] = "mod" /\ number' = number
         /\ t \in held /\ held' = held \ {t}
         /\ \E where \in {"writing", "closed"} :
               stage' = [stage EXCEPT ![t.conn] = where]
<1>1. t.conn \in Conn /\ stage[t.conn] = "mod"
  BY DEF Callback, Task, ServingIInv, HeldRequestKept
<1>2. t \in held /\ held' = held \ {t} /\ number' = number
  BY DEF Callback
<1>3. \E where \in {"writing", "closed"} :
         stage' = [stage EXCEPT ![t.conn] = where]
  BY DEF Callback, Respond
<1> QED BY <1>1, <1>2, <1>3

\* A task is its connection and its number.
LEMMA SameTask ==
  ASSUME NEW t \in Task, NEW u \in Task, t.conn = u.conn, t.number = u.number
  PROVE  t = u
  BY DEF Task

\* Every action keeps what mods hold.
LEMMA StepHeld == ServingIInv /\ Step => HeldRequestKept'
<1> SUFFICES ASSUME ServingIInv, Step PROVE HeldRequestKept'
  OBVIOUS
<1> USE ServingAssumption DEF ServingIInv, ServedTypeOK, HeldRequestKept, Task
<1>1. CASE UNCHANGED <<connVars, poolVars>>
  BY <1>1 DEF connVars, poolVars
<1>2. ASSUME NEW c \in Conn, stage[c] # "mod", stage'[c] # "mod",
             \A d \in Conn \ {c} :
                stage'[d] = stage[d] /\ number'[d] = number[d],
             UNCHANGED held
      PROVE  HeldRequestKept'
  BY <1>2
<1>3. ASSUME NEW c \in Conn,
             \/ Accept(c) \/ Read(c) \/ Written(c) \/ Handshake(c)
             \/ KeyArrives(c)
      PROVE  HeldRequestKept'
  BY <1>3, <1>2
  DEF Accept, Read, Written, Handshake, KeyArrives, Go, Respond, poolVars
<1>4. ASSUME NEW c \in Conn, Page(c) \/ Portal(c) \/ LogIn(c)
      PROVE  HeldRequestKept'
  BY <1>4, <1>2 DEF Page, Portal, LogIn, Respond, poolVars
<1>5. ASSUME NEW c \in Conn, ToMod(c) PROVE HeldRequestKept'
  <2>1. CASE Refuse(c)
    BY <1>5, <2>1, <1>2 DEF ToMod, Refuse, Respond, poolVars
  <2>2. CASE Forward(c)
    <3>1. /\ held' = held \cup {[conn |-> c, number |-> number[c]]}
          /\ stage[c] = "routing" /\ stage' = [stage EXCEPT ![c] = "mod"]
          /\ number' = number
      BY <1>5, <2>2 DEF ToMod, Forward, Go, Emplace
    <3>2. \A u \in held : u.conn # c
      BY <3>1
    <3>3. \A u \in held' : stage'[u.conn] = "mod" /\ number'[u.conn] = u.number
      <4>1. ASSUME NEW u \in held
            PROVE  stage'[u.conn] = "mod" /\ number'[u.conn] = u.number
        BY <3>1, <3>2
      <4>2. stage'[c] = "mod" /\ number'[c] = number[c]
        BY <3>1
      <4> QED BY <3>1, <4>1, <4>2
    <3>4. \A d \in Conn : stage'[d] = "mod" => \E u \in held' : u.conn = d
      <4>1. \A d \in Conn \ {c} : stage'[d] = "mod" => stage[d] = "mod"
        BY <3>1
      <4>2. [conn |-> c, number |-> number[c]].conn = c
        OBVIOUS
      <4>3. held \subseteq held' /\ \E u \in held' : u.conn = c
        BY <3>1, <4>2
      <4> QED BY <4>1, <4>3
    <3> QED BY <3>3, <3>4
  <2> QED BY <1>5, <2>1, <2>2 DEF ToMod
<1>6. ASSUME NEW w \in Worker,
             Sleep(w) \/ Pop(w) \/ ModReturns(w) \/ SpuriousWake(w)
      PROVE  HeldRequestKept'
  BY <1>6 DEF Sleep, Pop, ModReturns, SpuriousWake, connVars
<1>7. ASSUME NEW t \in Task, Callback(t) PROVE HeldRequestKept'
  <2>2. PICK where \in {"writing", "closed"} :
            stage' = [stage EXCEPT ![t.conn] = where]
    BY <1>7, CallbackStep DEF ServingIInv
  <2>3. \A u \in held \ {t} : u.conn # t.conn
    <3>1. t.number = number[t.conn] /\ t \in held
      BY <1>7 DEF Callback
    <3>2. \A u \in held : u.number = number[u.conn] /\ u \in Task
      OBVIOUS
    <3>3. \A u \in held : u.conn = t.conn => u = t
      BY <3>1, <3>2, SameTask
    <3> QED BY <3>3
  <2>4. \A u \in held' : stage'[u.conn] = "mod" /\ number'[u.conn] = u.number
    <3>1. held' = held \ {t} /\ number' = number
      BY <1>7, CallbackStep DEF ServingIInv
    <3> QED BY <2>2, <2>3, <3>1
  <2>5. ASSUME NEW c \in Conn, stage'[c] = "mod"
        PROVE  \E u \in held' : u.conn = c
    <3>1. c # t.conn /\ stage[c] = "mod"
      BY <1>7, <2>2, <2>5, CallbackStep
    <3> QED BY <1>7, <3>1, CallbackStep
  <2> QED BY <2>4, <2>5
<1> QED
  BY <1>1, <1>3, <1>4, <1>5, <1>6, <1>7 DEF Step

-----------------------------------------------------------------------------
(* Threads that sleep and requests that wait.                              *)

Asleep == {w \in Worker : worker[w] = "asleep"}
Ready == {w \in Worker : worker[w] = "ready"}

\* A thread that becomes ready is one more for the queue.
LEMMA OneMoreReady ==
  ASSUME ServedTypeOK, NEW w \in Worker, worker[w] # "ready",
         worker' = [worker EXCEPT ![w] = "ready"]
  PROVE  /\ Cardinality(Ready') = Cardinality(Ready) + 1
         /\ Cardinality(Ready) \in Nat
         /\ Asleep' \subseteq Asleep
<1>1. Ready' = Ready \cup {w} /\ w \notin Ready /\ Asleep' \subseteq Asleep
  BY DEF ServedTypeOK, Ready, Asleep
<1>2. IsFiniteSet(Ready)
  BY ServingAssumption, FS_Subset DEF Ready
<1> QED
  BY <1>1, <1>2, FS_AddElement, FS_CardinalityType

\* Whoever adds to the queue wakes a thread, if any sleeps.
LEMMA EmplaceWakes ==
  ASSUME ServedTypeOK, WorkersWoken, NEW c \in Conn, Emplace(c)
  PROVE  WorkersWoken'
<1>1. queue \in Seq(Task) /\ Len(queue') = Len(queue) + 1
  BY SeqMonotonic DEF Emplace, ServedTypeOK
<1>2. CASE Asleep = {}
  BY <1>2 DEF Emplace, Notify, Asleep, WorkersWoken
<1>3. CASE Asleep # {}
  <2>1. PICK w \in Asleep : worker' = [worker EXCEPT ![w] = "ready"]
    BY <1>3 DEF Emplace, Notify, Asleep
  <2>2. Len(queue) <= Cardinality(Ready)
    BY <1>3 DEF WorkersWoken, Asleep, Ready
  <2>3. Cardinality(Ready') = Cardinality(Ready) + 1 /\ Cardinality(Ready) \in Nat
    BY <2>1, OneMoreReady DEF Asleep
  <2>4. Len(queue') <= Cardinality(Ready')
    BY <1>1, <2>2, <2>3
  <2> QED BY <2>4 DEF WorkersWoken, Ready
<1> QED BY <1>2, <1>3

\* Every action keeps the threads awake that are needed.
LEMMA StepWoken == ServingIInv /\ Step => WorkersWoken'
<1> SUFFICES ASSUME ServingIInv, Step PROVE WorkersWoken'
  OBVIOUS
<1> USE ServingAssumption DEF ServingIInv
<1>1. ASSUME UNCHANGED <<queue, worker>> PROVE WorkersWoken'
  BY <1>1 DEF WorkersWoken
<1>2. ASSUME NEW c \in Conn,
             \/ Accept(c) \/ Read(c) \/ Written(c) \/ Handshake(c)
             \/ KeyArrives(c) \/ Page(c) \/ Portal(c) \/ LogIn(c)
      PROVE  WorkersWoken'
  BY <1>1, <1>2
  DEF Accept, Read, Written, Handshake, KeyArrives, Page, Portal, LogIn, poolVars
<1>3. ASSUME NEW c \in Conn, ToMod(c) PROVE WorkersWoken'
  BY <1>1, <1>3, EmplaceWakes DEF ToMod, Refuse, Forward, poolVars
<1>4. ASSUME NEW w \in Worker, Sleep(w) PROVE WorkersWoken'
  <2>1. Len(queue') = 0
    BY <1>4 DEF Sleep
  <2>2. Cardinality(Ready') \in Nat
    BY FS_Subset, FS_CardinalityType DEF Ready
  <2> QED BY <2>1, <2>2 DEF WorkersWoken, Ready
<1>5. ASSUME NEW w \in Worker, Pop(w) PROVE WorkersWoken'
  <2>1. queue \in Seq(held) /\ queue # <<>> /\ queue' = Tail(queue)
    BY <1>5 DEF Pop, ServedTypeOK
  <2>2. Len(queue') = Len(queue) - 1 /\ Len(queue) \in Nat
    BY <2>1
  <2>3. w \in Ready /\ Ready' = Ready \ {w} /\ Asleep' = Asleep
    BY <1>5 DEF Pop, ServedTypeOK, Ready, Asleep
  <2>4. IsFiniteSet(Ready)
    BY FS_Subset DEF Ready
  <2>5. Cardinality(Ready') = Cardinality(Ready) - 1 /\ Cardinality(Ready) \in Nat
    BY <2>3, <2>4, FS_RemoveElement, FS_CardinalityType
  <2>6. Asleep # {} => Len(queue) <= Cardinality(Ready)
    BY DEF WorkersWoken, Asleep, Ready
  <2>7. Asleep' # {} => Len(queue') <= Cardinality(Ready')
    BY <2>2, <2>3, <2>5, <2>6
  <2> QED BY <2>7 DEF WorkersWoken, Asleep, Ready
<1>6. ASSUME NEW w \in Worker, ModReturns(w) \/ SpuriousWake(w)
      PROVE  WorkersWoken'
  <2>1. Cardinality(Ready') = Cardinality(Ready) + 1 /\ Cardinality(Ready) \in Nat
        /\ Asleep' \subseteq Asleep
    BY <1>6, OneMoreReady DEF ModReturns, SpuriousWake
  <2>2. queue' = queue /\ Len(queue) \in Nat
    BY <1>6 DEF ModReturns, SpuriousWake, ServedTypeOK
  <2>3. Asleep # {} => Len(queue) <= Cardinality(Ready)
    BY DEF WorkersWoken, Asleep, Ready
  <2>4. Asleep' # {} => Len(queue') <= Cardinality(Ready')
    BY <2>1, <2>2, <2>3
  <2> QED BY <2>4 DEF WorkersWoken, Asleep, Ready
<1>7. ASSUME NEW t \in Task, Callback(t) PROVE WorkersWoken'
  BY <1>1, <1>7 DEF Callback
<1> QED
  BY <1>1, <1>2, <1>3, <1>4, <1>5, <1>6, <1>7 DEF Step, poolVars

-----------------------------------------------------------------------------
(* Cookies.                                                                *)

\* A route that logs nobody in may take the cookies of its request.
LEMMA RouteCookies ==
  ASSUME ServingIInv, NEW c \in Conn, stage[c] = "routing",
         NEW s \in {"writing", "mod"}, stage' = [stage EXCEPT ![c] = s],
         UNCHANGED <<number, login>>,
         \/ cookies' = cookies
         \/ cookies' = [cookies EXCEPT ![c] = IF @ = 0 THEN number[c] ELSE @]
  PROVE  RequestsRead' /\ NoCookiesFromBeforeLogin'
<1> USE DEF ServingIInv, ServedTypeOK
<1>1. number[c] > 0 /\ login[c] < number[c] /\ cookies[c] <= number[c]
      /\ number[c] \in Nat /\ login[c] \in Nat /\ cookies[c] \in Nat
      /\ (cookies[c] # 0 => cookies[c] > login[c])
  BY ServingAssumption DEF RequestsRead, NoCookiesFromBeforeLogin
<1>2. cookies'[c] \in {cookies[c], number[c]}
  OBVIOUS
<1>3. \A d \in Conn \ {c} : stage'[d] = stage[d] /\ cookies'[d] = cookies[d]
  OBVIOUS
<1>4. stage'[c] \in {"writing", "mod"}
  OBVIOUS
<1>5. RequestsRead'
  BY <1>1, <1>2, <1>3, <1>4 DEF RequestsRead
<1>6. NoCookiesFromBeforeLogin'
  BY <1>1, <1>2, <1>3 DEF NoCookiesFromBeforeLogin
<1> QED BY <1>5, <1>6

\* Where the connections are after a step that takes no cookies.
LEMMA StagesKept ==
  ASSUME ServedTypeOK, NEW c \in Conn, Accept(c) \/ Written(c) \/ Handshake(c),
         NEW d \in Conn
  PROVE  /\ stage'[d] \in {"routing", "fetching", "mod", "torn"} =>
              stage[d] \in {"routing", "fetching", "mod", "torn"}
         /\ stage'[d] = "routing" => stage[d] = "routing"
<1> USE DEF ServedTypeOK, Go
<1>1. CASE Accept(c)
  BY <1>1 DEF Accept
<1>2. CASE Written(c)
  BY <1>2 DEF Written
<1>3. CASE Handshake(c)
  BY <1>3 DEF Handshake
<1> QED BY <1>1, <1>2, <1>3

\* Every action keeps cookies no older than the login.
LEMMA StepCookies ==
  ServingIInv /\ Step => RequestsRead' /\ NoCookiesFromBeforeLogin'
<1> SUFFICES ASSUME ServingIInv, Step
             PROVE  RequestsRead' /\ NoCookiesFromBeforeLogin'
  OBVIOUS
<1> USE ServingAssumption
    DEF ServingIInv, ServedTypeOK, RequestsRead, NoCookiesFromBeforeLogin
<1> DEFINE Goal == RequestsRead' /\ NoCookiesFromBeforeLogin'
<1>1. CASE UNCHANGED <<connVars, poolVars>>
  BY <1>1 DEF connVars
<1>2. ASSUME NEW c \in Conn, Accept(c) \/ Written(c) \/ Handshake(c)
      PROVE  Goal
  <2>1. UNCHANGED <<number, cookies, login>>
    BY <1>2 DEF Accept, Written, Handshake
  <2>2. \A d \in Conn :
           /\ stage'[d] \in {"routing", "fetching", "mod", "torn"} =>
                stage[d] \in {"routing", "fetching", "mod", "torn"}
           /\ stage'[d] = "routing" => stage[d] = "routing"
    BY <1>2, StagesKept
  <2>3. RequestsRead'
    BY <2>1, <2>2
  <2>4. NoCookiesFromBeforeLogin'
    BY <2>1
  <2> QED BY <2>3, <2>4
<1>3. ASSUME NEW c \in Conn, Read(c) PROVE Goal
  <2>1. CASE UNCHANGED number
    <3>1. /\ \A d \in Conn : stage'[d] \in {stage[d], "closed"}
          /\ UNCHANGED <<number, cookies, login>>
      BY <1>3, <2>1 DEF Read, Go
    <3> QED BY <3>1
  <2>2. CASE ~UNCHANGED number
    <3>1. /\ \A d \in Conn \ {c} : stage'[d] = stage[d] /\ number'[d] = number[d]
          /\ stage'[c] = "routing" /\ number'[c] = number[c] + 1
          /\ UNCHANGED <<cookies, login>>
      BY <1>3, <2>2 DEF Read, Go
    <3>2. /\ number[c] \in Nat /\ cookies[c] \in Nat /\ login[c] \in Nat
          /\ cookies[c] <= number[c] /\ login[c] <= number[c]
      OBVIOUS
    <3>3. /\ number'[c] > 0 /\ login[c] < number'[c]
          /\ cookies[c] <= number'[c] /\ login[c] <= number'[c]
      BY <3>1, <3>2
    <3>4. RequestsRead'
      BY <3>1, <3>3
    <3> QED BY <3>1, <3>4
  <2> QED BY <2>1, <2>2
<1>4. ASSUME NEW c \in Conn, KeyArrives(c) PROVE Goal
  BY <1>4 DEF KeyArrives, Go, Respond
<1>5. ASSUME NEW c \in Conn, Page(c) PROVE Goal
  BY <1>5, RouteCookies DEF Page, Respond
<1>6. ASSUME NEW c \in Conn, Portal(c) PROVE Goal
  BY <1>6, RouteCookies DEF Portal, Respond, GetCookies
<1>7. ASSUME NEW c \in Conn, LogIn(c) PROVE Goal
  <2>1. /\ \A d \in Conn \ {c} : /\ stage'[d] = stage[d]
                                 /\ cookies'[d] = cookies[d]
                                 /\ login'[d] = login[d]
        /\ stage'[c] = "writing" /\ cookies'[c] = 0 /\ login'[c] = number[c]
        /\ number' = number
    BY <1>7 DEF LogIn, Respond
  <2>2. number[c] \in Nat /\ number[c] <= number[c]
    OBVIOUS
  <2>3. RequestsRead'
    BY <2>1, <2>2
  <2>4. NoCookiesFromBeforeLogin'
    BY <2>1, <2>2
  <2> QED BY <2>3, <2>4
<1>8. ASSUME NEW c \in Conn, ToMod(c) PROVE Goal
  <2>1. CASE Refuse(c)
    BY <1>8, <2>1, RouteCookies DEF ToMod, Refuse, Respond, GetCookies
  <2>2. CASE Forward(c)
    BY <1>8, <2>2, RouteCookies DEF ToMod, Forward, Go, GetCookies
  <2> QED BY <1>8, <2>1, <2>2 DEF ToMod
<1>9. ASSUME NEW w \in Worker,
             Sleep(w) \/ Pop(w) \/ ModReturns(w) \/ SpuriousWake(w)
      PROVE  Goal
  BY <1>9 DEF Sleep, Pop, ModReturns, SpuriousWake, connVars
<1>10. ASSUME NEW t \in Task, Callback(t) PROVE Goal
  <2>1. UNCHANGED <<number, cookies, login>>
    BY <1>10 DEF Callback
  <2>2. \A c \in Conn : stage'[c] \in {stage[c], "writing", "closed"}
    BY <1>10, CallbackStep
  <2> QED BY <2>1, <2>2
<1> QED
  BY <1>1, <1>2, <1>3, <1>4, <1>5, <1>6, <1>7, <1>8, <1>9,
     <1>10 DEF Step

-----------------------------------------------------------------------------

\* Nothing is connected, held or asleep at first.
LEMMA ServingInitIInv == ServingInit => ServingIInv
<1> SUFFICES ASSUME ServingInit PROVE ServingIInv
  OBVIOUS
<1> USE ServingAssumption DEF ServingInit
<1>1. ServedTypeOK /\ RequestsRead
  BY DEF ServedTypeOK, RequestsRead
<1>2. OneAnswerEach /\ HeldRequestKept /\ NoCookiesFromBeforeLogin
  BY DEF OneAnswerEach, HeldRequestKept, NoCookiesFromBeforeLogin
<1>3. WorkersWoken
  BY DEF WorkersWoken
<1>4. ModsIInv
  BY ModsInitIInv
<1> QED BY <1>1, <1>2, <1>3, <1>4 DEF ServingIInv

\* ServingIInv is inductive.
LEMMA ServingInvariant == ServingSpec => []ServingIInv
<1>1. ServingIInv /\ [ServingNext]_servingVars => ServingIInv'
  BY NextIsStep, ModsInductive, StepTypes, StepAnswers, StepHeld, StepWoken,
     StepCookies
  DEF ServingIInv
<1> QED
  BY <1>1, ServingInitIInv, PTL DEF ServingSpec

\* Types of the tables, connections and the pool, whatever is installed.
THEOREM ServingTypes == ServingSpec => []ServingTypeOK
<1>1. ServingIInv => ServingTypeOK
  BY DEF ServingIInv, ModsIInv, ServedTypeOK, ServingTypeOK
<1> QED
  BY <1>1, ServingInvariant, PTL

\* An installation routes alike at every start, in whatever order directories
\* are listed and equal ids are sorted.
THEOREM RoutingIsStable == ServingSpec => []PathsRouteAlike
<1>1. ServingIInv => PathsRouteAlike
  BY RoutesAlike DEF ServingIInv
<1> QED
  BY <1>1, ServingInvariant, PTL

\* Every request is answered once, in its turn, for any number of connections
\* and requests, but for a handshake whose peer key was refused, or came over a
\* plain connection that did not shut down: that is answered two or three times.
THEOREM AnswersInTurn == ServingSpec => []OneAnswerEach
<1>1. ServingIInv => OneAnswerEach
  BY DEF ServingIInv
<1> QED
  BY <1>1, ServingInvariant, PTL

\* A mod reads the body of the request it was given, whatever the pool does.
THEOREM HeldRequestsKept == ServingSpec => []HeldRequestKept
<1>1. ServingIInv => HeldRequestKept
  BY DEF ServingIInv
<1> QED
  BY <1>1, ServingInvariant, PTL

\* No wake-up is lost, for any number of threads and of requests in the queue.
THEOREM NoLostWakeUp == ServingSpec => []WorkersWoken
<1>1. ServingIInv => WorkersWoken
  BY DEF ServingIInv
<1> QED
  BY <1>1, ServingInvariant, PTL

\* Cookies from before a login are never used after it on its connection.
THEOREM CookiesAreFresh == ServingSpec => []NoCookiesFromBeforeLogin
<1>1. ServingIInv => NoCookiesFromBeforeLogin
  BY DEF ServingIInv
<1> QED
  BY <1>1, ServingInvariant, PTL
=============================================================================
