-------------------------------- MODULE Mods --------------------------------
(***************************************************************************)
(* How an instance finds and starts its mods before it serves              *)
(* (protocol/mods/Mods.cpp, Mod.cpp, the start and stop of the connectors, *)
(* and FIY::start of protocol/FIY.cpp).  Once it serves the tables of mods *)
(* do not change.                                                          *)
(*                                                                         *)
(* A null pointer that is called through ends the process: phase           *)
(* "crashed".                                                              *)
(***************************************************************************)
EXTENDS Integers, Sequences, FiniteSets

CONSTANTS
    Mod,            \* directories under mods/
    Path,           \* the paths mods are routed by
    Id,             \* ids of mods, numbers in their alphabetical order
    Installations,  \* what the module.json files may say: [Mod -> Config]
    Null

Config == [id : Id, path : Path, enabled : BOOLEAN, loaded : BOOLEAN,
           connector : {"dll", "net", "none"}]

ASSUME ModsAssumption ==
    /\ IsFiniteSet(Mod)
    /\ Id \subseteq Nat
    /\ Installations \subseteq [Mod -> Config]
    /\ Null \notin Mod

VARIABLES
    config,     \* what Mod::load read, for each directory
    phase,      \* where FIY::start is
    dirs,       \* directories find_modules has not come to
    mods,       \* m_mods
    lookup,     \* m_mods_lookup: path -> mod
    byId,       \* m_mods_by_id
    started,    \* mods start_all has called
    info        \* mods whose connector has m_mod_info

modsVars == <<config, phase, dirs, mods, lookup, byId, started, info>>

ModsTypeOK ==
    /\ config \in Installations
    /\ phase \in {"finding", "starting", "serving", "crashed"}
    /\ dirs \subseteq Mod
    /\ mods \in Seq(Mod) /\ Len(mods) <= Cardinality(Mod)
    /\ lookup \in [Path -> Mod \cup {Null}]
    /\ byId \in [Id -> Mod \cup {Null}]
    /\ started \in 0..Len(mods)
    /\ info \subseteq Mod

ModsInit ==
    /\ config \in Installations
    /\ phase = "finding"
    /\ dirs = Mod
    /\ mods = <<>>
    /\ lookup = [p \in Path |-> Null]
    /\ byId = [i \in Id |-> Null]
    /\ started = 0
    /\ info = {}

\* find_modules, one directory, in the order the file system lists them.  A
\* disabled mod is deleted again, and its destructor stops its connector, which
\* is null when module.json named none; an enabled one that failed to load is
\* passed over.
Visit(m) ==
    /\ phase = "finding"
    /\ m \in dirs
    /\ dirs' = dirs \ {m}
    /\ \/ /\ ~config[m].enabled
          /\ phase' = IF config[m].connector = "none" THEN "crashed" ELSE phase
          /\ UNCHANGED mods
       \/ /\ config[m].enabled /\ ~config[m].loaded
          /\ UNCHANGED <<phase, mods>>
       \/ /\ config[m].enabled /\ config[m].loaded
          /\ mods' = Append(mods, m)
          /\ UNCHANGED phase
    /\ UNCHANGED <<config, lookup, byId, started, info>>

\* Mutant: a later mod takes the path of an earlier one.
PathOwner_Last(s, p) ==
    LET i == {k \in DOMAIN s : config[s[k]].path = p}
    IN  IF i = {} THEN Null ELSE s[CHOOSE k \in i : \A l \in i : l <= k]

\* The first mod with a path keeps it.
PathOwner(s, p) ==
    LET i == {k \in DOMAIN s : config[s[k]].path = p}
    IN  IF i = {} THEN Null ELSE s[CHOOSE k \in i : \A l \in i : k <= l]

\* The last mod with an id has it.
IdOwner(s, id) ==
    LET i == {k \in DOMAIN s : config[s[k]].id = id}
    IN  IF i = {} THEN Null ELSE s[CHOOSE k \in i : \A l \in i : l <= k]

\* The results std::sort by id may have: mods of one id in any order.
Sorted ==
    LET n == Len(mods)
        found == {mods[k] : k \in 1..n}
    IN  {s \in [1..n -> found] :
            /\ \A m \in found : \E k \in 1..n : s[k] = m
            /\ \A k \in 1..(n - 1) : config[s[k]].id <= config[s[k + 1]].id}

\* find_modules, after the last directory.
Populate ==
    /\ phase = "finding" /\ dirs = {}
    /\ \E s \in Sorted :
          /\ mods' = s
          /\ lookup' = [p \in Path |-> PathOwner(s, p)]
          /\ byId' = [i \in Id |-> IdOwner(s, i)]
    /\ phase' = "starting"
    /\ UNCHANGED <<config, dirs, started, info>>

\* start_all, one mod.  A connector that could not be made is called through
\* a null pointer; the one of a net mod makes its request with the io_context,
\* which FIY::start has not made yet; a shared object may fail to start.
StartMod ==
    /\ phase = "starting" /\ started < Len(mods)
    /\ LET m == mods[started + 1]
       IN  \/ /\ config[m].connector \in {"net", "none"}
              /\ phase' = "crashed"
              /\ UNCHANGED <<started, info>>
           \/ /\ config[m].connector = "dll"
              /\ started' = started + 1
              /\ info' \in {info, info \cup {m}}
              /\ UNCHANGED phase
    /\ UNCHANGED <<config, dirs, mods, lookup, byId>>

\* FIY::start makes the io_context and the listener; a mod that failed to
\* start does not stop it.
StartServing ==
    /\ phase = "starting" /\ started = Len(mods)
    /\ phase' = "serving"
    /\ UNCHANGED <<config, dirs, mods, lookup, byId, started, info>>

ModsNext ==
    \/ \E m \in Mod : Visit(m)
    \/ Populate \/ StartMod \/ StartServing

-----------------------------------------------------------------------------

\* The mods a start ends up with.
Usable == {m \in Mod : config[m].enabled /\ config[m].loaded}

\* Whatever order the file system lists the mods in, two starts of one
\* installation route alike, save where Mod.cpp:54 lets several mods have one id.
\* A path leads to a usable mod with it, and of rivals to the one with the least
\* id; an id leads to a mod with it.  Between twins, mods of one id on one path,
\* the choice is left to std::sort, which need not keep their order; then the
\* path and the id lead to different ones, for the first has the path and the
\* last the id.
PathsRouteAlike ==
    phase = "serving" =>
        /\ \A p \in Path : lookup[p] # Null => lookup[p] \in Usable
        /\ \A m \in Usable :
              LET others == Usable \ {m}
                  path == config[m].path
                  id == config[m].id
                  rivals == {r \in others : config[r].path = path}
                  twins == {r \in others : config[r].id = id}
              IN  /\ lookup[path] \in rivals \cup {m}
                  /\ lookup[path] = m => \A r \in rivals : id <= config[r].id
                  /\ (\A r \in rivals : id < config[r].id) => lookup[path] = m
                  /\ byId[id] \in twins \cup {m}
                  /\ lookup[path] = m /\ byId[id] = m => rivals \cap twins = {}

-----------------------------------------------------------------------------
(* What the repository says and the code does not do.                      *)

\* docs/SCALING.md:40: of a mod deployed to another machine, "The main server
\* will send requests to the mod over the network".  With an installation whose
\* only enabled mods are net mods the server comes up.
NetModsStart ==
    (\A m \in Mod : config[m].enabled /\ config[m].connector = "net")
        => phase # "crashed"
=============================================================================
