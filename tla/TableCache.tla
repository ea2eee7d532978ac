----------------------------- MODULE TableCache -----------------------------
(***************************************************************************)
(* LevelDB's cache of open tables (db/table_cache.cc) on its LRU cache     *)
(* (util/cache.cc): threads find tables, open and insert those that are    *)
(* not there, read them and release them, while others are evicted.        *)
(*                                                                         *)
(* Every operation of the cache is one step, under its mutex; between      *)
(* looking a table up and inserting it the file is opened without it.  The *)
(* hash table is a function; one of the 16 shards is modelled.  An entry   *)
(* that is freed is no longer in entries.                                  *)
(***************************************************************************)
EXTENDS Naturals, Sequences, FiniteSets, FiniteSetsExt, SequencesExt

CONSTANTS
    Threads, None,
    Numbers,     \* of the tables
    Charge,      \* per table, what it counts for
    Capacity,    \* capacity_
    Handles      \* names for entries

TableCacheAssumption ==
    /\ Charge \in [Numbers -> Nat \ {0}] /\ Capacity \in Nat
    /\ Handles \subseteq Nat /\ Cardinality(Handles) > Cardinality(Numbers) + Cardinality(Threads)
    /\ IsFiniteSet(Threads) /\ IsFiniteSet(Numbers) /\ None \notin Numbers \cup Handles

VARIABLES
    cache,    \* the LRUCache
    opening,  \* per thread the table it is opening
    holds,    \* per thread the entry it holds
    wanted    \* history: per thread the table it asked for

cacheVars == <<cache, opening, holds, wanted>>

CacheInit ==
    /\ cache = [entries |-> <<>>, lru |-> <<>>, inUse |-> {}, table |-> <<>>, usage |-> 0]
    /\ opening = [t \in Threads |-> None]
    /\ holds = [t \in Threads |-> None]
    /\ wanted = [t \in Threads |-> None]

----------------------------------------------------------------------------
(* LRUCache: each operator gives the cache c after the call. *)

Without(f, S) == [x \in DOMAIN f \ S |-> f[x]]
With(f, x, v) == [y \in DOMAIN f \cup {x} |-> IF y = x THEN v ELSE f[y]]

\* LRU_Remove, of an entry that is in this list or in the other.
Unlinked(s, e) ==
    IF e \notin ToSet(s) THEN s
    ELSE RemoveAt(s, CHOOSE n \in DOMAIN s : s[n] = e)

\* What the entries of S count for: so many pairs of one of them and a number.
TotalCharge(c, S) == Cardinality(UNION {{e} \X (1 .. Charge[c.entries[e].key]) : e \in S})

\* An entry that somebody uses is not on the LRU list.
Ref(c, e) ==
    [c EXCEPT !.entries[e].refs = @ + 1,
              !.lru = IF c.entries[e].refs = 1 /\ c.entries[e].inCache
                      THEN Unlinked(@, e) ELSE @,
              !.inUse = IF c.entries[e].inCache THEN @ \cup {e} ELSE @]

\* Mutant: an entry that is no longer used stays in in_use_.
UnrefStaysInUse(c, e) ==
    LET refs == c.entries[e].refs - 1
        idle == FALSE
    IN  [c EXCEPT !.entries = IF refs = 0 THEN Without(@, {e}) ELSE [@ EXCEPT ![e].refs = refs],
                  !.lru = IF idle THEN Append(@, e) ELSE @,
                  !.inUse = IF idle THEN @ \ {e} ELSE @]

\* The last reference frees the entry; when the cache's is left it is the newest of lru_.
Unref(c, e) ==
    LET refs == c.entries[e].refs - 1
        idle == refs = 1 /\ c.entries[e].inCache
    IN  [c EXCEPT !.entries = IF refs = 0 THEN Without(@, {e}) ELSE [@ EXCEPT ![e].refs = refs],
                  !.lru = IF idle THEN Append(@, e) ELSE @,
                  !.inUse = IF idle THEN @ \ {e} ELSE @]

\* An entry is taken out of the lists and gives up the cache's reference.
FinishErase(c, e) ==
    Unref([c EXCEPT !.entries[e].inCache = FALSE,
                    !.lru = Unlinked(@, e), !.inUse = @ \ {e},
                    !.usage = @ - Charge[c.entries[e].key]], e)

Erase(c, k) ==
    IF k \notin DOMAIN c.table THEN c
    ELSE FinishErase([c EXCEPT !.table = Without(@, {k})], c.table[k])

\* The n oldest of lru_ go, which the cache alone refers to: n rounds of the loop
\* in Insert or Prune, each of which erases the oldest (EachRound in ReadsProofs).
Oldest(c, n) == {c.lru[i] : i \in 1 .. n}
EvictOldest(c, n) ==
    [c EXCEPT !.entries = Without(@, Oldest(c, n)), !.lru = SubSeq(@, n + 1, Len(@)),
              !.table = Without(@, {c.entries[e].key : e \in Oldest(c, n)}),
              !.usage = @ - TotalCharge(c, Oldest(c, n))]

\* While there is too much, the oldest unused entry goes; Prune lets all of them go.
Enough(c) == {n \in 0 .. Len(c.lru) :
                 n = Len(c.lru) \/ c.usage <= Capacity + TotalCharge(c, Oldest(c, n))}
Shrink(c) == EvictOldest(c, Min(Enough(c)))
Prune(c) == EvictOldest(c, Len(c.lru))

Free(c) == CHOOSE e \in Handles : e \notin DOMAIN c.entries

\* The entry takes the place of one with the same key, and is used by the caller.
CacheInsert(c, k) ==
    LET e == Free(c)
        entry(refs, in) == [key |-> k, refs |-> refs, inCache |-> in]
        added == [c EXCEPT !.entries = With(@, e, entry(2, TRUE)), !.inUse = @ \cup {e},
                           !.usage = @ + Charge[k], !.table = With(@, k, e)]
    IN  IF Capacity = 0 THEN Shrink([c EXCEPT !.entries = With(@, e, entry(1, FALSE))])
        ELSE Shrink(IF k \in DOMAIN c.table THEN FinishErase(added, c.table[k]) ELSE added)

----------------------------------------------------------------------------
(* TableCache. *)

Idle(t) == opening[t] = None /\ holds[t] = None

\* FindTable: the table is there, or its file is to be opened.
FindTable(t, k) ==
    /\ Idle(t)
    /\ wanted' = [wanted EXCEPT ![t] = k]
    /\ IF k \in DOMAIN cache.table
       THEN /\ cache' = Ref(cache, cache.table[k])
            /\ holds' = [holds EXCEPT ![t] = cache.table[k]]
            /\ UNCHANGED opening
       ELSE /\ opening' = [opening EXCEPT ![t] = k]
            /\ UNCHANGED <<cache, holds>>

\* The file has been opened and is inserted; two threads may have opened the same.
InsertTable(t) ==
    /\ opening[t] # None
    /\ cache' = CacheInsert(cache, opening[t])
    /\ holds' = [holds EXCEPT ![t] = Free(cache)]
    /\ opening' = [opening EXCEPT ![t] = None]
    /\ UNCHANGED wanted

\* It could not be opened: that is not remembered.
OpenFails(t) ==
    /\ opening[t] # None
    /\ opening' = [opening EXCEPT ![t] = None]
    /\ UNCHANGED <<cache, holds, wanted>>

\* Get has its answer, or the iterator is deleted (UnrefEntry).
Release(t) ==
    /\ holds[t] # None
    /\ cache' = Unref(cache, holds[t])
    /\ holds' = [holds EXCEPT ![t] = None]
    /\ UNCHANGED <<opening, wanted>>

\* The file has been deleted.
Evict(k) ==
    /\ k \in DOMAIN cache.table
    /\ cache' = Erase(cache, k)
    /\ UNCHANGED <<opening, holds, wanted>>

PruneAll ==
    /\ cache.lru # <<>>
    /\ cache' = Prune(cache)
    /\ UNCHANGED <<opening, holds, wanted>>

CacheNext ==
    \/ \E t \in Threads :
          \/ \E k \in Numbers : FindTable(t, k)
          \/ InsertTable(t) \/ OpenFails(t) \/ Release(t)
    \/ \E k \in Numbers : Evict(k)
    \/ PruneAll

CacheSpec == CacheInit /\ [][CacheNext]_cacheVars

----------------------------------------------------------------------------
(* Properties. *)

Live == DOMAIN cache.entries
Users(e) == {t \in Threads : holds[t] = e}
Cached == {e \in Live : cache.entries[e].inCache}

\* The types of the cache and of what the threads hold.
CacheTypeOK ==
    /\ Live \subseteq Handles
    /\ \A e \in Live : /\ cache.entries[e].key \in Numbers
                       /\ cache.entries[e].refs \in 1 .. Cardinality(Threads) + 1
    /\ cache.usage \in Nat
    /\ opening \in [Threads -> Numbers \cup {None}]
    /\ holds \in [Threads -> Handles \cup {None}]

\* A thread never has an entry that was freed, nor one of another table than it asked
\* for, whatever is evicted, replaced or pruned meanwhile; and nothing that nobody holds
\* and the cache has given up is kept.
HeldIsOpen ==
    /\ \A t \in Threads : holds[t] # None =>
          holds[t] \in Live /\ cache.entries[holds[t]].key = wanted[t]
    /\ \A e \in Live :
          cache.entries[e].refs = Cardinality(Users(e)) + (IF e \in Cached THEN 1 ELSE 0)

\* Every cached entry is in the table and in one list: lru_ if only the cache has it,
\* in_use_ otherwise (the comments of LRUCache on lru_ and in_use_).
ListsAgree ==
    /\ ToSet(cache.lru) = {e \in Cached : cache.entries[e].refs = 1}
    /\ Len(cache.lru) = Cardinality(ToSet(cache.lru))
    /\ cache.inUse = {e \in Cached : cache.entries[e].refs > 1}
    /\ Cached = {cache.table[k] : k \in DOMAIN cache.table}
    /\ \A k \in DOMAIN cache.table : cache.entries[cache.table[k]].key = k

\* usage_ counts what is cached: it cannot drift, or wrap around, over replacements.
UsageCounts == cache.usage = TotalCharge(cache, Cached)

\* What is over the capacity was in use when the last table was inserted: no more tables
\* are open than the capacity and the users allow for.
OpenBounded == Cardinality(Live) <= Capacity + Cardinality(Threads)

\* All of it.
CacheTrue == CacheTypeOK /\ HeldIsOpen /\ ListsAgree /\ UsageCounts /\ OpenBounded
=============================================================================
