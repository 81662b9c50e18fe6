--------------------------- MODULE WhitelistCache ---------------------------
(***************************************************************************)
(* The in-memory cache (src/src/daemon/whitelist_cache.c): a hash table    *)
(* with chaining, an entry counter and a Bloom filter that lookups consult *)
(* first.  Each call is one step: it holds the lock throughout, and the    *)
(* event loop is its only caller.  The hit, miss and collision counters,   *)
(* which only cache_get_stats() reports, are left out.                     *)
(***************************************************************************)
EXTENDS Integers, Sequences, FiniteSets

CONSTANTS
    Hashes,   \* SHA-256 digests
    Limits,   \* values of max_entries, 0 = no limit
    Buckets,  \* indices of the hash table
    Bits,     \* bits of the Bloom filter
    Index,    \* hash_to_index()
    Bloom     \* bloom_hashes(): the bits of a digest

ASSUME CacheAssumption ==
    /\ Limits \subseteq Nat
    /\ Index \in [Hashes -> Buckets]
    /\ Bloom \in [Hashes -> SUBSET Bits]

VARIABLES
    initialized,
    max_entries,
    table,        \* the chain of each bucket, head first
    entry_count,
    bloom,        \* the bits that are set
    disk,         \* digests whitelist_add() has stored
    out           \* the last call and what it returned

vars == <<initialized, max_entries, table, entry_count, bloom, disk, out>>

Empty == [b \in Buckets |-> <<>>]

Elems(s) == {s[i] : i \in DOMAIN s}

Chain(h) == table[Index[h]]

Returns(call, v) == out' = [call |-> call, result |-> v]

\* A call on a cache that is not initialized.
Refused(call, v) ==
    /\ ~initialized
    /\ Returns(call, v)
    /\ UNCHANGED <<initialized, max_entries, table, entry_count, bloom, disk>>

cache_init(m) ==
    \/ /\ initialized
       /\ Returns(<<"init", m>>, 0)
       /\ UNCHANGED <<initialized, max_entries, table, entry_count, bloom, disk>>
    \/ /\ ~initialized
       /\ max_entries' = m
       /\ entry_count' = 0
       /\ \/ /\ table' = Empty
             /\ bloom' = {}
             /\ initialized' = TRUE
             /\ Returns(<<"init", m>>, 0)
          \/ /\ Returns(<<"init", m>>, -1)
             /\ UNCHANGED <<initialized, table, bloom>>
       /\ UNCHANGED disk

cache_shutdown ==
    \/ Refused(<<"shutdown">>, 0)
    \/ /\ initialized
       /\ initialized' = FALSE
       /\ table' = Empty
       /\ bloom' = {}
       /\ Returns(<<"shutdown">>, 0)
       /\ UNCHANGED <<max_entries, entry_count, disk>>

\* Bits that collide let a digest past the filter; the chain decides.
BloomCheck(h) == Bloom[h] \subseteq bloom

cache_check(h) ==
    \/ Refused(<<"check", h>>, 0)
    \/ /\ initialized
       /\ Returns(<<"check", h>>, IF BloomCheck(h) /\ h \in Elems(Chain(h)) THEN 1 ELSE 0)
       /\ UNCHANGED <<initialized, max_entries, table, entry_count, bloom, disk>>

Full == max_entries > 0 /\ entry_count >= max_entries

\* Mutant: the chain is not searched first.
AddUnsearched(h, persist) ==
    /\ initialized
    /\ ~Full
    /\ table' = [table EXCEPT ![Index[h]] = <<h>> \o @]
    /\ entry_count' = entry_count + 1
    /\ bloom' = bloom \cup Bloom[h]
    /\ disk' = IF persist THEN disk \cup {h} ELSE disk
    /\ Returns(<<"add", h>>, 0)
    /\ UNCHANGED <<initialized, max_entries>>

\* The limit is tested before the chain is searched, and a digest that is
\* found there is not persisted.
cache_add(h, persist) ==
    \/ Refused(<<"add", h>>, -1)
    \/ /\ initialized
       /\ Full \/ h \notin Elems(Chain(h))
       /\ Returns(<<"add", h>>, -1)
       /\ UNCHANGED <<initialized, max_entries, table, entry_count, bloom, disk>>
    \/ /\ initialized
       /\ ~Full
       /\ h \in Elems(Chain(h))
       /\ Returns(<<"add", h>>, 0)
       /\ UNCHANGED <<initialized, max_entries, table, entry_count, bloom, disk>>
    \/ /\ initialized
       /\ ~Full
       /\ h \notin Elems(Chain(h))
       /\ table' = [table EXCEPT ![Index[h]] = <<h>> \o @]
       /\ entry_count' = entry_count + 1
       /\ bloom' = bloom \cup Bloom[h]
       /\ disk' = IF persist THEN disk \cup {h} ELSE disk
       /\ Returns(<<"add", h>>, 0)
       /\ UNCHANGED <<initialized, max_entries>>

\* Mutant: the entries behind the removed one are cut off with it.
UnlinkTail(s, i) == SubSeq(s, 1, i - 1)

\* The chain without its i-th entry.
Unlink(s, i) == SubSeq(s, 1, i - 1) \o SubSeq(s, i + 1, Len(s))

\* Mutant: the bits of the digest are cleared.
RemoveBits(h) ==
    /\ initialized
    /\ \E i \in DOMAIN Chain(h) :
          /\ Chain(h)[i] = h
          /\ table' = [table EXCEPT ![Index[h]] = Unlink(@, i)]
    /\ entry_count' = entry_count - 1
    /\ bloom' = bloom \ Bloom[h]
    /\ Returns(<<"remove", h>>, 0)
    /\ UNCHANGED <<initialized, max_entries, disk>>

\* Mutant: the counter goes down whether or not the digest is found.
RemoveUncounted(h) ==
    /\ initialized
    /\ h \notin Elems(Chain(h))
    /\ entry_count' = entry_count - 1
    /\ Returns(<<"remove", h>>, -1)
    /\ UNCHANGED <<initialized, max_entries, table, bloom, disk>>

\* The first match is unlinked; its bits stay set.
cache_remove(h) ==
    \/ Refused(<<"remove", h>>, -1)
    \/ /\ initialized
       /\ h \notin Elems(Chain(h))
       /\ Returns(<<"remove", h>>, -1)
       /\ UNCHANGED <<initialized, max_entries, table, entry_count, bloom, disk>>
    \/ /\ initialized
       /\ \E i \in DOMAIN Chain(h) :
             /\ Chain(h)[i] = h
             /\ \A j \in 1 .. i - 1 : Chain(h)[j] # h
             /\ table' = [table EXCEPT ![Index[h]] = Unlink(@, i)]
       /\ entry_count' = entry_count - 1
       /\ Returns(<<"remove", h>>, 0)
       /\ UNCHANGED <<initialized, max_entries, bloom, disk>>

\* Mutant: the counter survives the entries.
ClearUncounted ==
    /\ initialized
    /\ table' = Empty
    /\ bloom' = {}
    /\ Returns(<<"clear">>, 0)
    /\ UNCHANGED <<initialized, max_entries, entry_count, disk>>

cache_clear ==
    \/ Refused(<<"clear">>, 0)
    \/ /\ initialized
       /\ table' = Empty
       /\ bloom' = {}
       /\ entry_count' = 0
       /\ Returns(<<"clear">>, 0)
       /\ UNCHANGED <<initialized, max_entries, disk>>

\* cache_get_stats(), as far as total_entries.
cache_get_stats ==
    \/ Refused(<<"stats">>, 0)
    \/ /\ initialized
       /\ Returns(<<"stats">>, entry_count)
       /\ UNCHANGED <<initialized, max_entries, table, entry_count, bloom, disk>>

Init ==
    /\ initialized = FALSE
    /\ max_entries = 0
    /\ table = Empty
    /\ entry_count = 0
    /\ bloom = {}
    /\ disk = {}
    /\ out = [call |-> <<>>, result |-> 0]

Next ==
    \/ \E m \in Limits : cache_init(m)
    \/ \E h \in Hashes : cache_check(h) \/ cache_remove(h)
    \/ \E h \in Hashes, persist \in BOOLEAN : cache_add(h, persist)
    \/ cache_shutdown
    \/ cache_clear
    \/ cache_get_stats

Spec == Init /\ [][Next]_vars

-----------------------------------------------------------------------------
(* Properties.                                                             *)

\* Types of the variables.
TypeOK ==
    /\ initialized \in BOOLEAN
    /\ max_entries \in Limits \cup {0}
    /\ table \in [Buckets -> Seq(Hashes)]
    /\ entry_count \in Nat
    /\ bloom \in SUBSET Bits
    /\ disk \in SUBSET Hashes
    /\ out.result \in Nat \cup {-1}

\* Every chain holds digests of its own bucket, each once, so that removing
\* the first match removes the digest.
ChainsWellFormed ==
    \A b \in Buckets : \A i, j \in DOMAIN table[b] :
        /\ Index[table[b][i]] = b
        /\ table[b][i] = table[b][j] => i = j

\* The filter never hides an entry: cache_remove() leaves every bit set and
\* cache_clear() clears them together with the entries.
NoFalseNegative ==
    \A b \in Buckets : \A i \in DOMAIN table[b] : BloomCheck(table[b][i])

Cached == UNION {Elems(table[b]) : b \in Buckets}

\* entry_count, which the limit is tested against, is the number of entries.
CountExact == initialized => entry_count = Cardinality(Cached)

\* Callers cannot tell the table, the counter and the filter from a set.
Abstract == INSTANCE WhitelistSet
    WITH up <- initialized, limit <- max_entries, members <- Cached

ImplementsSet == Abstract!Spec
=============================================================================
