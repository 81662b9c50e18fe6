------------------------ MODULE WhitelistCacheProofs ------------------------
(***************************************************************************)
(* The cache is a set, for every number of buckets and bits, every hash    *)
(* function and every limit: the chains, the counter and the filter stay   *)
(* in step, and WhitelistCache implements WhitelistSet.                    *)
(***************************************************************************)
EXTENDS WhitelistCache, FiniteSetTheorems, SequenceTheorems, TLAPS

LEMMA ConsProperties ==
    ASSUME NEW S, NEW h \in S, NEW s \in Seq(S)
    PROVE  /\ <<h>> \o s \in Seq(S)
           /\ Len(<<h>> \o s) = Len(s) + 1
           /\ (<<h>> \o s)[1] = h
           /\ \A i \in 1 .. Len(s) : (<<h>> \o s)[i + 1] = s[i]
           /\ Elems(<<h>> \o s) = Elems(s) \cup {h}
<1>. DEFINE t == <<h>> \o s
<1>1. <<h>> \in Seq(S) /\ Len(<<h>>) = 1 /\ <<h>>[1] = h
  OBVIOUS
<1>2. t \in Seq(S) /\ Len(t) = Len(s) + 1
  BY <1>1, ConcatProperties
<1>3. t[1] = h
  BY <1>1, ConcatProperties
<1>4. ASSUME NEW i \in 1 .. Len(s)
      PROVE  t[i + 1] = s[i]
  BY <1>1, ConcatProperties
<1>5. DOMAIN t = 1 .. Len(s) + 1 /\ DOMAIN s = 1 .. Len(s) /\ Len(s) \in Nat
  BY <1>2, LenProperties
<1>6. Elems(t) = Elems(s) \cup {h}
  <2>1. ASSUME NEW x \in Elems(t)
        PROVE  x \in Elems(s) \cup {h}
    <3>1. PICK i \in 1 .. Len(s) + 1 : x = t[i]
      BY <1>5 DEF Elems
    <3>2. CASE i = 1
      BY <3>1, <3>2, <1>3
    <3>3. CASE i # 1
      <4>1. i - 1 \in 1 .. Len(s) /\ (i - 1) + 1 = i
        BY <3>3, <1>5
      <4>2. x = s[i - 1]
        BY <4>1, <1>4, <3>1
      <4>. QED  BY <4>1, <4>2, <1>5 DEF Elems
    <3>. QED  BY <3>2, <3>3
  <2>2. h \in Elems(t)
    BY <1>3, <1>5 DEF Elems
  <2>3. ASSUME NEW i \in 1 .. Len(s)
        PROVE  s[i] \in Elems(t)
    <3>1. i + 1 \in DOMAIN t /\ t[i + 1] = s[i]
      BY <1>4, <1>5
    <3>. QED  BY <3>1 DEF Elems
  <2>. QED  BY <2>1, <2>2, <2>3, <1>5 DEF Elems
<1>. QED  BY <1>2, <1>3, <1>4, <1>6

LEMMA UnlinkProperties ==
    ASSUME NEW S, NEW s \in Seq(S), NEW i \in DOMAIN s
    PROVE  /\ Unlink(s, i) \in Seq(S)
           /\ Len(Unlink(s, i)) = Len(s) - 1
           /\ \A j \in 1 .. Len(s) - 1 :
                 Unlink(s, i)[j] = s[IF j < i THEN j ELSE j + 1]
<1>. DEFINE a == SubSeq(s, 1, i - 1)
            b == SubSeq(s, i + 1, Len(s))
<1>1. /\ Len(s) \in Nat /\ i \in 1 .. Len(s)
      /\ \A j \in 1 .. Len(s) : s[j] \in S
  BY LenProperties, ElementOfSeq
<1>. HIDE DEF a, b
<1>2. a \in Seq(S) /\ Len(a) = i - 1 /\ \A j \in 1 .. i - 1 : a[j] = s[j]
  <2>1. 1 \in Int /\ i - 1 \in Int /\ \A j \in 1 .. i - 1 : s[j] \in S
    BY <1>1
  <2>2. /\ a \in Seq(S)
        /\ Len(a) = IF 1 <= i - 1 THEN (i - 1) - 1 + 1 ELSE 0
        /\ \A j \in 1 .. (i - 1) - 1 + 1 : a[j] = s[1 + j - 1]
    BY <2>1, SubSeqProperties DEF a
  <2>. QED  BY <2>2, <1>1
<1>3. b \in Seq(S) /\ Len(b) = Len(s) - i
      /\ \A j \in 1 .. Len(s) - i : b[j] = s[i + j]
  <2>1. i + 1 \in Int /\ Len(s) \in Int /\ \A j \in i + 1 .. Len(s) : s[j] \in S
    BY <1>1
  <2>2. /\ b \in Seq(S)
        /\ Len(b) = IF i + 1 <= Len(s) THEN Len(s) - (i + 1) + 1 ELSE 0
        /\ \A j \in 1 .. Len(s) - (i + 1) + 1 : b[j] = s[(i + 1) + j - 1]
    BY <2>1, SubSeqProperties DEF b
  <2>. QED  BY <2>2, <1>1
<1>4. a \o b \in Seq(S) /\ Len(a \o b) = Len(s) - 1
  BY <1>1, <1>2, <1>3, ConcatProperties
<1>5. ASSUME NEW j \in 1 .. Len(s) - 1
      PROVE  (a \o b)[j] = s[IF j < i THEN j ELSE j + 1]
  <2>1. j \in 1 .. Len(a) + Len(b)
        /\ (a \o b)[j] = IF j <= Len(a) THEN a[j] ELSE b[j - Len(a)]
    <3>1. j \in 1 .. Len(a) + Len(b)
      BY <1>1, <1>2, <1>3
    <3>2. \A k \in 1 .. Len(a) + Len(b) :
             (a \o b)[k] = IF k <= Len(a) THEN a[k] ELSE b[k - Len(a)]
      BY <1>2, <1>3, ConcatProperties
    <3>. QED  BY <3>1, <3>2
  <2>2. CASE j < i
    BY <2>1, <2>2, <1>1, <1>2
  <2>3. CASE ~(j < i)
    <3>1. j - Len(a) \in 1 .. Len(s) - i /\ i + (j - Len(a)) = j + 1
      BY <2>3, <1>1, <1>2
    <3>2. (a \o b)[j] = b[j - Len(a)]
      BY <2>1, <2>3, <1>1, <1>2
    <3>. QED  BY <3>1, <3>2, <2>3, <1>3
  <2>. QED  BY <2>2, <2>3
<1>. QED  BY <1>4, <1>5 DEF Unlink, a, b

\* Where a digest occurs once, its removal removes it and nothing else.
LEMMA UnlinkElems ==
    ASSUME NEW S, NEW s \in Seq(S), NEW i \in DOMAIN s,
           \A j, k \in DOMAIN s : s[j] = s[k] => j = k
    PROVE  /\ Elems(Unlink(s, i)) = Elems(s) \ {s[i]}
           /\ \A j, k \in DOMAIN Unlink(s, i) :
                 Unlink(s, i)[j] = Unlink(s, i)[k] => j = k
<1>. DEFINE u == Unlink(s, i)
<1>1. Len(s) \in Nat /\ i \in 1 .. Len(s) /\ DOMAIN s = 1 .. Len(s)
      /\ DOMAIN u = 1 .. Len(s) - 1
  <2>1. /\ Unlink(s, i) \in Seq(S) /\ Len(Unlink(s, i)) = Len(s) - 1
    BY UnlinkProperties
  <2>. QED  BY <2>1, LenProperties
<1>2. \A j \in 1 .. Len(s) - 1 : u[j] = s[IF j < i THEN j ELSE j + 1]
  BY UnlinkProperties
<1>. HIDE DEF u
<1>3. ASSUME NEW j \in DOMAIN u
      PROVE  u[j] \in Elems(s) \ {s[i]}
  <2>. DEFINE k == IF j < i THEN j ELSE j + 1
  <2>1. k \in DOMAIN s /\ k # i /\ u[j] = s[k]
    BY <1>1, <1>2
  <2>. QED  BY <2>1, <1>1 DEF Elems
<1>4. ASSUME NEW k \in DOMAIN s, s[k] # s[i]
      PROVE  s[k] \in Elems(u)
  <2>. DEFINE j == IF k < i THEN k ELSE k - 1
  <2>1. k # i
    BY <1>4
  <2>2. j \in DOMAIN u /\ u[j] = s[k]
    BY <2>1, <1>1, <1>2
  <2>. QED  BY <2>2 DEF Elems
<1>5. ASSUME NEW j \in DOMAIN u, NEW k \in DOMAIN u, u[j] = u[k]
      PROVE  j = k
  <2>. DEFINE old(n) == IF n < i THEN n ELSE n + 1
  <2>1. /\ old(j) \in DOMAIN s /\ u[j] = s[old(j)]
        /\ old(k) \in DOMAIN s /\ u[k] = s[old(k)]
    BY <1>1, <1>2
  <2>2. old(j) = old(k)
    BY <2>1, <1>5
  <2>. QED  BY <2>2, <1>1
<1>6. Elems(u) = Elems(s) \ {s[i]}
  BY <1>3, <1>4 DEF Elems
<1>. QED  BY <1>5, <1>6 DEF u

-----------------------------------------------------------------------------
(* What a call does to the set of cached digests.                          *)

Chains == table \in [Buckets -> Seq(Hashes)] /\ ChainsWellFormed

\* A digest is in the table iff it is in its own chain.
LEMMA CachedInOwnChain ==
    ASSUME Chains, NEW h \in Hashes
    PROVE  h \in Cached <=> h \in Elems(Chain(h))
<1>1. Index[h] \in Buckets
  BY CacheAssumption
<1>2. ASSUME NEW b \in Buckets, h \in Elems(table[b])
      PROVE  b = Index[h]
  BY <1>2 DEF Elems, Chains, ChainsWellFormed
<1>. QED  BY <1>1, <1>2 DEF Cached, Chain

LEMMA EmptyChains ==
    /\ Empty \in [Buckets -> Seq(Hashes)]
    /\ \A b \in Buckets : DOMAIN Empty[b] = {} /\ Elems(Empty[b]) = {}
<1>1. Empty \in [Buckets -> Seq(Hashes)]
  BY EmptySeq DEF Empty
<1>2. ASSUME NEW b \in Buckets
      PROVE  DOMAIN Empty[b] = {} /\ Elems(Empty[b]) = {}
  <2>1. Empty[b] = <<>> /\ Len(<<>>) = 0 /\ <<>> \in Seq(Hashes)
    BY EmptySeq DEF Empty
  <2>2. DOMAIN Empty[b] = 1 .. 0
    BY <2>1, LenProperties
  <2>. QED  BY <2>2 DEF Elems
<1>. QED  BY <1>1, <1>2

\* NoFalseNegative, said of the set.
LEMMA FilterCoversCached ==
    NoFalseNegative <=> \A h \in Cached : Bloom[h] \subseteq bloom
BY DEF NoFalseNegative, BloomCheck, Cached, Elems

LEMMA Insertion ==
    ASSUME Chains, NEW h \in Hashes, h \notin Elems(Chain(h)),
           table' = [table EXCEPT ![Index[h]] = <<h>> \o @]
    PROVE  /\ Chains'
           /\ Cached' = Cached \cup {h}
           /\ h \notin Cached
<1>. DEFINE b == Index[h]
            s == table[b]
            t == table'[b]
<1>1. b \in Buckets /\ s \in Seq(Hashes) /\ t = <<h>> \o s
  BY CacheAssumption DEF Chains
<1>2. /\ t \in Seq(Hashes) /\ Len(t) = Len(s) + 1 /\ t[1] = h
      /\ \A i \in 1 .. Len(s) : t[i + 1] = s[i]
      /\ Elems(t) = Elems(s) \cup {h}
  BY <1>1, ConsProperties
<1>3. \A c \in Buckets : c # b => table'[c] = table[c]
  BY DEF Chains
<1>4. table' \in [Buckets -> Seq(Hashes)]
  BY <1>1, <1>2 DEF Chains
<1>5. /\ Len(s) \in Nat /\ DOMAIN s = 1 .. Len(s)
      /\ DOMAIN t = 1 .. Len(s) + 1
  BY <1>1, <1>2, LenProperties
<1>. HIDE DEF b, s, t
<1>6. ASSUME NEW i \in DOMAIN t
      PROVE  i = 1 \/ (i - 1 \in DOMAIN s /\ t[i] = s[i - 1])
  <2>1. CASE i # 1
    <3>1. i - 1 \in 1 .. Len(s) /\ (i - 1) + 1 = i
      BY <2>1, <1>5
    <3>. QED  BY <3>1, <1>2, <1>5
  <2>. QED  BY <2>1
<1>7. \A i \in DOMAIN s : s[i] # h /\ Index[s[i]] = b
  <2>1. \A i \in DOMAIN s : Index[s[i]] = b
    BY <1>1 DEF s, Chains, ChainsWellFormed
  <2>. QED  BY <2>1 DEF Elems, Chain, s, b
<1>8. \A i, j \in DOMAIN s : s[i] = s[j] => i = j
  BY <1>1 DEF s, Chains, ChainsWellFormed
<1>9. ASSUME NEW i \in DOMAIN t, NEW j \in DOMAIN t
      PROVE  Index[t[i]] = b /\ (t[i] = t[j] => i = j)
  <2>0. i \in Nat /\ j \in Nat
    BY <1>5
  <2>1. CASE i = 1
    BY <2>1, <1>2, <1>6, <1>7 DEF b
  <2>2. CASE i # 1 /\ j = 1
    BY <2>2, <1>2, <1>6, <1>7
  <2>3. CASE i # 1 /\ j # 1
    <3>1. i - 1 \in DOMAIN s /\ t[i] = s[i - 1] /\ j - 1 \in DOMAIN s /\ t[j] = s[j - 1]
      BY <2>3, <1>6
    <3>2. t[i] = t[j] => i - 1 = j - 1
      BY <3>1, <1>8
    <3>. QED  BY <3>1, <3>2, <2>0, <1>7
  <2>. QED  BY <2>1, <2>2, <2>3
<1>10. ChainsWellFormed'
  <2>. SUFFICES ASSUME NEW c \in Buckets, NEW i \in DOMAIN table'[c],
                       NEW j \in DOMAIN table'[c]
                PROVE  /\ Index[table'[c][i]] = c
                       /\ table'[c][i] = table'[c][j] => i = j
    BY DEF ChainsWellFormed
  <2>1. CASE c = b
    BY <2>1, <1>9 DEF t
  <2>2. CASE c # b
    BY <2>2, <1>3 DEF Chains, ChainsWellFormed
  <2>. QED  BY <2>1, <2>2
<1>11. Cached' = Cached \cup {h}
  <2>1. Cached' = UNION {Elems(table'[c]) : c \in Buckets}
    BY DEF Cached, Elems
  <2>2. Elems(table'[b]) = Elems(table[b]) \cup {h}
    BY <1>2 DEF s, t
  <2>3. ASSUME NEW c \in Buckets, c # b
        PROVE  Elems(table'[c]) = Elems(table[c])
    BY <1>3, <2>3
  <2>4. ASSUME NEW x \in Cached'
        PROVE  x \in Cached \cup {h}
    <3>1. PICK c \in Buckets : x \in Elems(table'[c])
      BY <2>1
    <3>2. CASE c = b
      BY <3>1, <3>2, <2>2 DEF Cached
    <3>3. CASE c # b
      BY <3>1, <3>3, <2>3 DEF Cached
    <3>. QED  BY <3>2, <3>3
  <2>5. ASSUME NEW x \in Cached
        PROVE  x \in Cached'
    <3>1. PICK c \in Buckets : x \in Elems(table[c])
      BY DEF Cached
    <3>2. CASE c = b
      BY <3>1, <3>2, <2>1, <2>2
    <3>3. CASE c # b
      BY <3>1, <3>3, <2>1, <2>3
    <3>. QED  BY <3>2, <3>3
  <2>6. h \in Cached'
    BY <1>1, <2>1, <2>2
  <2>. QED  BY <2>4, <2>5, <2>6
<1>12. h \notin Cached
  BY CachedInOwnChain
<1>13. Chains'
  BY <1>4, <1>10 DEF Chains
<1>. QED  BY <1>11, <1>12, <1>13

LEMMA Removal ==
    ASSUME Chains, NEW h \in Hashes, NEW i \in DOMAIN Chain(h), Chain(h)[i] = h,
           table' = [table EXCEPT ![Index[h]] = Unlink(@, i)]
    PROVE  /\ Chains'
           /\ Cached' = Cached \ {h}
           /\ h \in Cached
<1>. DEFINE b == Index[h]
            s == table[b]
            t == table'[b]
<1>1. b \in Buckets /\ s \in Seq(Hashes) /\ t = Unlink(s, i) /\ i \in DOMAIN s
      /\ s[i] = h
  BY CacheAssumption DEF Chains, Chain
<1>2. /\ \A j, k \in DOMAIN s : s[j] = s[k] => j = k
      /\ \A j \in DOMAIN s : Index[s[j]] = b
  BY <1>1 DEF Chains, ChainsWellFormed
<1>. HIDE DEF b, s, t
<1>3. /\ Elems(t) = Elems(s) \ {h}
      /\ \A j, k \in DOMAIN t : t[j] = t[k] => j = k
  BY <1>1, <1>2, UnlinkElems
<1>4. t \in Seq(Hashes)
  BY <1>1, UnlinkProperties
<1>5. \A c \in Buckets : c # b => table'[c] = table[c]
  BY DEF Chains, b
<1>6. table' \in [Buckets -> Seq(Hashes)]
  BY <1>1, <1>4 DEF Chains, b, s, t
<1>7. \A j \in DOMAIN t : Index[t[j]] = b
  <2>. SUFFICES ASSUME NEW j \in DOMAIN t
                PROVE  Index[t[j]] = b
    OBVIOUS
  <2>1. t[j] \in Elems(s)
    BY <1>3 DEF Elems
  <2>. QED  BY <2>1, <1>2 DEF Elems
<1>8. ChainsWellFormed'
  <2>. SUFFICES ASSUME NEW c \in Buckets, NEW j \in DOMAIN table'[c],
                       NEW k \in DOMAIN table'[c]
                PROVE  /\ Index[table'[c][j]] = c
                       /\ table'[c][j] = table'[c][k] => j = k
    BY DEF ChainsWellFormed
  <2>1. CASE c = b
    BY <2>1, <1>3, <1>7 DEF t
  <2>2. CASE c # b
    BY <2>2, <1>5 DEF Chains, ChainsWellFormed
  <2>. QED  BY <2>1, <2>2
<1>9. Cached' = UNION {Elems(table'[c]) : c \in Buckets}
  BY DEF Cached, Elems
<1>10. ASSUME NEW c \in Buckets, c # b
       PROVE  Elems(table'[c]) = Elems(table[c]) /\ h \notin Elems(table[c])
  BY <1>5, <1>10 DEF Elems, Chains, ChainsWellFormed, b
<1>11. ASSUME NEW x \in Cached'
       PROVE  x \in Cached \ {h}
  <2>1. PICK c \in Buckets : x \in Elems(table'[c])
    BY <1>9
  <2>2. CASE c = b
    BY <2>1, <2>2, <1>3 DEF Cached, s, t
  <2>3. CASE c # b
    BY <2>1, <2>3, <1>10 DEF Cached
  <2>. QED  BY <2>2, <2>3
<1>12. ASSUME NEW x \in Cached \ {h}
       PROVE  x \in Cached'
  <2>1. PICK c \in Buckets : x \in Elems(table[c])
    BY DEF Cached
  <2>2. CASE c = b
    BY <2>1, <2>2, <1>3, <1>9 DEF s, t
  <2>3. CASE c # b
    BY <2>1, <2>3, <1>9, <1>10
  <2>. QED  BY <2>2, <2>3
<1>13. h \in Cached
  BY <1>1 DEF Cached, Elems, s
<1>14. Chains'
  BY <1>6, <1>8 DEF Chains
<1>. QED  BY <1>11, <1>12, <1>13, <1>14

-----------------------------------------------------------------------------
(* The inductive invariant: the properties, and that the table is empty    *)
(* while the cache is down, so that a later cache_init() starts from none. *)

CountInv ==
    /\ IsFiniteSet(Cached)
    /\ initialized => entry_count = Cardinality(Cached)
    /\ ~initialized => table = Empty

CacheInv == TypeOK /\ ChainsWellFormed /\ NoFalseNegative /\ CountInv

Still == UNCHANGED <<initialized, max_entries, table, entry_count, bloom, disk>>

LEMMA InitCacheInv == Init => CacheInv
<1>. SUFFICES ASSUME Init
              PROVE  CacheInv
  OBVIOUS
<1>1. table = Empty /\ initialized = FALSE
  BY DEF Init
<1>2. ChainsWellFormed /\ NoFalseNegative
  BY <1>1, EmptyChains DEF ChainsWellFormed, NoFalseNegative
<1>3. Cached = {}
  BY <1>1, EmptyChains DEF Cached
<1>4. CountInv
  BY <1>1, <1>3, FS_EmptySet DEF CountInv
<1>5. TypeOK
  BY EmptyChains DEF Init, TypeOK
<1>. QED  BY <1>2, <1>4, <1>5 DEF CacheInv

LEMMA StillKeeps ==
    ASSUME CacheInv, Still, out'.result \in Nat \cup {-1}
    PROVE  CacheInv'
<1>1. TypeOK'
  BY DEF CacheInv, TypeOK, Still
<1>2. ChainsWellFormed' /\ NoFalseNegative' /\ Cached' = Cached
  BY DEF CacheInv, Still, ChainsWellFormed, NoFalseNegative, BloomCheck, Cached, Elems
<1>3. CountInv'
  BY <1>2 DEF CacheInv, CountInv, Still, Empty
<1>. QED  BY <1>1, <1>2, <1>3 DEF CacheInv

LEMMA EmptiedKeeps ==
    ASSUME CacheInv, table' = Empty, bloom' = {}, disk' = disk,
           initialized' \in BOOLEAN, max_entries' \in Limits \cup {0},
           entry_count' \in Nat, initialized' => entry_count' = 0,
           out'.result \in Nat \cup {-1}
    PROVE  CacheInv' /\ Cached' = {}
<1>1. ChainsWellFormed' /\ NoFalseNegative'
  BY EmptyChains DEF ChainsWellFormed, NoFalseNegative
<1>2. Cached' = UNION {Elems(Empty[b]) : b \in Buckets}
  BY DEF Cached, Elems
<1>3. Cached' = {}
  BY <1>2, EmptyChains
<1>4. CountInv'
  BY <1>3, FS_EmptySet DEF CountInv, Empty
<1>5. TypeOK'
  BY EmptyChains DEF CacheInv, TypeOK
<1>. QED  BY <1>1, <1>3, <1>4, <1>5 DEF CacheInv

LEMMA InsertionKeeps ==
    ASSUME CacheInv, NEW h \in Hashes, NEW persist \in BOOLEAN, initialized,
           h \notin Elems(Chain(h)),
           table' = [table EXCEPT ![Index[h]] = <<h>> \o @],
           entry_count' = entry_count + 1,
           bloom' = bloom \cup Bloom[h],
           disk' = IF persist THEN disk \cup {h} ELSE disk,
           UNCHANGED <<initialized, max_entries>>,
           out'.result \in Nat \cup {-1}
    PROVE  CacheInv'
<1>1. Chains' /\ Cached' = Cached \cup {h} /\ h \notin Cached
  BY Insertion DEF Chains, CacheInv, TypeOK
<1>2. \A x \in Cached : Bloom[x] \subseteq bloom
  BY FilterCoversCached DEF CacheInv
<1>3. NoFalseNegative'
  <2>1. \A x \in Cached' : Bloom[x] \subseteq bloom'
    BY <1>1, <1>2
  <2>. QED  BY <2>1 DEF NoFalseNegative, BloomCheck, Cached, Elems
<1>4. CountInv'
  <2>1. /\ IsFiniteSet(Cached \cup {h})
        /\ Cardinality(Cached \cup {h}) = Cardinality(Cached) + 1
    BY <1>1, FS_AddElement DEF CacheInv, CountInv
  <2>. QED  BY <1>1, <2>1 DEF CacheInv, CountInv
<1>5. TypeOK'
  BY <1>1, CacheAssumption DEF CacheInv, TypeOK, Chains
<1>. QED  BY <1>1, <1>3, <1>4, <1>5 DEF CacheInv, Chains

LEMMA RemovalKeeps ==
    ASSUME CacheInv, NEW h \in Hashes, NEW i \in DOMAIN Chain(h), initialized,
           Chain(h)[i] = h,
           table' = [table EXCEPT ![Index[h]] = Unlink(@, i)],
           entry_count' = entry_count - 1,
           UNCHANGED <<initialized, max_entries, bloom, disk>>,
           out'.result \in Nat \cup {-1}
    PROVE  CacheInv'
<1>1. Chains' /\ Cached' = Cached \ {h} /\ h \in Cached
  BY Removal DEF Chains, CacheInv, TypeOK
<1>2. \A x \in Cached : Bloom[x] \subseteq bloom
  BY FilterCoversCached DEF CacheInv
<1>3. NoFalseNegative'
  <2>1. \A x \in Cached' : Bloom[x] \subseteq bloom'
    BY <1>1, <1>2
  <2>. QED  BY <2>1 DEF NoFalseNegative, BloomCheck, Cached, Elems
<1>4. /\ IsFiniteSet(Cached \ {h})
      /\ Cardinality(Cached \ {h}) = Cardinality(Cached) - 1
      /\ Cardinality(Cached \ {h}) \in Nat
  BY <1>1, FS_RemoveElement, FS_CardinalityType DEF CacheInv, CountInv
<1>5. CountInv'
  BY <1>1, <1>4 DEF CacheInv, CountInv
<1>6. entry_count' \in Nat
  BY <1>4 DEF CacheInv, CountInv
<1>7. TypeOK'
  BY <1>1, <1>6 DEF CacheInv, TypeOK, Chains
<1>. QED  BY <1>1, <1>3, <1>5, <1>7 DEF CacheInv, Chains

LEMMA CacheInvStep ==
    ASSUME CacheInv, [Next]_vars
    PROVE  CacheInv'
<1>1. ASSUME NEW m \in Limits, cache_init(m)
      PROVE  CacheInv'
  <2>1. CASE initialized
    <3>1. Still /\ out'.result = 0
      BY <1>1, <2>1 DEF cache_init, Returns, Still
    <3>. QED  BY <3>1, StillKeeps
  <2>2. CASE ~initialized
    <3>1. bloom' = {} \/ bloom' = bloom
      BY <1>1, <2>2 DEF cache_init
    <3>0. /\ table = Empty /\ initialized \in BOOLEAN
          /\ bloom \in SUBSET Bits /\ disk \in SUBSET Hashes
      BY <2>2 DEF CacheInv, CountInv, TypeOK
    <3>2. /\ table' = Empty /\ entry_count' = 0 /\ disk' = disk
          /\ max_entries' \in Limits /\ initialized' \in BOOLEAN
          /\ out'.result \in {0, -1}
      <4>1. entry_count' = 0 /\ disk' = disk /\ max_entries' = m
        BY <1>1, <2>2 DEF cache_init
      <4>2. table' \in {Empty, table} /\ initialized' \in {TRUE, initialized}
        BY <1>1, <2>2 DEF cache_init
      <4>3. out'.result \in {0, -1}
        BY <1>1 DEF cache_init, Returns
      <4>. QED  BY <3>0, <4>1, <4>2, <4>3
    <3>3. ChainsWellFormed' /\ NoFalseNegative'
      BY <3>2, EmptyChains DEF ChainsWellFormed, NoFalseNegative
    <3>4. Cached' = UNION {Elems(Empty[b]) : b \in Buckets}
      BY <3>2 DEF Cached, Elems
    <3>5. CountInv'
      <4>1. Cached' = {}
        BY <3>4, EmptyChains
      <4>. QED  BY <3>2, <4>1, FS_EmptySet DEF CountInv, Empty
    <3>6. TypeOK'
      BY <3>0, <3>1, <3>2, EmptyChains DEF TypeOK
    <3>. QED  BY <3>3, <3>5, <3>6 DEF CacheInv
  <2>. QED  BY <2>1, <2>2
<1>2. ASSUME NEW h \in Hashes, cache_check(h)
      PROVE  CacheInv'
  <2>1. Still /\ out'.result \in {0, 1}
    BY <1>2 DEF cache_check, Refused, Returns, Still
  <2>. QED  BY <2>1, StillKeeps
<1>3. ASSUME NEW h \in Hashes, cache_remove(h)
      PROVE  CacheInv'
  <2>1. CASE Still /\ out'.result = -1
    BY <2>1, StillKeeps
  <2>2. CASE initialized /\ \E i \in DOMAIN Chain(h) :
                /\ Chain(h)[i] = h
                /\ table' = [table EXCEPT ![Index[h]] = Unlink(@, i)]
                /\ entry_count' = entry_count - 1
                /\ UNCHANGED <<initialized, max_entries, bloom, disk>>
                /\ out'.result = 0
    <3>1. out'.result \in Nat \cup {-1}
      BY <2>2
    <3>. QED  BY <2>2, <3>1, RemovalKeeps
  <2>. QED  BY <1>3, <2>1, <2>2 DEF cache_remove, Refused, Returns, Still
<1>4. ASSUME NEW h \in Hashes, NEW persist \in BOOLEAN, cache_add(h, persist)
      PROVE  CacheInv'
  <2>1. CASE Still /\ out'.result \in {0, -1}
    BY <2>1, StillKeeps
  <2>2. CASE /\ initialized /\ h \notin Elems(Chain(h))
             /\ table' = [table EXCEPT ![Index[h]] = <<h>> \o @]
             /\ entry_count' = entry_count + 1
             /\ bloom' = bloom \cup Bloom[h]
             /\ disk' = IF persist THEN disk \cup {h} ELSE disk
             /\ UNCHANGED <<initialized, max_entries>>
             /\ out'.result = 0
    <3>1. out'.result \in Nat \cup {-1}
      BY <2>2
    <3>. QED  BY <2>2, <3>1, InsertionKeeps
  <2>. QED  BY <1>4, <2>1, <2>2 DEF cache_add, Refused, Returns, Still
<1>5. CASE cache_shutdown
  <2>1. CASE ~initialized
    BY <1>5, <2>1, StillKeeps DEF cache_shutdown, Refused, Returns, Still
  <2>2. CASE initialized
    <3>1. /\ table' = Empty /\ bloom' = {} /\ initialized' = FALSE
          /\ UNCHANGED <<max_entries, entry_count, disk>> /\ out'.result = 0
      BY <1>5, <2>2 DEF cache_shutdown, Refused, Returns
    <3>2. max_entries' \in Limits \cup {0} /\ entry_count' \in Nat
      BY <3>1 DEF CacheInv, TypeOK
    <3>3. out'.result \in Nat \cup {-1}
      BY <3>1
    <3>4. initialized' \in BOOLEAN /\ (initialized' => entry_count' = 0)
      BY <3>1
    <3>. QED  BY <3>1, <3>2, <3>3, <3>4, EmptiedKeeps
  <2>. QED  BY <2>1, <2>2
<1>6. CASE cache_clear
  <2>1. CASE ~initialized
    BY <1>6, <2>1, StillKeeps DEF cache_clear, Refused, Returns, Still
  <2>2. CASE initialized
    <3>1. /\ table' = Empty /\ bloom' = {} /\ entry_count' = 0
          /\ UNCHANGED <<initialized, max_entries, disk>> /\ out'.result = 0
      BY <1>6, <2>2 DEF cache_clear, Refused, Returns
    <3>2. max_entries' \in Limits \cup {0} /\ initialized' \in BOOLEAN
      BY <3>1 DEF CacheInv, TypeOK
    <3>3. out'.result \in Nat \cup {-1} /\ entry_count' \in Nat
      BY <3>1
    <3>. QED  BY <3>1, <3>2, <3>3, EmptiedKeeps
  <2>. QED  BY <2>1, <2>2
<1>7. CASE cache_get_stats
  BY <1>7, StillKeeps
     DEF cache_get_stats, Refused, Returns, Still, CacheInv, TypeOK
<1>8. CASE UNCHANGED vars
  BY <1>8, StillKeeps DEF vars, Still, CacheInv, TypeOK
<1>. QED  BY <1>1, <1>2, <1>3, <1>4, <1>5, <1>6, <1>7, <1>8 DEF Next

\* Every variable keeps its type: the counter of entries never goes below zero
\* and the chains hold digests.
THEOREM CacheTypeCorrect == Spec => []TypeOK
BY InitCacheInv, CacheInvStep, PTL DEF Spec, CacheInv

\* Each digest is in the chain of its bucket at most once, whatever the calls,
\* so that cache_remove(), which stops at the first match, removes it.
THEOREM ChainsStayWellFormed == Spec => []ChainsWellFormed
BY InitCacheInv, CacheInvStep, PTL DEF Spec, CacheInv

\* No cached digest is hidden by the filter, for every assignment of bits.
THEOREM FilterNeverHides == Spec => []NoFalseNegative
BY InitCacheInv, CacheInvStep, PTL DEF Spec, CacheInv

\* entry_count, maintained by four calls, is the number of cached digests.
THEOREM CountIsExact == Spec => []CountExact
<1>1. CountInv => CountExact
  BY DEF CountInv, CountExact
<1>. QED  BY <1>1, InitCacheInv, CacheInvStep, PTL DEF Spec, CacheInv

-----------------------------------------------------------------------------
(* The refinement: each call is the call of WhitelistSet with its result.  *)

LEMMA SameTableSameSet ==
    ASSUME table' = table
    PROVE  Cached' = Cached
BY DEF Cached, Elems

LEMMA EmptyTableEmptySet ==
    /\ table = Empty => Cached = {}
    /\ table' = Empty => Cached' = {}
<1>1. UNION {Elems(Empty[b]) : b \in Buckets} = {}
  BY EmptyChains
<1>2. Cached' = UNION {Elems(table'[b]) : b \in Buckets}
  BY DEF Cached, Elems
<1>. QED  BY <1>1, <1>2 DEF Cached

LEMMA SameCardinality ==
    Abstract!Cardinality(Cached) = Cardinality(Cached)
BY DEF Cardinality, Abstract!Cardinality

LEMMA SetStep ==
    ASSUME CacheInv, [Next]_vars
    PROVE  [Abstract!Next]_(Abstract!vars)
<1>. USE DEF Returns, Abstract!Returns
<1>1. Chains /\ (initialized => (Full <=> Abstract!Full))
  BY SameCardinality DEF CacheInv, Chains, TypeOK, CountInv, Full, Abstract!Full
<1>2. ~initialized => Cached = {}
  BY EmptyTableEmptySet DEF CacheInv, CountInv
<1>3. ASSUME NEW m \in Limits, cache_init(m)
      PROVE  Abstract!Start(m)
  <2>1. Cached' = Cached
    BY <1>3, <1>2, SameTableSameSet, EmptyTableEmptySet DEF cache_init
  <2>. QED  BY <1>3, <2>1 DEF cache_init, Abstract!Start
<1>4. ASSUME NEW h \in Hashes, cache_check(h)
      PROVE  Abstract!Check(h)
  <2>1. Cached' = Cached /\ UNCHANGED <<initialized, max_entries>>
    BY <1>4, SameTableSameSet DEF cache_check, Refused
  <2>2. initialized => (BloomCheck(h) /\ h \in Elems(Chain(h)) <=> h \in Cached)
    BY <1>1, CachedInOwnChain, FilterCoversCached DEF CacheInv, BloomCheck
  <2>3. CASE initialized
    BY <1>4, <2>1, <2>2, <2>3 DEF cache_check, Refused, Abstract!Check
  <2>4. CASE ~initialized
    BY <1>4, <1>2, <2>1, <2>4 DEF cache_check, Refused, Abstract!Check
  <2>. QED  BY <2>3, <2>4
<1>5. ASSUME NEW h \in Hashes, cache_remove(h)
      PROVE  Abstract!Remove(h)
  <2>1. UNCHANGED <<initialized, max_entries>>
    BY <1>5 DEF cache_remove, Refused
  <2>2. CASE ~initialized
    <3>1. Cached' = Cached /\ Cached = {} /\ out' = [call |-> <<"remove", h>>, result |-> -1]
      BY <1>2, <1>5, <2>2, SameTableSameSet DEF cache_remove, Refused
    <3>. QED  BY <2>1, <3>1 DEF Abstract!Remove
  <2>3. CASE initialized /\ h \notin Elems(Chain(h))
    <3>1. h \notin Cached
      BY <1>1, <2>3, CachedInOwnChain
    <3>2. table' = table /\ out' = [call |-> <<"remove", h>>, result |-> -1]
      BY <1>5, <2>3 DEF cache_remove, Refused, Elems
    <3>. QED  BY <2>1, <3>1, <3>2, SameTableSameSet DEF Abstract!Remove
  <2>4. CASE initialized /\ h \in Elems(Chain(h))
    <3>1. /\ out' = [call |-> <<"remove", h>>, result |-> 0]
          /\ \E i \in DOMAIN Chain(h) :
                /\ Chain(h)[i] = h
                /\ table' = [table EXCEPT ![Index[h]] = Unlink(@, i)]
      BY <1>5, <2>4 DEF cache_remove, Refused
    <3>2. Cached' = Cached \ {h} /\ h \in Cached
      BY <1>1, <3>1, Removal
    <3>. QED  BY <2>1, <3>1, <3>2 DEF Abstract!Remove
  <2>. QED  BY <2>2, <2>3, <2>4
<1>6. ASSUME NEW h \in Hashes, NEW persist \in BOOLEAN, cache_add(h, persist)
      PROVE  Abstract!Add(h)
  <2>1. UNCHANGED <<initialized, max_entries>>
    BY <1>6 DEF cache_add, Refused
  <2>2. CASE /\ table' = table /\ out' = [call |-> <<"add", h>>, result |-> -1]
             /\ ~initialized \/ Full \/ h \notin Elems(Chain(h))
    <3>1. ~initialized \/ Abstract!Full \/ h \notin Cached
      BY <1>1, <2>2, CachedInOwnChain
    <3>. QED  BY <2>1, <2>2, <3>1, SameTableSameSet DEF Abstract!Add
  <2>3. CASE /\ table' = table /\ out' = [call |-> <<"add", h>>, result |-> 0]
             /\ initialized /\ ~Full /\ h \in Elems(Chain(h))
    <3>1. ~Abstract!Full /\ Cached' = Cached \cup {h}
      BY <1>1, <2>3, CachedInOwnChain, SameTableSameSet
    <3>. QED  BY <2>1, <2>3, <3>1 DEF Abstract!Add
  <2>4. CASE /\ table' = [table EXCEPT ![Index[h]] = <<h>> \o @]
             /\ out' = [call |-> <<"add", h>>, result |-> 0]
             /\ initialized /\ ~Full /\ h \notin Elems(Chain(h))
    <3>1. ~Abstract!Full /\ Cached' = Cached \cup {h}
      BY <1>1, <2>4, Insertion
    <3>. QED  BY <2>1, <2>4, <3>1 DEF Abstract!Add
  <2>. QED  BY <1>6, <2>2, <2>3, <2>4 DEF cache_add, Refused
<1>7. CASE cache_shutdown
  <2>1. Cached' = {} /\ initialized' = FALSE /\ UNCHANGED max_entries
    BY <1>2, <1>7, SameTableSameSet, EmptyTableEmptySet DEF cache_shutdown, Refused, CacheInv, TypeOK
  <2>. QED  BY <1>7, <2>1 DEF cache_shutdown, Refused, Abstract!Stop, Abstract!Next
<1>8. CASE cache_clear
  <2>1. Cached' = {} /\ UNCHANGED <<initialized, max_entries>>
    BY <1>2, <1>8, SameTableSameSet, EmptyTableEmptySet DEF cache_clear, Refused
  <2>. QED  BY <1>8, <2>1 DEF cache_clear, Refused, Abstract!Clear, Abstract!Next
<1>9. CASE cache_get_stats
  <2>1. Cached' = Cached /\ UNCHANGED <<initialized, max_entries>>
    BY <1>9, SameTableSameSet DEF cache_get_stats, Refused
  <2>2. out' = [call |-> <<"stats">>, result |-> Cardinality(Cached)]
    BY <1>2, <1>9, FS_EmptySet DEF cache_get_stats, Refused, CacheInv, CountInv
  <2>. QED  BY <2>1, <2>2, SameCardinality DEF Abstract!TotalEntries, Abstract!Next
<1>10. CASE UNCHANGED vars
  BY <1>10, SameTableSameSet DEF vars, Abstract!vars
<1>. QED
  BY <1>3, <1>4, <1>5, <1>6, <1>7, <1>8, <1>9, <1>10 DEF Next, Abstract!Next

\* The cache implements a set with a limit: no caller can tell the buckets, the
\* chains, the counter and the filter from WhitelistSet, for every size of them
\* and every hash function.
THEOREM CacheImplementsSet == Spec => ImplementsSet
<1>1. Init => Abstract!Init
  BY EmptyTableEmptySet DEF Init, Abstract!Init
<1>. QED  BY <1>1, InitCacheInv, CacheInvStep, SetStep, PTL
             DEF Spec, ImplementsSet, Abstract!Spec
=============================================================================
