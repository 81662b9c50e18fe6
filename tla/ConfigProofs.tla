---------------------------- MODULE ConfigProofs ----------------------------
(***************************************************************************)
(* What the passes over the command line and the file compute, for every   *)
(* sequence of settings: of each key the last setting, or what the         *)
(* configuration held before; and what a prefix of a path excludes.        *)
(***************************************************************************)
EXTENDS Config, NumberSets

-----------------------------------------------------------------------------
(* Folds over the indices of a sequence.                                   *)

\* Two functions on the subsets of the indices that agree on the empty set, and
\* on a set if they agree on what is left of it without its last index, agree.
LEMMA SameFold ==
    ASSUME NEW n \in Nat, NEW f, NEW g, f[{}] = g[{}],
           \A s \in SUBSET (1 .. n) :
               s # {} /\ f[s \ {Max(s)}] = g[s \ {Max(s)}] => f[s] = g[s]
    PROVE  f[1 .. n] = g[1 .. n]
<1>. DEFINE D == 1 .. n
            T == {s \in SUBSET D : f[s] # g[s]}
<1>1. IsFiniteSet(D)
  BY FS_Interval
<1>2. FiniteSubsetsOf(D) = SUBSET D
  BY <1>1, FS_FiniteSubsetsOfFinite
<1>3. IsWellFoundedOn(StrictSubsetOrdering(D), SUBSET D)
  BY <1>2, FS_StrictSubsetOrderingWellFounded
<1>. SUFFICES ASSUME T # {} PROVE FALSE
  OBVIOUS
<1>4. T \subseteq SUBSET D
  OBVIOUS
<1>. HIDE DEF T, D
<1>5. PICK s \in T : \A u \in T : ~(<<u, s>> \in StrictSubsetOrdering(D))
  BY <1>3, <1>4, WFMin
<1>. USE DEF T, D
<1>6. s \in SUBSET D /\ s # {}
  OBVIOUS
<1>7. Max(s) \in s
  BY <1>6, MaxOfIndices
<1>. DEFINE u == s \ {Max(s)}
<1>8. <<u, s>> \in StrictSubsetOrdering(D)
  BY <1>6, <1>7 DEF StrictSubsetOrdering
<1>9. u \in SUBSET D /\ f[u] = g[u]
  BY <1>5, <1>6, <1>8
<1>. QED  BY <1>6, <1>9

-----------------------------------------------------------------------------
(* The passes over the command line and the file.                          *)

Value(k, v) == IF k = "gui_timeout" THEN Millis(v) ELSE v

Matches(seq, s, k) == {i \in s : seq[i].key = k}

\* The configuration when the settings at the indices in s have been made.
Made(keys, conf, seq, s) ==
    [k \in DOMAIN conf |->
        IF k \in keys /\ Matches(seq, s, k) # {}
        THEN Value(k, seq[Max(Matches(seq, s, k))].val)
        ELSE conf[k]]

LEMMA MadeNothing ==
    ASSUME NEW keys, NEW conf, NEW seq, conf = [k \in DOMAIN conf |-> conf[k]]
    PROVE  Made(keys, conf, seq, {}) = conf
BY DEF Made, Matches

LEMMA MadeNext ==
    ASSUME NEW keys, NEW conf, NEW seq, NEW n \in Nat,
           NEW s \in SUBSET (1 .. n), s # {}
    PROVE  Made(keys, conf, seq, s) =
             IF seq[Max(s)].key \in keys
             THEN Assign(Made(keys, conf, seq, s \ {Max(s)}), seq[Max(s)])
             ELSE Made(keys, conf, seq, s \ {Max(s)})
<1>. DEFINE m == Max(s)
            u == s \ {m}
            old == Made(keys, conf, seq, u)
<1>1. m \in s /\ \A y \in s : y <= m
  BY MaxOfIndices
<1>2. DOMAIN old = DOMAIN conf
  BY DEF Made
<1>. DEFINE new == IF seq[m].key \in keys THEN Assign(old, seq[m]) ELSE old
<1>3. new = [k \in DOMAIN conf |->
                IF k = seq[m].key /\ k \in keys THEN Value(k, seq[m].val) ELSE old[k]]
  <2>1. CASE seq[m].key \in keys
    BY <1>2, <2>1 DEF Assign, Value, Made
  <2>2. CASE seq[m].key \notin keys
    BY <1>2, <2>2 DEF Made
  <2>. QED  BY <2>1, <2>2
<1>4. ASSUME NEW k \in DOMAIN conf, k \in keys, k = seq[m].key
      PROVE  Matches(seq, s, k) # {} /\ Max(Matches(seq, s, k)) = m
  <2>1. m \in Matches(seq, s, k) /\ Matches(seq, s, k) \in SUBSET (1 .. n)
    BY <1>1, <1>4 DEF Matches
  <2>2. /\ Max(Matches(seq, s, k)) \in s
        /\ m <= Max(Matches(seq, s, k))
    BY <2>1, MaxOfIndices DEF Matches
  <2>3. Max(Matches(seq, s, k)) <= m
    BY <1>1, <2>2
  <2>0. s \subseteq Int
    OBVIOUS
  <2>4. m \in Int /\ Max(Matches(seq, s, k)) \in Int
    BY <1>1, <2>0, <2>2
  <2>. QED  BY <2>1, <2>2, <2>3, <2>4
<1>5. ASSUME NEW k \in DOMAIN conf, k # seq[m].key
      PROVE  Matches(seq, s, k) = Matches(seq, u, k)
  BY <1>5 DEF Matches
<1>6. ASSUME NEW k \in DOMAIN conf
      PROVE  Made(keys, conf, seq, s)[k] =
               IF k = seq[m].key /\ k \in keys THEN Value(k, seq[m].val) ELSE old[k]
  BY <1>4, <1>5 DEF Made
<1>7. Made(keys, conf, seq, s) = new
  BY <1>3, <1>6 DEF Made
<1>. QED  BY <1>7

\* A pass over the command line leaves of each key what was last given.
LEMMA ParseArgs ==
    ASSUME NEW conf, NEW seq, NEW n \in Nat, DOMAIN seq = 1 .. n,
           NEW keys, \A i \in 1 .. n : seq[i].key \in keys,
           conf = [k \in DOMAIN conf |-> conf[k]]
    PROVE  parse_args(conf, seq) = Made(keys, conf, seq, 1 .. n)
<1>. DEFINE D == 1 .. n
            Iter(f) == f = [s \in SUBSET D |->
                               IF s = {} THEN conf
                               ELSE Assign(f[s \ {Max(s)}], seq[Max(s)])]
            made == [s \in SUBSET D |-> Made(keys, conf, seq, s)]
<1>1. parse_args(conf, seq) = (CHOOSE f : Iter(f))[D]
  BY DEF parse_args, FoldLeft, MapThenFoldSet
<1>2. ASSUME NEW s \in SUBSET D, s # {}
      PROVE  /\ Max(s) \in D /\ s \ {Max(s)} \in SUBSET D
             /\ made[s] = Assign(made[s \ {Max(s)}], seq[Max(s)])
  BY <1>2, MadeNext, MaxOfIndices
<1>3. made[{}] = conf
  BY MadeNothing
<1>4. Iter(made)
  BY <1>2, <1>3
<1>. DEFINE f == CHOOSE x : Iter(x)
<1>5. Iter(f)
  BY <1>4
<1>. HIDE DEF f, made
<1>6. f[{}] = made[{}]
  BY <1>5, <1>3
<1>7. \A s \in SUBSET D :
         s # {} /\ f[s \ {Max(s)}] = made[s \ {Max(s)}] => f[s] = made[s]
  BY <1>2, <1>5
<1>8. f[D] = made[D]
  BY <1>6, <1>7, SameFold
<1>. QED  BY <1>1, <1>8 DEF f, made

\* A pass over the file leaves of each key a file may have what it gave last.
LEMMA ParseFile ==
    ASSUME NEW conf, NEW seq, seq # Missing, NEW n \in Nat, DOMAIN seq = 1 .. n,
           conf = [k \in DOMAIN conf |-> conf[k]]
    PROVE  parse_config_file(conf, seq) = Made(FileKeys, conf, seq, 1 .. n)
<1>. DEFINE D == 1 .. n
            Line(c, s) == IF s.key \in FileKeys THEN Assign(c, s) ELSE c
            Iter(f) == f = [s \in SUBSET D |->
                               IF s = {} THEN conf
                               ELSE Line(f[s \ {Max(s)}], seq[Max(s)])]
            made == [s \in SUBSET D |-> Made(FileKeys, conf, seq, s)]
<1>1. parse_config_file(conf, seq) = (CHOOSE f : Iter(f))[D]
  BY DEF parse_config_file, FoldLeft, MapThenFoldSet
<1>2. ASSUME NEW s \in SUBSET D, s # {}
      PROVE  /\ Max(s) \in D /\ s \ {Max(s)} \in SUBSET D
             /\ made[s] = Line(made[s \ {Max(s)}], seq[Max(s)])
  BY <1>2, MadeNext, MaxOfIndices
<1>3. made[{}] = conf
  BY MadeNothing
<1>4. Iter(made)
  BY <1>2, <1>3
<1>. DEFINE f == CHOOSE x : Iter(x)
<1>5. Iter(f)
  BY <1>4
<1>. HIDE DEF f, made, Line
<1>6. f[{}] = made[{}]
  BY <1>5, <1>3
<1>7. \A s \in SUBSET D :
         s # {} /\ f[s \ {Max(s)}] = made[s \ {Max(s)}] => f[s] = made[s]
  BY <1>2, <1>5
<1>8. f[D] = made[D]
  BY <1>6, <1>7, SameFold
<1>. QED  BY <1>1, <1>8 DEF f, made

-----------------------------------------------------------------------------
(* The configuration of an instance.                                       *)

All(seq) == 1 .. Len(seq)

LEMMA LastIsGreatest ==
    ASSUME NEW seq, Len(seq) \in Nat, DOMAIN seq = 1 .. Len(seq), NEW k
    PROVE  /\ Given(seq, k) <=> Matches(seq, All(seq), k) # {}
           /\ Given(seq, k) => /\ Max(Matches(seq, All(seq), k)) \in DOMAIN seq
                               /\ seq[Max(Matches(seq, All(seq), k))].key = k
                               /\ LastGiven(seq, k) =
                                      seq[Max(Matches(seq, All(seq), k))].val
<1>. DEFINE S == Matches(seq, All(seq), k)
            Is(i) == seq[i].key = k /\ \A j \in i + 1 .. Len(seq) : seq[j].key # k
<1>1. Given(seq, k) <=> S # {}
  BY DEF Given, Matches, All
<1>. SUFFICES ASSUME S # {}
              PROVE  /\ Max(S) \in DOMAIN seq
                     /\ seq[Max(S)].key = k
                     /\ LastGiven(seq, k) = seq[Max(S)].val
  BY <1>1
<1>2. S \in SUBSET (1 .. Len(seq)) /\ Len(seq) \in Nat
  BY DEF Matches, All
<1>3. Max(S) \in S /\ \A i \in S : i <= Max(S)
  BY <1>2, MaxOfIndices
<1>4. Max(S) \in DOMAIN seq /\ Is(Max(S))
  <2>1. Max(S) \in DOMAIN seq /\ Max(S) \in Nat /\ seq[Max(S)].key = k
    BY <1>2, <1>3 DEF Matches, All
  <2>2. ASSUME NEW j \in Max(S) + 1 .. Len(seq), seq[j].key = k
        PROVE  FALSE
    <3>1. j \in 1 .. Len(seq) /\ ~(j <= Max(S))
      BY <1>2, <2>1
    <3>2. j \in S
      BY <2>2, <3>1 DEF Matches, All
    <3>. QED  BY <1>3, <3>1, <3>2
  <2>. QED  BY <2>1, <2>2
<1>5. ASSUME NEW i \in DOMAIN seq, Is(i)
      PROVE  i = Max(S)
  <2>1. i \in S
    BY <1>5 DEF Matches, All
  <2>2. ~(i < Max(S))
    BY <1>2, <1>3, <1>5 DEF Matches, All
  <2>. QED  BY <1>2, <1>3, <2>1, <2>2
<1>. HIDE DEF Is
<1>6. (CHOOSE i \in DOMAIN seq : Is(i)) = Max(S)
  BY <1>4, <1>5
<1>. QED  BY <1>4, <1>6 DEF LastGiven, Is

LEMMA MillisInt ==
    ASSUME NEW v \in Int
    PROVE  /\ Millis(v) \in -(IntMax + 1) .. IntMax
           /\ Fits("gui_timeout", v) => Millis(v) = v * 1000
<1>. DEFINE M == 2 * (IntMax + 1)
            x == v * 1000 + IntMax + 1
<1>1. M \in Nat /\ M > 0 /\ x \in Int
  BY ConfigAssumption
<1>2. x % M \in 0 .. M - 1
  BY <1>1
<1>3. Fits("gui_timeout", v) => x \in 0 .. M - 1
  BY ConfigAssumption DEF Fits
<1>4. x \in 0 .. M - 1 => x % M = x
  BY <1>1
<1>. QED  BY <1>1, <1>2, <1>3, <1>4, ConfigAssumption DEF Millis

LEMMA MadeOf ==
    ASSUME NEW keys, NEW conf, NEW seq, AreSettings(seq), NEW k \in DOMAIN conf
    PROVE  Made(keys, conf, seq, All(seq))[k] =
               IF k \in keys /\ Given(seq, k)
               THEN Value(k, LastGiven(seq, k)) ELSE conf[k]
BY LastIsGreatest DEF Made, AreSettings

LEMMA LastMeans ==
    ASSUME NEW seq, AreSettings(seq), NEW k, Given(seq, k)
    PROVE  /\ Fits(k, LastGiven(seq, k)) =>
                  Value(k, LastGiven(seq, k)) = Meaning(k, LastGiven(seq, k))
           /\ k = "gui_timeout" =>
                  Value(k, LastGiven(seq, k)) \in -(IntMax + 1) .. IntMax
           /\ k = "exclude_paths" =>
                  \A x \in Value(k, LastGiven(seq, k)) : IsPath(x)
<1>1. k = "gui_timeout" => LastGiven(seq, k) \in Int
  BY LastIsGreatest DEF AreSettings
<1>2. k = "exclude_paths" => \A x \in LastGiven(seq, k) : IsPath(x)
  BY LastIsGreatest DEF AreSettings
<1>3. CASE k = "gui_timeout"
  BY <1>1, <1>3, MillisInt DEF Value, Meaning
<1>4. CASE k # "gui_timeout"
  BY <1>2, <1>4 DEF Value, Meaning
<1>. QED  BY <1>3, <1>4

LEMMA DefaultsType ==
    /\ Defaults = [k \in DOMAIN Defaults |-> Defaults[k]]
    /\ DOMAIN Defaults = FileKeys \cup ArgKeys
    /\ Defaults.gui_timeout \in -(IntMax + 1) .. IntMax
    /\ \A x \in Defaults.exclude_paths : IsPath(x)
<1>1. Defaults = [k \in DOMAIN Defaults |-> Defaults[k]]
  BY DEF Defaults
<1>2. DOMAIN Defaults = FileKeys \cup ArgKeys
  BY DEF Defaults, FileKeys, ArgKeys
<1>3. Defaults.gui_timeout \in -(IntMax + 1) .. IntMax
  BY ConfigAssumption DEF Defaults
<1>4. \A x \in Defaults.exclude_paths : IsPath(x)
  <2>1. \A a, b : IsPath(<<a, b>>)
    <3>. SUFFICES ASSUME NEW a, NEW b PROVE <<a, b>> \in Seq({a, b})
                                         /\ Range(<<a, b>>) = {a, b}
      BY DEF IsPath
    <3>1. <<a, b>> \in Seq({a, b})
      OBVIOUS
    <3>2. DOMAIN <<a, b>> = {1, 2} /\ <<a, b>>[1] = a /\ <<a, b>>[2] = b
      OBVIOUS
    <3>3. Range(<<a, b>>) = {a, b}
      BY <3>2 DEF Range
    <3>. QED  BY <3>1, <3>3
  <2>2. Defaults.exclude_paths = {<<"/", "proc">>, <<"/", "sys">>, <<"/", "dev">>,
                                  <<"/", "run">>}
    BY DEF Defaults
  <2>. QED  BY <2>1, <2>2
<1>. QED  BY <1>1, <1>2, <1>3, <1>4

ConfigPath(a) ==
    IF Given(a, "config_path") THEN LastGiven(a, "config_path")
    ELSE Defaults.config_path

\* Every key of the configuration, whatever the settings: the command line's
\* last, else the file's last, else the default.
LEMMA Configured ==
    ASSUME NEW a, AreSettings(a), \A i \in DOMAIN a : a[i].key \in ArgKeys,
           NEW files,
           files[ConfigPath(a)] = Missing \/ AreSettings(files[ConfigPath(a)])
    PROVE  /\ DOMAIN Configure(a, files) = DOMAIN Defaults
           /\ \A k \in FileKeys \cup ArgKeys :
                 Configure(a, files)[k] =
                     IF Given(a, k) THEN Value(k, LastGiven(a, k))
                     ELSE IF /\ k \in FileKeys /\ files[ConfigPath(a)] # Missing
                             /\ Given(files[ConfigPath(a)], k)
                     THEN Value(k, LastGiven(files[ConfigPath(a)], k))
                     ELSE Defaults[k]
<1>. DEFINE f == files[ConfigPath(a)]
            Keys == FileKeys \cup ArgKeys
            first == Made(ArgKeys, Defaults, a, All(a))
            second == IF f = Missing THEN first
                      ELSE Made(FileKeys, first, f, All(f))
            third == Made(ArgKeys, second, a, All(a))
<1>1. Len(a) \in Nat /\ DOMAIN a = 1 .. Len(a) /\ \A i \in 1 .. Len(a) : a[i].key \in ArgKeys
  BY DEF AreSettings
<1>2. parse_args(Defaults, a) = first
  <2>1. Defaults = [k \in DOMAIN Defaults |-> Defaults[k]]
    BY DefaultsType
  <2>. QED  BY <1>1, <2>1, ParseArgs DEF All
<1>3. first = [k \in DOMAIN first |-> first[k]] /\ DOMAIN first = Keys
  BY DefaultsType DEF Made
<1>4. \A k \in Keys : first[k] = IF Given(a, k) THEN Value(k, LastGiven(a, k))
                                 ELSE Defaults[k]
  <2>1. \A k : Given(a, k) => k \in ArgKeys
    BY DEF Given
  <2>. QED  BY <2>1, MadeOf, DefaultsType
<1>5. first.config_path = ConfigPath(a)
  <2>1. "config_path" \in Keys
    BY DEF ArgKeys
  <2>. QED  BY <1>4, <2>1 DEF ConfigPath, Value
<1>6. parse_config_file(first, f) = second
  <2>1. CASE f = Missing
    BY <2>1 DEF parse_config_file
  <2>2. CASE f # Missing
    <3>1. Len(f) \in Nat /\ DOMAIN f = 1 .. Len(f)
      BY <2>2 DEF AreSettings
    <3>. HIDE DEF f, first
    <3>. QED  BY <2>2, <3>1, <1>3, ParseFile DEF All
  <2>. QED  BY <2>1, <2>2
<1>7. second = [k \in DOMAIN second |-> second[k]] /\ DOMAIN second = Keys
  BY <1>3 DEF Made
<1>8. \A k \in Keys :
         second[k] = IF k \in FileKeys /\ f # Missing /\ Given(f, k)
                     THEN Value(k, LastGiven(f, k)) ELSE first[k]
  <2>1. CASE f = Missing
    BY <2>1
  <2>2. CASE f # Missing
    BY <2>2, <1>3, MadeOf
  <2>. QED  BY <2>1, <2>2
<1>9. Configure(a, files) = third
  <2>1. Configure(a, files) = parse_args(second, a)
    BY <1>2, <1>5, <1>6 DEF Configure
  <2>. HIDE DEF second
  <2>. QED  BY <1>1, <1>7, <2>1, ParseArgs DEF All
<1>10. DOMAIN third = Keys
  BY <1>7 DEF Made
<1>11. \A k \in Keys : third[k] = IF Given(a, k) THEN Value(k, LastGiven(a, k))
                                  ELSE second[k]
  <2>1. \A k : Given(a, k) => k \in ArgKeys
    BY DEF Given
  <2>. HIDE DEF second
  <2>. QED  BY <1>7, <2>1, MadeOf
<1>. HIDE DEF first, second, third, f
<1>. QED  BY <1>4, <1>8, <1>9, <1>10, <1>11, DefaultsType DEF f

-----------------------------------------------------------------------------
(* Paths and their prefixes.                                               *)

LEMMA PrefixIs ==
    ASSUME NEW S, NEW s \in Seq(S), NEW t \in Seq(S)
    PROVE  IsPrefix(s, t) <=> /\ Len(s) <= Len(t)
                              /\ \A i \in 1 .. Len(s) : s[i] = t[i]
<1>1. CASE Len(s) > Len(t)
  BY <1>1 DEF IsPrefix
<1>2. CASE Len(s) <= Len(t)
  <2>1. SubSeq(s, 1, Len(s)) = [i \in 1 .. Len(s) |-> s[i]]
    OBVIOUS
  <2>2. SubSeq(t, 1, Len(s)) = [i \in 1 .. Len(s) |-> t[i]]
    BY <1>2
  <2>. QED  BY <1>2, <2>1, <2>2 DEF IsPrefix
<1>. QED  BY <1>1, <1>2

LEMMA InsideIs ==
    ASSUME NEW p, NEW x, IsPath(p), IsPath(x)
    PROVE  Inside(p, x) <=>
             \/ p = x
             \/ /\ Len(x) < Len(p) /\ p[Len(x) + 1] = "/"
                /\ \A i \in 1 .. Len(x) : p[i] = x[i]
<1>. DEFINE S == Range(p) \cup Range(x) \cup {"/"}
            y == x \o <<"/">>
<1>1. p \in Seq(S) /\ x \in Seq(S) /\ <<"/">> \in Seq(S)
  BY DEF IsPath
<1>. HIDE DEF S
<1>2. /\ y \in Seq(S) /\ Len(y) = Len(x) + 1 /\ y[Len(x) + 1] = "/"
      /\ \A i \in 1 .. Len(x) : y[i] = x[i]
  BY <1>1
<1>3. Len(x) \in Nat /\ Len(p) \in Nat
  BY <1>1
<1>. HIDE DEF y
<1>4. IsPrefix(y, p) <=> Len(y) <= Len(p) /\ \A i \in 1 .. Len(y) : y[i] = p[i]
  BY <1>1, <1>2, PrefixIs
<1>5. (\A i \in 1 .. Len(y) : y[i] = p[i]) <=>
          p[Len(x) + 1] = "/" /\ \A i \in 1 .. Len(x) : p[i] = x[i]
  BY <1>2, <1>3
<1>. QED  BY <1>2, <1>3, <1>4, <1>5 DEF Inside, y

LEMMA InsideTransitive ==
    ASSUME NEW p, NEW q, NEW r, IsPath(p), IsPath(q), IsPath(r),
           Inside(p, q), Inside(q, r)
    PROVE  Inside(p, r)
<1>1. Len(p) \in Nat /\ Len(q) \in Nat /\ Len(r) \in Nat
  BY DEF IsPath
<1>. QED  BY <1>1, InsideIs

\* What lies in an excluded directory begins with its path, and what begins
\* with an entry that ends in a slash lies in the directory.
LEMMA PrefixOfDirectory ==
    ASSUME NEW p, NEW x, IsPath(p), IsPath(x)
    PROVE  /\ Inside(p, x) => IsPrefix(x, p)
           /\ x # <<>> /\ Last(x) = "/" /\ IsPrefix(x, p) => Inside(p, Front(x))
<1>. DEFINE S == Range(p) \cup Range(x)
<1>1. p \in Seq(S) /\ x \in Seq(S) /\ Len(x) \in Nat /\ Len(p) \in Nat
  BY DEF IsPath
<1>. HIDE DEF S
<1>2. IsPrefix(x, p) <=> Len(x) <= Len(p) /\ \A i \in 1 .. Len(x) : x[i] = p[i]
  BY <1>1, PrefixIs
<1>3. Inside(p, x) => IsPrefix(x, p)
  BY <1>1, <1>2, InsideIs
<1>4. ASSUME x # <<>>, Last(x) = "/", IsPrefix(x, p)
      PROVE  Inside(p, Front(x))
  <2>. DEFINE y == Front(x)
  <2>1. Len(x) > 0 /\ x[Len(x)] = "/"
    BY <1>1, <1>4, EmptySeq DEF Last
  <2>0. Len(x) - 1 \in Nat
    BY <1>1, <2>1
  <2>2. y = [i \in 1 .. Len(x) - 1 |-> x[i]]
    BY <1>1, <2>0 DEF Front
  <2>5. Len(y) = Len(x) - 1 /\ \A i \in 1 .. Len(y) : y[i] = x[i]
    BY <2>0, <2>2
  <2>3. IsPath(y)
    <3>1. \A i \in 1 .. Len(x) - 1 : x[i] \in Range(y)
      BY <2>2 DEF Range
    <3>. QED  BY <2>0, <2>2, <3>1 DEF IsPath
  <2>. HIDE DEF y
  <2>4. Len(y) < Len(p) /\ p[Len(y) + 1] = "/" /\ \A i \in 1 .. Len(y) : p[i] = y[i]
    BY <1>1, <1>2, <1>4, <2>1, <2>5
  <2>. QED  BY <2>3, <2>4, InsideIs DEF y
<1>. QED  BY <1>3, <1>4
=============================================================================
