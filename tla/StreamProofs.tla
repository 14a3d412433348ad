--------------------------- MODULE StreamProofs ---------------------------
(***************************************************************************)
(* The stream service, for any number of callers and episodes: what the    *)
(* caches hold, how long it is good for, and what an Invalidate leaves.    *)
(***************************************************************************)
EXTENDS MediaRoute, OrderProofs

\* The results a call may hold: the provider's, and streamResolve's copies.
Base == {NoResult} \cup UNION {Answers(e) : e \in Episode}
Results == Base \cup {Proxied(result) : result \in Base}
CallT == [pc : Labels, e : Episode, at : 0..MaxTime, res : Results, cached : BOOLEAN]
EntryT == [res : Base, ttl : Nat, left : Nat]

EntryOk(e, entry) ==
    entry \in EntryT /\ entry.res \in Answers(e) /\ entry.left \in 1..entry.ttl
MemOk(m) == DOMAIN m \subseteq Episode /\ \A e \in DOMAIN m : EntryOk(e, m[e])
RowOk(r) == DOMAIN r \subseteq Episode /\ \A e \in DOMAIN r : r[e] \in Answers(e)
StreamTypes ==
    /\ now \in 0..MaxTime
    /\ call \in [Caller -> CallT]
    /\ since \in [Episode -> 0..now]
    /\ alone \in [Episode -> SUBSET Caller]

\* What a call knows: how long it takes, that its result is the episode's, that
\* a cached one had not expired when the call began, and that any other one was
\* signed after that.
CallOk(c) ==
    /\ c.at <= now
    /\ c.pc # "none" => now - c.at <= Margin
    /\ c.pc \in {"fill", "persist", "upsert", "done"} => c.res \in Answers(c.e)
    /\ c.pc \in {"persist", "upsert"} => ~c.cached
    /\ c.pc = "fill" => c.cached
    /\ c.pc \in {"fill", "done"} /\ c.cached => ~resultIsExpired(c.at, c.res)
    /\ c.pc \in {"persist", "upsert", "done"} /\ ~c.cached =>
          c.res \in SignedBetween(c.e, c.at, now)
CallsOk == \A p \in Caller : CallOk(call[p])

\* RenewalLasts, cache by cache.
Fresh(e, result) == result \in SignedBetween(e, since[e], now)
MemFresh == \A e \in DOMAIN mem : Fresh(e, mem[e].res)
RowFresh == \A e \in DOMAIN row : Fresh(e, row[e])
CallFresh(c) == c.pc \in {"fill", "persist", "upsert"} => Fresh(c.e, c.res)
CallsFresh == \A p \in Caller : CallFresh(call[p])

\* While a call is alone nobody else touches its episode: after its Invalidate
\* the memory is empty, and before its upsert the memory has nothing but its
\* result.
Alone(p) == InCall(p) /\ p \in alone[call[p].e]
Settled(p) ==
    /\ call[p].pc = "delete" => call[p].e \notin DOMAIN mem
    /\ call[p].pc = "upsert" =>
          (call[p].e \in DOMAIN mem => mem[call[p].e].res = call[p].res)
AloneOk(p) == Alone(p) =>
    /\ \A q \in Caller \ {p} : InCall(q) => call[q].e # call[p].e
    /\ Settled(p)
AlonesOk == \A p \in Caller : AloneOk(p)

StreamInv ==
    /\ StreamTypes /\ MemOk(mem) /\ RowOk(row) /\ CallsOk
    /\ MemFresh /\ RowFresh /\ CallsFresh /\ AlonesOk
---------------------------------------------------------------------------
(***************************************************************************)
(* The selection.  A list is a function on 1..n.                           *)
(***************************************************************************)
LEMMA MinIs ==
    ASSUME NEW S \in SUBSET Nat, S # {}
    PROVE  Min(S) \in S /\ \A y \in S : Min(S) <= y
<1>1. \E x \in S : \A y \in S : x <= y
  BY LeastNat
<1> QED
  BY <1>1, Zenon DEF Min

\* The lists that are kept, sorted and deduplicated: which element of s each
\* one is.
Keeps(s, I, t, m, at) ==
    /\ m \in Nat /\ at \in [1..m -> I]
    /\ t = [i \in 1..m |-> s[at[i]]]
    /\ \A i, j \in 1..m : i < j => at[i] < at[j]
    /\ \A x \in I : \E i \in 1..m : at[i] = x

LEMMA KeepIs ==
    ASSUME NEW n \in Nat, NEW s, DOMAIN s = 1..n, NEW I \in SUBSET (1..n)
    PROVE  \E m, at : Keeps(s, I, Keep(s, I), m, at)
<1>0. IsFiniteSet(I)
  <2>1. IsFiniteSet(1..n)
    BY FS_Interval
  <2> QED
    BY <2>1, FS_Subset, Zenon
<1>1. IsFiniteSet(I) /\ I \in SUBSET Int
  BY <1>0
<1> DEFINE m == Cardinality(I)
           at == Ascending(I)
<1>2. /\ m \in Nat /\ at \in [1..m -> I]
      /\ \A i, j \in 1..m : i < j => at[i] < at[j]
      /\ \A x \in I : \E i \in 1..m : at[i] = x
  BY <1>1, AscendingIs
<1>3. Keep(s, I) = [i \in 1..m |-> s[at[i]]]
  BY DEF Keep
<1> HIDE DEF m, at
<1>4. Keeps(s, I, Keep(s, I), m, at)
  BY <1>2, <1>3 DEF Keeps
<1> QED
  BY <1>4

Sorts(s, key, n, t, at) ==
    /\ at \in [1..n -> 1..n]
    /\ t = [i \in 1..n |-> s[at[i]]]
    /\ \A i, j \in 1..n : i < j => key[at[i]] >= key[at[j]] /\ at[i] # at[j]
    /\ \A x \in 1..n : \E i \in 1..n : at[i] = x

LEMMA SortDescIs ==
    ASSUME NEW n \in Nat, NEW s, DOMAIN s = 1..n, NEW key, \A i \in 1..n : key[i] \in Int
    PROVE  \E at : Sorts(s, key, n, SortDesc(s, key), at)
<1> DEFINE D == 1..n
           R == {p \in D \X D : key[p[1]] > key[p[2]] \/ (key[p[1]] = key[p[2]] /\ p[1] < p[2])}
<1>1. \A x, y \in D : <<x, y>> \in R <=> key[x] > key[y] \/ (key[x] = key[y] /\ x < y)
  OBVIOUS
<1>2. SortDesc(s, key) = [i \in D |-> s[InOrder(D, R)[i]]]
  BY DEF SortDesc
<1> HIDE DEF R
<1>3. StrictOrder(D, R)
  BY <1>1 DEF StrictOrder
<1>4. IsFiniteSet(D) /\ Cardinality(D) = n
  BY FS_Interval
<1> DEFINE at == InOrder(D, R)
<1>5. /\ at \in [1..n -> D]
      /\ \A i, j \in 1..n : i < j => <<at[i], at[j]>> \in R
      /\ \A x \in D : \E i \in 1..n : at[i] = x
  <2> HIDE DEF D
  <2> QED
    BY <1>3, <1>4, InOrderIs
<1> HIDE DEF at
<1>6. ASSUME NEW i \in 1..n, NEW j \in 1..n, i < j
      PROVE  key[at[i]] >= key[at[j]] /\ at[i] # at[j]
  <2>1. at[i] \in D /\ at[j] \in D /\ <<at[i], at[j]>> \in R
    BY <1>5, <1>6
  <2>2. key[at[i]] > key[at[j]] \/ (key[at[i]] = key[at[j]] /\ at[i] < at[j])
    BY <1>1, <2>1
  <2>3. key[at[i]] \in Int /\ key[at[j]] \in Int /\ at[i] \in Int /\ at[j] \in Int
    BY <2>1
  <2> QED
    BY <2>2, <2>3
<1>7. SortDesc(s, key) = [i \in D |-> s[at[i]]]
  BY <1>2 DEF at
<1>8. Sorts(s, key, n, SortDesc(s, key), at)
  BY <1>5, <1>6, <1>7 DEF Sorts
<1> QED
  BY <1>8

\* What a list of candidates needs for the selection.
Ranked(cs, n) ==
    /\ DOMAIN cs = 1..n
    /\ \A i \in 1..n : cs[i].prio \in Int
    /\ \A i, j \in 1..n : cs[i].prio >= cs[j].prio /\ Playable(cs[j]) => Playable(cs[i])

SortsByPriority(s, n, t, at) ==
    /\ at \in [1..n -> 1..n]
    /\ t = [i \in 1..n |-> s[at[i]]]
    /\ \A i, j \in 1..n : i < j => s[at[i]].prio >= s[at[j]].prio /\ at[i] # at[j]
    /\ \A x \in 1..n : \E i \in 1..n : at[i] = x

LEMMA ByPriority ==
    ASSUME NEW n \in Nat, NEW s, DOMAIN s = 1..n, \A i \in 1..n : s[i].prio \in Int
    PROVE  \E at : SortsByPriority(s, n, SortByPriority(s), at)
<1> DEFINE key == [i \in 1..n |-> s[i].prio]
<1>1. SortByPriority(s) = SortDesc(s, key)
  BY DEF SortByPriority
<1>2. \A i \in 1..n : key[i] = s[i].prio
  OBVIOUS
<1>5. \A i \in 1..n : key[i] \in Int
  OBVIOUS
<1> HIDE DEF key
<1>3. PICK at : Sorts(s, key, n, SortDesc(s, key), at)
  BY <1>5, SortDescIs
<1>4. \A i, j \in 1..n : i < j => s[at[i]].prio >= s[at[j]].prio /\ at[i] # at[j]
  BY <1>2, <1>3 DEF Sorts
<1>6. SortsByPriority(s, n, SortByPriority(s), at)
  BY <1>1, <1>3, <1>4 DEF Sorts, SortsByPriority
<1> QED
  BY <1>6

\* Deduplication keeps one candidate of every key, the one of the highest
\* priority.
Dedupes(s, key, n, t, m, at) ==
    /\ m \in Nat /\ at \in [1..m -> 1..n]
    /\ t = [i \in 1..m |-> s[at[i]]]
    /\ \A i, j \in 1..m : i # j => key[at[i]] # key[at[j]]
    /\ \A x \in 1..n : \E i \in 1..m : at[i] <= x /\ key[at[i]] = key[x]

LEMMA DedupeIs ==
    ASSUME NEW n \in Nat, NEW s, DOMAIN s = 1..n, NEW key, DOMAIN key = 1..n
    PROVE  \E m, at : Dedupes(s, key, n, Dedupe(s, key), m, at)
<1> DEFINE I == {i \in 1..n : \A j \in 1..(i - 1) : key[j] # key[i]}
<1>1. Dedupe(s, key) = Keep(s, I)
  BY DEF Dedupe
<1>2. \A i \in I, j \in 1..n : j < i => key[j] # key[i]
  OBVIOUS
<1>3. ASSUME NEW x \in 1..n PROVE \E i \in I : i <= x /\ key[i] = key[x]
  <2> DEFINE S == {i \in 1..n : key[i] = key[x]}
  <2>1. S \in SUBSET Nat /\ x \in S
    OBVIOUS
  <2>2. PICK i \in S : \A y \in S : i <= y
    BY <2>1, LeastNat
  <2>3. i \in I
    BY <2>2
  <2> QED
    BY <2>1, <2>2, <2>3
<1>4. I \in SUBSET (1..n)
  OBVIOUS
<1> HIDE DEF I
<1>5. PICK m, at : Keeps(s, I, Keep(s, I), m, at)
  BY <1>4, KeepIs
<1>6. /\ m \in Nat /\ at \in [1..m -> I]
      /\ Keep(s, I) = [i \in 1..m |-> s[at[i]]]
      /\ \A i, j \in 1..m : i < j => at[i] < at[j]
      /\ \A x \in I : \E i \in 1..m : at[i] = x
  BY <1>5 DEF Keeps
<1>7. ASSUME NEW i \in 1..m, NEW j \in 1..m, i # j PROVE key[at[i]] # key[at[j]]
  <2>1. CASE i < j
    BY <1>2, <1>4, <1>6, <2>1
  <2>2. CASE j < i
    BY <1>2, <1>4, <1>6, <2>2
  <2> QED
    BY <1>7, <2>1, <2>2
<1>8. ASSUME NEW x \in 1..n PROVE \E i \in 1..m : at[i] <= x /\ key[at[i]] = key[x]
  <2>1. PICK y \in I : y <= x /\ key[y] = key[x]
    BY <1>3
  <2>2. PICK i \in 1..m : at[i] = y
    BY <1>6
  <2> QED
    BY <2>1, <2>2
<1>9. at \in [1..m -> 1..n]
  BY <1>4, <1>6
<1>10. Dedupes(s, key, n, Dedupe(s, key), m, at)
  BY <1>1, <1>6, <1>7, <1>8, <1>9 DEF Dedupes
<1> QED
  BY <1>10

\* t consists of elements of cs, no two of them with the same key.
Selected(cs, n, t, m) ==
    /\ m \in Nat /\ DOMAIN t = 1..m
    /\ \A i \in 1..m : \E j \in 1..n : t[i] = cs[j]
    /\ \A i, j \in 1..m : i # j => streamKey(t[i]) # streamKey(t[j])

\* t has, for every element of cs, one of its key that is not ranked lower.
Covers(cs, n, t, m) ==
    \A x \in 1..n : \E i \in 1..m :
        streamKey(t[i]) = streamKey(cs[x]) /\ t[i].prio >= cs[x].prio

deduped(cs) ==
    LET sorted == SortByPriority(cs)
    IN  Dedupe(sorted, [i \in DOMAIN sorted |-> streamKey(sorted[i])])

LEMMA DedupedIs ==
    ASSUME NEW n \in Nat, NEW cs, Ranked(cs, n)
    PROVE  \E m : Selected(cs, n, deduped(cs), m) /\ Covers(cs, n, deduped(cs), m)
<1> DEFINE s == SortByPriority(cs)
           key == [i \in DOMAIN s |-> streamKey(s[i])]
<1>0. DOMAIN cs = 1..n /\ \A i \in 1..n : cs[i].prio \in Int
  BY DEF Ranked
<1>20. PICK at : SortsByPriority(cs, n, s, at)
  BY <1>0, ByPriority
<1>1. /\ at \in [1..n -> 1..n]
      /\ s = [i \in 1..n |-> cs[at[i]]]
      /\ \A i, j \in 1..n : i < j => cs[at[i]].prio >= cs[at[j]].prio
      /\ \A x \in 1..n : \E i \in 1..n : at[i] = x
  BY <1>20 DEF SortsByPriority
<1>2. DOMAIN s = 1..n
  BY <1>1
<1>3. \A i \in 1..n : key[i] = streamKey(s[i])
  BY <1>2
<1>4. deduped(cs) = Dedupe(s, key)
  BY DEF deduped
<1>5. DOMAIN key = 1..n
  BY <1>2
<1>6. \A i \in 1..n : s[i] = cs[at[i]] /\ s[i].prio \in Int
  BY <1>0, <1>1
<1>7. \A i, j \in 1..n : i < j => s[i].prio >= s[j].prio
  BY <1>1, <1>6
<1> HIDE DEF s, key
<1>8. PICK m, to : Dedupes(s, key, n, Dedupe(s, key), m, to)
  BY <1>2, <1>5, DedupeIs
<1>9. /\ m \in Nat /\ to \in [1..m -> 1..n]
      /\ Dedupe(s, key) = [i \in 1..m |-> s[to[i]]]
      /\ \A i, j \in 1..m : i # j => key[to[i]] # key[to[j]]
      /\ \A x \in 1..n : \E i \in 1..m : to[i] <= x /\ key[to[i]] = key[x]
  BY <1>8 DEF Dedupes
<1> DEFINE t == deduped(cs)
<1>10. DOMAIN t = 1..m /\ \A i \in 1..m : t[i] = s[to[i]] /\ to[i] \in 1..n
  BY <1>4, <1>9
<1> HIDE DEF t
<1>11. \A i \in 1..m : streamKey(t[i]) = key[to[i]]
  BY <1>3, <1>10
<1>12. Selected(cs, n, t, m)
  <2>1. \A i \in 1..m : \E j \in 1..n : t[i] = cs[j]
    BY <1>1, <1>6, <1>10
  <2>2. ASSUME NEW i \in 1..m, NEW j \in 1..m, i # j
        PROVE  streamKey(t[i]) # streamKey(t[j])
    BY <1>9, <1>11, <2>2
  <2> QED
    BY <1>9, <1>10, <2>1, <2>2 DEF Selected
<1>13. ASSUME NEW x \in 1..n
       PROVE  \E i \in 1..m : streamKey(t[i]) = streamKey(cs[x]) /\ t[i].prio >= cs[x].prio
  <2>1. PICK y \in 1..n : at[y] = x
    BY <1>1
  <2>2. PICK i \in 1..m : to[i] <= y /\ key[to[i]] = key[y]
    BY <1>9
  <2>3. s[y] = cs[x] /\ key[y] = streamKey(cs[x])
    BY <1>3, <1>6, <2>1
  <2>4. to[i] \in 1..n /\ t[i] = s[to[i]] /\ streamKey(t[i]) = key[to[i]]
    BY <1>10, <1>11
  <2>5. s[to[i]].prio >= s[y].prio
    <3>1. CASE to[i] = y
      BY <1>6, <3>1
    <3>2. CASE to[i] < y
      BY <1>7, <2>4, <3>2
    <3> QED
      BY <2>2, <2>4, <3>1, <3>2
  <2> QED
    BY <2>2, <2>3, <2>4, <2>5
<1> QED
  BY <1>12, <1>13 DEF t, Covers

\* Choosing elements of a selection is a selection.
Chooses(t, m, u, k, at) ==
    /\ k \in Nat /\ at \in [1..k -> 1..m]
    /\ u = [i \in 1..k |-> t[at[i]]]
    /\ \A i, j \in 1..k : i < j => at[i] # at[j]

LEMMA SelectedAgain ==
    ASSUME NEW n, NEW cs, NEW t, NEW m, Selected(cs, n, t, m),
           NEW u, NEW k, NEW at, Chooses(t, m, u, k, at)
    PROVE  Selected(cs, n, u, k)
<1>1. k \in Nat /\ DOMAIN u = 1..k /\ \A i \in 1..k : u[i] = t[at[i]] /\ at[i] \in 1..m
  BY DEF Chooses
<1>2. ASSUME NEW i \in 1..k, NEW j \in 1..k, i # j PROVE at[i] # at[j]
  <2>1. CASE i < j
    BY <2>1 DEF Chooses
  <2>2. CASE j < i
    BY <2>2 DEF Chooses
  <2> QED
    BY <1>1, <1>2, <2>1, <2>2
<1>3. ASSUME NEW i \in 1..k PROVE \E j \in 1..n : u[i] = cs[j]
  <2>1. u[i] = t[at[i]] /\ at[i] \in 1..m
    BY <1>1
  <2> QED
    BY <2>1 DEF Selected
<1>4. ASSUME NEW i \in 1..k, NEW j \in 1..k, i # j PROVE streamKey(u[i]) # streamKey(u[j])
  <2>1. u[i] = t[at[i]] /\ u[j] = t[at[j]] /\ at[i] \in 1..m /\ at[j] \in 1..m /\ at[i] # at[j]
    BY <1>1, <1>2, <1>4
  <2> QED
    BY <2>1 DEF Selected
<1> QED
  BY <1>1, <1>3, <1>4 DEF Selected

\* What normalizeCandidates leaves of cs.
Normal(cs, n, t, m) ==
    /\ Selected(cs, n, t, m)
    /\ n # 0 => m # 0
    /\ (\E x \in 1..n : Playable(cs[x])) => \A i \in 1..m : Playable(t[i])
    /\ \A x \in 1..n : Playable(cs[x]) /\ IsMp4(cs[x]) =>
          /\ \A i \in 1..m : IsMp4(t[i])
          /\ \E i \in 1..m : Playable(t[i]) /\ streamKey(t[i]) = streamKey(cs[x])

\* A key names the container and the quality.
LEMMA SameKey ==
    ASSUME NEW c, NEW d, streamKey(c) = streamKey(d)
    PROVE  (IsMp4(c) <=> IsMp4(d)) /\ (Is720p(c) <=> Is720p(d))
BY DEF streamKey, IsMp4, Is720p

LEMMA NormalizedIs ==
    ASSUME NEW n \in Nat, NEW cs, Ranked(cs, n)
    PROVE  \E m : Normal(cs, n, normalizeCandidates(cs), m)
<1> DEFINE d == deduped(cs)
<1>1. PICK k : Selected(cs, n, d, k) /\ Covers(cs, n, d, k)
  BY DedupedIs
<1> DEFINE direct == {i \in 1..k : Playable(d[i])}
           mp4 == {i \in direct : IsMp4(d[i])}
           I == IF mp4 # {} THEN mp4 ELSE direct
           t == normalizeCandidates(cs)
<1>2. t = IF direct = {} THEN d ELSE Keep(d, I)
  BY <1>1 DEF normalizeCandidates, deduped, Selected
<1>3. k \in Nat /\ DOMAIN d = 1..k
  BY <1>1 DEF Selected
<1>4. ASSUME NEW x \in 1..n, Playable(cs[x])
      PROVE  \E i \in 1..k : Playable(d[i]) /\ streamKey(d[i]) = streamKey(cs[x])
  <2>1. PICK i \in 1..k : streamKey(d[i]) = streamKey(cs[x]) /\ d[i].prio >= cs[x].prio
    BY <1>1 DEF Covers
  <2>2. PICK j \in 1..n : d[i] = cs[j]
    BY <1>1 DEF Selected
  <2> QED
    BY <1>4, <2>1, <2>2 DEF Ranked
<1>5. ASSUME NEW x \in 1..n, Playable(cs[x]), IsMp4(cs[x])
      PROVE  \E i \in mp4 : streamKey(d[i]) = streamKey(cs[x])
  BY <1>4, <1>5, SameKey
<1>6. n # 0 => k # 0
  <2>1. ASSUME n # 0 PROVE \E i \in 1..k : TRUE
    BY <1>1, <2>1, 1 \in 1..n DEF Covers
  <2> QED
    BY <1>3, <2>1
<1> HIDE DEF d, t
<1>7. CASE direct = {}
  <2>1. \A x \in 1..n : ~Playable(cs[x])
    BY <1>4, <1>7
  <2> QED
    BY <1>1, <1>2, <1>6, <1>7, <2>1 DEF Normal, t
<1>8. CASE direct # {}
  <2>1. I \in SUBSET (1..k) /\ I # {} /\ I \subseteq direct
    BY <1>8
  <2>2. t = Keep(d, I)
    BY <1>2, <1>8
  <2>3. PICK m, at : Keeps(d, I, t, m, at)
    <3> HIDE DEF I
    <3> QED
      BY <1>3, <2>1, <2>2, KeepIs
  <2>4. /\ m \in Nat /\ at \in [1..m -> I] /\ t = [i \in 1..m |-> d[at[i]]]
        /\ \A i, j \in 1..m : i < j => at[i] < at[j]
        /\ \A x \in I : \E i \in 1..m : at[i] = x
    BY <2>3 DEF Keeps
  <2>5. at \in [1..m -> 1..k] /\ \A i \in 1..m : at[i] \in I /\ t[i] = d[at[i]]
    <3> HIDE DEF I
    <3> QED
      BY <2>1, <2>4
  <2>6. Selected(cs, n, t, m)
    <3>1. \A i, j \in 1..m : i < j => at[i] # at[j]
      BY <2>4, <2>5
    <3>2. Chooses(d, k, t, m, at)
      BY <2>4, <2>5, <3>1 DEF Chooses
    <3> QED
      BY <1>1, <3>2, SelectedAgain
  <2>7. m # 0
    BY <2>1, <2>4
  <2>8. \A i \in 1..m : Playable(t[i])
    BY <2>1, <2>5
  <2>9. ASSUME NEW x \in 1..n, Playable(cs[x]), IsMp4(cs[x])
        PROVE  /\ \A i \in 1..m : IsMp4(t[i])
               /\ \E i \in 1..m : Playable(t[i]) /\ streamKey(t[i]) = streamKey(cs[x])
    <3>1. PICK y \in mp4 : streamKey(d[y]) = streamKey(cs[x])
      BY <1>5, <2>9
    <3>2. I = mp4
      BY <3>1
    <3>3. PICK i \in 1..m : at[i] = y
      BY <2>4, <3>1, <3>2
    <3>4. \A j \in 1..m : IsMp4(t[j])
      BY <2>5, <3>2
    <3> QED
      BY <2>5, <2>8, <3>1, <3>3, <3>4
  <2>10. Normal(cs, n, t, m)
    BY <2>6, <2>7, <2>8, <2>9 DEF Normal
  <2> QED
    BY <2>10 DEF t
<1> QED
  BY <1>7, <1>8

\* The preferred position: of the first candidates that are the best there are.
LEMMA PreferredIs ==
    ASSUME NEW cs, NEW m \in Nat, DOMAIN cs = 1..m, m # 0
    PROVE  LET i == preferredIndex(cs) IN
           /\ i \in 1..m
           /\ (\E j \in 1..m : Playable(cs[j]) /\ IsMp4(cs[j]) /\ Is720p(cs[j])) =>
                 Playable(cs[i]) /\ IsMp4(cs[i]) /\ Is720p(cs[i])
<1> DEFINE mp4 == {i \in 1..m : Playable(cs[i]) /\ IsMp4(cs[i])}
           best == {i \in mp4 : Is720p(cs[i])}
           direct == {i \in 1..m : cs[i].direct}
<1>1. cs # << >> /\ 1 \in 1..m
  OBVIOUS
<1>2. preferredIndex(cs) =
        IF best # {} THEN Min(best) ELSE IF mp4 # {} THEN Min(mp4)
        ELSE IF direct # {} THEN Min(direct) ELSE 1
  BY <1>1 DEF preferredIndex
<1>3. \A S \in SUBSET (1..m) : S # {} => Min(S) \in S
  BY MinIs, \A S \in SUBSET (1..m) : S \in SUBSET Nat
<1>4. best \in SUBSET (1..m) /\ mp4 \in SUBSET (1..m) /\ direct \in SUBSET (1..m)
  OBVIOUS
<1>5. best # {} => Min(best) \in best
  BY <1>3, <1>4, Zenon
<1>6. mp4 # {} => Min(mp4) \in 1..m
  BY <1>3, <1>4
<1>7. direct # {} => Min(direct) \in 1..m
  BY <1>3, <1>4
<1>8. CASE best = {}
  <2>1. ~\E j \in 1..m : Playable(cs[j]) /\ IsMp4(cs[j]) /\ Is720p(cs[j])
    BY <1>8
  <2> HIDE DEF mp4, direct, best
  <2> QED
    BY <1>1, <1>2, <1>6, <1>7, <1>8, <2>1
<1>9. CASE best # {}
  BY <1>2, <1>5, <1>9
<1> QED
  BY <1>8, <1>9

\* The list that is served is what normalizeCandidates left, sorted.
LEMMA RankedServed ==
    ASSUME NEW n \in Nat, NEW cs, Ranked(cs, n)
    PROVE  /\ WellServed(cs)
           /\ \A i \in DOMAIN resolved(cs).cands : \E j \in 1..n : resolved(cs).cands[i] = cs[j]
<1> DEFINE t == normalizeCandidates(cs)
           u == SortByPriority(t)
<1>1. PICK m : Normal(cs, n, t, m)
  BY NormalizedIs
<1>2. m \in Nat /\ DOMAIN t = 1..m /\ \A i \in 1..m : \E j \in 1..n : t[i] = cs[j]
  BY <1>1 DEF Normal, Selected
<1>3. \A i \in 1..m : t[i].prio \in Int
  BY <1>2 DEF Ranked
<1> HIDE DEF t
<1>4. PICK at : SortsByPriority(t, m, u, at)
  BY <1>2, <1>3, ByPriority
<1> HIDE DEF u
<1>5. /\ at \in [1..m -> 1..m] /\ DOMAIN u = 1..m
      /\ \A i \in 1..m : at[i] \in 1..m /\ u[i] = t[at[i]]
      /\ \A i, j \in 1..m : i < j => u[i].prio >= u[j].prio
      /\ \A x \in 1..m : \E i \in 1..m : at[i] = x
  BY <1>4 DEF SortsByPriority
<1>6. Selected(cs, n, u, m)
  <2>1. Chooses(t, m, u, m, at)
    BY <1>2, <1>4 DEF SortsByPriority, Chooses
  <2> QED
    BY <1>1, <2>1, SelectedAgain DEF Normal
<1>7. (\E x \in 1..n : Playable(cs[x])) => \A i \in 1..m : Playable(u[i])
  BY <1>1, <1>5 DEF Normal
<1>8. ASSUME NEW x \in 1..n, Playable(cs[x]), IsMp4(cs[x])
      PROVE  /\ \A i \in 1..m : IsMp4(u[i])
             /\ \E i \in 1..m : Playable(u[i]) /\ streamKey(u[i]) = streamKey(cs[x])
  <2>1. /\ \A i \in 1..m : IsMp4(t[i])
        /\ \E i \in 1..m : Playable(t[i]) /\ streamKey(t[i]) = streamKey(cs[x])
    BY <1>1, <1>8 DEF Normal
  <2>2. PICK y \in 1..m : Playable(t[y]) /\ streamKey(t[y]) = streamKey(cs[x])
    BY <2>1
  <2>3. PICK i \in 1..m : at[i] = y
    BY <1>5
  <2>4. u[i] = t[y]
    BY <1>5, <2>3
  <2> QED
    BY <1>5, <2>1, <2>2, <2>4
<1> DEFINE p == preferredIndex(u)
<1>9. n # 0 => /\ p \in 1..m
               /\ (\E j \in 1..m : Playable(u[j]) /\ IsMp4(u[j]) /\ Is720p(u[j])) =>
                     Playable(u[p]) /\ IsMp4(u[p]) /\ Is720p(u[p])
  BY <1>1, <1>2, <1>5, PreferredIs DEF Normal
<1>10. resolved(cs).cands = u /\ resolved(cs).preferred = p
  BY DEF resolved, u, t
<1> HIDE DEF p
<1>11. ASSUME NEW x \in 1..n, Playable(cs[x]), IsMp4(cs[x]), Is720p(cs[x])
       PROVE  /\ Playable(u[p]) /\ IsMp4(u[p]) /\ Is720p(u[p])
              /\ \E j \in 1..n : u[p] = cs[j]
  <2>1. n # 0
    OBVIOUS
  <2>2. \E j \in 1..m : Playable(u[j]) /\ IsMp4(u[j]) /\ Is720p(u[j])
    BY <1>8, <1>11, SameKey
  <2> QED
    BY <1>6, <1>9, <2>1, <2>2 DEF Selected
<1>12. DOMAIN cs = 1..n
  BY DEF Ranked
<1>13. \A i, j \in 1..m : i < j => /\ u[i].prio >= u[j].prio
                                  /\ streamKey(u[i]) # streamKey(u[j])
  BY <1>5, <1>6 DEF Selected
<1>14. n # 0 => p \in 1..m
  BY <1>9
<1>15. \A x \in 1..n : n # 0
  OBVIOUS
<1> DEFINE offered == {cs[i] : i \in DOMAIN cs}
           play == {c \in offered : Playable(c)}
           mp4 == {c \in play : IsMp4(c)}
           hd == {c \in mp4 : Is720p(c)}
<1>16. offered # {} => p \in DOMAIN u
  BY <1>5, <1>12, <1>14, <1>15
<1>17. play # {} => Playable(u[p])
  BY <1>7, <1>12, <1>14, <1>15
<1>18. mp4 # {} => IsMp4(u[p])
  BY <1>8, <1>12, <1>14, <1>15
<1>19. hd # {} => u[p] \in hd
  BY <1>11, <1>12
<1>20. \A c \in mp4 : \E i \in DOMAIN u : Playable(u[i]) /\ streamKey(u[i]) = streamKey(c)
  <2> TAKE c \in mp4
  <2>1. PICK x \in 1..n : c = cs[x] /\ Playable(cs[x]) /\ IsMp4(cs[x])
    BY <1>12
  <2>2. \E i \in 1..m : Playable(u[i]) /\ streamKey(u[i]) = streamKey(cs[x])
    BY <1>8, <2>1
  <2> QED
    BY <1>5, <2>1, <2>2
<1>21. \A i, j \in DOMAIN u : i < j => /\ u[i].prio >= u[j].prio
                                      /\ streamKey(u[i]) # streamKey(u[j])
  BY <1>5, <1>13
<1>22. WellServed(cs)
  <2> HIDE DEF offered
  <2> QED
    BY <1>10, <1>16, <1>17, <1>18, <1>19, <1>20, <1>21, Zenon DEF WellServed, offered
<1>23. \A i \in DOMAIN u : \E j \in 1..n : u[i] = cs[j]
  BY <1>6 DEF Selected
<1> QED
  BY <1>10, <1>22, <1>23

\* The candidates that the providers make.
IsCand(c) ==
    /\ c = [url |-> c.url, container |-> c.container, quality |-> c.quality,
            direct |-> c.direct, playable |-> c.playable, prio |-> c.prio]
    /\ c.url \in Url /\ c.prio \in Int

LEMMA SeqIs ==
    ASSUME NEW T, NEW s \in Seq(T)
    PROVE  Len(s) \in Nat /\ DOMAIN s = 1..Len(s) /\ \A i \in 1..Len(s) : s[i] \in T
OBVIOUS

\* otakudesu: a direct link, and only a direct link, has a hundred or more.
LEMMA OtakuRanked ==
    ASSUME NEW page \in OtakuPages
    PROVE  /\ Ranked(otakudesuCandidates(page), Len(page))
           /\ \A i \in 1..Len(page) : IsCand(otakudesuCandidates(page)[i])
<1> DEFINE cs == otakudesuCandidates(page)
           n == Len(page)
<1>1. n \in Nat /\ DOMAIN page = 1..n /\ \A i \in 1..n : page[i] \in OtakuLink
  BY PagesAssumption, SeqIs
<1> HIDE DEF n
<1>2. ASSUME NEW i \in 1..n
      PROVE  /\ streamPriority(page[i]) \in Int
             /\ streamPriority(page[i]) >= 100 <=> isDirect(page[i])
  <2> DEFINE q == CASE page[i].num = 720 -> 40 [] page[i].num = 480 -> 35
                    [] page[i].num = 1080 -> 30 [] page[i].num = 360 -> 20 [] OTHER -> 10
  <2>1. q \in 10..40
    OBVIOUS
  <2>2. streamPriority(page[i]) = (IF isDirect(page[i]) THEN 100 ELSE 0)
          + (IF containerFrom(page[i]) = "mp4" THEN 50 ELSE 0) + q
    BY DEF streamPriority
  <2> HIDE DEF q
  <2> QED
    BY <2>1, <2>2
<1>3. DOMAIN cs = 1..n /\ \A i \in 1..n : cs[i] =
        [url |-> page[i].url, container |-> containerFrom(page[i]),
         quality |-> <<page[i].text, page[i].num>>,
         direct |-> isDirect(page[i]), playable |-> isDirect(page[i]),
         prio |-> streamPriority(page[i])]
  BY <1>1 DEF otakudesuCandidates
<1> HIDE DEF cs
<1>4. \A i \in 1..n : cs[i].prio = streamPriority(page[i])
                      /\ (Playable(cs[i]) <=> isDirect(page[i]))
  BY <1>3 DEF Playable
<1>5. ASSUME NEW i \in 1..n PROVE IsCand(cs[i])
  BY <1>1, <1>2, <1>3 DEF IsCand, OtakuLink
<1>6. \A i \in 1..n : cs[i].prio \in Int
  BY <1>2, <1>4
<1>7. ASSUME NEW i \in 1..n, NEW j \in 1..n, cs[i].prio >= cs[j].prio, Playable(cs[j])
      PROVE  Playable(cs[i])
  <2>1. cs[j].prio >= 100 /\ cs[i].prio \in Int /\ cs[j].prio \in Int
    BY <1>2, <1>4, <1>6, <1>7
  <2>2. cs[i].prio >= 100
    BY <1>7, <2>1
  <2> QED
    BY <1>2, <1>4, <2>2
<1>8. Ranked(cs, n)
  BY <1>3, <1>6, <1>7 DEF Ranked
<1> QED
  BY <1>5, <1>8 DEF cs, n

\* kuramanime: every source is a direct mp4.
KuraStream(u, num, d, k) ==
    [url |-> u, container |-> "mp4", quality |-> <<"", num>>,
     direct |-> d, playable |-> d, prio |-> k]

LEMMA SourceCand ==
    ASSUME NEW u \in Url, NEW num \in Nat, NEW k \in Int, NEW d
    PROVE  /\ IsCand(KuraStream(u, num, d, k)) /\ KuraStream(u, num, d, k).quality[2] \in Int
           /\ KuraStream(u, num, d, k).direct = d /\ KuraStream(u, num, d, k).playable = d
<1> DEFINE c == KuraStream(u, num, d, k)
<1>1. /\ c.url = u /\ c.prio = k /\ c.quality[2] = num
      /\ c.direct = d /\ c.playable = d
  BY DEF KuraStream
<1>2. c = [url |-> c.url, container |-> c.container, quality |-> c.quality,
           direct |-> c.direct, playable |-> c.playable, prio |-> c.prio]
  BY DEF KuraStream
<1> HIDE DEF c
<1>3. c.quality[2] \in Int
  BY <1>1
<1>4. IsCand(c)
  BY <1>1, <1>2, Zenon DEF IsCand
<1> QED
  BY <1>1, <1>3, <1>4, Zenon DEF c

LEMMA KuraRanked ==
    ASSUME NEW page \in KuraPages
    PROVE  \E m \in Nat : /\ Ranked(ExtractStreamCandidates(page), m)
                         /\ \A i \in 1..m : IsCand(ExtractStreamCandidates(page)[i])
<1> DEFINE yes == TRUE
           n == Len(page)
           made == [i \in DOMAIN page |->
                      [url |-> page[i].url, container |-> "mp4",
                       quality |-> <<"", page[i].num>>, direct |-> yes,
                       playable |-> yes, prio |-> kuramanimePriority(page[i].num)]]
           sorted == SortByPriority(made)
           key == [i \in DOMAIN sorted |-> <<sorted[i].quality, sorted[i].url>>]
           unique == Dedupe(sorted, key)
           num == [i \in DOMAIN unique |-> unique[i].quality[2]]
           cs == SortDesc(unique, num)
           Good(c) == IsCand(c) /\ c.quality[2] \in Int /\ Playable(c)
<1>1. n \in Nat /\ DOMAIN page = 1..n /\ \A i \in 1..n : page[i] \in KuraSource
  BY PagesAssumption, SeqIs
<1>2. ExtractStreamCandidates(page) = cs
  BY DEF ExtractStreamCandidates
<1>14. yes
  OBVIOUS
<1> HIDE DEF n, yes
<1>3. DOMAIN made = 1..n /\ \A i \in 1..n : Good(made[i])
  <2>1. DOMAIN made = 1..n
    BY <1>1
  <2>2. ASSUME NEW i \in 1..n PROVE Good(made[i])
    <3>1. made[i] = KuraStream(page[i].url, page[i].num, yes, kuramanimePriority(page[i].num))
      BY <1>1 DEF KuraStream
    <3> HIDE DEF made
    <3>2. page[i].url \in Url /\ page[i].num \in Nat
      BY <1>1 DEF KuraSource
    <3>4. kuramanimePriority(page[i].num) \in Int
      BY DEF kuramanimePriority
    <3>3. /\ IsCand(made[i]) /\ made[i].quality[2] \in Int
          /\ made[i].direct = yes /\ made[i].playable = yes
      BY <3>1, <3>2, <3>4, SourceCand
    <3> QED
      BY <1>14, <3>3, Zenon DEF Playable
  <2> QED
    BY <2>1, <2>2
<1>4. \A c : Good(c) => c.prio \in Int /\ c.quality[2] \in Int
  BY DEF IsCand
<1> HIDE DEF made, Good
<1>5. DOMAIN sorted = 1..n /\ \A i \in 1..n : Good(sorted[i])
  <2>1. PICK at : SortsByPriority(made, n, sorted, at)
    BY <1>1, <1>3, <1>4, ByPriority
  <2> QED
    BY <1>3, <2>1 DEF SortsByPriority
<1>6. DOMAIN key = 1..n
  BY <1>5
<1> HIDE DEF sorted, key
<1>7. PICK m, to : Dedupes(sorted, key, n, unique, m, to)
  BY <1>1, <1>5, <1>6, DedupeIs
<1>8. m \in Nat /\ DOMAIN unique = 1..m /\ \A i \in 1..m : Good(unique[i])
  BY <1>5, <1>7 DEF Dedupes
<1> HIDE DEF unique
<1>9. \A i \in 1..m : num[i] \in Int
  BY <1>4, <1>8
<1> HIDE DEF num
<1>10. PICK up : Sorts(unique, num, m, cs, up)
  BY <1>8, <1>9, SortDescIs
<1> HIDE DEF cs
<1>11. DOMAIN cs = 1..m /\ \A i \in 1..m : Good(cs[i])
  BY <1>8, <1>10 DEF Sorts
<1>12. \A i \in 1..m : IsCand(cs[i]) /\ Playable(cs[i])
  BY <1>11 DEF Good
<1>13. Ranked(cs, m)
  BY <1>4, <1>11, <1>12 DEF Ranked
<1> QED
  BY <1>2, <1>8, <1>12, <1>13

\* On a page of any length of either provider, and whatever the priorities of
\* its links, deduplication and the filters hide nothing that can be played
\* and the best playable stream is preferred.
THEOREM PagesWellServed == Spec => []SelectionRight
<1>1. ASSUME NEW page \in OtakuPages PROVE WellServed(otakudesuCandidates(page))
  <2>1. Len(page) \in Nat
    BY PagesAssumption
  <2> QED
    BY <2>1, OtakuRanked, RankedServed
<1>2. ASSUME NEW page \in KuraPages PROVE WellServed(ExtractStreamCandidates(page))
  BY KuraRanked, RankedServed
<1>3. EveryPageServed
  BY <1>1, <1>2 DEF EveryPageServed
<1>4. SelectionRight
  BY <1>3 DEF SelectionRight
<1> QED
  BY <1>4, PTL

\* Signing a candidate changes nothing but the end of its link.
LEMMA SignedCand ==
    ASSUME NEW c, IsCand(c), NEW x \in Nat, NEW d, d = [c EXCEPT !.url.exp = x]
    PROVE  /\ d.prio = c.prio /\ d.direct = c.direct /\ d.playable = c.playable
           /\ d.url.exp = x /\ d.url.local = c.url.local
<1>1. c.url = [file |-> c.url.file, exp |-> c.url.exp, local |-> c.url.local]
  BY PagesAssumption DEF IsCand
<1> QED
  BY <1>1 DEF IsCand

\* The selection takes its candidates from the offer: their links keep the
\* time their signature ends, and none is a link of this server.
LEMMA AnswersUpstream ==
    ASSUME NEW e \in Episode, NEW result \in Answers(e), NEW i \in DOMAIN result.cands
    PROVE  result.cands[i].url.exp \in Nat /\ ~result.cands[i].url.local
<1>1. PICK t \in 0..MaxTime, offer \in Offer[e] : result = resolved(SignedAt(t, offer))
  BY DEF Answers, Answer
<1>2. PICK m \in Nat : Ranked(offer, m) /\ \A j \in 1..m : IsCand(offer[j])
  <2>1. CASE \E page \in OtakuPages : offer = otakudesuCandidates(page)
    <3>1. PICK page \in OtakuPages : offer = otakudesuCandidates(page)
      BY <2>1
    <3>2. Len(page) \in Nat
      BY PagesAssumption, SeqIs
    <3> QED
      BY <3>1, <3>2, OtakuRanked
  <2>2. CASE \E page \in KuraPages : offer = ExtractStreamCandidates(page)
    BY <2>2, KuraRanked
  <2> QED
    BY <2>1, <2>2, OfferAssumption
<1> DEFINE cs == SignedAt(t, offer)
           end(j) == IF offer[j].url.exp = 0 THEN 0 ELSE t + offer[j].url.exp
<1>3. DOMAIN cs = 1..m /\ \A j \in 1..m : cs[j] = [offer[j] EXCEPT !.url.exp = end(j)]
  BY <1>2 DEF SignedAt, Ranked
<1>4. \A j \in 1..m : offer[j].url.exp \in Nat /\ ~offer[j].url.local
  BY <1>2, PagesAssumption DEF IsCand
<1>5. \A j \in 1..m : end(j) \in Nat
  BY <1>4, ClockAssumption
<1> HIDE DEF cs, end
<1>6. ASSUME NEW j \in 1..m
      PROVE  /\ cs[j].prio = offer[j].prio /\ cs[j].direct = offer[j].direct
             /\ cs[j].playable = offer[j].playable
             /\ cs[j].url.exp = end(j) /\ cs[j].url.local = offer[j].url.local
  BY <1>2, <1>3, <1>5, SignedCand
<1>7. Ranked(cs, m)
  BY <1>2, <1>3, <1>6 DEF Ranked, Playable
<1>8. PICK j \in 1..m : result.cands[i] = cs[j]
  BY <1>1, <1>7, RankedServed DEF cs
<1> QED
  BY <1>4, <1>5, <1>6, <1>8
---------------------------------------------------------------------------
(***************************************************************************)
(* The clock and the signatures.                                           *)
(***************************************************************************)
\* resultExpiresAt is the margin before the first signature ends.
LEMMA ExpiresAt ==
    ASSUME NEW e \in Episode, NEW result \in Answers(e), Signed(result) # {}
    PROVE  /\ resultExpiresAt(result) \in Int
           /\ \A i \in Signed(result) : resultExpiresAt(result) <= result.cands[i].url.exp - Margin
<1> DEFINE S == {result.cands[i].url.exp : i \in Signed(result)}
<1>1. \A i \in Signed(result) : result.cands[i].url.exp \in Nat
  BY AnswersUpstream DEF Signed
<1>2. S \in SUBSET Nat /\ S # {}
  BY <1>1
<1>3. Min(S) \in S /\ \A y \in S : Min(S) <= y
  BY <1>2, MinIs, Zenon
<1>4. resultExpiresAt(result) = Min(S) - Margin
  BY DEF resultExpiresAt
<1>5. Min(S) \in Nat /\ \A i \in Signed(result) : Min(S) <= result.cands[i].url.exp
  BY <1>2, <1>3
<1> HIDE DEF S
<1> QED
  BY <1>1, <1>4, <1>5, ClockAssumption

\* A result is kept for a positive time.
LEMMA KeptAWhile ==
    ASSUME NEW e \in Episode, NEW result \in Answers(e), NEW at \in Nat
    PROVE  streamMemoryTTL(at, result) \in Nat \ {0}
<1>1. CASE Signed(result) = {}
  BY <1>1, ClockAssumption DEF streamMemoryTTL
<1>2. CASE Signed(result) # {}
  BY <1>2, ExpiresAt, ClockAssumption DEF streamMemoryTTL
<1> QED
  BY <1>1, <1>2

\* What has not expired now had not expired before.
LEMMA UnexpiredBefore ==
    ASSUME NEW e \in Episode, NEW result \in Answers(e), NEW t \in Nat, NEW at \in Nat,
           at <= t, ~resultIsExpired(t, result)
    PROVE  ~resultIsExpired(at, result)
<1>1. CASE Signed(result) = {}
  BY <1>1 DEF resultIsExpired
<1>2. CASE Signed(result) # {}
  BY <1>2, ExpiresAt DEF resultIsExpired
<1> QED
  BY <1>1, <1>2

\* The margin covers a call: a result unexpired when it began still works.
LEMMA MarginCovers ==
    ASSUME NEW e \in Episode, NEW result \in Answers(e), NEW t \in Nat, NEW at \in Nat,
           t - at <= Margin, ~resultIsExpired(at, result), NEW i \in DOMAIN result.cands
    PROVE  result.cands[i].url.exp = 0 \/ t < result.cands[i].url.exp
<1>1. CASE i \notin Signed(result)
  BY <1>1 DEF Signed
<1>2. CASE i \in Signed(result)
  <2>1. ~(resultExpiresAt(result) <= at)
    BY <1>2 DEF resultIsExpired
  <2>2. resultExpiresAt(result) \in Int
        /\ resultExpiresAt(result) <= result.cands[i].url.exp - Margin
    BY <1>2, ExpiresAt
  <2>3. result.cands[i].url.exp \in Nat
    BY AnswersUpstream
  <2> QED
    BY <2>1, <2>2, <2>3, ClockAssumption
<1> QED
  BY <1>1, <1>2
---------------------------------------------------------------------------
(***************************************************************************)
(* A step of one call.                                                     *)
(***************************************************************************)
OthersWait(p) ==
    call' \in [Caller -> CallT] /\ \A q \in Caller \ {p} : call'[q] = call[q]
Moved(p, label, result, cached) ==
    /\ OthersWait(p)
    /\ call'[p].pc = label /\ call'[p].e = call[p].e /\ call'[p].at = call[p].at
    /\ call'[p].res = result /\ call'[p].cached = cached

LEMMA CallTyped ==
    ASSUME StreamInv, NEW p \in Caller
    PROVE  /\ call[p] \in CallT /\ call[p].e \in Episode /\ call[p].at \in Nat
           /\ call[p].res \in Results /\ call[p].cached \in BOOLEAN
           /\ now \in Nat /\ CallOk(call[p]) /\ CallFresh(call[p])
<1>1. call[p] \in CallT /\ now \in 0..MaxTime /\ CallOk(call[p]) /\ CallFresh(call[p])
  BY DEF StreamInv, StreamTypes, CallsOk, CallsFresh
<1> QED
  BY <1>1, ClockAssumption DEF CallT

LEMMA GotoMoves ==
    ASSUME StreamInv, NEW p \in Caller, NEW label \in Labels, Goto(p, label)
    PROVE  Moved(p, label, call[p].res, call[p].cached)
<1>1. call \in [Caller -> CallT] /\ call' = [call EXCEPT ![p].pc = label]
  BY DEF StreamInv, StreamTypes, Goto
<1>2. call[p] \in CallT
  BY <1>1
<1>3. [call[p] EXCEPT !.pc = label] \in CallT
  BY <1>2 DEF CallT
<1>4. call' \in [Caller -> CallT] /\ call'[p] = [call[p] EXCEPT !.pc = label]
      /\ \A q \in Caller \ {p} : call'[q] = call[q]
  BY <1>1, <1>3
<1> QED
  BY <1>2, <1>4 DEF Moved, OthersWait, CallT

LEMMA GotoWithMoves ==
    ASSUME StreamInv, NEW p \in Caller, NEW label \in Labels,
           NEW result \in Results, NEW cached \in BOOLEAN, GotoWith(p, label, result, cached)
    PROVE  Moved(p, label, result, cached)
<1> DEFINE c == [call[p] EXCEPT !.pc = label, !.res = result, !.cached = cached]
<1>1. call \in [Caller -> CallT]
      /\ call' = [call EXCEPT ![p].pc = label, ![p].res = result, ![p].cached = cached]
  BY DEF StreamInv, StreamTypes, GotoWith
<1>2. call[p] \in CallT
  BY <1>1
<1>3. c \in CallT /\ c.pc = label /\ c.e = call[p].e /\ c.at = call[p].at
      /\ c.res = result /\ c.cached = cached
  BY <1>2 DEF CallT
<1>4. call'[p] = c /\ DOMAIN call' = Caller /\ call' = [q \in Caller |-> call'[q]]
      /\ \A q \in Caller \ {p} : call'[q] = call[q]
  BY <1>1, <1>2
<1> HIDE DEF c
<1>5. call' \in [Caller -> CallT] /\ call'[p] = c
      /\ \A q \in Caller \ {p} : call'[q] = call[q]
  BY <1>1, <1>3, <1>4
<1> QED
  BY <1>3, <1>5 DEF Moved, OthersWait

LEMMA SignedNow ==
    ASSUME NEW e \in Episode, NEW t \in 0..MaxTime, NEW from \in 0..t
    PROVE  Answer[e][t] \subseteq SignedBetween(e, from, t)
BY DEF SignedBetween

LEMMA SignedLater ==
    ASSUME NEW e, NEW t \in Int, NEW from \in Int
    PROVE  SignedBetween(e, from, t) \subseteq SignedBetween(e, from, t + 1)
BY DEF SignedBetween

\* A step of a call disturbs no other episode, so whoever is alone stays alone.
MemAside(p) == \A x \in Episode \ {call[p].e} :
    (x \in DOMAIN mem' <=> x \in DOMAIN mem) /\ (x \in DOMAIN mem => mem'[x].res = mem[x].res)

LEMMA AloneKept ==
    ASSUME StreamInv, NEW p \in Caller, InCall(p), NEW label, NEW result, NEW cached,
           Moved(p, label, result, cached), UNCHANGED alone, MemAside(p),
           label = "delete" => call[p].e \notin DOMAIN mem',
           label = "upsert" => (call[p].e \in DOMAIN mem' => mem'[call[p].e].res = result)
    PROVE  AlonesOk'
<1> SUFFICES ASSUME NEW q \in Caller, Alone(q)'
             PROVE  /\ \A r \in Caller \ {q} : InCall(r)' => call'[r].e # call'[q].e
                    /\ Settled(q)'
  BY DEF AlonesOk, AloneOk
<1>1. call'[q].e = call[q].e /\ call[q].e \in Episode
  BY CallTyped DEF Moved, OthersWait
<1>2. Alone(q)
  BY <1>1 DEF Moved, OthersWait, Alone, InCall
<1>3. AloneOk(q) /\ \A r \in Caller \ {q} : InCall(r) => call[r].e # call[q].e
  BY <1>2 DEF StreamInv, AlonesOk, AloneOk
<1>4. ASSUME NEW r \in Caller \ {q}, InCall(r)' PROVE call'[r].e # call'[q].e
  BY <1>1, <1>3, <1>4 DEF Moved, OthersWait, InCall
<1>5. CASE q = p
  BY <1>1, <1>4, <1>5 DEF Moved, Settled
<1>6. CASE q # p
  <2>1. call[p].e # call[q].e /\ call'[q] = call[q]
    BY <1>3, <1>6 DEF Moved, OthersWait
  <2>2. Settled(q)
    BY <1>2, <1>3 DEF AloneOk
  <2>3. Settled(q)'
    BY <1>1, <2>1, <2>2 DEF Settled, MemAside
  <2> QED
    BY <1>4, <2>3
<1> QED
  BY <1>5, <1>6

\* So does a handler that begins no call.
LEMMA AloneIdle ==
    ASSUME StreamInv, NEW p \in Caller, OthersWait(p), ~InCall(p)', UNCHANGED mem,
           \A x \in Episode : alone'[x] \subseteq alone[x]
    PROVE  AlonesOk'
<1> SUFFICES ASSUME NEW q \in Caller, Alone(q)'
             PROVE  /\ \A r \in Caller \ {q} : InCall(r)' => call'[r].e # call'[q].e
                    /\ Settled(q)'
  BY DEF AlonesOk, AloneOk
<1>1. q # p /\ call'[q] = call[q] /\ call[q].e \in Episode
  BY CallTyped DEF OthersWait, Alone
<1>2. Alone(q)
  BY <1>1 DEF Alone, InCall
<1>3. Settled(q) /\ \A r \in Caller \ {q} : InCall(r) => call[r].e # call[q].e
  BY <1>2 DEF StreamInv, AlonesOk, AloneOk
<1> QED
  BY <1>1, <1>3 DEF OthersWait, InCall, Settled

\* What is left to show of a step that leaves the clock and the history alone.
LEMMA CallStep ==
    ASSUME StreamInv, NEW p \in Caller, OthersWait(p), UNCHANGED <<now, since>>,
           alone' \in [Episode -> SUBSET Caller], AlonesOk',
           CallOk(call[p])', CallFresh(call[p])',
           MemOk(mem)', MemFresh', RowOk(row)', RowFresh'
    PROVE  StreamInv'
<1>1. StreamTypes'
  BY DEF StreamInv, StreamTypes, OthersWait
<1>2. CallsOk'
  <2> SUFFICES ASSUME NEW q \in Caller PROVE CallOk(call[q])'
    BY DEF CallsOk
  <2>1. CASE q = p
    BY <2>1
  <2>2. CASE q # p
    BY <2>2, CallTyped DEF CallOk, OthersWait
  <2> QED
    BY <2>1, <2>2
<1>3. CallsFresh'
  <2> SUFFICES ASSUME NEW q \in Caller PROVE CallFresh(call[q])'
    BY DEF CallsFresh
  <2>1. CASE q = p
    BY <2>1
  <2>2. CASE q # p
    BY <2>2, CallTyped DEF CallFresh, Fresh, OthersWait
  <2> QED
    BY <2>1, <2>2
<1> QED
  BY <1>1, <1>2, <1>3 DEF StreamInv

\* A step of the call alone.
LEMMA CallStepAlone ==
    ASSUME StreamInv, NEW p \in Caller, OthersWait(p), UNCHANGED <<now, since, mem, row>>,
           alone' \in [Episode -> SUBSET Caller], AlonesOk',
           CallOk(call[p])', CallFresh(call[p])'
    PROVE  StreamInv'
<1>1. MemOk(mem)' /\ RowOk(row)'
  BY DEF StreamInv, MemOk, RowOk, EntryOk
<1>2. MemFresh' /\ RowFresh'
  BY DEF StreamInv, MemFresh, RowFresh, Fresh
<1> QED
  BY <1>1, <1>2, CallStep

\* The step of a call within the service: the history stays as it is.
LEMMA MovedStep ==
    ASSUME StreamInv, NEW p \in Caller, InCall(p), NEW label, NEW result, NEW cached,
           Moved(p, label, result, cached), UNCHANGED <<now, history>>, MemAside(p),
           label = "delete" => call[p].e \notin DOMAIN mem',
           label = "upsert" => (call[p].e \in DOMAIN mem' => mem'[call[p].e].res = result),
           CallOk(call[p])', CallFresh(call[p])',
           MemOk(mem)', MemFresh', RowOk(row)', RowFresh'
    PROVE  StreamInv'
<1>1. UNCHANGED <<since, alone>>
  BY DEF history
<1>2. alone' \in [Episode -> SUBSET Caller]
  BY <1>1 DEF StreamInv, StreamTypes
<1>3. AlonesOk'
  BY <1>1, AloneKept
<1> QED
  BY <1>1, <1>2, <1>3, CallStep DEF Moved

LEMMA MovedAlone ==
    ASSUME StreamInv, NEW p \in Caller, InCall(p), NEW label \in Labels \ {"delete", "upsert"},
           NEW result, NEW cached, Moved(p, label, result, cached),
           UNCHANGED <<now, mem, row, history>>, CallOk(call[p])', CallFresh(call[p])'
    PROVE  StreamInv'
<1>1. UNCHANGED <<since, alone>>
  BY DEF history
<1>2. alone' \in [Episode -> SUBSET Caller] /\ MemAside(p)
  BY <1>1 DEF StreamInv, StreamTypes, MemAside
<1>3. AlonesOk'
  BY <1>1, <1>2, AloneKept
<1> QED
  BY <1>1, <1>2, <1>3, CallStepAlone DEF Moved

\* Emptying a place of a cache.
LEMMA WithoutKeeps ==
    ASSUME StreamInv, NEW e
    PROVE  /\ MemOk(Without(mem, e)) /\ RowOk(Without(row, e))
           /\ \A x \in DOMAIN Without(mem, e) : Fresh(x, Without(mem, e)[x].res)
           /\ \A x \in DOMAIN Without(row, e) : Fresh(x, Without(row, e)[x])
<1>1. MemOk(Without(mem, e)) /\ RowOk(Without(row, e))
  BY DEF StreamInv, MemOk, RowOk, Without
<1> QED
  BY <1>1 DEF StreamInv, MemFresh, RowFresh, Without

\* Filling one: a result of the episode, signed since its last renewal.
LEMMA CachedKeeps ==
    ASSUME StreamInv, NEW e \in Episode, NEW at \in Nat, NEW result \in Answers(e),
           Fresh(e, result), UNCHANGED <<now, since>>, mem' = Cached(e, at, result)
    PROVE  /\ MemOk(mem)' /\ MemFresh' /\ e \in DOMAIN mem' /\ mem'[e].res = result
           /\ \A x \in Episode \ {e} : (x \in DOMAIN mem' <=> x \in DOMAIN mem)
                                    /\ (x \in DOMAIN mem => mem'[x].res = mem[x].res)
<1> DEFINE t == streamMemoryTTL(at, result)
           entry == [res |-> result, ttl |-> t, left |-> t]
<1>1. t \in Nat \ {0}
  BY KeptAWhile
<1>2. result \in Base
  BY DEF Base
<1>3. EntryOk(e, entry) /\ entry.res = result
  <2> HIDE DEF t
  <2> QED BY <1>1, <1>2 DEF EntryOk, EntryT
<1>4. mem' = Store(mem, e, entry)
  BY DEF Cached
<1> HIDE DEF entry
<1>5. DOMAIN mem' = DOMAIN mem \cup {e} /\ mem'[e] = entry
      /\ \A x \in DOMAIN mem \ {e} : mem'[x] = mem[x]
  BY <1>4 DEF Store
<1>6. MemOk(mem)'
  BY <1>3, <1>5 DEF StreamInv, MemOk
<1>7. MemFresh'
  BY <1>3, <1>5 DEF StreamInv, MemFresh, Fresh
<1> QED
  BY <1>3, <1>5, <1>6, <1>7

LEMMA RowStoreKeeps ==
    ASSUME StreamInv, NEW e \in Episode, NEW result \in Answers(e),
           Fresh(e, result), UNCHANGED <<now, since>>, row' = Store(row, e, result)
    PROVE  RowOk(row)' /\ RowFresh'
<1>1. DOMAIN row' = DOMAIN row \cup {e} /\ row'[e] = result
      /\ \A x \in DOMAIN row \ {e} : row'[x] = row[x]
  BY DEF Store
<1>2. RowOk(row)'
  BY <1>1 DEF StreamInv, RowOk
<1>3. RowFresh'
  BY <1>1 DEF StreamInv, RowFresh, Fresh
<1> QED
  BY <1>2, <1>3
---------------------------------------------------------------------------
(***************************************************************************)
(* The steps of the service.                                               *)
(***************************************************************************)
LEMMA GetMemoryKeeps == ASSUME StreamInv, NEW p \in Caller, GetMemory(p) PROVE StreamInv'
<1> DEFINE e == call[p].e
<1>1. call[p].pc = "mem" /\ UNCHANGED <<now, row, since>>
      /\ UNCHANGED history /\ InCall(p)
  BY DEF GetMemory, At, history, InCall, Labels
<1>2. CallOk(call[p]) /\ now \in Nat /\ call[p].at \in Nat
  BY CallTyped
<1>3. CASE e \notin DOMAIN mem
  <2>1. Moved(p, "row", call[p].res, call[p].cached) /\ UNCHANGED mem
    BY <1>3, GotoMoves DEF GetMemory, Labels
  <2>2. CallOk(call[p])' /\ CallFresh(call[p])'
    BY <1>1, <1>2, <2>1 DEF Moved, CallOk, CallFresh
  <2> QED
    BY <1>1, <2>1, <2>2, MovedAlone DEF Labels
<1>4. CASE e \in DOMAIN mem
  <2>1. mem' = Touched(e)
    BY <1>4 DEF GetMemory
  <2>2. EntryOk(e, mem[e]) /\ mem[e].res \in Results /\ mem[e].res \in Answers(e)
    BY <1>4 DEF StreamInv, MemOk, EntryOk, EntryT, Results
  <2>3. /\ DOMAIN mem' = DOMAIN mem
        /\ \A x \in DOMAIN mem : EntryOk(x, mem'[x]) /\ mem'[x].res = mem[x].res
    <3>1. DOMAIN mem' = DOMAIN mem /\ mem'[e] = [mem[e] EXCEPT !.left = mem[e].ttl]
          /\ \A x \in DOMAIN mem \ {e} : mem'[x] = mem[x]
      BY <1>4, <2>1 DEF Touched
    <3>2. EntryOk(e, mem'[e]) /\ mem'[e].res = mem[e].res
      BY <2>2, <3>1 DEF EntryOk, EntryT
    <3> QED
      BY <3>1, <3>2 DEF StreamInv, MemOk
  <2>4. MemOk(mem)' /\ MemFresh'
    BY <1>1, <2>3 DEF StreamInv, MemOk, MemFresh, Fresh
  <2>8. MemAside(p)
    BY <2>3 DEF MemAside
  <2>5. RowOk(row)' /\ RowFresh'
    BY <1>1 DEF StreamInv, RowOk, RowFresh, Fresh
  <2>6. CASE resultIsExpired(call[p].at, mem[e].res)
    <3>1. Moved(p, "evict", call[p].res, call[p].cached)
      BY <1>4, <2>6, GotoMoves DEF GetMemory, Labels
    <3>2. CallOk(call[p])' /\ CallFresh(call[p])'
      BY <1>1, <1>2, <3>1 DEF Moved, CallOk, CallFresh
    <3> QED
      BY <1>1, <2>4, <2>5, <2>8, <3>1, <3>2, MovedStep
  <2>7. CASE ~resultIsExpired(call[p].at, mem[e].res)
    <3>1. Moved(p, "done", mem[e].res, TRUE)
      BY <1>4, <2>2, <2>7, GotoWithMoves DEF GetMemory, Labels
    <3>2. CallOk(call[p])' /\ CallFresh(call[p])'
      BY <1>1, <1>2, <2>2, <2>7, <3>1 DEF Moved, CallOk, CallFresh
    <3> QED
      BY <1>1, <2>4, <2>5, <2>8, <3>1, <3>2, MovedStep
  <2> QED
    BY <2>6, <2>7
<1> QED
  BY <1>3, <1>4

\* Emptying the memory: after an expired hit, or for Invalidate.
LEMMA ForgetKeeps ==
    ASSUME StreamInv, NEW p \in Caller, NEW label \in {"row", "delete"},
           InCall(p), call[p].pc # "none", Goto(p, label),
           mem' = Without(mem, call[p].e), UNCHANGED <<now, row, history>>
    PROVE  StreamInv'
<1>1. Moved(p, label, call[p].res, call[p].cached) /\ UNCHANGED since
  BY GotoMoves DEF Labels, history
<1>2. CallOk(call[p])' /\ CallFresh(call[p])'
  BY <1>1, CallTyped DEF Moved, CallOk, CallFresh
<1>3. MemOk(mem)' /\ MemFresh'
  BY <1>1, WithoutKeeps DEF MemOk, MemFresh, Fresh
<1>4. RowOk(row)' /\ RowFresh'
  BY <1>1 DEF StreamInv, RowOk, RowFresh, Fresh
<1>5. MemAside(p) /\ call[p].e \notin DOMAIN mem'
  BY DEF MemAside, Without
<1>6. label # "upsert"
  OBVIOUS
<1> QED
  BY <1>1, <1>2, <1>3, <1>4, <1>5, <1>6, MovedStep

LEMMA GetStreamCacheKeeps ==
    ASSUME StreamInv, NEW p \in Caller, GetStreamCache(p) PROVE StreamInv'
<1> DEFINE e == call[p].e
<1>1. call[p].pc = "row" /\ UNCHANGED <<now, mem, row, history>>
      /\ UNCHANGED since /\ InCall(p)
  BY DEF GetStreamCache, At, history, InCall, Labels
<1>2. CallOk(call[p]) /\ now \in Nat /\ call[p].at \in Nat /\ call[p].at <= now /\ e \in Episode
  BY CallTyped DEF CallOk
<1>3. ASSUME NEW label \in {"purge", "ask"}, Goto(p, label) PROVE StreamInv'
  <2>1. Moved(p, label, call[p].res, call[p].cached)
    BY <1>3, GotoMoves DEF Labels
  <2>2. CallOk(call[p])' /\ CallFresh(call[p])'
    BY <1>1, <1>2, <2>1 DEF Moved, CallOk, CallFresh
  <2> QED
    BY <1>1, <2>1, <2>2, MovedAlone DEF Labels
<1>4. CASE e \in DOMAIN row /\ ~resultIsExpired(now, row[e]) /\ GotoWith(p, "fill", row[e], TRUE)
  <2>1. row[e] \in Answers(e) /\ row[e] \in Results /\ Fresh(e, row[e])
    BY <1>4 DEF StreamInv, RowOk, RowFresh, Results, Base
  <2>2. Moved(p, "fill", row[e], TRUE)
    BY <1>4, <2>1, GotoWithMoves DEF Labels
  <2>3. ~resultIsExpired(call[p].at, row[e])
    BY <1>2, <1>4, <2>1, UnexpiredBefore
  <2>4. CallOk(call[p])' /\ CallFresh(call[p])'
    BY <1>1, <1>2, <2>1, <2>2, <2>3 DEF Moved, CallOk, CallFresh, Fresh
  <2> QED
    BY <1>1, <2>2, <2>4, MovedAlone DEF Labels
<1> QED
  BY <1>3, <1>4 DEF GetStreamCache

\* The row goes, or the statement fails.
LEMMA DeleteExpiredRowKeeps ==
    ASSUME StreamInv, NEW p \in Caller, DeleteExpiredRow(p) PROVE StreamInv'
<1>1. call[p].pc = "purge" /\ UNCHANGED <<now, mem, history>>
      /\ UNCHANGED since /\ InCall(p)
      /\ (row' = row \/ row' = Without(row, call[p].e))
  BY DEF DeleteExpiredRow, At, history, InCall, Labels
<1>2. Moved(p, "ask", call[p].res, call[p].cached)
  BY GotoMoves DEF DeleteExpiredRow, Labels
<1>3. CallOk(call[p])' /\ CallFresh(call[p])'
  BY <1>1, <1>2, CallTyped DEF Moved, CallOk, CallFresh
<1>4. MemOk(mem)' /\ MemFresh'
  BY <1>1 DEF StreamInv, MemOk, EntryOk, MemFresh, Fresh
<1>5. RowOk(row)' /\ RowFresh'
  BY <1>1, WithoutKeeps DEF StreamInv, RowOk, RowFresh, Fresh
<1>6. MemAside(p)
  BY <1>1 DEF MemAside
<1> QED
  BY <1>1, <1>2, <1>3, <1>4, <1>5, <1>6, MovedStep

LEMMA FillMemoryKeeps == ASSUME StreamInv, NEW p \in Caller, FillMemory(p) PROVE StreamInv'
<1>1. call[p].pc = "fill" /\ UNCHANGED <<now, row, history>>
      /\ UNCHANGED since /\ InCall(p)
      /\ mem' = Cached(call[p].e, call[p].at, call[p].res)
  BY DEF FillMemory, At, history, InCall, Labels
<1>2. Moved(p, "done", call[p].res, call[p].cached)
  BY GotoMoves DEF FillMemory, Labels
<1>3. call[p].e \in Episode /\ call[p].at \in Nat /\ call[p].res \in Answers(call[p].e)
      /\ Fresh(call[p].e, call[p].res)
  BY <1>1, CallTyped DEF CallOk, CallFresh
<1>4. CallOk(call[p])' /\ CallFresh(call[p])'
  BY <1>1, <1>2, CallTyped DEF Moved, CallOk, CallFresh
<1>5. MemOk(mem)' /\ MemFresh' /\ MemAside(p) /\ mem'[call[p].e].res = call[p].res
  BY <1>1, <1>3, CachedKeeps DEF MemAside
<1>6. RowOk(row)' /\ RowFresh'
  BY <1>1 DEF StreamInv, RowOk, RowFresh, Fresh
<1> QED
  BY <1>1, <1>2, <1>4, <1>5, <1>6, MovedStep

LEMMA PersistMemoryKeeps ==
    ASSUME StreamInv, NEW p \in Caller, PersistMemory(p) PROVE StreamInv'
<1>1. call[p].pc = "persist" /\ UNCHANGED <<now, row, history>>
      /\ UNCHANGED since /\ InCall(p)
      /\ mem' = Cached(call[p].e, now, call[p].res)
  BY DEF PersistMemory, At, history, InCall, Labels
<1>2. Moved(p, "upsert", call[p].res, call[p].cached)
  BY GotoMoves DEF PersistMemory, Labels
<1>3. call[p].e \in Episode /\ now \in Nat /\ call[p].res \in Answers(call[p].e)
      /\ Fresh(call[p].e, call[p].res)
  BY <1>1, CallTyped DEF CallOk, CallFresh
<1>4. CallOk(call[p])' /\ CallFresh(call[p])'
  BY <1>1, <1>2, CallTyped DEF Moved, CallOk, CallFresh, Fresh
<1>5. MemOk(mem)' /\ MemFresh' /\ MemAside(p) /\ mem'[call[p].e].res = call[p].res
  BY <1>1, <1>3, CachedKeeps DEF MemAside
<1>6. RowOk(row)' /\ RowFresh'
  BY <1>1 DEF StreamInv, RowOk, RowFresh, Fresh
<1> QED
  BY <1>1, <1>2, <1>4, <1>5, <1>6, MovedStep

\* A statement that went through for a call that is alone: nobody else has the
\* episode in hand, so what is left of it was signed since the call began.
LEMMA RenewedKeeps ==
    ASSUME StreamInv, NEW p \in Caller, Alone(p), NEW label \in {"ask", "done"},
           Moved(p, label, call[p].res, call[p].cached), UNCHANGED <<now, mem, alone>>,
           since' = [since EXCEPT ![call[p].e] = call[p].at],
           RowOk(row)', \A x \in DOMAIN row' \ {call[p].e} : x \in DOMAIN row /\ row'[x] = row[x],
           call[p].e \in DOMAIN row' =>
              row'[call[p].e] \in SignedBetween(call[p].e, call[p].at, now),
           call[p].e \in DOMAIN mem =>
              mem[call[p].e].res \in SignedBetween(call[p].e, call[p].at, now),
           CallOk(call[p])'
    PROVE  StreamInv'
<1> DEFINE e == call[p].e
<1>1. /\ e \in Episode /\ since \in [Episode -> 0..now] /\ now \in 0..MaxTime
      /\ call[p].at \in 0..now
  BY CallTyped DEF StreamInv, StreamTypes, CallOk
<1>2. since' \in [Episode -> 0..now] /\ since'[e] = call[p].at
      /\ \A x \in Episode \ {e} : since'[x] = since[x]
  BY <1>1
<1>3. StreamTypes'
  BY <1>1, <1>2 DEF StreamInv, StreamTypes, Moved, OthersWait
<1>4. MemOk(mem)' /\ MemFresh'
  <2>1. MemOk(mem)'
    BY DEF StreamInv, MemOk, EntryOk
  <2>2. ASSUME NEW x \in DOMAIN mem PROVE mem[x].res \in SignedBetween(x, since'[x], now)
    <3>1. x \in Episode /\ Fresh(x, mem[x].res)
      BY DEF StreamInv, MemOk, MemFresh
    <3> QED
      BY <1>2, <3>1 DEF Fresh
  <2> QED
    BY <2>1, <2>2 DEF MemFresh, Fresh
<1>5. RowFresh'
  <2>1. ASSUME NEW x \in DOMAIN row' PROVE row'[x] \in SignedBetween(x, since'[x], now)
    <3>1. CASE x = e
      BY <1>2, <3>1
    <3>2. CASE x # e
      <4>1. x \in DOMAIN row /\ row'[x] = row[x] /\ x \in Episode /\ Fresh(x, row[x])
        BY <3>2 DEF StreamInv, RowOk, RowFresh
      <4> QED
        BY <1>2, <3>2, <4>1 DEF Fresh
    <3> QED
      BY <3>1, <3>2
  <2> QED
    BY <2>1 DEF RowFresh, Fresh
<1>6. \A q \in Caller \ {p} : InCall(q) => call[q].e # e
  BY DEF StreamInv, AlonesOk, AloneOk
<1>7. ASSUME NEW q \in Caller PROVE CallOk(call[q])' /\ CallFresh(call[q])'
  <2>1. CASE q = p
    BY <2>1 DEF Moved, CallFresh
  <2>2. CASE q # p
    <3>1. call'[q] = call[q] /\ CallOk(call[q]) /\ CallFresh(call[q]) /\ call[q].e \in Episode
      BY <2>2, CallTyped DEF Moved, OthersWait
    <3>2. CallOk(call[q])'
      BY <3>1 DEF CallOk
    <3>3. call[q].pc \in {"fill", "persist", "upsert"} => InCall(q)
      BY DEF InCall, Labels
    <3>4. CallFresh(call[q])'
      BY <1>2, <1>6, <2>2, <3>1, <3>3 DEF CallFresh, Fresh
    <3> QED
      BY <3>2, <3>4
  <2> QED
    BY <2>1, <2>2
<1>8. AlonesOk'
  <2>1. MemAside(p) /\ label # "delete" /\ label # "upsert" /\ InCall(p)
    BY DEF MemAside, Alone
  <2> QED
    BY <2>1, AloneKept
<1> QED
  BY <1>3, <1>4, <1>5, <1>7, <1>8 DEF StreamInv, CallsOk, CallsFresh

LEMMA UpsertKeeps ==
    ASSUME StreamInv, NEW p \in Caller, UpsertStreamCache(p) PROVE StreamInv'
<1> DEFINE e == call[p].e
           signed == SignedBetween(e, call[p].at, now)
<1>1. call[p].pc = "upsert" /\ UNCHANGED <<now, mem>> /\ UNCHANGED alone /\ InCall(p)
      /\ \/ row' = row /\ UNCHANGED history
         \/ row' = Store(row, e, call[p].res) /\ Renewed(p)
  BY DEF UpsertStreamCache, At, Renewed, history, InCall, Labels
<1>2. Moved(p, "done", call[p].res, call[p].cached)
  BY GotoMoves DEF UpsertStreamCache, Labels
<1>3. e \in Episode /\ call[p].res \in Answers(e) /\ Fresh(e, call[p].res)
      /\ call[p].res \in signed
  BY <1>1, CallTyped DEF CallOk, CallFresh
<1>4. CallOk(call[p])' /\ CallFresh(call[p])'
  BY <1>1, <1>2, CallTyped DEF Moved, CallOk, CallFresh
<1>5. MemOk(mem)' /\ MemAside(p)
  BY <1>1 DEF StreamInv, MemOk, EntryOk, MemAside
<1>6. CASE row' = row /\ UNCHANGED history
  <2>1. MemFresh' /\ RowOk(row)' /\ RowFresh'
    BY <1>1, <1>6 DEF StreamInv, MemFresh, RowOk, RowFresh, Fresh, history
  <2> QED
    BY <1>1, <1>2, <1>4, <1>5, <1>6, <2>1, MovedStep
<1>7. CASE row' = Store(row, e, call[p].res) /\ p \notin alone[e] /\ since' = since
  <2>1. MemFresh' /\ RowOk(row)' /\ RowFresh'
    BY <1>1, <1>3, <1>7, RowStoreKeeps DEF StreamInv, MemFresh, Fresh
  <2> QED
    BY <1>1, <1>2, <1>4, <1>5, <1>7, <2>1, MovedStep DEF history
<1>8. CASE /\ row' = Store(row, e, call[p].res) /\ p \in alone[e]
           /\ since' = [since EXCEPT ![e] = call[p].at]
  <2>1. DOMAIN row' = DOMAIN row \cup {e} /\ row'[e] = call[p].res
        /\ \A x \in DOMAIN row \ {e} : row'[x] = row[x]
    BY <1>8 DEF Store
  <2>2. RowOk(row)'
    BY <1>3, <2>1 DEF StreamInv, RowOk
  <2>3. Alone(p)
    BY <1>1, <1>8 DEF Alone
  <2>4. e \in DOMAIN mem => mem[e].res \in signed
    BY <1>1, <1>3, <2>3 DEF StreamInv, AlonesOk, AloneOk, Settled
  <2> HIDE DEF signed
  <2> QED
    BY <1>1, <1>2, <1>3, <1>4, <1>8, <2>1, <2>2, <2>3, <2>4, RenewedKeeps DEF signed
<1> QED
  BY <1>1, <1>6, <1>7, <1>8 DEF Renewed

\* The provider signs its answer now, after the last renewal of the episode.
LEMMA StreamCandidatesKeeps ==
    ASSUME StreamInv, NEW p \in Caller, StreamCandidates(p) PROVE StreamInv'
<1> DEFINE e == call[p].e
<1>1. call[p].pc = "ask" /\ UNCHANGED <<now, mem, row, history>> /\ InCall(p)
      /\ UNCHANGED since
  BY DEF StreamCandidates, At, history, InCall, Labels
<1>2. CallOk(call[p]) /\ now \in 0..MaxTime /\ e \in Episode /\ since[e] \in 0..now
      /\ call[p].at \in 0..now
  BY CallTyped DEF StreamInv, StreamTypes, CallOk
<1>3. CASE Goto(p, "failed")
  <2>1. Moved(p, "failed", call[p].res, call[p].cached)
    BY <1>3, GotoMoves DEF Labels
  <2>2. CallOk(call[p])' /\ CallFresh(call[p])'
    BY <1>1, <1>2, <2>1 DEF Moved, CallOk, CallFresh
  <2> QED
    BY <1>1, <2>1, <2>2, MovedAlone DEF Labels
<1>4. ASSUME NEW result \in Answer[e][now], GotoWith(p, "persist", result, FALSE)
      PROVE  StreamInv'
  <2>1. result \in Answers(e) /\ result \in Results
    BY <1>2 DEF Answers, Base, Results
  <2>2. result \in SignedBetween(e, since[e], now) /\ result \in SignedBetween(e, call[p].at, now)
    BY <1>2, SignedNow
  <2>3. Moved(p, "persist", result, FALSE)
    BY <1>4, <2>1, GotoWithMoves DEF Labels
  <2>4. CallOk(call[p])'
    BY <1>1, <1>2, <2>1, <2>2, <2>3 DEF Moved, CallOk
  <2>5. CallFresh(call[p])'
    BY <1>1, <2>2, <2>3 DEF Moved, CallFresh, Fresh
  <2> QED
    BY <1>1, <2>3, <2>4, <2>5, MovedAlone DEF Labels
<1> QED
  BY <1>3, <1>4 DEF StreamCandidates

\* The row goes as well: of a call that is alone nothing is left.
LEMMA DeleteStreamCacheKeeps ==
    ASSUME StreamInv, NEW p \in Caller, DeleteStreamCache(p) PROVE StreamInv'
<1> DEFINE e == call[p].e
<1>1. call[p].pc = "delete" /\ UNCHANGED <<now, mem>> /\ UNCHANGED alone /\ InCall(p)
      /\ \/ row' = row /\ UNCHANGED history
         \/ row' = Without(row, e) /\ Renewed(p)
  BY DEF DeleteStreamCache, At, Renewed, history, InCall, Labels
<1>2. Moved(p, "ask", call[p].res, call[p].cached)
  BY GotoMoves DEF DeleteStreamCache, Labels
<1>3. CallOk(call[p])' /\ CallFresh(call[p])'
  BY <1>1, <1>2, CallTyped DEF Moved, CallOk, CallFresh
<1>4. MemOk(mem)' /\ MemAside(p) /\ RowOk(row)'
  BY <1>1, WithoutKeeps DEF StreamInv, MemOk, EntryOk, MemAside, RowOk
<1>5. CASE since' = since
  <2>1. MemFresh' /\ RowFresh' /\ UNCHANGED history
    BY <1>1, <1>5, WithoutKeeps DEF StreamInv, MemFresh, RowFresh, Fresh, history
  <2> QED
    BY <1>1, <1>2, <1>3, <1>4, <2>1, MovedStep
<1>6. CASE /\ row' = Without(row, e) /\ p \in alone[e]
           /\ since' = [since EXCEPT ![e] = call[p].at]
  <2>1. e \notin DOMAIN row' /\ \A x \in DOMAIN row' : x \in DOMAIN row /\ row'[x] = row[x]
    BY <1>6 DEF Without
  <2>2. Alone(p)
    BY <1>1, <1>6 DEF Alone
  <2>3. e \notin DOMAIN mem
    BY <1>1, <2>2 DEF StreamInv, AlonesOk, AloneOk, Settled
  <2> QED
    BY <1>1, <1>2, <1>3, <1>4, <1>6, <2>1, <2>2, <2>3, RenewedKeeps
<1> QED
  BY <1>1, <1>5, <1>6 DEF Renewed, history

LEMMA StreamStepKeeps == ASSUME StreamInv, NEW p \in Caller, StreamStep(p) PROVE StreamInv'
<1>1. CASE EvictMemory(p)
  BY <1>1, ForgetKeeps DEF EvictMemory, At, InCall, Labels
<1>2. CASE Invalidate(p)
  BY <1>2, ForgetKeeps DEF Invalidate, At, InCall, Labels
<1> QED
  BY <1>1, <1>2, GetMemoryKeeps, GetStreamCacheKeeps, DeleteExpiredRowKeeps,
     FillMemoryKeeps, StreamCandidatesKeeps, PersistMemoryKeeps, UpsertKeeps,
     DeleteStreamCacheKeeps DEF StreamStep
---------------------------------------------------------------------------
(***************************************************************************)
(* What the handlers do with a call.                                       *)
(***************************************************************************)
LEMMA NoCallTyped ==
    /\ NoCall \in CallT /\ NoCall.pc = "none" /\ NoCall.at = 0 /\ NoCall.res = NoResult
    /\ NoCall.cached = FALSE /\ NoCall.e \in Episode
<1>1. (CHOOSE e \in Episode : TRUE) \in Episode
  BY EpisodeAssumption
<1>2. NoResult \in Results
  BY DEF Results, Base
<1> QED
  BY <1>1, <1>2, ClockAssumption DEF NoCall, CallT, Labels

LEMMA BeginKeeps ==
    ASSUME StreamInv, NEW p \in Caller, NEW e \in Episode, NEW label \in {"mem", "forget"},
           Begin(p, e, label), UNCHANGED <<now, mem, row>>
    PROVE  /\ StreamInv' /\ call'[p].e = e /\ call'[p].pc = label /\ ~call'[p].cached
           /\ \A q \in Caller \ {p} : call'[q] = call[q]
<1> DEFINE c == [NoCall EXCEPT !.pc = label, !.e = e, !.at = now]
<1>1. call \in [Caller -> CallT] /\ now \in 0..MaxTime /\ alone \in [Episode -> SUBSET Caller]
      /\ UNCHANGED since
  BY DEF StreamInv, StreamTypes, Begin
<1>2. c \in CallT /\ c.pc = label /\ c.e = e /\ c.at = now /\ c.cached = FALSE
  BY <1>1, NoCallTyped DEF CallT, Labels
<1>3. call' = [call EXCEPT ![p] = c]
  BY DEF Begin
<1> HIDE DEF c
<1>4. OthersWait(p) /\ call'[p] = c
  BY <1>1, <1>2, <1>3 DEF OthersWait
<1>5. CallOk(call[p])' /\ CallFresh(call[p])'
  BY <1>1, <1>2, <1>4, ClockAssumption DEF CallOk, CallFresh
<1>6. /\ alone' \in [Episode -> SUBSET Caller] /\ alone'[e] \subseteq {p}
      /\ p \in alone'[e] => ~Overlaps(p, e)
      /\ \A x \in Episode \ {e} : alone'[x] = alone[x]
  BY <1>1 DEF Begin
<1>7. AlonesOk'
  <2> SUFFICES ASSUME NEW q \in Caller, Alone(q)'
               PROVE  /\ \A r \in Caller \ {q} : InCall(r)' => call'[r].e # call'[q].e
                      /\ Settled(q)'
    BY DEF AlonesOk, AloneOk
  <2>1. CASE q = p
    <3>1. ~Overlaps(p, e)
      BY <1>2, <1>4, <1>6, <2>1 DEF Alone
    <3>2. \A r \in Caller \ {p} : InCall(r)' => call'[r].e # e
      BY <1>4, <3>1 DEF Overlaps, OthersWait, InCall
    <3>3. Settled(p)'
      BY <1>2, <1>4 DEF Settled
    <3> QED
      BY <1>2, <1>4, <2>1, <3>2, <3>3
  <2>2. CASE q # p
    <3>1. call'[q] = call[q] /\ call[q].e \in Episode
      BY <1>4, <2>2, CallTyped DEF OthersWait
    <3>2. call[q].e # e /\ Alone(q)
      BY <1>6, <2>2, <3>1 DEF Alone, InCall
    <3>3. Settled(q) /\ \A r \in Caller \ {q} : InCall(r) => call[r].e # call[q].e
      BY <3>2 DEF StreamInv, AlonesOk, AloneOk
    <3>4. ASSUME NEW r \in Caller \ {q}, InCall(r)' PROVE call'[r].e # call'[q].e
      BY <1>2, <1>4, <3>1, <3>2, <3>3, <3>4 DEF OthersWait, InCall
    <3> QED
      BY <3>1, <3>3, <3>4 DEF Settled
  <2> QED
    BY <2>1, <2>2
<1> QED
  BY <1>1, <1>2, <1>4, <1>5, <1>6, <1>7, CallStepAlone DEF OthersWait

LEMMA EndKeeps ==
    ASSUME StreamInv, NEW p \in Caller, End(p), UNCHANGED <<now, mem, row>>
    PROVE  /\ StreamInv' /\ call'[p] = NoCall
           /\ \A q \in Caller \ {p} : call'[q] = call[q]
<1>1. call \in [Caller -> CallT] /\ now \in 0..MaxTime /\ alone \in [Episode -> SUBSET Caller]
      /\ call[p].e \in Episode
  BY CallTyped DEF StreamInv, StreamTypes
<1>2. OthersWait(p) /\ call'[p] = NoCall /\ UNCHANGED since
  BY <1>1, NoCallTyped DEF OthersWait, End
<1>3. CallOk(call[p])' /\ CallFresh(call[p])'
  BY <1>1, <1>2, NoCallTyped, ClockAssumption DEF CallOk, CallFresh
<1>4. alone' \in [Episode -> SUBSET Caller] /\ \A x \in Episode : alone'[x] \subseteq alone[x]
  BY <1>1 DEF End
<1>5. AlonesOk'
  BY <1>2, <1>4, NoCallTyped, AloneIdle DEF InCall
<1> QED
  BY <1>2, <1>3, <1>4, <1>5, CallStepAlone DEF OthersWait

\* streamResolve's answer is a copy.
LEMMA RespondKeeps ==
    ASSUME StreamInv, NEW p \in Caller, call[p].pc = "done",
           GotoWith(p, "sent", Proxied(call[p].res), FALSE),
           UNCHANGED <<now, mem, row, history>>
    PROVE  StreamInv' /\ \A q \in Caller \ {p} : call'[q] = call[q]
<1>1. call[p].res \in Answers(call[p].e) /\ call[p].e \in Episode
  BY CallTyped DEF CallOk
<1>2. Proxied(call[p].res) \in Results
  BY <1>1 DEF Results, Base
<1>3. Moved(p, "sent", Proxied(call[p].res), FALSE) /\ UNCHANGED <<since, alone>>
  BY <1>2, GotoWithMoves DEF Labels, history
<1>4. CallOk(call[p])' /\ CallFresh(call[p])'
  BY <1>3, CallTyped DEF Moved, CallOk, CallFresh
<1>5. alone' \in [Episode -> SUBSET Caller] /\ AlonesOk'
  BY <1>3, AloneIdle DEF StreamInv, StreamTypes, Moved, InCall
<1> QED
  BY <1>3, <1>4, <1>5, CallStepAlone DEF Moved, OthersWait
---------------------------------------------------------------------------
LEMMA StreamInitInv == ASSUME StreamInit PROVE StreamInv
<1>1. now = 0 /\ mem = << >> /\ row = << >> /\ call = [p \in Caller |-> NoCall]
      /\ since = [e \in Episode |-> 0] /\ alone = [e \in Episode |-> {}]
  BY DEF StreamInit
<1>2. StreamTypes
  BY <1>1, NoCallTyped, ClockAssumption DEF StreamTypes
<1>3. MemOk(mem) /\ RowOk(row) /\ MemFresh /\ RowFresh
  BY <1>1 DEF MemOk, RowOk, MemFresh, RowFresh
<1>4. CallsOk /\ CallsFresh
  BY <1>1, NoCallTyped DEF CallsOk, CallsFresh, CallOk, CallFresh
<1>5. AlonesOk
  BY <1>1, NoCallTyped DEF AlonesOk, AloneOk, Alone, InCall
<1> QED
  BY <1>2, <1>3, <1>4, <1>5 DEF StreamInv

LEMMA RestartKeeps == ASSUME StreamInv, StreamRestart PROVE StreamInv'
<1>1. mem' = << >> /\ call' = [p \in Caller |-> NoCall] /\ UNCHANGED <<since, row, now>>
      /\ alone' = [e \in Episode |-> {}]
  BY DEF StreamRestart
<1>2. StreamTypes'
  BY <1>1, NoCallTyped DEF StreamInv, StreamTypes
<1>3. MemOk(mem)' /\ MemFresh'
  BY <1>1 DEF MemOk, MemFresh
<1>4. RowOk(row)' /\ RowFresh'
  BY <1>1 DEF StreamInv, RowOk, RowFresh, Fresh
<1>5. now \in 0..MaxTime
  BY DEF StreamInv, StreamTypes
<1>6. CallsOk' /\ CallsFresh'
  BY <1>1, <1>5, NoCallTyped, ClockAssumption DEF CallsOk, CallsFresh, CallOk, CallFresh
<1>7. AlonesOk'
  BY <1>1, NoCallTyped DEF AlonesOk, AloneOk, Alone, InCall
<1> QED
  BY <1>2, <1>3, <1>4, <1>6, <1>7 DEF StreamInv

LEMMA TickKeeps == ASSUME StreamInv, Tick PROVE StreamInv'
<1>1. now < MaxTime /\ now' = now + 1 /\ UNCHANGED <<row, call, since, alone>>
      /\ \A p \in Caller : call[p].pc # "none" => now - call[p].at < Margin
  BY DEF Tick, history
<1>2. now \in Nat /\ now \in 0..MaxTime /\ MaxTime \in Nat /\ Margin \in Nat
      /\ since \in [Episode -> 0..now]
  BY ClockAssumption DEF StreamInv, StreamTypes
<1>3. StreamTypes'
  BY <1>1, <1>2 DEF StreamInv, StreamTypes
<1>4. ASSUME NEW e \in DOMAIN mem'
      PROVE  e \in DOMAIN mem /\ EntryOk(e, mem'[e]) /\ mem'[e].res = mem[e].res
  <2>1. e \in DOMAIN mem /\ mem[e].left > 1 /\ mem'[e] = [mem[e] EXCEPT !.left = @ - 1]
    BY <1>4 DEF Tick
  <2>2. EntryOk(e, mem[e])
    BY <2>1 DEF StreamInv, MemOk
  <2> QED
    BY <2>1, <2>2 DEF EntryOk, EntryT
<1>5. MemOk(mem)'
  BY <1>4 DEF StreamInv, MemOk
<1>6. ASSUME NEW e \in Episode, NEW result, Fresh(e, result)
      PROVE  result \in SignedBetween(e, since'[e], now')
  <2>1. since[e] \in Int /\ now \in Int
    BY <1>2
  <2> QED
    BY <1>1, <1>6, <2>1, SignedLater DEF Fresh
<1>7. MemFresh'
  BY <1>4, <1>6 DEF StreamInv, MemOk, MemFresh, Fresh
<1>8. RowOk(row)' /\ RowFresh'
  BY <1>1, <1>6 DEF StreamInv, RowOk, RowFresh, Fresh
<1>9. ASSUME NEW q \in Caller PROVE CallOk(call[q])' /\ CallFresh(call[q])'
  <2>1. call'[q] = call[q] /\ CallOk(call[q]) /\ CallFresh(call[q]) /\ call[q].at \in Nat
        /\ call[q].e \in Episode
    BY <1>1, CallTyped
  <2>2. SignedBetween(call[q].e, call[q].at, now) \subseteq SignedBetween(call[q].e, call[q].at, now')
    BY <1>1, <1>2, <2>1, SignedLater
  <2>3. CallOk(call[q])'
    BY <1>1, <1>2, <2>1, <2>2 DEF CallOk
  <2>4. CallFresh(call[q])'
    BY <1>6, <2>1 DEF CallFresh, Fresh
  <2> QED
    BY <2>3, <2>4
<1>10. ASSUME NEW q \in Caller PROVE AloneOk(q)'
  <2>1. AloneOk(q)
    BY DEF StreamInv, AlonesOk
  <2> QED
    BY <1>1, <1>4, <2>1 DEF AloneOk, Alone, Settled, InCall
<1> QED
  BY <1>3, <1>5, <1>7, <1>8, <1>9, <1>10 DEF StreamInv, CallsOk, CallsFresh, AlonesOk
===========================================================================
