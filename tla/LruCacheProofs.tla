--------------------------- MODULE LruCacheProofs ---------------------------
(***************************************************************************)
(* Theorems about LruCache and LruUses: exact accounting, agreement of the *)
(* list and the map, what Stats may report, minimal and least-recent       *)
(* eviction, and the refinement of CachePromise.                           *)
(***************************************************************************)
EXTENDS LruUses, SequenceTheorems, FiniteSetTheorems, WellFoundedInduction, TLAPS

-----------------------------------------------------------------------------
(* The bytes of a set of entries.                                          *)

\* Finitely many keys whose entries have a size.
Sized(keys, entries) ==
    /\ IsFiniteSet(keys)
    /\ \A k \in keys : entries[k].size \in Nat \ {0}

\* One entry has as many bytes as its size, no entry has none.
LEMMA BytesOfOne ==
    ASSUME NEW k, NEW entries, entries[k].size \in Nat
    PROVE  /\ Bytes({k}, entries) = entries[k].size
           /\ IsFiniteSet(Extent({k}, entries))
<1> DEFINE n == entries[k].size
<1>1. Extent({k}, entries) = {k} \X (1 .. n) /\ n \in Nat
  BY DEF Extent
<1> HIDE DEF n
<1>2. IsFiniteSet({k}) /\ Cardinality({k}) = 1
  BY FS_Singleton
<1>3. IsFiniteSet(1 .. n) /\ Cardinality(1 .. n) = n
  BY <1>1, FS_Interval
<1>4. IsFiniteSet({k} \X (1 .. n)) /\ Cardinality({k} \X (1 .. n)) = 1 * n
  <2> DEFINE S == {k}
             T == 1 .. n
  <2>1. IsFiniteSet(S) /\ IsFiniteSet(T) /\ Cardinality(S) = 1 /\ Cardinality(T) = n
    BY <1>2, <1>3
  <2> HIDE DEF S, T
  <2>2. IsFiniteSet(S \X T) /\ Cardinality(S \X T) = Cardinality(S) * Cardinality(T)
    BY <2>1, FS_Product
  <2>3. QED
    BY <2>1, <2>2 DEF S, T
<1>5. 1 * n = n
  BY <1>1
<1>6. QED
  BY <1>1, <1>4, <1>5 DEF Bytes, n

LEMMA BytesOfNone == \A entries : Bytes({}, entries) = 0
<1>1. \A entries : Extent({}, entries) = {}
  BY DEF Extent
<1>2. QED
  BY <1>1, FS_EmptySet DEF Bytes

\* A finite set of entries has finitely many bytes, at least one each.
LEMMA ExtentFinite ==
    ASSUME NEW keys, NEW entries, Sized(keys, entries)
    PROVE  /\ IsFiniteSet(Extent(keys, entries))
           /\ Bytes(keys, entries) \in Nat
           /\ Cardinality(keys) <= Bytes(keys, entries)
<1> DEFINE row(k) == {k} \X (1 .. entries[k].size)
           rows == {row(k) : k \in keys}
           f == [k \in keys |-> row(k)]
<1>1. f \in Surjection(keys, rows)
  BY DEF Surjection
<1>2. IsFiniteSet(rows)
  BY <1>1, FS_Surjection DEF Sized
<1>3. \A k \in keys : IsFiniteSet(row(k))
  <2> SUFFICES ASSUME NEW k \in keys PROVE IsFiniteSet(row(k))
    OBVIOUS
  <2>1. entries[k].size \in Nat
    BY DEF Sized
  <2>2. Extent({k}, entries) = row(k)
    BY DEF Extent
  <2>3. QED
    BY <2>1, <2>2, BytesOfOne
<1>4. IsFiniteSet(UNION rows)
  BY <1>2, <1>3, FS_UNION
<1>5. IsFiniteSet(Extent(keys, entries))
  BY <1>4 DEF Extent
<1>6. keys \X {1} \subseteq Extent(keys, entries)
  BY DEF Extent, Sized
<1>7. IsFiniteSet(keys \X {1}) /\ Cardinality(keys \X {1}) = Cardinality(keys)
  <2>1. IsFiniteSet({1}) /\ Cardinality({1}) = 1
    BY FS_Singleton
  <2>2. Cardinality(keys) \in Nat
    BY FS_CardinalityType DEF Sized
  <2>3. IsFiniteSet(keys \X {1}) /\ Cardinality(keys \X {1}) = Cardinality(keys) * 1
    BY <2>1, FS_Product DEF Sized
  <2>4. QED
    BY <2>2, <2>3
<1>8. QED
  BY <1>5, <1>6, <1>7, FS_Subset, FS_CardinalityType DEF Bytes

\* The bytes of two sets of entries without a key in common add up.
LEMMA BytesAddUp ==
    ASSUME NEW left, NEW right, NEW entries,
           Sized(left, entries), Sized(right, entries),
           left \cap right = {}
    PROVE  /\ Sized(left \cup right, entries)
           /\ Bytes(left \cup right, entries) = Bytes(left, entries) + Bytes(right, entries)
<1> DEFINE L == Extent(left, entries)
           R == Extent(right, entries)
<1>1. Extent(left \cup right, entries) = L \cup R
  BY DEF Extent
<1>2. L \cap R = {}
  BY DEF Extent
<1>3. /\ IsFiniteSet(L) /\ Bytes(left, entries) \in Nat
      /\ IsFiniteSet(R) /\ Bytes(right, entries) \in Nat
  BY ExtentFinite
<1>4. Bytes(left \cup right, entries) = Bytes(left, entries) + Bytes(right, entries) - Cardinality({})
  <2>1. Bytes(left, entries) = Cardinality(L) /\ Bytes(right, entries) = Cardinality(R)
    BY DEF Bytes
  <2>2. Bytes(left \cup right, entries) = Cardinality(L \cup R)
    BY <1>1 DEF Bytes
  <2> HIDE DEF L, R
  <2>3. Cardinality(L \cup R) = Cardinality(L) + Cardinality(R) - Cardinality(L \cap R)
    BY <1>3, FS_Union
  <2>4. QED
    BY <1>2, <2>1, <2>2, <2>3
<1>5. Cardinality({}) = 0
  BY FS_EmptySet
<1>6. Sized(left \cup right, entries)
  BY FS_Union DEF Sized
<1>7. QED
  BY <1>3, <1>4, <1>5, <1>6

LEMMA BytesOfOneMore ==
    ASSUME NEW keys, NEW k, NEW entries,
           Sized(keys, entries), k \notin keys, entries[k].size \in Nat \ {0}
    PROVE  Bytes(keys \cup {k}, entries) = Bytes(keys, entries) + entries[k].size
<1> DEFINE one == {k}
<1>1. Sized(one, entries)
  BY FS_Singleton DEF Sized
<1>2. keys \cap one = {}
  OBVIOUS
<1>3. Bytes(one, entries) = entries[k].size
  BY BytesOfOne
<1> HIDE DEF one
<1>4. Bytes(keys \cup one, entries) = Bytes(keys, entries) + Bytes(one, entries)
  BY <1>1, <1>2, BytesAddUp
<1>5. QED
  BY <1>3, <1>4 DEF one

\* The bytes depend on the entries of the keys only.
LEMMA BytesAgree ==
    ASSUME NEW keys, NEW old, NEW new, \A k \in keys : old[k] = new[k]
    PROVE  /\ Bytes(keys, old) = Bytes(keys, new)
           /\ Sized(keys, old) <=> Sized(keys, new)
<1>1. Extent(keys, old) = Extent(keys, new)
  BY DEF Extent
<1>2. QED
  BY <1>1 DEF Bytes, Sized

-----------------------------------------------------------------------------
(* Lists.                                                                  *)

LEMMA Members ==
    ASSUME NEW S, NEW seq \in Seq(S)
    PROVE  /\ ToSet(seq) = {seq[i] : i \in 1 .. Len(seq)}
           /\ ToSet(seq) \subseteq S
           /\ IsFiniteSet(ToSet(seq))
<1>1. Len(seq) \in Nat /\ seq \in [1 .. Len(seq) -> S] /\ DOMAIN seq = 1 .. Len(seq)
  BY LenProperties
<1>2. ToSet(seq) = {seq[i] : i \in 1 .. Len(seq)}
  BY <1>1 DEF ToSet
<1>3. seq \in Surjection(1 .. Len(seq), ToSet(seq))
  BY <1>1, <1>2 DEF Surjection
<1>4. IsFiniteSet(1 .. Len(seq))
  BY <1>1, FS_Interval
<1>5. QED
  BY <1>1, <1>2, <1>3, <1>4, FS_Surjection

\* Two places of a list with every key once hold different keys.
LEMMA Injective ==
    ASSUME NEW S, NEW seq \in Seq(S)
    PROVE  IsInjective(seq) <=> \A i, j \in 1 .. Len(seq) : seq[i] = seq[j] => i = j
BY LenProperties DEF IsInjective

\* RemoveAt leaves the rest in order.
LEMMA Removed ==
    ASSUME NEW S, NEW seq \in Seq(S), NEW p \in 1 .. Len(seq)
    PROVE  /\ RemoveAt(seq, p) \in Seq(S)
           /\ Len(RemoveAt(seq, p)) = Len(seq) - 1
           /\ \A i \in 1 .. Len(seq) - 1 :
                 RemoveAt(seq, p)[i] = IF i < p THEN seq[i] ELSE seq[i + 1]
<1> DEFINE m == Len(seq)
           before == SubSeq(seq, 1, p - 1)
           after == SubSeq(seq, p + 1, m)
<1>1. m \in Nat /\ \A i \in 1 .. m : seq[i] \in S
  BY LenProperties
<1>2. p \in 1 .. m
  OBVIOUS
<1>3. RemoveAt(seq, p) = before \o after
  BY DEF RemoveAt
<1> HIDE DEF m
<1>4. /\ before \in Seq(S)
      /\ Len(before) = p - 1
      /\ \A i \in 1 .. p - 1 : before[i] = seq[i]
  <2>1. p - 1 \in Int /\ \A i \in 1 .. p - 1 : seq[i] \in S
    BY <1>1, <1>2
  <2>2. /\ before \in Seq(S)
        /\ Len(before) = IF 1 <= p - 1 THEN (p - 1) - 1 + 1 ELSE 0
        /\ \A i \in 1 .. (p - 1) - 1 + 1 : before[i] = seq[1 + i - 1]
    BY <2>1, SubSeqProperties
  <2> HIDE DEF before
  <2>3. QED
    BY <1>1, <1>2, <2>2
<1>5. /\ after \in Seq(S)
      /\ Len(after) = m - p
      /\ \A i \in 1 .. m - p : after[i] = seq[p + i]
  <2>1. p + 1 \in Int /\ m \in Int /\ \A i \in (p + 1) .. m : seq[i] \in S
    BY <1>1, <1>2
  <2>2. /\ after \in Seq(S)
        /\ Len(after) = IF p + 1 <= m THEN m - (p + 1) + 1 ELSE 0
        /\ \A i \in 1 .. m - (p + 1) + 1 : after[i] = seq[(p + 1) + i - 1]
    BY <2>1, SubSeqProperties
  <2> HIDE DEF after
  <2>3. m - (p + 1) + 1 = m - p
    BY <1>1, <1>2
  <2>4. \A i \in 1 .. m - p : (p + 1) + i - 1 = p + i
    BY <1>1, <1>2
  <2>5. Len(after) = m - p
    BY <1>1, <1>2, <2>2
  <2>6. QED
    BY <2>2, <2>3, <2>4, <2>5
<1> HIDE DEF before, after
<1>6. (p - 1) + (m - p) = m - 1
  BY <1>1, <1>2
<1>7. /\ before \o after \in Seq(S)
      /\ Len(before \o after) = m - 1
      /\ \A i \in 1 .. m - 1 :
            (before \o after)[i] = IF i <= p - 1 THEN before[i] ELSE after[i - (p - 1)]
  <2>1. /\ before \o after \in Seq(S)
        /\ Len(before \o after) = Len(before) + Len(after)
        /\ \A i \in 1 .. Len(before) + Len(after) :
              (before \o after)[i] = IF i <= Len(before) THEN before[i] ELSE after[i - Len(before)]
    BY <1>4, <1>5, ConcatProperties
  <2>2. Len(before) + Len(after) = m - 1 /\ Len(before) = p - 1
    BY <1>4, <1>5, <1>6
  <2>3. QED
    BY <2>1, <2>2
<1>8. ASSUME NEW i \in 1 .. m - 1
      PROVE  (before \o after)[i] = IF i < p THEN seq[i] ELSE seq[i + 1]
  <2>1. CASE i < p
    <3>1. i \in 1 .. p - 1 /\ i <= p - 1
      BY <1>1, <1>2, <2>1
    <3>2. QED
      BY <1>4, <1>7, <2>1, <3>1
  <2>2. CASE ~(i < p)
    <3>1. i - (p - 1) \in 1 .. m - p /\ p + (i - (p - 1)) = i + 1 /\ ~(i <= p - 1)
      BY <1>1, <1>2, <2>2
    <3>2. QED
      BY <1>5, <1>7, <2>2, <3>1
  <2>3. QED
    BY <2>1, <2>2
<1>9. QED
  BY <1>3, <1>7, <1>8 DEF m

\* An element put before a list.
LEMMA Pushed ==
    ASSUME NEW S, NEW rest \in Seq(S), NEW k \in S
    PROVE  /\ <<k>> \o rest \in Seq(S)
           /\ Len(<<k>> \o rest) = Len(rest) + 1
           /\ \A i \in 1 .. Len(rest) + 1 :
                 (<<k>> \o rest)[i] = IF i = 1 THEN k ELSE rest[i - 1]
<1> DEFINE m == Len(rest)
<1>1. m \in Nat
  BY LenProperties
<1>2. <<k>> \in Seq(S) /\ Len(<<k>>) = 1 /\ <<k>>[1] = k
  OBVIOUS
<1>3. /\ <<k>> \o rest \in Seq(S)
      /\ Len(<<k>> \o rest) = 1 + m
      /\ \A i \in 1 .. 1 + m : (<<k>> \o rest)[i] = IF i <= 1 THEN <<k>>[i] ELSE rest[i - 1]
  BY <1>2, ConcatProperties
<1> HIDE DEF m
<1>4. 1 + m = m + 1 /\ \A i \in 1 .. 1 + m : i <= 1 <=> i = 1
  BY <1>1
<1>5. QED
  BY <1>2, <1>3, <1>4 DEF m

\* The key comes to the front: the keys that were before it move back by one
\* place and the others stay, or a key without a place pushes all back.
MovedFrom(p, seq, front, k) ==
    /\ seq[p] = k
    /\ Len(front) = Len(seq)
    /\ \A i \in 1 .. Len(seq) :
          front[i] = IF i = 1 THEN k ELSE IF i <= p THEN seq[i - 1] ELSE seq[i]

PushedOn(seq, front, k) ==
    /\ k \notin ToSet(seq)
    /\ Len(front) = Len(seq) + 1
    /\ \A i \in 1 .. Len(seq) + 1 : front[i] = IF i = 1 THEN k ELSE seq[i - 1]

LEMMA Fronted ==
    ASSUME NEW S, NEW seq \in Seq(S), NEW k \in S
    PROVE  /\ ToFront(seq, k) \in Seq(S)
           /\ \/ \E p \in 1 .. Len(seq) : MovedFrom(p, seq, ToFront(seq, k), k)
              \/ PushedOn(seq, ToFront(seq, k), k)
<1> DEFINE m == Len(seq)
<1>1. m \in Nat /\ DOMAIN seq = 1 .. m
  BY LenProperties
<1>2. CASE k \notin ToSet(seq)
  <2>1. ToFront(seq, k) = <<k>> \o seq
    BY <1>2 DEF ToFront
  <2>2. QED
    BY <1>2, <2>1, Pushed DEF PushedOn
<1>3. CASE k \in ToSet(seq)
  <2> DEFINE p == CHOOSE q \in DOMAIN seq : seq[q] = k
             rest == RemoveAt(seq, p)
  <2>1. p \in 1 .. m /\ seq[p] = k
    BY <1>1, <1>3 DEF ToSet
  <2>2. ToFront(seq, k) = <<k>> \o rest
    BY <1>3 DEF ToFront
  <2> HIDE DEF p
  <2>3. rest \in Seq(S) /\ Len(rest) = m - 1
    BY <2>1, Removed
  <2>4. \A i \in 1 .. m - 1 : rest[i] = IF i < p THEN seq[i] ELSE seq[i + 1]
    BY <2>1, Removed
  <2> HIDE DEF rest, m
  <2>5. /\ <<k>> \o rest \in Seq(S)
        /\ Len(<<k>> \o rest) = Len(rest) + 1
        /\ \A i \in 1 .. Len(rest) + 1 : (<<k>> \o rest)[i] = IF i = 1 THEN k ELSE rest[i - 1]
    BY <2>3, Pushed
  <2>6. Len(rest) + 1 = m
    BY <1>1, <2>3
  <2>7. ASSUME NEW i \in 1 .. m
        PROVE  ToFront(seq, k)[i] = IF i = 1 THEN k ELSE IF i <= p THEN seq[i - 1] ELSE seq[i]
    <3>1. CASE i = 1
      BY <2>2, <2>5, <2>6, <3>1
    <3>2. CASE i # 1
      <4>1. i - 1 \in 1 .. m - 1 /\ (i - 1) + 1 = i /\ (i - 1 < p <=> i <= p)
        BY <1>1, <2>1, <3>2
      <4>2. ToFront(seq, k)[i] = rest[i - 1]
        BY <2>2, <2>5, <2>6, <3>2
      <4>3. QED
        BY <2>4, <3>2, <4>1, <4>2
    <3>3. QED
      BY <3>1, <3>2
  <2>8. QED
    BY <2>1, <2>2, <2>5, <2>6, <2>7 DEF m, MovedFrom
<1>4. QED
  BY <1>2, <1>3

\* In a list that holds every key once, ToFront keeps the keys, each once, and
\* the order of the others.
LEMMA FrontKeeps ==
    ASSUME NEW S, NEW seq \in Seq(S), NEW k \in S, IsInjective(seq)
    PROVE  /\ ToFront(seq, k) \in Seq(S)
           /\ Len(ToFront(seq, k)) >= 1 /\ ToFront(seq, k)[1] = k
           /\ IsInjective(ToFront(seq, k))
           /\ ToSet(ToFront(seq, k)) = ToSet(seq) \cup {k}
           /\ \A i, j \in 1 .. Len(ToFront(seq, k)) : 1 < i /\ i < j =>
                 \E a, b \in 1 .. Len(seq) :
                     a < b /\ seq[a] = ToFront(seq, k)[i] /\ seq[b] = ToFront(seq, k)[j]
<1> DEFINE f == ToFront(seq, k)
           m == Len(seq)
           Keeps(n) == /\ n >= 1 /\ f[1] = k
                       /\ \A i, j \in 1 .. n : f[i] = f[j] => i = j
                       /\ {f[i] : i \in 1 .. n} = {seq[i] : i \in 1 .. m} \cup {k}
                       /\ \A i, j \in 1 .. n : 1 < i /\ i < j =>
                             \E a, b \in 1 .. m : a < b /\ seq[a] = f[i] /\ seq[b] = f[j]
<1>1. f \in Seq(S) /\ m \in Nat
  BY Fronted, LenProperties
<1>2. (\E p \in 1 .. m : MovedFrom(p, seq, f, k)) \/ PushedOn(seq, f, k)
  BY Fronted
<1>3. ToSet(seq) = {seq[i] : i \in 1 .. m} /\ ToSet(f) = {f[i] : i \in 1 .. Len(f)}
  BY <1>1, Members
<1>4. \A i, j \in 1 .. m : seq[i] = seq[j] => i = j
  BY Injective
<1>5. IsInjective(f) <=> \A i, j \in 1 .. Len(f) : f[i] = f[j] => i = j
  BY <1>1, Injective
<1> HIDE DEF f, m
<1>6. Keeps(Len(f))
  <2>1. ASSUME NEW p \in 1 .. m, MovedFrom(p, seq, f, k)
        PROVE  Len(f) = m /\ Keeps(m)
    <3>9. /\ seq[p] = k
           /\ Len(f) = m
           /\ \A i \in 1 .. m : f[i] = IF i = 1 THEN k ELSE IF i <= p THEN seq[i - 1] ELSE seq[i]
      BY <2>1 DEF MovedFrom, m
    <3>0. Len(f) = m /\ f[1] = k /\ m >= 1
      BY <1>1, <3>9
    <3>1. \A i \in 2 .. p : f[i] = seq[i - 1] /\ i - 1 \in 1 .. (p - 1)
      BY <1>1, <3>9
    <3>2. \A i \in (p + 1) .. m : f[i] = seq[i]
      BY <1>1, <3>9
    <3>3. \A i, j \in 1 .. m : f[i] = f[j] => i = j
      BY <1>1, <1>4, <3>9
    <3>4. {f[i] : i \in 1 .. m} = {seq[i] : i \in 1 .. m} \cup {k}
      <4>1. ASSUME NEW i \in 1 .. m PROVE \E j \in 1 .. m : f[i] = seq[j]
        BY <1>1, <3>9
      <4>2. ASSUME NEW i \in 1 .. m PROVE \E j \in 1 .. m : seq[i] = f[j]
        <5>1. CASE i < p
          <6>1. i + 1 \in 1 .. m /\ f[i + 1] = seq[i]
            BY <1>1, <3>9, <5>1
          <6>2. QED
            BY <6>1
        <5>2. CASE i = p
          BY <3>9, <3>0, <5>2
        <5>3. CASE i > p
          BY <1>1, <3>2, <5>3
        <5>4. QED
          BY <1>1, <5>1, <5>2, <5>3
      <4>3. k = seq[p]
        BY <3>9
      <4>4. {f[i] : i \in 1 .. m} \subseteq {seq[i] : i \in 1 .. m}
        BY <4>1
      <4>5. {seq[i] : i \in 1 .. m} \subseteq {f[i] : i \in 1 .. m}
        BY <4>2
      <4>6. k \in {seq[i] : i \in 1 .. m}
        BY <4>3
      <4>7. QED
        BY <4>4, <4>5, <4>6
    <3>5. ASSUME NEW i \in 1 .. m, NEW j \in 1 .. m, 1 < i, i < j
          PROVE  \E a, b \in 1 .. m : a < b /\ seq[a] = f[i] /\ seq[b] = f[j]
      <4>1. CASE j <= p
        <5>1. i - 1 \in 1 .. m /\ j - 1 \in 1 .. m /\ i - 1 < j - 1 /\ i \in 2 .. p /\ j \in 2 .. p
          BY <1>1, <3>5, <4>1
        <5>2. QED
          BY <3>1, <5>1
      <4>2. CASE i <= p /\ j > p
        <5>1. i - 1 \in 1 .. m /\ i - 1 < j /\ i \in 2 .. p /\ j \in (p + 1) .. m
          BY <1>1, <3>5, <4>2
        <5>2. QED
          BY <3>1, <3>2, <5>1
      <4>3. CASE i > p
        <5>1. i \in (p + 1) .. m /\ j \in (p + 1) .. m
          BY <1>1, <3>5, <4>3
        <5>2. QED
          BY <3>2, <3>5, <5>1
      <4>4. QED
        BY <1>1, <4>1, <4>2, <4>3
    <3>6. \A i, j \in 1 .. m : 1 < i /\ i < j =>
             \E a, b \in 1 .. m : a < b /\ seq[a] = f[i] /\ seq[b] = f[j]
      BY <3>5
    <3>7. m >= 1
      BY <1>1, <3>0
    <3>8. QED
      BY <3>0, <3>3, <3>4, <3>6, <3>7, Zenon
  <2>2. ASSUME PushedOn(seq, f, k)
        PROVE  Len(f) = m + 1 /\ Keeps(m + 1)
    <3>9. /\ k \notin ToSet(seq)
           /\ Len(f) = m + 1
           /\ \A i \in 1 .. m + 1 : f[i] = IF i = 1 THEN k ELSE seq[i - 1]
      BY <2>2 DEF PushedOn, m
    <3>0. Len(f) = m + 1 /\ f[1] = k
      BY <1>1, <3>9
    <3>1. \A i \in 2 .. m + 1 : f[i] = seq[i - 1] /\ i - 1 \in 1 .. m
      BY <1>1, <3>9
    <3>2. \A i \in 1 .. m : seq[i] # k
      BY <1>3, <3>9
    <3>3. \A i, j \in 1 .. m + 1 : f[i] = f[j] => i = j
      BY <1>1, <1>4, <3>0, <3>1, <3>2
    <3>4. {f[i] : i \in 1 .. m + 1} = {seq[i] : i \in 1 .. m} \cup {k}
      <4>1. ASSUME NEW i \in 1 .. m PROVE i + 1 \in 1 .. m + 1 /\ f[i + 1] = seq[i]
        BY <1>1, <3>9
      <4>2. ASSUME NEW i \in 1 .. m + 1 PROVE f[i] = k \/ \E j \in 1 .. m : f[i] = seq[j]
        BY <1>1, <3>0, <3>1
      <4>3. 1 \in 1 .. m + 1
        BY <1>1
      <4>4. QED
        BY <3>0, <4>1, <4>2, <4>3
    <3>5. ASSUME NEW i \in 1 .. m + 1, NEW j \in 1 .. m + 1, 1 < i, i < j
          PROVE  \E a, b \in 1 .. m : a < b /\ seq[a] = f[i] /\ seq[b] = f[j]
      <4>1. i - 1 < j - 1 /\ i \in 2 .. m + 1 /\ j \in 2 .. m + 1
        BY <1>1, <3>5
      <4>2. QED
        BY <3>1, <4>1
    <3>6. \A i, j \in 1 .. m + 1 : 1 < i /\ i < j =>
             \E a, b \in 1 .. m : a < b /\ seq[a] = f[i] /\ seq[b] = f[j]
      BY <3>5
    <3>7. m + 1 >= 1
      BY <1>1, <3>0
    <3>8. QED
      BY <3>0, <3>3, <3>4, <3>6, <3>7, Zenon
  <2> HIDE DEF Keeps
  <2>3. QED
    BY <1>2, <2>1, <2>2
<1>7. QED
  BY <1>1, <1>3, <1>5, <1>6 DEF f, m

\* The first n elements of a list with every key once, and the others.
LEMMA Prefix ==
    ASSUME NEW S, NEW seq \in Seq(S), IsInjective(seq), NEW n \in 0 .. Len(seq)
    PROVE  /\ SubSeq(seq, 1, n) \in Seq(S)
           /\ Len(SubSeq(seq, 1, n)) = n
           /\ \A i \in 1 .. n : SubSeq(seq, 1, n)[i] = seq[i]
           /\ IsInjective(SubSeq(seq, 1, n))
           /\ ToSet(SubSeq(seq, 1, n)) = {seq[i] : i \in 1 .. n}
           /\ ToSet(SubSeq(seq, n + 1, Len(seq))) = {seq[i] : i \in (n + 1) .. Len(seq)}
<1> DEFINE m == Len(seq)
           kept == SubSeq(seq, 1, n)
           back == SubSeq(seq, n + 1, m)
<1>1. m \in Nat /\ n \in 0 .. m /\ \A i \in 1 .. m : seq[i] \in S
  BY LenProperties
<1>2. \A i, j \in 1 .. m : seq[i] = seq[j] => i = j
  BY Injective
<1> HIDE DEF m
<1>3. kept \in Seq(S) /\ Len(kept) = n /\ \A i \in 1 .. n : kept[i] = seq[i]
  <2>1. n \in Int /\ \A i \in 1 .. n : seq[i] \in S
    BY <1>1
  <2>2. /\ kept \in Seq(S)
        /\ Len(kept) = IF 1 <= n THEN n - 1 + 1 ELSE 0
        /\ \A i \in 1 .. n - 1 + 1 : kept[i] = seq[1 + i - 1]
    BY <2>1, SubSeqProperties
  <2> HIDE DEF kept
  <2>3. n - 1 + 1 = n /\ \A i \in 1 .. n : 1 + i - 1 = i
    BY <1>1
  <2>4. QED
    BY <1>1, <2>2, <2>3
<1>4. back \in Seq(S) /\ Len(back) = m - n /\ \A i \in 1 .. m - n : back[i] = seq[n + i]
  <2>1. n + 1 \in Int /\ m \in Int /\ \A i \in (n + 1) .. m : seq[i] \in S
    BY <1>1
  <2>2. /\ back \in Seq(S)
        /\ Len(back) = IF n + 1 <= m THEN m - (n + 1) + 1 ELSE 0
        /\ \A i \in 1 .. m - (n + 1) + 1 : back[i] = seq[(n + 1) + i - 1]
    BY <2>1, SubSeqProperties
  <2> HIDE DEF back
  <2>3. m - (n + 1) + 1 = m - n /\ \A i \in 1 .. m - n : (n + 1) + i - 1 = n + i
    BY <1>1
  <2>4. Len(back) = m - n
    BY <1>1, <2>2
  <2>5. QED
    BY <2>2, <2>3, <2>4
<1>5. ToSet(kept) = {seq[i] : i \in 1 .. n}
  <2>1. ToSet(kept) = {kept[i] : i \in 1 .. n}
    BY <1>3, Members
  <2> HIDE DEF kept
  <2>2. QED
    BY <1>3, <2>1
<1>6. ToSet(back) = {seq[i] : i \in (n + 1) .. m}
  <2> HIDE DEF back
  <2>0. ToSet(back) = {back[i] : i \in 1 .. Len(back)}
    BY <1>4, Members
  <2>1. ToSet(back) = {back[i] : i \in 1 .. m - n}
    BY <1>4, <2>0
  <2>2. \A i \in 1 .. m - n : n + i \in (n + 1) .. m
    BY <1>1
  <2>3. \A j \in (n + 1) .. m : j - n \in 1 .. m - n /\ n + (j - n) = j
    BY <1>1
  <2>4. \A i \in 1 .. m - n : back[i] = seq[n + i]
    BY <1>4
  <2>5. \A j \in (n + 1) .. m : seq[j] = back[j - n]
    <3> TAKE j \in (n + 1) .. m
    <3>1. j - n \in 1 .. m - n /\ n + (j - n) = j
      BY <2>3
    <3> QED
      BY <2>4, <3>1
  <2>6. ToSet(back) \subseteq {seq[i] : i \in (n + 1) .. m}
    BY <2>1, <2>2, <2>4
  <2>7. {seq[i] : i \in (n + 1) .. m} \subseteq ToSet(back)
    BY <2>1, <2>3, <2>5
  <2>8. QED
    BY <2>6, <2>7
<1>7. IsInjective(kept)
  <2>1. IsInjective(kept) <=> \A i, j \in 1 .. n : kept[i] = kept[j] => i = j
    BY <1>3, Injective
  <2> HIDE DEF kept
  <2>2. \A i \in 1 .. n : i \in 1 .. m
    BY <1>1
  <2>3. QED
    BY <1>2, <1>3, <2>1, <2>2
<1>8. QED
  BY <1>3, <1>5, <1>6, <1>7 DEF m

\* A set of places of a list that is not empty has a greatest one.
LEMMA Greatest ==
    ASSUME NEW n \in Nat, NEW T \in SUBSET (0 .. n), T # {}
    PROVE  \E x \in T : \A y \in T : y <= x
<1> DEFINE Above == {x .. n : x \in T}
<1>1. \A A \in Above : A \subseteq 0 .. n /\ IsFiniteSet(A)
  BY FS_Interval, FS_Subset
<1>2. Above \subseteq FiniteSubsetsOf(0 .. n) /\ Above # {}
  BY <1>1 DEF FiniteSubsetsOf
<1>3. PICK A \in Above : \A B \in Above : ~(<<B, A>> \in StrictSubsetOrdering(0 .. n))
  BY <1>2, FS_StrictSubsetOrderingWellFounded, WFMin
<1>4. PICK x \in T : A = x .. n
  OBVIOUS
<1>5. ASSUME NEW y \in T, x < y PROVE FALSE
  <2>1. y .. n \in Above /\ y .. n \subseteq x .. n
    BY <1>5
  <2>2. y .. n # x .. n
    BY <1>5
  <2>3. <<y .. n, x .. n>> \in StrictSubsetOrdering(0 .. n)
    BY <2>1, <2>2, <1>1, <1>4 DEF StrictSubsetOrdering
  <2>4. QED
    BY <2>1, <2>3, <1>3, <1>4
<1>6. QED
  BY <1>5

LEMMA LongestIs ==
    ASSUME NEW n \in Nat, NEW T \in SUBSET (0 .. n), T # {}, NEW seq
    PROVE  \E x \in T : Longest(seq, T) = SubSeq(seq, 1, x) /\ \A y \in T : y <= x
<1> DEFINE x == CHOOSE z \in T : \A y \in T : y <= z
<1>1. x \in T /\ \A y \in T : y <= x
  BY Greatest
<1>2. Longest(seq, T) = SubSeq(seq, 1, x)
  BY DEF Longest
<1>3. QED
  BY <1>1, <1>2

-----------------------------------------------------------------------------
(* The eviction loop.                                                      *)

First(seq, n) == {seq[i] : i \in 1 .. n}

\* A list that holds every key once and a count that is exact.
LEMMA LeftIs ==
    ASSUME NEW S, NEW seq \in Seq(S), IsInjective(seq), NEW entries,
           Sized(ToSet(seq), entries), NEW n \in 0 .. Len(seq)
    PROVE  /\ Sized(First(seq, n), entries)
           /\ Left(seq, Bytes(ToSet(seq), entries), entries, n) = Bytes(First(seq, n), entries)
<1> DEFINE m == Len(seq)
           kept == First(seq, n)
           back == {seq[i] : i \in (n + 1) .. m}
<1>1. m \in Nat /\ ToSet(seq) = {seq[i] : i \in 1 .. m}
  BY LenProperties, Members
<1>2. \A i, j \in 1 .. m : seq[i] = seq[j] => i = j
  BY Injective
<1>3. ToSet(SubSeq(seq, n + 1, m)) = back
  BY Prefix
<1>4. n \in 0 .. m
  OBVIOUS
<1> HIDE DEF m
<1>5. ToSet(seq) = kept \cup back
  BY <1>1, <1>4 DEF First
<1>6. kept \cap back = {}
  BY <1>1, <1>2, <1>4 DEF First
<1> HIDE DEF kept, back
<1>7. Sized(kept, entries) /\ Sized(back, entries)
  <2>1. kept \in SUBSET ToSet(seq) /\ back \in SUBSET ToSet(seq)
    BY <1>5
  <2>2. QED
    BY <2>1, FS_Subset DEF Sized
<1>8. Bytes(ToSet(seq), entries) = Bytes(kept, entries) + Bytes(back, entries)
  BY <1>5, <1>6, <1>7, BytesAddUp
<1>9. Bytes(kept, entries) \in Nat /\ Bytes(back, entries) \in Nat
  BY <1>7, ExtentFinite
<1>10. Left(seq, Bytes(ToSet(seq), entries), entries, n) = Bytes(ToSet(seq), entries) - Bytes(back, entries)
  BY <1>3 DEF Left, m
<1>11. QED
  BY <1>7, <1>8, <1>9, <1>10 DEF kept

\* From an exact count, and a first entry that fits, the loop keeps that entry
\* and ends with an exact count that fits; one more entry would not have.
LEMMA LoopEnds ==
    ASSUME NEW S, NEW seq \in Seq(S), IsInjective(seq), Len(seq) >= 1, NEW entries,
           Sized(ToSet(seq), entries), entries[seq[1]].size <= Capacity,
           NEW total, total = Bytes(ToSet(seq), entries)
    PROVE  \E n \in 1 .. Len(seq) :
              /\ Survivors(seq, total, entries) = SubSeq(seq, 1, n)
              /\ Left(seq, total, entries, n) = Bytes(First(seq, n), entries)
              /\ Bytes(First(seq, n), entries) \in 0 .. Capacity
              /\ n < Len(seq) =>
                    Bytes(First(seq, n), entries) + entries[seq[n + 1]].size > Capacity
<1> DEFINE m == Len(seq)
           T == {n \in 0 .. m : n = 0 \/ Left(seq, total, entries, n) <= Capacity}
<1>1. /\ m \in Nat /\ m >= 1
      /\ ToSet(seq) = {seq[i] : i \in 1 .. m}
      /\ \A i, j \in 1 .. m : seq[i] = seq[j] => i = j
  BY LenProperties, Members, Injective
<1>2. \A n \in 0 .. m : /\ Sized(First(seq, n), entries)
                        /\ Left(seq, total, entries, n) = Bytes(First(seq, n), entries)
                        /\ Bytes(First(seq, n), entries) \in Nat
  BY LeftIs, ExtentFinite
<1>3. \A n \in 0 .. m - 1 :
          Bytes(First(seq, n + 1), entries) = Bytes(First(seq, n), entries) + entries[seq[n + 1]].size
  <2> SUFFICES ASSUME NEW n \in 0 .. m - 1
               PROVE  Bytes(First(seq, n + 1), entries)
                        = Bytes(First(seq, n), entries) + entries[seq[n + 1]].size
    OBVIOUS
  <2> HIDE DEF m
  <2>1. First(seq, n + 1) = First(seq, n) \cup {seq[n + 1]}
    BY <1>1 DEF First
  <2>2. seq[n + 1] \notin First(seq, n)
    BY <1>1 DEF First
  <2>3. seq[n + 1] \in ToSet(seq)
    BY <1>1
  <2>4. entries[seq[n + 1]].size \in Nat \ {0}
    BY <2>3 DEF Sized
  <2>5. Sized(First(seq, n), entries)
    BY <1>1, <1>2
  <2>6. QED
    BY <2>1, <2>2, <2>4, <2>5, BytesOfOneMore
<1>4. First(seq, 0) = {} /\ Bytes(First(seq, 0), entries) = 0
  <2>1. First(seq, 0) = {}
    BY DEF First
  <2>2. QED
    BY <2>1, BytesOfNone
<1>5. seq[1] \in ToSet(seq) /\ entries[seq[1]].size \in Nat \ {0}
  BY <1>1 DEF Sized
<1>6. Bytes(First(seq, 1), entries) = entries[seq[1]].size
  <2>1. 0 \in 0 .. m - 1 /\ 0 + 1 = 1
    BY <1>1
  <2>2. QED
    BY <1>3, <1>4, <1>5, <2>1
<1>7. 1 \in T /\ T \in SUBSET (0 .. m) /\ T # {}
  BY <1>1, <1>2, <1>6
<1>8. PICK n \in T : Longest(seq, T) = SubSeq(seq, 1, n) /\ \A y \in T : y <= n
  <2> HIDE DEF T, m
  <2>1. QED
    BY <1>1, <1>7, LongestIs
<1>9. n \in 1 .. m
  BY <1>1, <1>7, <1>8
<1>10. Survivors(seq, total, entries) = SubSeq(seq, 1, n)
  BY <1>8 DEF Survivors
<1>11. Bytes(First(seq, n), entries) \in 0 .. Capacity
  <2>1. Left(seq, total, entries, n) <= Capacity
    BY <1>8, <1>9
  <2>2. Left(seq, total, entries, n) = Bytes(First(seq, n), entries) /\ Bytes(First(seq, n), entries) \in Nat
    BY <1>1, <1>2, <1>9
  <2>3. QED
    BY <2>1, <2>2, LruAssumption
<1>12. ASSUME n < m
       PROVE  Bytes(First(seq, n), entries) + entries[seq[n + 1]].size > Capacity
  <2>1. n + 1 \in 0 .. m /\ ~(n + 1 <= n) /\ n \in 0 .. m - 1
    BY <1>1, <1>9, <1>12
  <2>2. n + 1 \notin T
    BY <1>8, <2>1
  <2>3. ~(Left(seq, total, entries, n + 1) <= Capacity)
    BY <2>1, <2>2
  <2>4. Left(seq, total, entries, n + 1) = Bytes(First(seq, n + 1), entries) /\ Bytes(First(seq, n + 1), entries) \in Nat
    BY <1>2, <2>1
  <2>5. Bytes(First(seq, n + 1), entries) = Bytes(First(seq, n), entries) + entries[seq[n + 1]].size
    BY <1>3, <2>1
  <2>6. QED
    BY <2>3, <2>4, <2>5, LruAssumption
<1>13. QED
  BY <1>1, <1>2, <1>9, <1>10, <1>11, <1>12

-----------------------------------------------------------------------------
(* The invariant.                                                          *)

Entry == [value : Values, size : 1 .. Capacity]

TypeOK ==
    /\ items \in [Keys -> {Absent} \cup Entry]
    /\ lru \in [Shards -> Seq(Keys)]
    /\ used \in [Shards -> 0 .. Capacity]
    /\ hits \in Nat /\ misses \in Nat
    /\ counting \in [Clients -> {"no", "hit", "miss"}]
    /\ scan \in [next : 0 .. ShardCount + 1, hits : Nat, misses : Nat, entries : Nat, bytes : Nat]

Holds(s, map) == {k \in Keys : ShardOf[k] = s /\ map[k] # Absent}

\* What holds of a shard whenever its lock is free.
Consistent(s, list, count, map) ==
    /\ IsInjective(list)
    /\ ToSet(list) = Holds(s, map)
    /\ count = Bytes(ToSet(list), map)

ShardsOK == \A s \in Shards : Consistent(s, lru[s], used[s], items)

\* What Stats has summed up when it has read the shards before scan.next.
ScanAdds ==
    /\ scan.entries <= scan.bytes
    /\ scan.next = 0 => scan.bytes = 0
    /\ scan.next > 0 => scan.bytes <= (scan.next - 1) * Capacity

IInv == TypeOK /\ ShardsOK /\ ScanAdds

LEMMA IInvImplies == IInv => ListMatchesMap /\ UsedIsExact
<1> SUFFICES ASSUME IInv, NEW s \in Shards
             PROVE  /\ ToSet(lru[s]) = {k \in Keys : ShardOf[k] = s /\ items[k] # Absent}
                    /\ IsInjective(lru[s])
                    /\ used[s] = Bytes(ToSet(lru[s]), items)
                    /\ used[s] <= Capacity
  BY DEF ListMatchesMap, UsedIsExact
<1>1. Consistent(s, lru[s], used[s], items) /\ used[s] \in 0 .. Capacity
  BY DEF IInv, ShardsOK, TypeOK
<1>2. QED
  BY <1>1, LruAssumption DEF Consistent, Holds

\* The entries of a shard have their sizes.
LEMMA ShardSized ==
    ASSUME TypeOK, NEW s \in Shards, Consistent(s, lru[s], used[s], items)
    PROVE  Sized(ToSet(lru[s]), items)
<1>1. IsFiniteSet(ToSet(lru[s]))
  BY Members DEF TypeOK
<1>2. \A k \in ToSet(lru[s]) : items[k] \in Entry
  BY DEF Consistent, Holds, TypeOK
<1>3. QED
  BY <1>1, <1>2, LruAssumption DEF Sized, Entry

-----------------------------------------------------------------------------
(* Lookups.                                                                *)

LEMMA TouchKeeps ==
    ASSUME NEW s \in Shards, NEW list \in Seq(Keys), NEW count, NEW map,
           Consistent(s, list, count, map),
           NEW k \in Keys, ShardOf[k] = s, map[k] # Absent
    PROVE  ToFront(list, k) \in Seq(Keys) /\ Consistent(s, ToFront(list, k), count, map)
<1>0. IsInjective(list)
  BY DEF Consistent
<1>1. /\ IsInjective(ToFront(list, k)) /\ ToFront(list, k) \in Seq(Keys)
      /\ ToSet(ToFront(list, k)) = ToSet(list) \cup {k}
  BY <1>0, FrontKeeps
<1>2. k \in ToSet(list)
  BY DEF Consistent, Holds
<1>3. ToSet(ToFront(list, k)) = ToSet(list)
  BY <1>1, <1>2
<1>4. QED
  BY <1>1, <1>3 DEF Consistent

LEMMA StepTouch ==
    ASSUME TypeOK, ShardsOK, NEW k \in Keys, Touch(k), UNCHANGED <<items, used>>
    PROVE  lru' \in [Shards -> Seq(Keys)] /\ ShardsOK'
<1>1. CASE items[k] = Absent
  BY <1>1 DEF Touch, TypeOK, ShardsOK, Consistent, Holds
<1>2. CASE items[k] # Absent
  <2> DEFINE s == ShardOf[k]
  <2>1. s \in Shards
    BY LruAssumption
  <2>2. lru' = [lru EXCEPT ![s] = ToFront(lru[s], k)]
    BY <1>2 DEF Touch
  <2>3. lru[s] \in Seq(Keys) /\ Consistent(s, lru[s], used[s], items)
    BY <2>1 DEF TypeOK, ShardsOK
  <2>4. ToFront(lru[s], k) \in Seq(Keys) /\ Consistent(s, ToFront(lru[s], k), used[s], items)
    BY <1>2, <2>1, <2>3, TouchKeeps
  <2> HIDE DEF s
  <2>5. lru' \in [Shards -> Seq(Keys)]
    BY <2>1, <2>2, <2>4 DEF TypeOK
  <2>6. ASSUME NEW t \in Shards PROVE Consistent(t, lru'[t], used[t], items)
    <3>1. CASE t = s
      BY <2>1, <2>2, <2>4, <3>1 DEF TypeOK
    <3>2. CASE t # s
      BY <2>1, <2>2, <3>2 DEF TypeOK, ShardsOK
    <3>3. QED
      BY <3>1, <3>2
  <2>7. used' = used /\ items' = items
    OBVIOUS
  <2>8. QED
    BY <2>5, <2>6, <2>7 DEF ShardsOK
<1>3. QED
  BY <1>1, <1>2

-----------------------------------------------------------------------------
(* Add.                                                                    *)

Entries(k, v) == [items EXCEPT ![k] = [value |-> v, size |-> SizeOf[k][v]]]
Total(k, v) == used[ShardOf[k]] - OldSize(k) + SizeOf[k][v]
Touched(k) == ToFront(lru[ShardOf[k]], k)
Kept(k, v) == Survivors(Touched(k), Total(k, v), Entries(k, v))
Rest(k, v) == Left(Touched(k), Total(k, v), Entries(k, v), Len(Kept(k, v)))
After(k, v) == [j \in Keys |-> IF j \in Evicted(Touched(k), Kept(k, v)) THEN Absent ELSE Entries(k, v)[j]]

LEMMA AddIs ==
    ASSUME NEW k, NEW v, Add(k, v)
    PROVE  /\ Accepts(k, v)
           /\ lru' = [lru EXCEPT ![ShardOf[k]] = Kept(k, v)]
           /\ used' = [used EXCEPT ![ShardOf[k]] = Rest(k, v)]
           /\ items' = After(k, v)
           /\ UNCHANGED <<hits, misses, counting, scan>>
BY DEF Add, Entries, Total, Touched, Kept, Rest, After

\* The new or updated entry is in front, and the count is exact before the loop.
LEMMA BeforeLoop ==
    ASSUME TypeOK, ShardsOK, NEW k \in Keys, NEW v \in Values, Accepts(k, v)
    PROVE  /\ Touched(k) \in Seq(Keys) /\ IsInjective(Touched(k))
           /\ Len(Touched(k)) >= 1 /\ Touched(k)[1] = k
           /\ ToSet(Touched(k)) = Holds(ShardOf[k], items) \cup {k}
           /\ Entries(k, v) \in [Keys -> {Absent} \cup Entry]
           /\ Entries(k, v)[k] \in Entry /\ Entries(k, v)[k] # Absent
           /\ \A j \in Keys \ {k} : Entries(k, v)[j] = items[j]
           /\ Sized(ToSet(Touched(k)), Entries(k, v))
           /\ Total(k, v) = Bytes(ToSet(Touched(k)), Entries(k, v))
<1> DEFINE s == ShardOf[k]
           E == Entries(k, v)
           K == ToSet(lru[s])
           R == K \ {k}
<1>1. s \in Shards /\ SizeOf[k][v] \in 1 .. Capacity
  BY LruAssumption DEF Accepts
<1>2. Consistent(s, lru[s], used[s], items) /\ lru[s] \in Seq(Keys) /\ used[s] \in 0 .. Capacity
  BY <1>1 DEF TypeOK, ShardsOK
<1>3. Sized(K, items)
  BY <1>1, <1>2, ShardSized
<1>4. /\ E \in [Keys -> {Absent} \cup Entry]
      /\ E[k] = [value |-> v, size |-> SizeOf[k][v]]
      /\ E[k] \in Entry /\ E[k] # Absent
      /\ \A j \in Keys \ {k} : E[j] = items[j]
  BY <1>1, LruAssumption DEF TypeOK, Entries, Entry
<1>5. /\ Touched(k) \in Seq(Keys) /\ IsInjective(Touched(k))
      /\ Len(Touched(k)) >= 1 /\ Touched(k)[1] = k
      /\ ToSet(Touched(k)) = K \cup {k}
  <2>1. IsInjective(lru[s])
    BY <1>2 DEF Consistent
  <2>2. Touched(k) = ToFront(lru[s], k)
    BY DEF Touched
  <2> DEFINE list == lru[s]
  <2>3. list \in Seq(Keys) /\ IsInjective(list)
    BY <1>2, <2>1
  <2> HIDE DEF list
  <2>4. /\ ToFront(list, k) \in Seq(Keys) /\ IsInjective(ToFront(list, k))
        /\ Len(ToFront(list, k)) >= 1 /\ ToFront(list, k)[1] = k
        /\ ToSet(ToFront(list, k)) = ToSet(list) \cup {k}
    BY <2>3, FrontKeeps
  <2>5. QED
    BY <2>2, <2>4 DEF list
<1>6. K = Holds(s, items)
  BY <1>2 DEF Consistent
<1>7. used[s] = Bytes(K, items)
  BY <1>2 DEF Consistent
<1>8. K \subseteq Keys
  BY <1>6 DEF Holds
<1>9. Total(k, v) = used[s] - OldSize(k) + SizeOf[k][v]
  BY DEF Total
<1>10. k \in K <=> items[k] # Absent
  BY <1>6 DEF Holds
<1> HIDE DEF E, K, s
<1>11. Sized(R, items) /\ k \notin R /\ ToSet(Touched(k)) = R \cup {k}
  BY <1>3, <1>5, FS_Subset DEF Sized
<1>12. \A j \in R : items[j] = E[j]
  BY <1>4, <1>8
<1> HIDE DEF R
<1>13. Bytes(R, items) = Bytes(R, E) /\ Sized(R, E)
  BY <1>11, <1>12, BytesAgree
<1>14. E[k].size = SizeOf[k][v] /\ E[k].size \in Nat \ {0}
  BY <1>1, <1>4, LruAssumption
<1>15. Bytes(R \cup {k}, E) = Bytes(R, E) + E[k].size
  BY <1>11, <1>13, <1>14, BytesOfOneMore
<1>16. Sized(R \cup {k}, E)
  BY <1>13, <1>14, FS_AddElement DEF Sized
<1>17. Bytes(R, items) = used[s] - OldSize(k)
  <2>1. Bytes(R, items) \in Nat
    BY <1>11, ExtentFinite
  <2>2. CASE items[k] = Absent
    <3>1. R = K
      BY <1>10, <2>2 DEF R
    <3>2. QED
      BY <1>7, <2>1, <2>2, <3>1 DEF OldSize
  <2>3. CASE items[k] # Absent
    <3>1. K = R \cup {k}
      BY <1>10, <2>3 DEF R
    <3>2. items[k].size \in Nat \ {0}
      BY <1>3, <1>10, <2>3 DEF Sized
    <3>3. Bytes(R \cup {k}, items) = Bytes(R, items) + items[k].size
      BY <1>11, <3>2, BytesOfOneMore
    <3>4. OldSize(k) = items[k].size
      BY <2>3 DEF OldSize
    <3>5. QED
      BY <1>7, <2>1, <3>1, <3>2, <3>3, <3>4
  <2>4. QED
    BY <2>2, <2>3
<1>18. Total(k, v) = Bytes(R \cup {k}, E)
  BY <1>9, <1>13, <1>14, <1>15, <1>17
<1>19. QED
  BY <1>4, <1>5, <1>6, <1>11, <1>16, <1>18 DEF E, s

\* The loop has kept the first n entries.
KeepsFirst(n, k, v) ==
    /\ Kept(k, v) \in Seq(Keys) /\ Len(Kept(k, v)) = n /\ IsInjective(Kept(k, v))
    /\ \A i \in 1 .. n : Kept(k, v)[i] = Touched(k)[i]
    /\ ToSet(Kept(k, v)) = First(Touched(k), n)
    /\ Rest(k, v) = Bytes(First(Touched(k), n), Entries(k, v))
    /\ Rest(k, v) \in 0 .. Capacity
    /\ n < Len(Touched(k)) => Rest(k, v) + Entries(k, v)[Touched(k)[n + 1]].size > Capacity

LEMMA AfterLoop ==
    ASSUME TypeOK, ShardsOK, NEW k \in Keys, NEW v \in Values, Accepts(k, v)
    PROVE  \E n \in 1 .. Len(Touched(k)) : KeepsFirst(n, k, v)
<1> DEFINE f == Touched(k)
           E == Entries(k, v)
           total == Total(k, v)
<1>1. /\ f \in Seq(Keys) /\ IsInjective(f) /\ Len(f) >= 1
      /\ Sized(ToSet(f), E)
      /\ total = Bytes(ToSet(f), E)
  BY BeforeLoop
<1>2. E[f[1]].size <= Capacity
  <2>1. f[1] = k /\ E[k] \in Entry
    BY BeforeLoop
  <2>2. QED
    BY <2>1, LruAssumption DEF Entry
<1>3. Kept(k, v) = Survivors(f, total, E) /\ Rest(k, v) = Left(f, total, E, Len(Kept(k, v)))
  BY DEF Kept, Rest
<1> HIDE DEF f, E, total
<1>4. PICK n \in 1 .. Len(f) :
              /\ Survivors(f, total, E) = SubSeq(f, 1, n)
              /\ Left(f, total, E, n) = Bytes(First(f, n), E)
              /\ Bytes(First(f, n), E) \in 0 .. Capacity
              /\ n < Len(f) => Bytes(First(f, n), E) + E[f[n + 1]].size > Capacity
  BY <1>1, <1>2, LoopEnds
<1>5. n \in 0 .. Len(f)
  BY <1>1, LenProperties
<1>6. /\ SubSeq(f, 1, n) \in Seq(Keys) /\ Len(SubSeq(f, 1, n)) = n
      /\ \A i \in 1 .. n : SubSeq(f, 1, n)[i] = f[i]
      /\ IsInjective(SubSeq(f, 1, n))
      /\ ToSet(SubSeq(f, 1, n)) = {f[i] : i \in 1 .. n}
  BY <1>1, <1>5, Prefix
<1>7. Kept(k, v) = SubSeq(f, 1, n)
  BY <1>3, <1>4
<1>8. Rest(k, v) = Bytes(First(f, n), E)
  BY <1>3, <1>4, <1>6, <1>7
<1>9. ToSet(Kept(k, v)) = First(f, n)
  BY <1>6, <1>7 DEF First
<1>10. KeepsFirst(n, k, v)
  BY <1>4, <1>6, <1>7, <1>8, <1>9 DEF KeepsFirst, f, E
<1>11. QED
  BY <1>10 DEF f

\* What an Add leaves under each key.
LEMMA AfterIs ==
    ASSUME TypeOK, ShardsOK, NEW k \in Keys, NEW v \in Values, Accepts(k, v),
           NEW n \in 1 .. Len(Touched(k)), KeepsFirst(n, k, v)
    PROVE  /\ After(k, v) \in [Keys -> {Absent} \cup Entry]
           /\ \A j \in First(Touched(k), n) : After(k, v)[j] = Entries(k, v)[j]
           /\ Holds(ShardOf[k], After(k, v)) = First(Touched(k), n)
           /\ \A j \in Keys : ShardOf[j] # ShardOf[k] => After(k, v)[j] = items[j]
           /\ k \in First(Touched(k), n)
<1> DEFINE f == Touched(k)
           E == Entries(k, v)
           s == ShardOf[k]
           A == After(k, v)
           G == Evicted(f, Kept(k, v))
<1>1. /\ ToSet(f) = Holds(s, items) \cup {k}
      /\ f \in Seq(Keys) /\ f[1] = k
      /\ E \in [Keys -> {Absent} \cup Entry]
      /\ E[k] # Absent
      /\ \A j \in Keys \ {k} : E[j] = items[j]
  BY BeforeLoop
<1>2. G = ToSet(f) \ First(f, n)
  BY DEF Evicted, KeepsFirst
<1>3. A = [j \in Keys |-> IF j \in G THEN Absent ELSE E[j]]
  BY DEF After
<1>4. n \in 1 .. Len(f) /\ Len(f) \in Nat
  BY <1>1, LenProperties
<1>5. First(f, n) \subseteq ToSet(f) /\ k \in First(f, n)
  <2>1. ToSet(f) = {f[i] : i \in 1 .. Len(f)}
    BY <1>1, Members
  <2> HIDE DEF f
  <2>2. 1 \in 1 .. n /\ \A i \in 1 .. n : i \in 1 .. Len(f)
    BY <1>4
  <2>3. QED
    BY <1>1, <2>1, <2>2 DEF First
<1>6. s = ShardOf[k] /\ \A j \in ToSet(f) : j \in Keys /\ ShardOf[j] = s
  BY <1>1 DEF Holds
<1> HIDE DEF f, E, s, A, G
<1>7. A \in [Keys -> {Absent} \cup Entry]
  BY <1>1, <1>3
<1>8. \A j \in First(f, n) : A[j] = E[j]
  BY <1>2, <1>3, <1>5, <1>6
<1>9. \A j \in Keys : ShardOf[j] # s => A[j] = items[j]
  BY <1>1, <1>2, <1>3, <1>6
<1>10. \A j \in Keys : ShardOf[j] = s /\ A[j] # Absent <=> j \in First(f, n)
  <2> TAKE j \in Keys
  <2>1. ASSUME j \in First(f, n) PROVE ShardOf[j] = s /\ A[j] # Absent
    BY <1>1, <1>5, <1>6, <1>8, <2>1 DEF Holds
  <2>2. ASSUME j \notin First(f, n), ShardOf[j] = s PROVE A[j] = Absent
    <3>1. CASE j \in ToSet(f)
      BY <1>2, <1>3, <2>2, <3>1
    <3>2. CASE j \notin ToSet(f)
      BY <1>1, <1>2, <1>3, <2>2, <3>2 DEF Holds
    <3>3. QED
      BY <3>1, <3>2
  <2>3. QED
    BY <2>1, <2>2
<1>11. Holds(s, A) = First(f, n)
  BY <1>5, <1>6, <1>10 DEF Holds
<1>12. QED
  BY <1>5, <1>7, <1>8, <1>9, <1>11 DEF f, E, s, A

LEMMA StepAdd ==
    ASSUME IInv, NEW k \in Keys, NEW v \in Values, Add(k, v)
    PROVE  IInv'
<1> DEFINE s == ShardOf[k]
           kept == Kept(k, v)
           rest == Rest(k, v)
           A == After(k, v)
           E == Entries(k, v)
<1>1. TypeOK /\ ShardsOK /\ ScanAdds
  BY DEF IInv
<1>2. /\ Accepts(k, v)
      /\ lru' = [lru EXCEPT ![s] = kept]
      /\ used' = [used EXCEPT ![s] = rest]
      /\ items' = A
      /\ UNCHANGED <<hits, misses, counting, scan>>
  BY AddIs
<1>3. PICK n \in 1 .. Len(Touched(k)) : KeepsFirst(n, k, v)
  BY <1>1, <1>2, AfterLoop
<1> DEFINE F == First(Touched(k), n)
<1>4. /\ kept \in Seq(Keys) /\ IsInjective(kept) /\ ToSet(kept) = F
      /\ rest = Bytes(F, E) /\ rest \in 0 .. Capacity
  BY <1>3 DEF KeepsFirst
<1>5. /\ A \in [Keys -> {Absent} \cup Entry]
      /\ \A j \in F : A[j] = E[j]
      /\ Holds(s, A) = F
      /\ \A j \in Keys : ShardOf[j] # s => A[j] = items[j]
  BY <1>1, <1>2, <1>3, AfterIs
<1>6. s \in Shards
  BY LruAssumption
<1> HIDE DEF s, kept, rest, A, E, F
<1>7. TypeOK'
  <2>1. lru' \in [Shards -> Seq(Keys)]
    BY <1>1, <1>2, <1>4 DEF TypeOK
  <2>2. used' \in [Shards -> 0 .. Capacity]
    BY <1>1, <1>2, <1>4 DEF TypeOK
  <2>3. items' \in [Keys -> {Absent} \cup Entry]
    BY <1>2, <1>5
  <2>4. QED
    BY <1>1, <1>2, <2>1, <2>2, <2>3 DEF TypeOK
<1>8. ASSUME NEW t \in Shards
      PROVE  Consistent(t, lru'[t], used'[t], A)
  <2>1. CASE t = s
    <3>1. lru'[t] = kept /\ used'[t] = rest
      BY <1>1, <1>2, <1>6, <2>1 DEF TypeOK
    <3>2. Bytes(F, A) = Bytes(F, E)
      BY <1>5, BytesAgree
    <3>3. QED
      BY <1>4, <1>5, <2>1, <3>1, <3>2 DEF Consistent
  <2>2. CASE t # s
    <3>1. lru'[t] = lru[t] /\ used'[t] = used[t]
      BY <1>1, <1>2, <1>6, <2>2 DEF TypeOK
    <3>2. Consistent(t, lru[t], used[t], items)
      BY <1>1 DEF ShardsOK
    <3>3. Holds(t, A) = Holds(t, items)
      BY <1>5, <2>2 DEF Holds
    <3>4. \A j \in ToSet(lru[t]) : A[j] = items[j]
      BY <1>5, <2>2, <3>2 DEF Consistent, Holds
    <3>5. Bytes(ToSet(lru[t]), A) = Bytes(ToSet(lru[t]), items)
      BY <3>4, BytesAgree
    <3>6. QED
      BY <3>1, <3>2, <3>3, <3>5 DEF Consistent
  <2>3. QED
    BY <2>1, <2>2
<1>9. ShardsOK'
  BY <1>2, <1>8 DEF ShardsOK
<1>10. ScanAdds'
  BY <1>1, <1>2 DEF ScanAdds
<1>11. QED
  BY <1>7, <1>9, <1>10 DEF IInv

-----------------------------------------------------------------------------
(* Counting and Stats.                                                     *)

\* Stats pays for every entry it counts, and counts a shard within its capacity.
LEMMA ShardPays ==
    ASSUME TypeOK, ShardsOK, NEW s \in Shards
    PROVE  /\ Cardinality(Holds(s, items)) \in Nat
           /\ Cardinality(Holds(s, items)) <= used[s]
           /\ used[s] \in 0 .. Capacity
<1>1. Consistent(s, lru[s], used[s], items) /\ used[s] \in 0 .. Capacity
  BY DEF TypeOK, ShardsOK
<1>2. Sized(ToSet(lru[s]), items)
  BY <1>1, ShardSized
<1>3. ToSet(lru[s]) = Holds(s, items) /\ used[s] = Bytes(ToSet(lru[s]), items)
  BY <1>1 DEF Consistent
<1>4. Cardinality(ToSet(lru[s])) <= Bytes(ToSet(lru[s]), items)
  BY <1>2, ExtentFinite
<1>5. Cardinality(ToSet(lru[s])) \in Nat
  BY <1>2, FS_CardinalityType DEF Sized
<1>6. QED
  BY <1>1, <1>3, <1>4, <1>5

\* The last shard read makes the bound one capacity larger.
LEMMA OneMoreShard ==
    ASSUME NEW n \in Nat, NEW c \in Nat
    PROVE  (n + 1) * c = n * c + c
OBVIOUS

LEMMA Monotone ==
    ASSUME NEW m \in Nat, NEW n \in Nat, NEW c \in Nat, m <= n
    PROVE  m * c <= n * c /\ m * c \in Nat
<1>1. PICK d \in Nat : n = m + d
  <2>1. n - m \in Nat /\ n = m + (n - m)
    OBVIOUS
  <2>2. QED
    BY <2>1
<1>2. (m + d) * c = m * c + d * c /\ m * c \in Nat /\ d * c \in Nat
  OBVIOUS
<1>3. QED
  BY <1>1, <1>2

LEMMA StepStatsShard ==
    ASSUME IInv, StatsShard
    PROVE  IInv'
<1>1. TypeOK /\ ShardsOK /\ ScanAdds
  BY DEF IInv
<1> DEFINE s == scan.next
           e == Cardinality(Holds(s, items))
           u == used[s]
<1>2. /\ s \in Shards
      /\ scan' = [scan EXCEPT !.next = s + 1, !.entries = scan.entries + e, !.bytes = scan.bytes + u]
      /\ UNCHANGED <<items, lru, used, hits, misses, counting>>
  BY DEF StatsShard, Holds
<1>3. e \in Nat /\ e <= u /\ u \in 0 .. Capacity
  BY <1>1, <1>2, ShardPays
<1>4. s \in 1 .. ShardCount /\ ShardCount \in Nat /\ Capacity \in Nat
  BY <1>2, LruAssumption DEF Shards
<1>5. /\ scan \in [next : 0 .. ShardCount + 1, hits : Nat, misses : Nat, entries : Nat, bytes : Nat]
      /\ s = scan.next
  BY <1>1 DEF TypeOK
<1> HIDE DEF s, e, u
<1>6. scan' \in [next : 0 .. ShardCount + 1, hits : Nat, misses : Nat, entries : Nat, bytes : Nat]
  <2>1. s + 1 \in 0 .. ShardCount + 1 /\ scan.entries + e \in Nat /\ scan.bytes + u \in Nat
    BY <1>3, <1>4, <1>5
  <2>2. QED
    BY <1>2, <1>5, <2>1
<1>7. /\ scan'.next = s + 1
      /\ scan'.entries = scan.entries + e
      /\ scan'.bytes = scan.bytes + u
  BY <1>2, <1>5
<1>8. scan.entries <= scan.bytes /\ scan.bytes <= (s - 1) * Capacity
  BY <1>1, <1>4, <1>5 DEF ScanAdds
<1>9. ScanAdds'
  <2>1. scan'.entries <= scan'.bytes
    BY <1>3, <1>5, <1>7, <1>8
  <2>2. s - 1 \in Nat /\ (s - 1) + 1 = s /\ (s + 1) - 1 = s /\ s + 1 > 0 /\ s + 1 # 0
    BY <1>4
  <2>3. s * Capacity = (s - 1) * Capacity + Capacity
    BY <1>4, <2>2, OneMoreShard
  <2>4. (s - 1) * Capacity \in Nat
    BY <1>4, <2>2
  <2>5. scan'.bytes <= s * Capacity
    BY <1>3, <1>4, <1>5, <1>7, <1>8, <2>3, <2>4
  <2>6. QED
    BY <1>7, <2>1, <2>2, <2>5 DEF ScanAdds
<1>10. ShardsOK'
  BY <1>1, <1>2 DEF ShardsOK
<1>11. TypeOK'
  BY <1>1, <1>2, <1>6 DEF TypeOK
<1>12. QED
  BY <1>9, <1>10, <1>11 DEF IInv

LEMMA InitIInv == Init => IInv
<1> SUFFICES ASSUME Init PROVE IInv
  OBVIOUS
<1> USE LruAssumption
<1>1. TypeOK
  BY DEF Init, TypeOK, NoScan
<1>2. ScanAdds
  BY DEF Init, ScanAdds, NoScan
<1>3. ASSUME NEW s \in Shards PROVE Consistent(s, lru[s], used[s], items)
  <2>1. lru[s] = <<>> /\ used[s] = 0 /\ \A k \in Keys : items[k] = Absent
    BY DEF Init
  <2>2. ToSet(lru[s]) = {} /\ IsInjective(lru[s])
    BY <2>1 DEF ToSet, IsInjective
  <2>3. Holds(s, items) = {}
    BY <2>1 DEF Holds
  <2>4. Bytes({}, items) = 0
    BY BytesOfNone
  <2>5. QED
    BY <2>1, <2>2, <2>3, <2>4 DEF Consistent
<1>4. QED
  BY <1>1, <1>2, <1>3 DEF IInv, ShardsOK

LEMMA NextIInv == IInv /\ [Next]_vars => IInv'
<1> SUFFICES ASSUME IInv, [Next]_vars PROVE IInv'
  OBVIOUS
<1>0. TypeOK /\ ShardsOK /\ ScanAdds
  BY DEF IInv
<1>1. ASSUME NEW c \in Clients, Count(c) PROVE IInv'
  <2>1. ShardsOK'
    BY <1>0, <1>1 DEF Count, ShardsOK
  <2>2. ScanAdds'
    BY <1>0, <1>1 DEF Count, ScanAdds
  <2>3. TypeOK'
    BY <1>0, <1>1 DEF Count, TypeOK
  <2>4. QED
    BY <2>1, <2>2, <2>3 DEF IInv
<1>2. ASSUME NEW c \in Clients, NEW k \in Keys, Get(c, k) PROVE IInv'
  <2>1. Touch(k) /\ UNCHANGED <<items, used>>
    BY <1>2 DEF Get
  <2>2. lru' \in [Shards -> Seq(Keys)] /\ ShardsOK'
    BY <1>0, <2>1, StepTouch
  <2>3. ScanAdds'
    BY <1>0, <1>2 DEF Get, ScanAdds
  <2>4. TypeOK'
    BY <1>0, <1>2, <2>2 DEF Get, TypeOK
  <2>5. QED
    BY <2>2, <2>3, <2>4 DEF IInv
<1>3. ASSUME NEW k \in Keys, Peek(k) PROVE IInv'
  <2>1. Touch(k) /\ UNCHANGED <<items, used>>
    BY <1>3 DEF Peek
  <2>2. lru' \in [Shards -> Seq(Keys)] /\ ShardsOK'
    BY <1>0, <2>1, StepTouch
  <2>3. ScanAdds'
    BY <1>0, <1>3 DEF Peek, ScanAdds
  <2>4. TypeOK'
    BY <1>0, <1>3, <2>2 DEF Peek, TypeOK
  <2>5. QED
    BY <2>2, <2>3, <2>4 DEF IInv
<1>4. ASSUME NEW k \in Keys, NEW v \in Values, Add(k, v) PROVE IInv'
  BY <1>4, StepAdd
<1>5. CASE StatsBegin \/ StatsReturn
  <2>1. ShardsOK'
    BY <1>0, <1>5 DEF StatsBegin, StatsReturn, ShardsOK
  <2>2. \/ scan' = [next |-> 1, hits |-> hits, misses |-> misses, entries |-> 0, bytes |-> 0]
        \/ scan' = [next |-> 0, hits |-> 0, misses |-> 0, entries |-> 0, bytes |-> 0]
    BY <1>5 DEF StatsBegin, StatsReturn, NoScan
  <2>3. ScanAdds'
    <3>1. (1 - 1) * Capacity = 0 /\ 0 <= 0
      BY LruAssumption
    <3>2. QED
      BY <2>2, <3>1 DEF ScanAdds
  <2>4. UNCHANGED <<items, lru, used, hits, misses, counting>>
    BY <1>5 DEF StatsBegin, StatsReturn
  <2>5. 1 \in 0 .. ShardCount + 1 /\ 0 \in 0 .. ShardCount + 1
    BY LruAssumption
  <2>6. scan' \in [next : 0 .. ShardCount + 1, hits : Nat, misses : Nat, entries : Nat, bytes : Nat]
    BY <1>0, <2>2, <2>5 DEF TypeOK
  <2>7. TypeOK'
    BY <1>0, <2>4, <2>6 DEF TypeOK
  <2>8. QED
    BY <2>1, <2>3, <2>7 DEF IInv
<1>6. CASE StatsShard
  BY <1>6, StepStatsShard
<1>7. CASE UNCHANGED vars
  BY <1>0, <1>7 DEF vars, IInv, TypeOK, ShardsOK, ScanAdds
<1>8. QED
  BY <1>1, <1>2, <1>3, <1>4, <1>5, <1>6, <1>7 DEF Next

\* The inductive invariant: types, the agreement of list, map and count in every
\* shard, and what Stats has added up so far.
THEOREM Invariance == Spec => []IInv
BY InitIInv, NextIInv, PTL DEF Spec

\* After every operation the bytes a shard reports are those of the entries it
\* holds and fit its capacity, for every number of shards, every assignment of
\* keys to them and every size of the entries (cache.go 126-147).
THEOREM ExactAccounting == Spec => []UsedIsExact
BY Invariance, IInvImplies, PTL

\* The map and the list of every shard hold the same keys, each once
\* (cache.go 95-101, 126-147).
THEOREM ListAndMapAgree == Spec => []ListMatchesMap
BY Invariance, IInvImplies, PTL

\* What Stats adds up shard by shard, while other goroutines look up and add, is
\* within the configured capacity and at least a byte per entry (cache.go 150-160).
THEOREM StatsWithinCapacity == Spec => []StatsAreBounded
<1>1. IInv => StatsAreBounded
  <2> SUFFICES ASSUME IInv PROVE StatsAreBounded
    OBVIOUS
  <2>1. TypeOK /\ ScanAdds
    BY DEF IInv
  <2>2. scan.next \in 0 .. ShardCount + 1 /\ scan.bytes \in Nat /\ scan.entries \in Nat
    BY <2>1 DEF TypeOK
  <2>3. Capacity \in Nat /\ ShardCount \in Nat
    BY LruAssumption
  <2>4. CASE scan.next = 0
    BY <2>1, <2>2, <2>3, <2>4, Monotone DEF ScanAdds, StatsAreBounded
  <2>5. CASE scan.next > 0
    <3>1. scan.next - 1 \in Nat /\ scan.next - 1 <= ShardCount
      BY <2>2, <2>3, <2>5
    <3>2. (scan.next - 1) * Capacity <= ShardCount * Capacity /\ (scan.next - 1) * Capacity \in Nat
      BY <2>3, <3>1, Monotone
    <3>3. scan.bytes <= (scan.next - 1) * Capacity /\ scan.entries <= scan.bytes
      BY <2>1, <2>5 DEF ScanAdds
    <3>4. ShardCount * Capacity \in Nat
      BY <2>3
    <3>5. QED
      BY <2>2, <3>2, <3>3, <3>4 DEF StatsAreBounded
  <2>6. QED
    BY <2>2, <2>4, <2>5
<1>2. QED
  BY <1>1, Invariance, PTL

-----------------------------------------------------------------------------
(* What an Add may evict, and the promise to the server.                   *)

\* Only an Add changes the entries.
LEMMA OthersKeepItems ==
    ASSUME [Next]_vars, ~\E k \in Keys, v \in Values : Add(k, v)
    PROVE  items' = items
BY DEF Next, Get, Count, Peek, StatsBegin, StatsShard, StatsReturn, vars

\* The entries of f behind its front are in the order they have in list.
InOrder(f, list) ==
    \A b, c \in 1 .. Len(f) : 1 < b /\ b < c =>
        \E a, d \in 1 .. Len(list) : a < d /\ list[a] = f[b] /\ list[d] = f[c]

LEMMA OrderStays ==
    ASSUME NEW list \in Seq(Keys), IsInjective(list), NEW k \in Keys
    PROVE  InOrder(ToFront(list, k), list)
<1> DEFINE f == ToFront(list, k)
<1>1. \A i, j \in 1 .. Len(f) : 1 < i /\ i < j =>
         \E a, b \in 1 .. Len(list) : a < b /\ list[a] = f[i] /\ list[b] = f[j]
  BY FrontKeeps
<1> HIDE DEF f
<1>2. InOrder(f, list)
  BY <1>1 DEF InOrder
<1>3. QED
  BY <1>2 DEF f

\* Of those that an Add lets go, the one nearest to the front did not fit.
LEMMA AddEvictsLittle ==
    ASSUME IInv, NEW k \in Keys, NEW v \in Values, Add(k, v),
           NEW s \in Shards, NEW p \in DOMAIN lru[s], Goes(s, p),
           \A q \in 1 .. p - 1 : ~Goes(s, q)
    PROVE  used'[s] + items[lru[s][p]].size > Capacity
<1> DEFINE j == lru[s][p]
           f == Touched(k)
           A == After(k, v)
           E == Entries(k, v)
<1>1. TypeOK /\ ShardsOK
  BY DEF IInv
<1>2. /\ Accepts(k, v) /\ items' = A
      /\ used' = [used EXCEPT ![ShardOf[k]] = Rest(k, v)]
  BY AddIs
<1>3. PICK n \in 1 .. Len(f) : KeepsFirst(n, k, v)
  BY <1>1, <1>2, AfterLoop
<1>4. /\ Holds(ShardOf[k], A) = First(f, n)
      /\ \A i \in Keys : ShardOf[i] # ShardOf[k] => A[i] = items[i]
  BY <1>1, <1>2, <1>3, AfterIs
<1>5. /\ f \in Seq(Keys) /\ IsInjective(f) /\ f[1] = k
      /\ ToSet(f) = Holds(ShardOf[k], items) \cup {k}
      /\ \A i \in Keys \ {k} : E[i] = items[i]
  BY <1>1, <1>2, BeforeLoop
<1>6. /\ Rest(k, v) \in 0 .. Capacity
      /\ n < Len(f) => Rest(k, v) + E[f[n + 1]].size > Capacity
  BY <1>3 DEF KeepsFirst
<1>7. /\ Len(f) \in Nat /\ n \in 1 .. Len(f)
      /\ ToSet(f) = {f[i] : i \in 1 .. Len(f)}
      /\ \A a, b \in 1 .. Len(f) : f[a] = f[b] => a = b
  BY <1>5, LenProperties, Members, Injective
<1>8. /\ lru[s] \in Seq(Keys) /\ IsInjective(lru[s])
      /\ ToSet(lru[s]) = Holds(s, items)
  BY <1>1 DEF TypeOK, ShardsOK, Consistent
<1>9. /\ Len(lru[s]) \in Nat /\ p \in 1 .. Len(lru[s])
      /\ ToSet(lru[s]) = {lru[s][i] : i \in 1 .. Len(lru[s])}
      /\ \A a, b \in 1 .. Len(lru[s]) : lru[s][a] = lru[s][b] => a = b
  BY <1>8, LenProperties, Members, Injective
<1>10. j \in Keys /\ ShardOf[j] = s /\ items[j] # Absent /\ items'[j] = Absent
  <2>1. j \in ToSet(lru[s])
    BY <1>9
  <2> HIDE DEF j
  <2>2. j \in Keys /\ ShardOf[j] = s
    BY <1>8, <2>1 DEF Holds
  <2>3. QED
    BY <2>2 DEF Goes, j
<1>11. InOrder(ToFront(lru[s], k), lru[s])
  BY <1>8, OrderStays
<1> HIDE DEF f, A, E, j
<1>12. s = ShardOf[k]
  BY <1>2, <1>4, <1>10
<1>13. PICK b \in 1 .. Len(f) : j = f[b] /\ b > n
  <2>1. j \in ToSet(f) /\ j \notin First(f, n)
    BY <1>2, <1>4, <1>5, <1>10, <1>12 DEF Holds
  <2>2. PICK b \in 1 .. Len(f) : j = f[b]
    BY <1>7, <2>1
  <2>3. ~(b <= n)
    BY <1>7, <2>1, <2>2 DEF First
  <2>4. QED
    BY <1>7, <2>2, <2>3
<1> DEFINE w == f[n + 1]
<1>14. n + 1 \in 1 .. Len(f) /\ n + 1 # 1 /\ \A i \in 1 .. n : i \in 1 .. Len(f) /\ i # n + 1
  BY <1>7, <1>13
<1>15. w \in ToSet(f) /\ w # k /\ w \notin First(f, n)
  <2>1. w \in ToSet(f)
    BY <1>7, <1>14
  <2>2. w # k
    BY <1>5, <1>7, <1>14
  <2>3. w \notin First(f, n)
    BY <1>7, <1>14 DEF First
  <2>4. QED
    BY <2>1, <2>2, <2>3
<1> HIDE DEF w
<1>16. w \in Keys /\ ShardOf[w] = s /\ items[w] # Absent /\ E[w] = items[w]
  BY <1>5, <1>12, <1>15 DEF Holds
<1>17. items'[w] = Absent
  BY <1>2, <1>4, <1>12, <1>15, <1>16 DEF Holds
<1>18. used'[s] = Rest(k, v)
  BY <1>1, <1>2, <1>12 DEF TypeOK
<1>19. Rest(k, v) + items[w].size > Capacity
  BY <1>6, <1>7, <1>14, <1>16 DEF w
<1>20. w = j
  <2>1. SUFFICES ASSUME b # n + 1 PROVE FALSE
    BY <1>13 DEF w
  <2>2. 1 < n + 1 /\ n + 1 < b
    BY <1>7, <1>13, <2>1
  <2>3. PICK a, d \in 1 .. Len(lru[s]) : a < d /\ lru[s][a] = f[n + 1] /\ lru[s][d] = f[b]
    <3>1. InOrder(f, lru[s])
      BY <1>11, <1>12 DEF f, Touched
    <3>2. QED
      BY <1>13, <1>14, <2>2, <3>1 DEF InOrder
  <2>4. d = p
    BY <1>9, <1>13, <2>3 DEF j
  <2>5. a \in 1 .. p - 1
    BY <1>9, <2>3, <2>4
  <2>6. Goes(s, a)
    BY <1>16, <1>17, <2>3 DEF Goes, w
  <2>7. QED
    BY <2>5, <2>6
<1>21. QED
  BY <1>18, <1>19, <1>20 DEF j

\* An Add evicts no more than it must: the entry evicted last, the one nearest
\* to the front of those that go, would not have fitted beside those that stay
\* (cache.go 138-147).
THEOREM MinimalEviction == Spec => EvictsOnlyWhatItMust
<1> DEFINE Must(s, p) ==
              (Goes(s, p) /\ \A q \in 1 .. p - 1 : ~Goes(s, q))
                  => used'[s] + items[lru[s][p]].size > Capacity
<1>1. ASSUME IInv, [Next]_vars, NEW s \in Shards, NEW p \in DOMAIN lru[s],
             Goes(s, p), \A q \in 1 .. p - 1 : ~Goes(s, q)
      PROVE  used'[s] + items[lru[s][p]].size > Capacity
  <2>1. items' # items
    BY <1>1 DEF Goes
  <2>2. PICK k \in Keys, v \in Values : Add(k, v)
    BY <1>1, <2>1, OthersKeepItems
  <2>3. QED
    BY <1>1, <2>2, AddEvictsLittle
<1>2. IInv /\ [Next]_vars => \A s \in Shards : \A p \in DOMAIN lru[s] : Must(s, p)
  BY <1>1
<1>3. QED
  BY <1>2, Invariance, PTL DEF Spec, EvictsOnlyWhatItMust

\* The values under the keys are what CachePromise calls stored.
Stored == [k \in Keys |-> IF items[k] = Absent THEN Absent ELSE items[k].value]

LEMMA AddStores ==
    ASSUME IInv, NEW k \in Keys, NEW v \in Values, Add(k, v)
    PROVE  \E kept \in SUBSET (Keys \ {k}) :
              Stored' = [j \in Keys |-> IF j = k THEN v
                                        ELSE IF j \in kept THEN Stored[j] ELSE Absent]
<1> DEFINE A == After(k, v)
           E == Entries(k, v)
           G == Evicted(Touched(k), Kept(k, v))
           kept == Keys \ (G \cup {k})
<1>1. TypeOK /\ ShardsOK
  BY DEF IInv
<1>2. Accepts(k, v) /\ items' = A
  BY AddIs
<1>3. PICK n \in 1 .. Len(Touched(k)) : KeepsFirst(n, k, v)
  BY <1>1, <1>2, AfterLoop
<1>4. A[k] = E[k]
  BY <1>1, <1>2, <1>3, AfterIs
<1>5. E[k] = [value |-> v, size |-> SizeOf[k][v]]
  BY <1>1 DEF Entries, TypeOK
<1>6. E[k] # Absent /\ \A j \in Keys \ {k} : E[j] = items[j]
  BY <1>1, <1>2, BeforeLoop
<1>7. A = [j \in Keys |-> IF j \in G THEN Absent ELSE E[j]]
  BY DEF After
<1> HIDE DEF A, E, G
<1>8. A[k] # Absent /\ A[k].value = v
  BY <1>4, <1>5, <1>6
<1>9. \A j \in Keys \ {k} : A[j] = IF j \in kept THEN items[j] ELSE Absent
  BY <1>6, <1>7
<1>10. kept \in SUBSET (Keys \ {k})
  OBVIOUS
<1> HIDE DEF kept
<1>11. Stored' = [j \in Keys |-> IF A[j] = Absent THEN Absent ELSE A[j].value]
  BY <1>2 DEF Stored
<1>12. Stored' = [j \in Keys |-> IF j = k THEN v
                                 ELSE IF j \in kept THEN Stored[j] ELSE Absent]
  BY <1>8, <1>9, <1>11 DEF Stored
<1>13. QED
  BY <1>10, <1>12

\* The cache implements CachePromise: a lookup finds what was stored last, and
\* an Add stores its value whole, at most forgetting others, or changes nothing
\* (cache.go 95-148).
THEOREM KeepsPromise == Spec => PromiseKept
<1>1. Init => Promise!Init
  BY DEF Init, Promise!Init
<1>2. IInv /\ [Next]_vars => [Promise!Next]_Stored
  <2> SUFFICES ASSUME IInv, [Next]_vars PROVE [Promise!Next]_Stored
    OBVIOUS
  <2>1. ASSUME NEW k \in Keys, NEW v \in Values, Add(k, v)
        PROVE  Promise!Next
    <3>1. Promise!Store(k, v)
      BY <2>1, AddStores DEF Promise!Store, Stored
    <3>2. QED
      BY <3>1 DEF Promise!Next, Promise!Add
  <2>2. CASE ~\E k \in Keys, v \in Values : Add(k, v)
    <3>1. items' = items
      BY <2>2, OthersKeepItems
    <3>2. QED
      BY <3>1 DEF Stored
  <2>3. QED
    BY <2>1, <2>2
<1>3. QED
  BY <1>1, <1>2, Invariance, PTL DEF Spec, PromiseKept, Promise!Spec, Stored

-----------------------------------------------------------------------------
(* Recency, with the history of uses.                                      *)

UsesAfter(k, N) == {pair \in N : pair[1] # k} \cup {<<j, k>> : j \in Keys \ {k}}

\* A list in the order of the last uses, most recent first.
Recent(list, N) == \A i, j \in 1 .. Len(list) : i < j => <<list[j], list[i]>> \in N

RecencyOK == \A s \in Shards : Recent(lru[s], newer)

HInv == IInv /\ RecencyOK

\* A list that does not hold the key used is as recent as it was.
LEMMA RecentElsewhere ==
    ASSUME NEW list \in Seq(Keys), NEW k, NEW N, Recent(list, N), k \notin ToSet(list)
    PROVE  Recent(list, UsesAfter(k, N))
<1>1. ToSet(list) = {list[i] : i \in 1 .. Len(list)}
  BY Members
<1>2. ASSUME NEW i \in 1 .. Len(list), NEW j \in 1 .. Len(list), i < j
      PROVE  <<list[j], list[i]>> \in UsesAfter(k, N)
  <2>1. <<list[j], list[i]>> \in N
    BY <1>2 DEF Recent
  <2>2. list[j] # k
    BY <1>1
  <2>3. QED
    BY <2>1, <2>2 DEF UsesAfter
<1>3. QED
  BY <1>2 DEF Recent

LEMMA RecentFront ==
    ASSUME NEW list \in Seq(Keys), IsInjective(list), NEW k \in Keys, NEW N, Recent(list, N)
    PROVE  Recent(ToFront(list, k), UsesAfter(k, N))
<1> DEFINE f == ToFront(list, k)
<1>1. /\ f \in Seq(Keys) /\ f[1] = k /\ IsInjective(f)
      /\ \A i, j \in 1 .. Len(f) : 1 < i /\ i < j =>
            \E a, b \in 1 .. Len(list) : a < b /\ list[a] = f[i] /\ list[b] = f[j]
  BY FrontKeeps
<1>2. /\ Len(f) \in Nat /\ \A i \in 1 .. Len(f) : f[i] \in Keys
      /\ \A i, j \in 1 .. Len(f) : f[i] = f[j] => i = j
  BY <1>1, LenProperties, Injective
<1> HIDE DEF f
<1>3. ASSUME NEW i \in 1 .. Len(f), NEW j \in 1 .. Len(f), i < j
      PROVE  <<f[j], f[i]>> \in UsesAfter(k, N)
  <2>1. f[j] # k /\ f[j] \in Keys
    BY <1>1, <1>2, <1>3
  <2>2. CASE i = 1
    BY <1>1, <2>1, <2>2 DEF UsesAfter
  <2>3. CASE i # 1
    <3>1. 1 < i
      BY <1>2, <2>3
    <3>2. PICK a \in 1 .. Len(list), b \in 1 .. Len(list) : a < b /\ list[a] = f[i] /\ list[b] = f[j]
      BY <1>1, <1>3, <3>1
    <3>3. <<list[b], list[a]>> \in N
      BY <3>2 DEF Recent
    <3>4. QED
      BY <2>1, <3>2, <3>3 DEF UsesAfter
  <2>4. QED
    BY <2>2, <2>3
<1>4. QED
  BY <1>3 DEF Recent, f

LEMMA UsedIs == ASSUME NEW k, Used(k) PROVE newer' = UsesAfter(k, newer)
BY DEF Used, UsesAfter

\* A use of a key leaves the lists of the other shards recent.
LEMMA RecentOthers ==
    ASSUME TypeOK, ShardsOK, RecencyOK, NEW k, NEW s \in Shards, ShardOf[k] # s
    PROVE  Recent(lru[s], UsesAfter(k, newer))
<1>1. Consistent(s, lru[s], used[s], items) /\ lru[s] \in Seq(Keys) /\ Recent(lru[s], newer)
  BY DEF TypeOK, ShardsOK, RecencyOK
<1>2. k \notin ToSet(lru[s])
  BY <1>1 DEF Consistent, Holds
<1>3. QED
  BY <1>1, <1>2, RecentElsewhere

LEMMA TouchRecent ==
    ASSUME HInv, NEW k \in Keys, Touch(k), Found(k)
    PROVE  RecencyOK'
<1>1. TypeOK /\ ShardsOK /\ RecencyOK
  BY DEF HInv, IInv
<1>2. CASE items[k] = Absent
  BY <1>1, <1>2 DEF Touch, Found, RecencyOK
<1>3. CASE items[k] # Absent
  <2> DEFINE s == ShardOf[k]
  <2>1. s \in Shards /\ ShardOf[k] = s
    BY LruAssumption
  <2>2. lru' = [lru EXCEPT ![s] = ToFront(lru[s], k)] /\ newer' = UsesAfter(k, newer)
    BY <1>3, UsedIs DEF Touch, Found
  <2>3. lru[s] \in Seq(Keys) /\ Recent(lru[s], newer) /\ Consistent(s, lru[s], used[s], items)
    BY <1>1, <2>1 DEF TypeOK, ShardsOK, RecencyOK
  <2>4. IsInjective(lru[s])
    BY <2>3 DEF Consistent
  <2>5. Recent(ToFront(lru[s], k), UsesAfter(k, newer))
    BY <2>3, <2>4, RecentFront
  <2> HIDE DEF s
  <2>6. ASSUME NEW t \in Shards PROVE Recent(lru'[t], UsesAfter(k, newer))
    <3>1. CASE t = s
      BY <1>1, <2>1, <2>2, <2>5, <3>1 DEF TypeOK
    <3>2. CASE t # s
      <4>1. lru'[t] = lru[t]
        BY <1>1, <2>1, <2>2, <3>2 DEF TypeOK
      <4>2. Recent(lru[t], UsesAfter(k, newer))
        BY <1>1, <2>1, <3>2, RecentOthers
      <4>3. QED
        BY <4>1, <4>2
    <3>3. QED
      BY <3>1, <3>2
  <2>7. QED
    BY <2>2, <2>6 DEF RecencyOK
<1>4. QED
  BY <1>2, <1>3

\* The list an Add starts its loop with is in the order of the uses, its own included.
LEMMA FrontRecent ==
    ASSUME HInv, NEW k \in Keys
    PROVE  Recent(Touched(k), UsesAfter(k, newer))
<1> DEFINE s == ShardOf[k]
<1>1. s \in Shards
  BY LruAssumption
<1>2. lru[s] \in Seq(Keys) /\ Recent(lru[s], newer) /\ Consistent(s, lru[s], used[s], items)
  BY <1>1 DEF HInv, IInv, TypeOK, ShardsOK, RecencyOK
<1>3. IsInjective(lru[s])
  BY <1>2 DEF Consistent
<1>4. QED
  BY <1>2, <1>3, RecentFront DEF Touched

LEMMA AddRecent ==
    ASSUME HInv, NEW k \in Keys, NEW v \in Values, Add(k, v), Used(k)
    PROVE  RecencyOK'
<1> DEFINE s == ShardOf[k]
           kept == Kept(k, v)
<1>1. TypeOK /\ ShardsOK /\ RecencyOK
  BY DEF HInv, IInv
<1>2. Accepts(k, v) /\ lru' = [lru EXCEPT ![s] = kept] /\ newer' = UsesAfter(k, newer)
  BY AddIs, UsedIs
<1>3. PICK n \in 1 .. Len(Touched(k)) : KeepsFirst(n, k, v)
  BY <1>1, <1>2, AfterLoop
<1>4. Recent(Touched(k), UsesAfter(k, newer))
  BY FrontRecent
<1>5. Len(kept) = n /\ \A i \in 1 .. n : kept[i] = Touched(k)[i]
  BY <1>3 DEF KeepsFirst
<1>6. \A i \in 1 .. n : i \in 1 .. Len(Touched(k))
  <2>1. Touched(k) \in Seq(Keys)
    BY <1>1, <1>2, BeforeLoop
  <2>2. Len(Touched(k)) \in Nat
    BY <2>1, LenProperties
  <2>3. QED
    BY <2>2
<1>7. Recent(kept, UsesAfter(k, newer))
  <2> HIDE DEF kept
  <2>1. ASSUME NEW i \in 1 .. n, NEW j \in 1 .. n, i < j
        PROVE  <<kept[j], kept[i]>> \in UsesAfter(k, newer)
    BY <1>4, <1>5, <1>6, <2>1 DEF Recent
  <2>2. QED
    BY <1>5, <2>1 DEF Recent
<1>8. s \in Shards /\ ShardOf[k] = s
  BY LruAssumption
<1> HIDE DEF s, kept
<1>9. ASSUME NEW t \in Shards PROVE Recent(lru'[t], UsesAfter(k, newer))
  <2>1. CASE t = s
    BY <1>1, <1>2, <1>7, <1>8, <2>1 DEF TypeOK
  <2>2. CASE t # s
    <3>1. lru'[t] = lru[t]
      BY <1>1, <1>2, <1>8, <2>2 DEF TypeOK
    <3>2. Recent(lru[t], UsesAfter(k, newer))
      BY <1>1, <1>8, <2>2, RecentOthers
    <3>3. QED
      BY <3>1, <3>2
  <2>3. QED
    BY <2>1, <2>2
<1>10. QED
  BY <1>2, <1>9 DEF RecencyOK

LEMMA HNextImplies == [HNext]_<<vars, newer>> => [Next]_vars
BY DEF HNext, Next, vars

LEMMA HInvariance == HSpec => []HInv
<1>1. HInit => HInv
  <2> SUFFICES ASSUME HInit PROVE HInv
    OBVIOUS
  <2>1. IInv
    BY InitIInv DEF HInit
  <2>2. \A s \in Shards : lru[s] = <<>>
    BY DEF HInit, Init
  <2>3. \A s \in Shards : Recent(lru[s], newer)
    BY <2>2 DEF Recent
  <2>4. QED
    BY <2>1, <2>3 DEF HInv, RecencyOK
<1>2. HInv /\ [HNext]_<<vars, newer>> => HInv'
  <2> SUFFICES ASSUME HInv, [HNext]_<<vars, newer>> PROVE HInv'
    OBVIOUS
  <2>1. IInv'
    BY HNextImplies, NextIInv DEF HInv
  <2>2. ASSUME NEW c \in Clients, Count(c), UNCHANGED newer PROVE RecencyOK'
    BY <2>2 DEF HInv, RecencyOK, Count
  <2>3. ASSUME NEW c \in Clients, NEW k \in Keys, Get(c, k), Found(k) PROVE RecencyOK'
    <3>1. Touch(k)
      BY <2>3 DEF Get
    <3>2. QED
      BY <2>3, <3>1, TouchRecent
  <2>4. ASSUME NEW k \in Keys, Peek(k), Found(k) PROVE RecencyOK'
    <3>1. Touch(k)
      BY <2>4 DEF Peek
    <3>2. QED
      BY <2>4, <3>1, TouchRecent
  <2>5. ASSUME NEW k \in Keys, NEW v \in Values, Add(k, v), Used(k) PROVE RecencyOK'
    BY <2>5, AddRecent
  <2>6. ASSUME StatsBegin \/ StatsShard \/ StatsReturn, UNCHANGED newer PROVE RecencyOK'
    BY <2>6 DEF HInv, RecencyOK, StatsBegin, StatsShard, StatsReturn
  <2>7. ASSUME UNCHANGED <<vars, newer>> PROVE RecencyOK'
    BY <2>7 DEF HInv, RecencyOK, vars
  <2>8. QED
    BY <2>1, <2>2, <2>3, <2>4, <2>5, <2>6, <2>7 DEF HNext, HInv
<1>3. QED
  BY <1>1, <1>2, PTL DEF HSpec

\* An entry that stays was used after every entry of its shard that goes,
\* counting lookups, Peeks, inserts and updates in place (cache.go 100, 132,
\* 135, 139).
THEOREM LeastRecentEviction == HSpec => EvictsLeastRecent
<1>1. ASSUME HInv, [HNext]_<<vars, newer>>,
             NEW gone \in Keys, NEW stays \in Keys,
             ShardOf[gone] = ShardOf[stays],
             items[gone] # Absent, items'[gone] = Absent, items'[stays] # Absent
      PROVE  <<gone, stays>> \in newer'
  <2>1. TypeOK /\ ShardsOK /\ IInv
    BY <1>1 DEF HInv, IInv
  <2>2. PICK k \in Keys, v \in Values : Add(k, v) /\ Used(k)
    <3>1. CASE \E k \in Keys, v \in Values : Add(k, v) /\ Used(k)
      BY <3>1
    <3>2. CASE ~\E k \in Keys, v \in Values : Add(k, v) /\ Used(k)
      BY <1>1, <3>2 DEF HNext, Get, Count, Peek, StatsBegin, StatsShard, StatsReturn, vars
    <3>3. QED
      BY <3>1, <3>2
  <2> DEFINE f == Touched(k)
             A == After(k, v)
             N == UsesAfter(k, newer)
             s == ShardOf[k]
  <2>3. Accepts(k, v) /\ items' = A /\ newer' = N
    BY <2>2, AddIs, UsedIs
  <2>4. PICK n \in 1 .. Len(f) : KeepsFirst(n, k, v)
    BY <2>1, <2>3, AfterLoop
  <2>5. /\ Holds(s, A) = First(f, n)
        /\ \A i \in Keys : ShardOf[i] # s => A[i] = items[i]
    BY <2>1, <2>3, <2>4, AfterIs
  <2>6. f \in Seq(Keys) /\ ToSet(f) = Holds(s, items) \cup {k}
    BY <2>1, <2>3, BeforeLoop
  <2>7. Recent(f, N)
    BY <1>1, FrontRecent
  <2>8. Len(f) \in Nat /\ n \in 1 .. Len(f) /\ ToSet(f) = {f[i] : i \in 1 .. Len(f)}
    BY <2>6, LenProperties, Members
  <2> HIDE DEF f, A, N, s
  <2>9. ShardOf[gone] = s /\ ShardOf[stays] = s
    BY <1>1, <2>3, <2>5
  <2>10. stays \in First(f, n) /\ gone \in ToSet(f) /\ gone \notin First(f, n)
    BY <1>1, <2>3, <2>5, <2>6, <2>9 DEF Holds
  <2>11. PICK i \in 1 .. n : stays = f[i]
    BY <2>10 DEF First
  <2>12. PICK j \in 1 .. Len(f) : gone = f[j]
    BY <2>8, <2>10
  <2>13. j \notin 1 .. n
    BY <2>10, <2>12 DEF First
  <2>14. i < j /\ i \in 1 .. Len(f)
    BY <2>8, <2>13
  <2>15. QED
    BY <2>3, <2>7, <2>11, <2>12, <2>14 DEF Recent
<1>2. HInv /\ [HNext]_<<vars, newer>> =>
        \A gone, stays \in Keys :
            (/\ ShardOf[gone] = ShardOf[stays]
             /\ items[gone] # Absent /\ items'[gone] = Absent
             /\ items'[stays] # Absent)
            => <<gone, stays>> \in newer'
  BY <1>1
<1>3. QED
  BY <1>2, HInvariance, PTL DEF HSpec, EvictsLeastRecent

=============================================================================
