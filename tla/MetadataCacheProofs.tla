------------------------ MODULE MetadataCacheProofs ------------------------
(***************************************************************************)
(* Theorems about MetadataCache, for any configurations, any sources, any  *)
(* requests and any size of the cache: the list is the beginning of the    *)
(* history of uses, and what is answered is of the base URL of who asked,  *)
(* whose links all lead to a handler.                                      *)
(***************************************************************************)
EXTENDS MetadataCache, FiniteSets, SequenceTheorems, FiniteSetTheorems, WellFoundedInduction, TLAPS

LEMMA RangeIs ==
    ASSUME NEW S, NEW s \in Seq(S)
    PROVE  Range(s) = {s[i] : i \in 1..Len(s)}
BY LenProperties DEF Range

\* A function on 1..n is a list.
LEMMA ListIs ==
    ASSUME NEW S, NEW n \in Nat, NEW f \in [1..n -> S]
    PROVE  f \in Seq(S) /\ Len(f) = n
<1>1. f \in Seq(S)
  BY SeqDef
<1>2. DOMAIN f = 1..Len(f) /\ DOMAIN f = 1..n /\ Len(f) \in Nat
  BY <1>1, LenProperties
<1> QED
  BY <1>1, <1>2

\* p is the place of x in s, or the one after the last.
IsPlace(p, s, x) ==
    /\ p \in 1..(Len(s) + 1)
    /\ p <= Len(s) => s[p] = x
    /\ p = Len(s) + 1 => x \notin Range(s)

IsFronted(t, p, s, x) ==
    /\ Len(t) = IF p <= Len(s) THEN Len(s) ELSE Len(s) + 1
    /\ \A i \in 1..Len(t) : t[i] = IF i = 1 THEN x ELSE IF i <= p THEN s[i - 1] ELSE s[i]

LEMMA FrontIs ==
    ASSUME NEW S, NEW s \in Seq(S), NEW x \in S
    PROVE  /\ ToFront(s, x) \in Seq(S)
           /\ \E p \in 1..(Len(s) + 1) : IsPlace(p, s, x) /\ IsFronted(ToFront(s, x), p, s, x)
<1> DEFINE p == PlaceOf(s, x)
           n == IF p <= Len(s) THEN Len(s) ELSE Len(s) + 1
           t == [i \in 1..n |-> IF i = 1 THEN x ELSE IF i <= p THEN s[i - 1] ELSE s[i]]
<1>1. Len(s) \in Nat /\ DOMAIN s = 1..Len(s) /\ \A i \in 1..Len(s) : s[i] \in S
  BY LenProperties
<1>2. Range(s) = {s[i] : i \in 1..Len(s)}
  BY RangeIs
<1>3. IsPlace(p, s, x) /\ (x \in Range(s) <=> p <= Len(s))
  BY <1>1, <1>2 DEF PlaceOf, IsPlace
<1>4. ToFront(s, x) = t
  BY <1>3 DEF ToFront
<1>5. p \in 1..(Len(s) + 1)
  BY <1>3 DEF IsPlace
<1> HIDE DEF p
<1>6. n \in Nat /\ t \in [1..n -> S]
  BY <1>1, <1>5
<1>7. t \in Seq(S) /\ Len(t) = n
  <2> HIDE DEF n, t
  <2> QED
    BY <1>6, ListIs
<1>8. IsFronted(t, p, s, x)
  BY <1>7 DEF IsFronted
<1> QED
  BY <1>3, <1>4, <1>5, <1>7, <1>8

NoRepeats(s) == \A i, j \in 1..Len(s) : s[i] = s[j] => i = j

LEMMA FrontHasNoRepeats ==
    ASSUME NEW S, NEW s \in Seq(S), NEW x \in S, NoRepeats(s)
    PROVE  NoRepeats(ToFront(s, x))
<1> DEFINE t == ToFront(s, x)
           n == Len(s)
<1>1. PICK p \in 1..(n + 1) : IsPlace(p, s, x) /\ IsFronted(t, p, s, x)
  BY FrontIs
<1>2. n \in Nat /\ t \in Seq(S) /\ Len(t) \in Nat
  BY FrontIs, LenProperties
<1>3. Range(s) = {s[i] : i \in 1..n}
  BY RangeIs
<1> HIDE DEF t, n
<1>4. \A i \in 1..n : s[i] = x => i = p
  <2> TAKE i \in 1..n
  <2>1. CASE p <= n
    BY <1>1, <2>1 DEF IsPlace, NoRepeats, n
  <2>2. CASE p = n + 1
    BY <1>1, <1>3, <2>2 DEF IsPlace, n
  <2> QED
    BY <1>2, <2>1, <2>2
<1>5. ASSUME NEW i \in 1..Len(t), NEW j \in 1..Len(t), i < j, t[i] = t[j] PROVE FALSE
  <2>1. Len(t) = (IF p <= n THEN n ELSE n + 1)
        /\ \A k \in 1..Len(t) : t[k] = IF k = 1 THEN x ELSE IF k <= p THEN s[k - 1] ELSE s[k]
    BY <1>1 DEF IsFronted, n
  <2>2. j # 1 /\ (j <= p => j - 1 \in 1..n /\ j - 1 # p) /\ (j > p => j \in 1..n /\ j # p)
    BY <1>2, <1>5, <2>1
  <2>3. CASE i = 1
    BY <1>4, <1>5, <2>1, <2>2, <2>3
  <2>4. CASE i # 1
    <3>1. (i <= p => i - 1 \in 1..n) /\ (i > p => i \in 1..n)
      BY <1>2, <2>1, <2>4
    <3>2. \A k, l \in 1..n : s[k] = s[l] => k = l
      BY DEF NoRepeats, n
    <3>3. t[i] = (IF i <= p THEN s[i - 1] ELSE s[i]) /\ t[j] = (IF j <= p THEN s[j - 1] ELSE s[j])
      BY <2>1, <2>2, <2>4
    <3> DEFINE k == IF i <= p THEN i - 1 ELSE i
               l == IF j <= p THEN j - 1 ELSE j
    <3>4. k \in 1..n /\ l \in 1..n /\ k < l
      BY <1>2, <1>5, <2>2, <3>1
    <3>5. s[k] = s[l]
      BY <1>5, <3>3
    <3> QED
      BY <3>2, <3>4, <3>5
  <2> QED
    BY <2>3, <2>4
<1> QED
  BY <1>2, <1>5 DEF NoRepeats, t

-----------------------------------------------------------------------------
(***************************************************************************)
(* The list of the cache is determined by the uses: its elements are those *)
(* of the base URLs used last.                                             *)
(***************************************************************************)
Kept(u) == [baseURL |-> u, bundle |-> u]

KeepsLast(U, list, used, keys) ==
    /\ used \in Seq(U) /\ NoRepeats(used)
    /\ list \in Seq([baseURL : U, bundle : U])
    /\ Len(list) = IF Len(used) < MaxEntries THEN Len(used) ELSE MaxEntries
    /\ \A i \in 1..Len(list) : list[i] = Kept(used[i])
    /\ keys = {used[i] : i \in 1..Len(list)}

LEMMA HitKeepsLast ==
    ASSUME NEW U, NEW list, NEW used, NEW keys, KeepsLast(U, list, used, keys),
           NEW b \in keys, NEW e, e = list[CHOOSE i \in DOMAIN list : list[i].baseURL = b]
    PROVE  /\ e = Kept(b)
           /\ KeepsLast(U, ToFront(list, e), ToFront(used, b), keys)
<1> DEFINE m == Len(list)
           n == Len(used)
           P == [baseURL : U, bundle : U]
           newList == ToFront(list, e)
           newUsed == ToFront(used, b)
<1>1. /\ m \in Nat /\ n \in Nat /\ m <= n /\ DOMAIN list = 1..m
      /\ list \in Seq(P) /\ used \in Seq(U)
      /\ \A i \in 1..n : used[i] \in U
      /\ MaxEntries \in Nat
  BY LenProperties, MetadataCacheAssumption DEF KeepsLast
<1>2. /\ m = IF n < MaxEntries THEN n ELSE MaxEntries
      /\ \A i \in 1..m : list[i] = Kept(used[i])
      /\ keys = {used[i] : i \in 1..m}
      /\ \A i, j \in 1..n : used[i] = used[j] => i = j
  BY DEF KeepsLast, NoRepeats
<1> HIDE DEF m, n
<1>3. \A i \in 1..m : i \in 1..n
  BY <1>1
<1>4. PICK q \in 1..m : used[q] = b
  BY <1>2
<1>5. \A i \in 1..m : list[i].baseURL = used[i]
  <2>1. \A u : Kept(u).baseURL = u
    BY DEF Kept
  <2> QED
    BY <1>2, <2>1
<1>6. e = Kept(b)
  <2> DEFINE c == CHOOSE i \in DOMAIN list : list[i].baseURL = b
  <2>1. c \in 1..m /\ list[c].baseURL = b
    BY <1>1, <1>4, <1>5
  <2> HIDE DEF c
  <2>2. used[c] = b /\ list[c] = Kept(used[c])
    BY <1>2, <1>5, <2>1
  <2>3. e = list[c]
    BY DEF c
  <2> QED
    BY <2>2, <2>3
<1>7. b \in U /\ e \in P /\ list[q] = e
  BY <1>1, <1>2, <1>3, <1>4, <1>6 DEF Kept
<1>8. newUsed \in Seq(U) /\ NoRepeats(newUsed)
  BY <1>1, <1>7, FrontIs, FrontHasNoRepeats DEF KeepsLast
<1>9. PICK p \in 1..(n + 1) : IsPlace(p, used, b) /\ IsFronted(newUsed, p, used, b)
  BY <1>1, <1>7, FrontIs DEF n
<1>10. newList \in Seq(P) /\ \E k \in 1..(m + 1) : IsPlace(k, list, e) /\ IsFronted(newList, k, list, e)
  <2> HIDE DEF P
  <2> QED
    BY <1>1, <1>7, FrontIs DEF m
<1>11. PICK k \in 1..(m + 1) : IsPlace(k, list, e) /\ IsFronted(newList, k, list, e)
  BY <1>10
<1> HIDE DEF newList, newUsed
<1>12. p = q
  <2>1. Range(used) = {used[i] : i \in 1..n}
    BY <1>1, RangeIs DEF n
  <2>2. p # n + 1
    BY <1>3, <1>4, <1>9, <2>1 DEF IsPlace, n
  <2>3. p \in 1..n /\ used[p] = b
    BY <1>1, <1>9, <2>2 DEF IsPlace, n
  <2> QED
    BY <1>2, <1>3, <1>4, <2>3
<1>13. k = q
  <2>1. Range(list) = {list[i] : i \in 1..m}
    <3> HIDE DEF P
    <3> QED
      BY <1>1, RangeIs DEF m
  <2>2. k # m + 1
    BY <1>4, <1>7, <1>11, <2>1 DEF IsPlace, m
  <2>3. k \in 1..m /\ list[k] = e
    <3>1. k \in 1..m
      BY <1>1, <2>2
    <3>2. k <= m => list[k] = e
      BY <1>11 DEF IsPlace, m
    <3> QED
      BY <1>1, <3>1, <3>2
  <2>4. used[k] = b
    <3>1. Kept(b).baseURL = b
      BY DEF Kept
    <3> QED
      BY <1>5, <1>6, <2>3, <3>1
  <2> QED
    BY <1>2, <1>3, <1>4, <2>3, <2>4
<1>14. /\ Len(newUsed) = n
       /\ \A i \in 1..n : newUsed[i] = IF i = 1 THEN b ELSE IF i <= q THEN used[i - 1] ELSE used[i]
  BY <1>1, <1>3, <1>9, <1>12 DEF IsFronted, n
<1>15. /\ Len(newList) = m
       /\ \A i \in 1..m : newList[i] = IF i = 1 THEN e ELSE IF i <= q THEN list[i - 1] ELSE list[i]
  BY <1>1, <1>11, <1>13 DEF IsFronted, m
<1>16. \A i \in 1..m : newList[i] = Kept(newUsed[i])
  <2> TAKE i \in 1..m
  <2>1. i # 1 => i - 1 \in 1..m
    BY <1>1
  <2>2. CASE i = 1
    BY <1>3, <1>6, <1>14, <1>15, <2>2
  <2>3. CASE i # 1 /\ i <= q
    <3>1. newList[i] = list[i - 1] /\ newUsed[i] = used[i - 1]
      BY <1>3, <1>14, <1>15, <2>3
    <3> QED
      BY <1>2, <2>1, <2>3, <3>1
  <2>4. CASE i # 1 /\ ~(i <= q)
    <3>1. newList[i] = list[i] /\ newUsed[i] = used[i]
      BY <1>3, <1>14, <1>15, <2>4
    <3> QED
      BY <1>2, <3>1
  <2> QED
    BY <2>2, <2>3, <2>4
<1>17. keys = {newUsed[i] : i \in 1..m}
  <2>1. ASSUME NEW i \in 1..m PROVE newUsed[i] \in keys
    <3>1. i # 1 => i - 1 \in 1..m
      BY <1>1
    <3> QED
      BY <1>2, <1>3, <1>14, <3>1
  <2>2. ASSUME NEW i \in 1..m PROVE \E j \in 1..m : newUsed[j] = used[i]
    <3>1. CASE i < q
      <4>1. i + 1 \in 1..m /\ i + 1 # 1 /\ i + 1 <= q /\ (i + 1) - 1 = i
        BY <1>1, <3>1
      <4> QED
        BY <1>3, <1>14, <4>1
    <3>2. CASE i = q
      <4>1. 1 \in 1..m
        BY <1>1
      <4> QED
        BY <1>3, <1>4, <1>14, <3>2, <4>1
    <3>3. CASE i > q
      BY <1>3, <1>14, <3>3
    <3> QED
      BY <1>1, <3>1, <3>2, <3>3
  <2>3. keys \subseteq {newUsed[i] : i \in 1..m}
    BY <1>2, <2>2
  <2> QED
    BY <2>1, <2>3
<1>18. KeepsLast(U, newList, newUsed, keys)
  BY <1>2, <1>8, <1>10, <1>14, <1>15, <1>16, <1>17 DEF KeepsLast
<1> QED
  BY <1>6, <1>18 DEF newList, newUsed

LEMMA BuiltKeepsLast ==
    ASSUME NEW U, NEW list, NEW used, NEW keys, KeepsLast(U, list, used, keys),
           NEW b \in U, b \notin keys, NEW grown, grown = <<Kept(b)>> \o list
    PROVE  KeepsLast(U,
                     IF Len(grown) > MaxEntries THEN Front(grown) ELSE grown,
                     ToFront(used, b),
                     (keys \cup {b}) \ (IF Len(grown) > MaxEntries THEN {Last(grown).baseURL} ELSE {}))
<1> DEFINE m == Len(list)
           n == Len(used)
           P == [baseURL : U, bundle : U]
           newList == IF Len(grown) > MaxEntries THEN Front(grown) ELSE grown
           newUsed == ToFront(used, b)
           newKeys == (keys \cup {b}) \ (IF Len(grown) > MaxEntries THEN {Last(grown).baseURL} ELSE {})
<1>1. /\ m \in Nat /\ n \in Nat /\ m <= n
      /\ list \in Seq(P) /\ used \in Seq(U)
      /\ MaxEntries \in Nat \ {0}
      /\ Kept(b) \in P
  BY LenProperties, MetadataCacheAssumption DEF KeepsLast, Kept
<1>2. /\ m = IF n < MaxEntries THEN n ELSE MaxEntries
      /\ \A i \in 1..m : list[i] = Kept(used[i])
      /\ keys = {used[i] : i \in 1..m}
      /\ \A i, j \in 1..n : used[i] = used[j] => i = j
  BY DEF KeepsLast, NoRepeats
<1>3. /\ grown \in Seq(P) /\ Len(grown) = m + 1
      /\ \A i \in 1..(m + 1) : grown[i] = IF i = 1 THEN Kept(b) ELSE list[i - 1]
  <2> HIDE DEF P
  <2>1. <<Kept(b)>> \in Seq(P) /\ Len(<<Kept(b)>>) = 1 /\ <<Kept(b)>>[1] = Kept(b)
    BY <1>1
  <2> QED
    BY <1>1, <2>1, ConcatProperties
<1>4. newUsed \in Seq(U) /\ NoRepeats(newUsed)
  BY <1>1, FrontIs, FrontHasNoRepeats DEF KeepsLast
<1>5. PICK p \in 1..(n + 1) : IsPlace(p, used, b) /\ IsFronted(newUsed, p, used, b)
  BY <1>1, FrontIs DEF n
<1> HIDE DEF m, n
<1>6. p > m
  <2>1. \A i \in 1..m : used[i] # b
    BY <1>2
  <2>2. p <= n => used[p] = b
    BY <1>5 DEF IsPlace, n
  <2> QED
    BY <1>1, <2>1, <2>2
<1>7. /\ Len(newUsed) = IF p <= n THEN n ELSE n + 1
      /\ \A i \in 1..(m + 1) : newUsed[i] = IF i = 1 THEN b ELSE used[i - 1]
  <2>1. /\ Len(newUsed) = IF p <= n THEN n ELSE n + 1
        /\ \A i \in 1..Len(newUsed) :
             newUsed[i] = IF i = 1 THEN b ELSE IF i <= p THEN used[i - 1] ELSE used[i]
    BY <1>5 DEF IsFronted, n
  <2> HIDE DEF newUsed
  <2>2. \A i \in 1..(m + 1) : i \in 1..Len(newUsed) /\ i <= p
    BY <1>1, <1>6, <2>1
  <2> QED
    BY <2>1, <2>2
<1> HIDE DEF newUsed
<1>8. \A i \in 1..(m + 1) : grown[i] = Kept(newUsed[i])
  <2> TAKE i \in 1..(m + 1)
  <2>1. i # 1 => i - 1 \in 1..m
    BY <1>1
  <2>2. CASE i = 1
    BY <1>3, <1>7, <2>2
  <2>3. CASE i # 1
    <3>1. grown[i] = list[i - 1] /\ newUsed[i] = used[i - 1]
      BY <1>3, <1>7, <2>3
    <3> QED
      BY <1>2, <2>1, <2>3, <3>1
  <2> QED
    BY <2>2, <2>3
<1>9. \A u : Kept(u).baseURL = u
  BY DEF Kept
<1>10. keys \cup {b} = {newUsed[i] : i \in 1..(m + 1)}
  <2>1. 1 \in 1..(m + 1) /\ newUsed[1] = b
    BY <1>1, <1>7
  <2>2. \A i \in 1..m : i + 1 \in 1..(m + 1) /\ newUsed[i + 1] = used[i]
    <3> TAKE i \in 1..m
    <3>1. i + 1 \in 1..(m + 1) /\ i + 1 # 1 /\ (i + 1) - 1 = i
      BY <1>1
    <3> QED
      BY <1>7, <3>1
  <2>3. \A i \in 1..(m + 1) : newUsed[i] \in keys \cup {b}
    <3> TAKE i \in 1..(m + 1)
    <3>1. i # 1 => i - 1 \in 1..m
      BY <1>1
    <3> QED
      BY <1>2, <1>7, <3>1
  <2>4. ASSUME NEW u \in keys PROVE \E i \in 1..(m + 1) : newUsed[i] = u
    <3>1. PICK i \in 1..m : used[i] = u
      BY <1>2
    <3>2. i + 1 \in 1..(m + 1) /\ newUsed[i + 1] = u
      BY <2>2, <3>1
    <3> QED
      BY <3>2
  <2>5. ASSUME NEW u \in {newUsed[i] : i \in 1..(m + 1)} PROVE u \in keys \cup {b}
    <3>1. PICK i \in 1..(m + 1) : u = newUsed[i]
      OBVIOUS
    <3> QED
      BY <2>3, <3>1
  <2>6. ASSUME NEW u \in keys \cup {b} PROVE u \in {newUsed[i] : i \in 1..(m + 1)}
    BY <2>1, <2>4
  <2> QED
    BY <2>5, <2>6
<1>11. CASE m + 1 > MaxEntries
  <2>1. m = MaxEntries /\ m >= 1
    BY <1>1, <1>2, <1>11
  <2>2. newList = Front(grown) /\ newKeys = (keys \cup {b}) \ {Last(grown).baseURL}
    BY <1>3, <1>11
  <2>3. newList \in Seq(P) /\ Len(newList) = m /\ \A i \in 1..m : newList[i] = grown[i]
    <3> HIDE DEF P, newList
    <3>1. newList = SubSeq(grown, 1, m)
      BY <1>1, <1>3, <2>2 DEF Front
    <3> QED
      BY <1>1, <1>3, <2>1, <3>1, SubSeqProperties
  <2>4. Last(grown).baseURL = newUsed[m + 1]
    <3>1. m + 1 \in 1..(m + 1) /\ Last(grown) = grown[m + 1]
      BY <1>1, <1>3 DEF Last
    <3>2. grown[m + 1] = Kept(newUsed[m + 1])
      BY <1>8, <3>1
    <3> QED
      BY <1>9, <3>1, <3>2
  <2>5. Len(newUsed) >= m + 1 /\ Len(newUsed) \in Nat
    BY <1>1, <1>6, <1>7
  <2>6. m = IF Len(newUsed) < MaxEntries THEN Len(newUsed) ELSE MaxEntries
    BY <1>1, <2>1, <2>5
  <2>7. newKeys = {newUsed[i] : i \in 1..m}
    <3>1. \A i \in 1..m : i \in 1..(m + 1) /\ newUsed[i] # newUsed[m + 1]
      <4> TAKE i \in 1..m
      <4>1. i \in 1..Len(newUsed) /\ m + 1 \in 1..Len(newUsed) /\ i # m + 1 /\ i \in 1..(m + 1)
        BY <1>1, <2>5
      <4> QED
        BY <1>4, <4>1 DEF NoRepeats
    <3>2. \A i \in 1..(m + 1) : i # m + 1 => i \in 1..m
      BY <1>1
    <3> HIDE DEF newKeys
    <3> QED
      BY <1>10, <2>2, <2>4, <3>1, <3>2
  <2>8. \A i \in 1..m : newList[i] = Kept(newUsed[i])
    <3>1. \A i \in 1..m : i \in 1..(m + 1)
      BY <1>1
    <3> HIDE DEF newList
    <3> QED
      BY <1>8, <2>3, <3>1
  <2>9. KeepsLast(U, newList, newUsed, newKeys)
    <3> HIDE DEF newList, newKeys
    <3> QED
      BY <1>4, <2>3, <2>6, <2>7, <2>8 DEF KeepsLast
  <2> QED
    BY <2>9 DEF newUsed
<1>12. CASE ~(m + 1 > MaxEntries)
  <2>1. newList = grown /\ newKeys = keys \cup {b}
    BY <1>3, <1>12
  <2>2. m = n /\ p = n + 1 /\ Len(newUsed) = m + 1
    BY <1>1, <1>2, <1>6, <1>7, <1>12
  <2>3. m + 1 = IF Len(newUsed) < MaxEntries THEN Len(newUsed) ELSE MaxEntries
    BY <1>1, <1>12, <2>2
  <2>4. KeepsLast(U, newList, newUsed, newKeys)
    <3> HIDE DEF newList, newKeys
    <3> QED
      BY <1>3, <1>4, <1>8, <1>10, <2>1, <2>3 DEF KeepsLast
  <2> QED
    BY <2>4 DEF newUsed
<1> QED
  BY <1>11, <1>12

-----------------------------------------------------------------------------
URLs == {ExternalBaseURL(config, q) : q \in Questions} \cup {config.publicURL}

Stages == {"out", "waiting", "building", "answered"}

RequestsFit ==
    /\ stage \in [Requests -> Stages]
    /\ asked \in [Requests -> Questions \cup {Unasked}]
    /\ \A r \in Requests : stage[r] # "out" => asked[r] \in Questions

\* While a bundle is built its base URL stays unknown to the map: the mutex is
\* held.
OneBuilds ==
    \A r \in Requests : stage[r] = "building" => holder = r /\ BaseURL(r) \notin entries

MInv == RequestsFit /\ OneBuilds /\ KeepsLast(URLs, lru, lastUsed, entries)

LEMMA URLsInclude ==
    ASSUME NEW r \in Requests, asked[r] \in Questions
    PROVE  BaseURL(r) \in URLs
BY DEF URLs, BaseURL

LEMMA InitMInv == Init => MInv
<1> SUFFICES ASSUME Init PROVE MInv
  OBVIOUS
<1>1. RequestsFit /\ OneBuilds
  BY DEF Init, RequestsFit, OneBuilds, Stages
<1>2. CASE config.publicURL = NoURL
  <2>1. lastUsed = <<>> /\ entries = Range(lastUsed)
        /\ lru = [i \in DOMAIN lastUsed |-> Kept(lastUsed[i])]
    BY <1>2 DEF Init, Kept
  <2>2. lastUsed \in Seq(URLs) /\ Len(lastUsed) = 0 /\ DOMAIN lastUsed = {}
    BY <2>1
  <2>3. lru = <<>>
    BY <2>1, <2>2
  <2>4. entries = {}
    BY <2>1, <2>2 DEF Range
  <2> QED
    BY <1>1, <2>2, <2>3, <2>4, MetadataCacheAssumption DEF MInv, KeepsLast, NoRepeats
<1>3. CASE config.publicURL # NoURL
  <2> DEFINE u == config.publicURL
  <2>1. lastUsed = <<u>> /\ entries = Range(lastUsed)
        /\ lru = [i \in DOMAIN lastUsed |-> Kept(lastUsed[i])]
    BY <1>3 DEF Init, Kept
  <2>2. u \in URLs
    BY DEF URLs
  <2> HIDE DEF u
  <2>3. lastUsed \in Seq(URLs) /\ Len(lastUsed) = 1 /\ lastUsed[1] = u /\ DOMAIN lastUsed = 1..1
    BY <2>1, <2>2
  <2>4. lru \in Seq([baseURL : URLs, bundle : URLs]) /\ Len(lru) = 1
    <3>1. lru \in [1..1 -> [baseURL : URLs, bundle : URLs]]
      BY <2>1, <2>2, <2>3 DEF Kept
    <3> DEFINE P == [baseURL : URLs, bundle : URLs]
    <3> HIDE DEF P
    <3>2. lru \in [1..1 -> P]
      BY <3>1 DEF P
    <3>3. lru \in Seq(P) /\ Len(lru) = 1
      BY <3>2, ListIs
    <3> QED
      BY <3>3 DEF P
  <2>5. entries = {lastUsed[i] : i \in 1..1}
    BY <2>1, <2>3 DEF Range
  <2>6. \A i \in 1..1 : lru[i] = Kept(lastUsed[i])
    BY <2>1, <2>3
  <2>7. NoRepeats(lastUsed)
    BY <2>3 DEF NoRepeats
  <2>8. 1 = IF 1 < MaxEntries THEN 1 ELSE MaxEntries
    BY MetadataCacheAssumption
  <2> QED
    BY <1>1, <2>3, <2>4, <2>5, <2>6, <2>7, <2>8 DEF MInv, KeepsLast
<1> QED
  BY <1>2, <1>3

LEMMA SameURLs ==
    ASSUME given' = given
    PROVE  /\ config' = config /\ URLs' = URLs
           /\ \A q : ExternalBaseURL(config, q)' = ExternalBaseURL(config, q)
BY DEF URLs, config

LEMMA BaseURLStays ==
    ASSUME given' = given, NEW r, asked'[r] = asked[r]
    PROVE  BaseURL(r)' = BaseURL(r)
BY DEF BaseURL, config

LEMMA NextMInv == MInv /\ [Next]_(vars) => MInv'
<1> SUFFICES ASSUME MInv, [Next]_(vars) PROVE MInv'
  OBVIOUS
<1> USE DEF MInv
<1>1. given' = given
  BY DEF Next, vars, Ask, Hit, Miss, BuildFails, Built, Leave
<1>2. URLs' = URLs
  BY <1>1, SameURLs
<1>3. ASSUME NEW r \in Requests, NEW q \in Questions, Ask(r, q) PROVE MInv'
  <2>1. /\ stage[r] = "out" /\ asked' = [asked EXCEPT ![r] = q]
        /\ \E to \in {"answered", "waiting"} : stage' = [stage EXCEPT ![r] = to]
        /\ UNCHANGED <<entries, lru, holder, lastUsed>>
    BY <1>3 DEF Ask, Answer, Move
  <2>2. RequestsFit'
    BY <2>1 DEF RequestsFit, Stages
  <2>3. ASSUME NEW c \in Requests, stage'[c] = "building"
        PROVE  holder' = c /\ BaseURL(c)' \notin entries'
    <3>1. c # r /\ stage[c] = "building" /\ asked'[c] = asked[c]
      BY <2>1, <2>3 DEF RequestsFit
    <3> QED
      BY <1>1, <2>1, <3>1, BaseURLStays DEF OneBuilds
  <2> QED
    BY <1>2, <2>1, <2>2, <2>3 DEF OneBuilds
<1>4. ASSUME NEW r \in Requests, Hit(r) PROVE MInv'
  <2> DEFINE e == lru[CHOOSE i \in DOMAIN lru : lru[i].baseURL = BaseURL(r)]
  <2>1. /\ holder = NoRequest /\ holder' = holder
        /\ stage[r] = "waiting" /\ stage' = [stage EXCEPT ![r] = "answered"]
        /\ asked' = asked /\ entries' = entries
        /\ BaseURL(r) \in entries
        /\ lru' = ToFront(lru, e)
        /\ lastUsed' = ToFront(lastUsed, BaseURL(r))
    BY <1>4 DEF Hit, Waiting, Deliver, Answer, Move
  <2>2. RequestsFit'
    BY <2>1 DEF RequestsFit, Stages
  <2>3. OneBuilds'
    BY <2>1, MetadataCacheAssumption DEF OneBuilds, RequestsFit
  <2>4. KeepsLast(URLs, lru', lastUsed', entries')
    BY <2>1, HitKeepsLast
  <2> QED
    BY <1>2, <2>2, <2>3, <2>4
<1>5. ASSUME NEW r \in Requests, Miss(r) PROVE MInv'
  <2>1. /\ holder = NoRequest /\ holder' = r
        /\ stage[r] = "waiting" /\ stage' = [stage EXCEPT ![r] = "building"]
        /\ BaseURL(r) \notin entries
        /\ UNCHANGED <<asked, entries, lru, lastUsed>>
    BY <1>5 DEF Miss, Waiting, Move
  <2>2. RequestsFit'
    BY <2>1 DEF RequestsFit, Stages
  <2>3. ASSUME NEW c \in Requests, stage'[c] = "building"
        PROVE  holder' = c /\ BaseURL(c)' \notin entries'
    <3>1. c = r
      BY <2>1, <2>3, MetadataCacheAssumption DEF OneBuilds, RequestsFit
    <3> QED
      BY <1>1, <2>1, <3>1, BaseURLStays
  <2> QED
    BY <1>2, <2>1, <2>2, <2>3 DEF OneBuilds
<1>6. ASSUME NEW r \in Requests, BuildFails(r) PROVE MInv'
  <2>1. /\ stage[r] = "building" /\ stage' = [stage EXCEPT ![r] = "answered"]
        /\ UNCHANGED <<asked, entries, lru, lastUsed>>
    BY <1>6 DEF BuildFails, Answer, Move
  <2>2. RequestsFit'
    BY <2>1 DEF RequestsFit, Stages
  <2>3. OneBuilds'
    BY <2>1 DEF OneBuilds, RequestsFit
  <2> QED
    BY <1>2, <2>1, <2>2, <2>3
<1>7. ASSUME NEW r \in Requests, Built(r) PROVE MInv'
  <2> DEFINE grown == <<Kept(BaseURL(r))>> \o lru
             full == Len(grown) > MaxEntries
  <2>1. /\ stage[r] = "building" /\ stage' = [stage EXCEPT ![r] = "answered"]
        /\ asked' = asked
        /\ lru' = IF full THEN Front(grown) ELSE grown
        /\ entries' = (entries \cup {BaseURL(r)}) \ (IF full THEN {Last(grown).baseURL} ELSE {})
        /\ lastUsed' = ToFront(lastUsed, BaseURL(r))
    BY <1>7 DEF Built, Deliver, Answer, Move, Kept
  <2>2. RequestsFit'
    BY <2>1 DEF RequestsFit, Stages
  <2>3. OneBuilds'
    BY <2>1 DEF OneBuilds, RequestsFit
  <2>4. BaseURL(r) \in URLs /\ BaseURL(r) \notin entries
    BY <2>1, URLsInclude DEF OneBuilds, RequestsFit
  <2>5. KeepsLast(URLs, lru', lastUsed', entries')
    BY <2>1, <2>4, BuiltKeepsLast
  <2> QED
    BY <1>2, <2>2, <2>3, <2>5
<1>8. ASSUME NEW r \in Requests, Leave(r) PROVE MInv'
  <2>1. /\ stage[r] = "answered" /\ stage' = [stage EXCEPT ![r] = "out"]
        /\ asked' = [asked EXCEPT ![r] = Unasked]
        /\ UNCHANGED <<entries, lru, holder, lastUsed>>
    BY <1>8 DEF Leave, Move
  <2>2. RequestsFit'
    BY <2>1 DEF RequestsFit, Stages
  <2>3. ASSUME NEW c \in Requests, stage'[c] = "building"
        PROVE  holder' = c /\ BaseURL(c)' \notin entries'
    <3>1. c # r /\ stage[c] = "building" /\ asked'[c] = asked[c]
      BY <2>1, <2>3 DEF RequestsFit
    <3> QED
      BY <1>1, <2>1, <3>1, BaseURLStays DEF OneBuilds
  <2> QED
    BY <1>2, <2>1, <2>2, <2>3 DEF OneBuilds
<1>9. CASE UNCHANGED vars
  BY <1>2, <1>9 DEF vars, RequestsFit, OneBuilds, BaseURL, config
<1> QED
  BY <1>3, <1>4, <1>5, <1>6, <1>7, <1>8, <1>9 DEF Next

LEMMA MinOfTwo ==
    ASSUME NEW a \in Nat, NEW b \in Nat
    PROVE  Min({a, b}) = IF b < a THEN b ELSE a
BY DEF Min

\* The metadata cache holds the base URLs used last, in the order of their use,
\* for any number of them, any cache size and any interleaving of the requests
\* (metadata_cache.go 70-93).
THEOREM LastUsedAreKept == Spec => []KeepsTheLastUsed
<1>1. MInv => KeepsTheLastUsed
  <2> SUFFICES ASSUME MInv PROVE KeepsTheLastUsed
    OBVIOUS
  <2> DEFINE m == Len(lru)
             n == Len(lastUsed)
             P == [baseURL : URLs, bundle : URLs]
             baseURLs == [i \in DOMAIN lru |-> lru[i].baseURL]
             least == Min({MaxEntries, n})
             latest == SubSeq(lastUsed, 1, least)
  <2>1. /\ lru \in Seq(P) /\ lastUsed \in Seq(URLs)
        /\ m = IF n < MaxEntries THEN n ELSE MaxEntries
        /\ \A i \in 1..m : lru[i] = Kept(lastUsed[i])
        /\ entries = {lastUsed[i] : i \in 1..m}
    BY DEF MInv, KeepsLast
  <2>2. m \in Nat /\ n \in Nat /\ DOMAIN lru = 1..m /\ m <= n
        /\ \A i \in 1..n : lastUsed[i] \in URLs
    <3> HIDE DEF P
    <3> QED
      BY <2>1, LenProperties, MetadataCacheAssumption
  <2>3. least = m
    BY <2>1, <2>2, MinOfTwo, MetadataCacheAssumption
  <2>4. \A i \in 1..m : lru[i].baseURL = lastUsed[i] /\ lru[i].bundle = lru[i].baseURL
    <3>1. \A u : Kept(u).baseURL = u /\ Kept(u).bundle = u
      BY DEF Kept
    <3> QED
      BY <2>1, <3>1
  <2>5. baseURLs = [i \in 1..m |-> lastUsed[i]]
    BY <2>2, <2>4
  <2>6. latest \in [1..m -> URLs] /\ \A i \in 1..m : latest[i] = lastUsed[i]
    <3> HIDE DEF m, n, least
    <3>1. \A i \in 1..m : lastUsed[i] \in URLs
      BY <2>2
    <3>2. latest \in Seq(URLs) /\ Len(latest) = m /\ \A i \in 1..m : latest[i] = lastUsed[i]
      BY <2>2, <2>3, <3>1, SubSeqProperties
    <3> HIDE DEF latest
    <3> QED
      BY <3>2, LenProperties
  <2>7. baseURLs = latest
    <3> HIDE DEF latest, m
    <3> QED
      BY <2>5, <2>6
  <2>8. entries = Range(baseURLs)
    BY <2>1, <2>5 DEF Range
  <2> QED
    BY <2>2, <2>4, <2>7, <2>8 DEF KeepsTheLastUsed
<1> QED
  BY <1>1, InitMInv, NextMInv, PTL DEF Spec

-----------------------------------------------------------------------------
(***************************************************************************)
(* Paths.                                                                  *)
(***************************************************************************)
LEMMA Smallest ==
    ASSUME NEW n \in Nat, NEW T \in SUBSET (0..n), T # {}
    PROVE  \E x \in T : \A y \in T : x <= y
<1> DEFINE UpTo == {0..x : x \in T}
<1>1. ASSUME NEW A \in UpTo PROVE A \subseteq 0..n /\ IsFiniteSet(A)
  <2>1. PICK x \in T : A = 0..x
    OBVIOUS
  <2>2. x \in 0..n
    OBVIOUS
  <2> QED
    BY <2>1, <2>2, FS_Interval
<1>2. UpTo \subseteq FiniteSubsetsOf(0..n) /\ UpTo # {}
  BY <1>1 DEF FiniteSubsetsOf
<1>3. PICK A \in UpTo : \A B \in UpTo : ~(<<B, A>> \in StrictSubsetOrdering(0..n))
  BY <1>2, FS_StrictSubsetOrderingWellFounded, WFMin
<1>4. PICK x \in T : A = 0..x
  OBVIOUS
<1>5. ASSUME NEW y \in T, y < x PROVE FALSE
  <2>1. 0..y \in UpTo /\ 0..y \subseteq 0..x /\ 0..y # 0..x
    BY <1>5
  <2>2. <<0..y, 0..x>> \in StrictSubsetOrdering(0..n)
    BY <1>1, <1>4, <2>1 DEF StrictSubsetOrdering
  <2> QED
    BY <1>3, <1>4, <2>1, <2>2
<1> QED
  BY <1>5

LEMMA Greatest ==
    ASSUME NEW n \in Nat, NEW T \in SUBSET (0..n), T # {}
    PROVE  \E x \in T : \A y \in T : x >= y
<1> DEFINE Distances == {n - x : x \in T}
<1>1. Distances \in SUBSET (0..n) /\ Distances # {}
  <2>1. \A x \in T : x \in 0..n /\ n - x \in 0..n
    OBVIOUS
  <2> QED
    BY <2>1
<1>2. PICK d \in Distances : \A e \in Distances : d <= e
  <2> HIDE DEF Distances
  <2> QED
    BY <1>1, Smallest
<1>3. PICK x \in T : d = n - x
  OBVIOUS
<1>4. \A y \in T : n - y \in Distances
  OBVIOUS
<1> QED
  BY <1>2, <1>3, <1>4

Segment == Seq(STRING) \cup {Empty}
Path == Seq(Segment)

LEMMA FullIs ==
    ASSUME NEW path \in Path, Full(path) # {}
    PROVE  /\ Max(Full(path)) \in 1..Len(path)
           /\ Min(Full(path)) \in 1..Len(path)
<1>1. Full(path) \in SUBSET (1..Len(path)) /\ Len(path) \in Nat
  BY LenProperties DEF Path, Full
<1>2. Full(path) \in SUBSET (0..Len(path))
  BY <1>1
<1>3. \E x \in Full(path) : \A y \in Full(path) : x >= y
  BY <1>1, <1>2, Greatest
<1>4. \E x \in Full(path) : \A y \in Full(path) : x <= y
  BY <1>1, <1>2, Smallest
<1>5. Max(Full(path)) \in Full(path) /\ Min(Full(path)) \in Full(path)
  BY <1>3, <1>4 DEF Max, Min
<1> QED
  BY <1>1, <1>5

LEMMA TrimmedPaths ==
    ASSUME NEW path \in Path
    PROVE  /\ TrimRight(path) \in Path
           /\ NormalizeBasePath(path) \in Path
<1>1. Len(path) \in Nat /\ \A i \in 1..Len(path) : path[i] \in Segment
  BY LenProperties DEF Path
<1>2. <<>> \in Path /\ <<Empty>> \in Path
  BY DEF Path, Segment
<1>3. \A a, b \in 1..Len(path) : SubSeq(path, a, b) \in Path
  <2> TAKE a, b \in 1..Len(path)
  <2>1. \A i \in a..b : path[i] \in Segment
    BY <1>1
  <2> QED
    BY <1>1, <2>1, SubSeqProperties DEF Path
<1>4. TrimRight(path) \in Path
  <2>1. Full(path) # {} => 1 \in 1..Len(path) /\ Max(Full(path)) \in 1..Len(path)
    BY <1>1, FullIs
  <2> QED
    BY <1>2, <1>3, <2>1 DEF TrimRight
<1>5. Trim(path) \in Path
  BY <1>2, <1>3, FullIs DEF Trim
<1> QED
  BY <1>2, <1>4, <1>5 DEF NormalizeBasePath

\* A path below another is served as what is below it.
LEMMA PathsJoin ==
    ASSUME NEW S, NEW base \in Seq(S), NEW path \in Seq(S)
    PROVE  /\ IsPrefix(base, base \o path)
           /\ SubSeq(base \o path, Len(base) + 1, Len(base \o path)) = path
<1> DEFINE both == base \o path
           n == Len(base)
           m == Len(path)
<1>1. /\ both \in Seq(S) /\ Len(both) = n + m /\ n \in Nat /\ m \in Nat
      /\ \A i \in 1..(n + m) : both[i] = IF i <= n THEN base[i] ELSE path[i - n]
  BY ConcatProperties, LenProperties
<1>2. /\ \A i \in 1..(n + m) : both[i] \in S
      /\ base = [i \in 1..n |-> base[i]] /\ path = [i \in 1..m |-> path[i]]
  BY <1>1, LenProperties
<1> HIDE DEF both, n, m
<1>3. SubSeq(both, 1, n) = base
  <2>1. \A i \in 1..n : i \in 1..(n + m)
    BY <1>1
  <2>2. SubSeq(both, 1, n) \in Seq(S) /\ Len(SubSeq(both, 1, n)) = n
        /\ \A i \in 1..n : SubSeq(both, 1, n)[i] = both[i]
    BY <1>1, <1>2, <2>1, SubSeqProperties
  <2> DEFINE first == SubSeq(both, 1, n)
  <2>3. first \in Seq(S) /\ Len(first) = n /\ \A i \in 1..n : first[i] = base[i]
    BY <1>1, <2>1, <2>2
  <2> HIDE DEF first
  <2>4. first = [i \in 1..n |-> first[i]]
    BY <2>3, LenProperties
  <2> QED
    BY <1>2, <2>3, <2>4 DEF first
<1>4. SubSeq(both, n + 1, Len(both)) = path
  <2> DEFINE rest == SubSeq(both, n + 1, n + m)
  <2>1. \A i \in (n + 1)..(n + m) : i \in 1..(n + m)
    BY <1>1
  <2>2. rest \in Seq(S) /\ Len(rest) = m /\ \A i \in 1..m : rest[i] = both[n + 1 + i - 1]
    <3>1. \A i \in (n + 1)..(n + m) : both[i] \in S
      BY <1>2, <2>1
    <3>2. /\ rest \in Seq(S)
          /\ Len(rest) = IF n + 1 <= n + m THEN (n + m) - (n + 1) + 1 ELSE 0
          /\ \A i \in 1..((n + m) - (n + 1) + 1) : rest[i] = both[n + 1 + i - 1]
      BY <1>1, <3>1, SubSeqProperties
    <3> HIDE DEF rest
    <3> QED
      BY <1>1, <3>2
  <2> HIDE DEF rest
  <2>3. rest = [i \in 1..m |-> rest[i]]
    BY <2>2, LenProperties
  <2>4. \A i \in 1..m : rest[i] = path[i]
    <3> TAKE i \in 1..m
    <3>1. n + 1 + i - 1 = n + i /\ n + i \in 1..(n + m) /\ ~(n + i <= n) /\ (n + i) - n = i
      BY <1>1
    <3> QED
      BY <1>1, <2>2, <3>1
  <2> QED
    BY <1>1, <1>2, <2>3, <2>4 DEF rest
<1>5. SubSeq(base, 1, n) = base
  <2> DEFINE same == SubSeq(base, 1, n)
  <2>1. \A i \in 1..n : base[i] \in S
    BY LenProperties DEF n
  <2>2. same \in Seq(S) /\ Len(same) = n /\ \A i \in 1..n : same[i] = base[i]
    BY <1>1, <2>1, SubSeqProperties
  <2> HIDE DEF same
  <2>3. same = [i \in 1..n |-> same[i]]
    BY <2>2, LenProperties
  <2> QED
    BY <1>2, <2>2, <2>3 DEF same
<1> QED
  BY <1>1, <1>3, <1>4, <1>5 DEF both, n, IsPrefix

LEMMA WiderLists ==
    ASSUME NEW S, NEW T, S \subseteq T, NEW s \in Seq(S)
    PROVE  s \in Seq(T)
<1>1. s \in [1..Len(s) -> T] /\ Len(s) \in Nat
  BY LenProperties
<1> QED
  BY <1>1, ListIs

-----------------------------------------------------------------------------
(***************************************************************************)
(* Every link leads to a handler.                                          *)
(***************************************************************************)
Leads(c, path) == Exists(RouteOf(c, path))

LEMMA SharedLead ==
    ASSUME NEW c
    PROVE  /\ Leads(c, <<<<"healthz">>>>)
           /\ Leads(c, <<<<"wmts">>>>)
           /\ c.metrics => Leads(c, <<<<"metrics">>>>)
<1>1. RouteOf(c, <<<<"healthz">>>>) = Shared("state")
  BY DEF RouteOf, Empty
<1>2. RouteOf(c, <<<<"wmts">>>>) = Shared("wmts")
  BY DEF RouteOf, Empty
<1>3. c.metrics => RouteOf(c, <<<<"metrics">>>>) = Shared("state")
  BY DEF RouteOf, Empty
<1>4. Exists(Shared("state")) /\ Exists(Shared("wmts"))
  BY DEF Exists, Shared, Document, Absent, SourceKinds
<1> QED
  BY <1>1, <1>2, <1>3, <1>4 DEF Leads

LEMMA LastAdded ==
    ASSUME NEW S, NEW s \in Seq(S), NEW x
    PROVE  Last(s \o <<x>>) = x /\ Front(s \o <<x>>) = s
<1> DEFINE T == S \cup {x}
           t == s \o <<x>>
           n == Len(s)
<1>1. s \in Seq(T) /\ <<x>> \in Seq(T)
  BY WiderLists
<1> HIDE DEF T
<1>2. /\ t \in Seq(T) /\ n \in Nat /\ Len(t) = n + 1
      /\ \A i \in 1..(n + 1) : t[i] = IF i <= n THEN s[i] ELSE <<x>>[i - n]
      /\ \A i \in 1..n : s[i] \in T
      /\ s = [i \in 1..n |-> s[i]]
  BY <1>1, ConcatProperties, LenProperties
<1> HIDE DEF t, n
<1>3. Last(t) = x
  <2>1. n + 1 \in 1..(n + 1) /\ (n + 1) - n = 1 /\ ~(n + 1 <= n)
    BY <1>2
  <2> QED
    BY <1>2, <2>1 DEF Last
<1>4. Front(t) = s
  <2> DEFINE front == SubSeq(t, 1, n)
  <2>1. \A i \in 1..n : i \in 1..(n + 1) /\ t[i] = s[i]
    BY <1>2
  <2>2. front \in Seq(T) /\ Len(front) = n /\ \A i \in 1..n : front[i] = s[i]
    BY <1>2, <2>1, SubSeqProperties
  <2> HIDE DEF front
  <2>3. front = [i \in 1..n |-> front[i]]
    BY <2>2, LenProperties
  <2>4. Front(t) = front
    BY <1>2 DEF Front, front
  <2> QED
    BY <1>2, <2>2, <2>3, <2>4
<1> QED
  BY <1>3, <1>4 DEF t

LEMMA TileJSONLeads ==
    ASSUME NEW c, NEW id \in DOMAIN Sources, id \in Seq(STRING)
    PROVE  Leads(c, <<<<"data">>, id \o <<"json">>>>)
<1> DEFINE path == <<<<"data">>, id \o <<"json">>>>
<1>1. Last(id \o <<"json">>) = "json" /\ Front(id \o <<"json">>) = id
  BY LastAdded
<1>2. RouteOf(c, path) = Document("tileJSON", id)
  BY <1>1 DEF RouteOf, Empty
<1> QED
  BY <1>2 DEF Leads, Exists, Shared, Document, Absent

LEMMA TilesLead ==
    ASSUME NEW c, NEW id \in DOMAIN Sources, NEW z, NEW x, NEW y,
           Exists(TileRoute(id, Tail(y)))
    PROVE  Leads(c, <<<<"data">>, id, z, x, y>>)
<1> DEFINE path == <<<<"data">>, id, z, x, y>>
<1>1. RouteOf(c, path) = TileRoute(id, Tail(y))
  BY DEF RouteOf, Empty
<1> QED
  BY <1>1 DEF Leads

\* What a document calls a tile or a grid of a source is found.
LEMMA ExtensionsLead ==
    ASSUME NEW id \in DOMAIN Sources, NEW y, NEW extension
    PROVE  /\ Exists(TileRoute(id, Tail(<<y, Sources[id].extension>>)))
           /\ Sources[id].hasUTFGrid => Exists(TileRoute(id, Tail(<<y, "grid", "json">>)))
<1>1. \A a, b : Tail(<<a, b>>) = <<b>>
  OBVIOUS
<1>2. \A a, b, d : Tail(<<a, b, d>>) = <<b, d>>
  OBVIOUS
<1>3. \A a : <<a>> \in ExtensionsOf(a)
  BY DEF ExtensionsOf
<1>4. \A a : <<a>> # <<"grid", "json">>
  OBVIOUS
<1>5. \A kind \in {"tile", "grid"} : Exists(Document(kind, id))
  BY DEF Exists, Shared, Document, Absent
<1> QED
  BY <1>1, <1>2, <1>3, <1>4, <1>5 DEF TileRoute

IsLink(c, base, link) ==
    \E S : \E path \in Seq(S) : link = Below(base, path) /\ Leads(c, path)

LEMMA TileJSONLinks ==
    ASSUME NEW c, NEW base, NEW id \in DOMAIN Sources, NEW link \in TileJSON(base, id)
    PROVE  IsLink(c, base, link)
<1>1. PICK y : /\ link = Below(base, <<<<"data">>, id, <<"z">>, <<"x">>, y>>)
               /\ Exists(TileRoute(id, Tail(y)))
  BY ExtensionsLead DEF TileJSON, TileLinks, GridLinks
<1>2. Leads(c, <<<<"data">>, id, <<"z">>, <<"x">>, y>>)
  BY <1>1, TilesLead
<1>3. <<<<"data">>, id, <<"z">>, <<"x">>, y>> \in Seq({<<"data">>, id, <<"z">>, <<"x">>, y})
  OBVIOUS
<1> QED
  BY <1>1, <1>2, <1>3 DEF IsLink

LEMMA SharedLinks ==
    ASSUME NEW c, NEW base
    PROVE  /\ IsLink(c, base, Below(base, <<<<"healthz">>>>))
           /\ IsLink(c, base, Below(base, <<<<"wmts">>>>))
           /\ c.metrics => IsLink(c, base, Below(base, <<<<"metrics">>>>))
<1>1. \A s : <<s>> \in Seq({s})
  OBVIOUS
<1> QED
  BY <1>1, SharedLead DEF IsLink

LEMMA LinksLead ==
    ASSUME NEW c, NEW base, NEW d, Exists(d), d.kind \in DocumentKinds,
           NEW link \in Links(c, base, d)
    PROVE  IsLink(c, base, link)
<1>1. ASSUME NEW ids \in SUBSET DOMAIN Sources, link \in Capabilities(base, ids)
      PROVE  IsLink(c, base, link)
  <2>1. CASE link = Below(base, <<<<"wmts">>>>)
    BY <2>1, SharedLinks
  <2>2. CASE \E id \in ids : link \in TileLinks(base, id)
    <3>1. PICK id \in ids : link \in TileLinks(base, id)
      BY <2>2
    <3>2. link \in TileJSON(base, id)
      BY <3>1 DEF TileJSON
    <3> QED
      BY <3>2, TileJSONLinks
  <2> QED
    BY <1>1, <2>1, <2>2 DEF Capabilities
<1>2. CASE d.kind = "catalog"
  <2>1. link \in CatalogLinks(c, base)
    BY <1>2 DEF Links
  <2>2. CASE \E id \in DOMAIN Sources : link = Below(base, <<<<"data">>, id \o <<"json">>>>)
    <3>1. PICK id \in DOMAIN Sources : link = Below(base, <<<<"data">>, id \o <<"json">>>>)
      BY <2>2
    <3> DEFINE s == id \o <<"json">>
    <3>2. Leads(c, <<<<"data">>, s>>)
      BY TileJSONLeads, MetadataCacheAssumption
    <3> HIDE DEF s
    <3>3. <<<<"data">>, s>> \in Seq({<<"data">>, s})
      OBVIOUS
    <3> QED
      BY <3>1, <3>2, <3>3 DEF IsLink, s
  <2> QED
    BY <2>1, <2>2, SharedLinks DEF CatalogLinks
<1>3. CASE d.kind = "dataIndex"
  <2>1. \E id \in DOMAIN Sources : link \in TileJSON(base, id)
    BY <1>3 DEF Links
  <2> QED
    BY <2>1, TileJSONLinks
<1>4. CASE d.kind = "tileJSON"
  <2>1. d.id \in DOMAIN Sources /\ link \in TileJSON(base, d.id)
    BY <1>4 DEF Links, Exists, SourceKinds
  <2> QED
    BY <2>1, TileJSONLinks
<1>5. CASE d.kind = "wmts"
  BY <1>1, <1>5 DEF Links
<1>6. CASE d.kind = "sourceWMTS"
  <2>1. d.id \in DOMAIN Sources /\ link \in Capabilities(base, {d.id})
    BY <1>6 DEF Links, Exists, SourceKinds
  <2> QED
    BY <1>1, <2>1
<1> QED
  BY <1>2, <1>3, <1>4, <1>5, <1>6 DEF DocumentKinds

NormalizedFits(c, n) ==
    LET edge == TrimRight(c.publicURL.path)
    IN  /\ n.basePath \in Path
        /\ c.publicURL = NoURL => n.publicURL = NoURL
        /\ c.publicURL # NoURL =>
             /\ n.publicURL # NoURL /\ "path" \in DOMAIN n.publicURL
             /\ edge \in Path /\ n.publicURL.path = edge \o n.basePath

LEMMA Normalized ==
    ASSUME NEW c, IsConfig(c), Normalize(c) # Invalid
    PROVE  NormalizedFits(c, Normalize(c))
<1> DEFINE b == NormalizeBasePath(c.basePath)
           u == NormalizePublicURL(c.publicURL, b)
           p == TrimRight(c.publicURL.path)
           n == Normalize(c)
<1>1. n = [c EXCEPT !.basePath = b, !.publicURL = u]
  BY DEF Normalize
<1>2. n.basePath = b /\ n.publicURL = u
  <2> HIDE DEF b, u, n
  <2> QED
    BY <1>1 DEF IsConfig
<1>3. \A path : IsPath(path) => path \in Path
  <2> SUFFICES ASSUME NEW path, IsPath(path) PROVE path \in Path
    OBVIOUS
  <2> DEFINE S == Seq(STRING)
  <2>1. path \in Seq(S) /\ S \subseteq Segment
    BY DEF IsPath, Segment
  <2> HIDE DEF S
  <2> QED
    BY <2>1, WiderLists DEF Path
<1>4. b \in Path
  BY <1>3, TrimmedPaths DEF IsConfig
<1>5. c.publicURL = NoURL => u = NoURL
  BY DEF NormalizePublicURL
<1>6. ASSUME c.publicURL # NoURL
      PROVE  u # NoURL /\ "path" \in DOMAIN u /\ p \in Path /\ u.path = p \o b
  <2>1. p \in Path
    BY <1>3, <1>6, TrimmedPaths DEF IsConfig
  <2>2. u = [c.publicURL EXCEPT !.path = p \o b]
    BY <1>6 DEF NormalizePublicURL
  <2> HIDE DEF b, u
  <2>3. u.path = p \o b /\ u.scheme = c.publicURL.scheme /\ "path" \in DOMAIN u
    BY <1>6, <2>2 DEF IsConfig
  <2>4. u.scheme # "" /\ NoURL.scheme = ""
    BY <1>6, <2>3 DEF IsConfig, NoURL
  <2> QED
    BY <2>1, <2>3, <2>4
<1> HIDE DEF b, u, n
<1> QED
  BY <1>2, <1>4, <1>5, <1>6 DEF NormalizedFits, n

LEMMA BelowIs ==
    ASSUME NEW base, NEW path, "path" \in DOMAIN base
    PROVE  /\ Below(base, path).path = base.path \o path
           /\ "host" \in DOMAIN base => Below(base, path).host = base.host
BY DEF Below

\* What is below a path below the public one is passed on as it is.
LEMMA EdgeIsCut ==
    ASSUME NEW edge \in Path, NEW base \in Path, NEW S, NEW path \in Seq(S)
    PROVE  SubSeq((edge \o base) \o path, Len(edge) + 1, Len((edge \o base) \o path)) = base \o path
<1> DEFINE T == Segment \cup S
           whole == (edge \o base) \o path
<1>1. edge \in Seq(T) /\ base \in Seq(T) /\ path \in Seq(T)
  BY WiderLists DEF Path
<1> HIDE DEF T
<1>2. whole = edge \o (base \o path) /\ base \o path \in Seq(T)
  BY <1>1, ConcatAssociative, ConcatProperties
<1> QED
  BY <1>1, <1>2, PathsJoin

LEMMA ServedBelow ==
    ASSUME NEW c, c.basePath \in Path, NEW S, NEW path \in Seq(S), Leads(c, path)
    PROVE  Served(c, c.basePath \o path) # Absent
<1> DEFINE T == Segment \cup S
<1>1. c.basePath \in Seq(T) /\ path \in Seq(T)
  BY WiderLists DEF Path
<1> HIDE DEF T
<1>2. /\ IsPrefix(c.basePath, c.basePath \o path)
      /\ SubSeq(c.basePath \o path, Len(c.basePath) + 1, Len(c.basePath \o path)) = path
  BY <1>1, PathsJoin
<1> QED
  BY <1>2 DEF Served, Leads, Exists

LEMMA ServedKind ==
    ASSUME NEW c, NEW path, Served(c, path) # Absent
    PROVE  Exists(Served(c, path)) /\ Served(c, path).kind # "absent"
<1> DEFINE d == RouteOf(c, SubSeq(path, Len(c.basePath) + 1, Len(path)))
<1>1. Served(c, path) = d /\ Exists(d) /\ d # Absent
  BY DEF Served, Exists
<1>2. \A p : RouteOf(c, p) # Absent => RouteOf(c, p).kind # "absent"
  BY DEF RouteOf, TileRoute, Shared, Document, Absent
<1> QED
  BY <1>1, <1>2

-----------------------------------------------------------------------------
(***************************************************************************)
(* What is waited for was granted, and what was answered is of the base    *)
(* URL of who asked.                                                       *)
(***************************************************************************)
Granted(q) ==
    /\ HostMiddleware(config, q)
    /\ Served(config, q.path) # Absent
    /\ Served(config, q.path).kind \in DocumentKinds

ConfigFits == given \in Configs /\ Normalize(given) # Invalid

WaitsAreGranted ==
    \A r \in Requests : stage[r] \in {"waiting", "building"} => Granted(asked[r])

AnswersFit ==
    /\ answer = [r \in Requests |-> answer[r]]
    /\ \A r \in Requests : answer[r].status = 200 =>
         /\ stage[r] = "answered" /\ Granted(asked[r])
         /\ answer[r].baseURL = BaseURL(r)
         /\ answer[r].document = Served(config, asked[r].path)

LInv == MInv /\ ConfigFits /\ WaitsAreGranted /\ AnswersFit

LEMMA InitLInv == Init => LInv
BY InitMInv DEF LInv, Init, ConfigFits, WaitsAreGranted, AnswersFit, Pending

LEMMA GrantedStays ==
    ASSUME given' = given
    PROVE  /\ \A q : Granted(q)' = Granted(q)
           /\ \A path : Served(config, path)' = Served(config, path)
BY DEF Granted, config

Becomes(r, to, q, a) ==
    /\ stage' = [stage EXCEPT ![r] = to]
    /\ asked' = [asked EXCEPT ![r] = q]
    /\ answer' = [answer EXCEPT ![r] = a]

MayBe(to, q, a) ==
    /\ to \in {"waiting", "building"} => Granted(q)
    /\ a.status = 200 =>
         /\ to = "answered" /\ Granted(q)
         /\ a.baseURL = ExternalBaseURL(config, q)
         /\ a.document = Served(config, q.path)

\* One request moves to a stage it may be in, and the others stay as they are.
LEMMA StepFits ==
    ASSUME LInv, MInv', given' = given,
           NEW r \in Requests, NEW to \in Stages, NEW q, NEW a, Becomes(r, to, q, a), MayBe(to, q, a)
    PROVE  LInv'
<1>1. answer = [c \in Requests |-> answer[c]]
  BY DEF LInv, AnswersFit
<1>2. stage \in [Requests -> Stages] /\ DOMAIN asked = Requests
  BY DEF LInv, MInv, RequestsFit
<1>3. /\ answer' = [c \in Requests |-> answer'[c]]
      /\ stage'[r] = to /\ asked'[r] = q /\ answer'[r] = a
  BY <1>1, <1>2 DEF Becomes
<1>4. ASSUME NEW c \in Requests, c # r
      PROVE  stage'[c] = stage[c] /\ asked'[c] = asked[c] /\ answer'[c] = answer[c]
  BY <1>1, <1>2, <1>4 DEF Becomes
<1>5. config' = config
  BY DEF config
<1>6. ASSUME NEW c \in Requests, c # r
      PROVE  BaseURL(c)' = BaseURL(c) /\ Granted(asked[c])' = Granted(asked[c])
             /\ Served(config, asked[c].path)' = Served(config, asked[c].path)
  BY <1>4, <1>5, <1>6 DEF BaseURL, Granted
<1>7. Granted(asked[r])' = Granted(q) /\ BaseURL(r)' = ExternalBaseURL(config, q)
      /\ Served(config, asked[r].path)' = Served(config, q.path)
  BY <1>3, <1>5 DEF Granted, BaseURL
<1>8. WaitsAreGranted'
  <2>1. ASSUME NEW c \in Requests, stage'[c] \in {"waiting", "building"} PROVE Granted(asked[c])'
    BY <1>3, <1>4, <1>6, <1>7, <2>1 DEF MayBe, LInv, WaitsAreGranted
  <2> QED
    BY <2>1 DEF WaitsAreGranted
<1>9. AnswersFit'
  <2>1. ASSUME NEW c \in Requests, answer'[c].status = 200
        PROVE  /\ stage'[c] = "answered" /\ Granted(asked[c])'
               /\ answer'[c].baseURL = BaseURL(c)'
               /\ answer'[c].document = Served(config, asked[c].path)'
    <3>1. CASE c = r
      BY <1>3, <1>7, <2>1, <3>1 DEF MayBe
    <3>2. CASE c # r
      BY <1>4, <1>6, <2>1, <3>2 DEF LInv, AnswersFit
    <3> QED
      BY <3>1, <3>2
  <2> QED
    BY <1>3, <2>1 DEF AnswersFit
<1>10. ConfigFits'
  BY DEF LInv, ConfigFits
<1> QED
  BY <1>8, <1>9, <1>10 DEF LInv

LEMMA NextLInv == LInv /\ [Next]_(vars) => LInv'
<1> SUFFICES ASSUME LInv, [Next]_(vars) PROVE LInv'
  OBVIOUS
<1>1. given' = given
  BY DEF Next, vars, Ask, Hit, Miss, BuildFails, Built, Leave
<1>2. MInv'
  BY NextMInv DEF LInv
<1>3. /\ asked = [c \in Requests |-> asked[c]] /\ answer = [c \in Requests |-> answer[c]]
      /\ \A r \in Requests : asked = [asked EXCEPT ![r] = asked[r]]
      /\ \A r \in Requests : answer = [answer EXCEPT ![r] = answer[r]]
  BY DEF LInv, MInv, RequestsFit, AnswersFit
<1>4. ASSUME NEW r \in Requests, NEW q \in Questions, Ask(r, q) PROVE LInv'
  <2>1. asked' = [asked EXCEPT ![r] = q] /\ stage[r] = "out"
    BY <1>4 DEF Ask, Answer, Move
  <2>2. CASE \E status \in {421, 404} : Answer(r, "out", [status |-> status])
    <3>1. PICK status \in {421, 404} : Answer(r, "out", [status |-> status])
      BY <2>2
    <3>2. /\ stage' = [stage EXCEPT ![r] = "answered"]
          /\ answer' = [answer EXCEPT ![r] = [status |-> status]]
      BY <3>1 DEF Answer, Move
    <3>3. /\ Becomes(r, "answered", q, [status |-> status])
          /\ MayBe("answered", q, [status |-> status]) /\ "answered" \in Stages
      BY <2>1, <3>2 DEF Becomes, MayBe, Stages
    <3> QED
      BY <1>1, <1>2, <3>3, StepFits
  <2>3. CASE /\ HostMiddleware(config, q) /\ Served(config, q.path) # Absent
             /\ Move(r, "out", "waiting") /\ UNCHANGED answer
    <3>1. Granted(q)
      <4>1. Served(config, q.path).kind # "absent"
        BY <2>3, ServedKind
      <4> QED
        BY <1>4, <2>3, <4>1 DEF Ask, Granted, Absent, Shared, Document
    <3>2. answer[r].status # 200
      BY <2>1 DEF LInv, AnswersFit
    <3>3. /\ Becomes(r, "waiting", q, answer[r])
          /\ MayBe("waiting", q, answer[r]) /\ "waiting" \in Stages
      BY <1>3, <2>1, <2>3, <3>1, <3>2 DEF Becomes, MayBe, Stages, Move
    <3> QED
      BY <1>1, <1>2, <3>3, StepFits
  <2> QED
    BY <1>4, <2>2, <2>3 DEF Ask
<1>5. ASSUME NEW r \in Requests, Hit(r) PROVE LInv'
  <2> DEFINE e == lru[CHOOSE i \in DOMAIN lru : lru[i].baseURL = BaseURL(r)]
             d == Served(config, asked[r].path)
             a == [status |-> 200, baseURL |-> e.bundle, document |-> d]
  <2>1. /\ stage[r] = "waiting" /\ stage' = [stage EXCEPT ![r] = "answered"]
        /\ asked' = asked /\ BaseURL(r) \in entries
        /\ answer' = [answer EXCEPT ![r] = a]
    BY <1>5 DEF Hit, Waiting, Deliver, Answer, Move
  <2>2. e.bundle = BaseURL(r)
    <3>1. e = Kept(BaseURL(r))
      BY <2>1, HitKeepsLast DEF LInv, MInv
    <3> QED
      BY <3>1 DEF Kept
  <2>3. Granted(asked[r])
    BY <2>1 DEF LInv, WaitsAreGranted
  <2>4. /\ Becomes(r, "answered", asked[r], a)
        /\ MayBe("answered", asked[r], a) /\ "answered" \in Stages
    BY <1>3, <2>1, <2>2, <2>3 DEF Becomes, MayBe, Stages, BaseURL
  <2> QED
    BY <1>1, <1>2, <2>4, StepFits
<1>6. ASSUME NEW r \in Requests, Miss(r) PROVE LInv'
  <2>1. /\ stage[r] = "waiting" /\ stage' = [stage EXCEPT ![r] = "building"]
        /\ asked' = asked /\ answer' = answer
    BY <1>6 DEF Miss, Waiting, Move
  <2>2. Granted(asked[r]) /\ answer[r].status # 200
    BY <2>1 DEF LInv, WaitsAreGranted, AnswersFit
  <2>3. /\ Becomes(r, "building", asked[r], answer[r])
        /\ MayBe("building", asked[r], answer[r]) /\ "building" \in Stages
    BY <1>3, <2>1, <2>2 DEF Becomes, MayBe, Stages
  <2> QED
    BY <1>1, <1>2, <2>3, StepFits
<1>7. ASSUME NEW r \in Requests, BuildFails(r) PROVE LInv'
  <2> DEFINE a == [status |-> 500]
  <2>1. /\ stage' = [stage EXCEPT ![r] = "answered"] /\ asked' = asked
        /\ answer' = [answer EXCEPT ![r] = a]
    BY <1>7 DEF BuildFails, Answer, Move
  <2>2. a.status # 200
    OBVIOUS
  <2> HIDE DEF a
  <2>3. /\ Becomes(r, "answered", asked[r], a)
        /\ MayBe("answered", asked[r], a) /\ "answered" \in Stages
    BY <1>3, <2>1, <2>2 DEF Becomes, MayBe, Stages
  <2> QED
    BY <1>1, <1>2, <2>3, StepFits
<1>8. ASSUME NEW r \in Requests, Built(r) PROVE LInv'
  <2> DEFINE a == [status |-> 200, baseURL |-> BaseURL(r),
                   document |-> Served(config, asked[r].path)]
  <2>1. /\ stage[r] = "building" /\ stage' = [stage EXCEPT ![r] = "answered"]
        /\ asked' = asked
        /\ answer' = [answer EXCEPT ![r] = a]
    BY <1>8 DEF Built, Deliver, Answer, Move
  <2>2. Granted(asked[r])
    BY <2>1 DEF LInv, WaitsAreGranted
  <2>3. /\ Becomes(r, "answered", asked[r], a)
        /\ MayBe("answered", asked[r], a) /\ "answered" \in Stages
    BY <1>3, <2>1, <2>2 DEF Becomes, MayBe, Stages, BaseURL
  <2> QED
    BY <1>1, <1>2, <2>3, StepFits
<1>9. ASSUME NEW r \in Requests, Leave(r) PROVE LInv'
  <2>1. /\ stage' = [stage EXCEPT ![r] = "out"] /\ asked' = [asked EXCEPT ![r] = Unasked]
        /\ answer' = [answer EXCEPT ![r] = Pending]
    BY <1>9 DEF Leave, Move
  <2>2. Pending.status # 200
    BY DEF Pending
  <2>3. /\ Becomes(r, "out", Unasked, Pending)
        /\ MayBe("out", Unasked, Pending) /\ "out" \in Stages
    BY <2>1, <2>2 DEF Becomes, MayBe, Stages
  <2> QED
    BY <1>1, <1>2, <2>3, StepFits
<1>10. CASE UNCHANGED vars
  BY <1>2, <1>10 DEF vars, LInv, ConfigFits, WaitsAreGranted, AnswersFit, Granted, BaseURL, config
<1> QED
  BY <1>4, <1>5, <1>6, <1>7, <1>8, <1>9, <1>10 DEF Next

\* The documents a client is given are of the base URL it used, and every link
\* in them names a host that is answered and leads to a handler that takes the
\* extension it ends in, for any configuration, any sources and any requests
\* (documents.go 11-133, middleware.go 126-193, server.go 126-152).
THEOREM LinksLeadBack == Spec => []LinksAreServed
<1>1. LInv => LinksAreServed
  <2> SUFFICES ASSUME LInv, NEW r \in Requests, answer[r].status = 200,
                      NEW link \in Links(config, answer[r].baseURL, answer[r].document)
               PROVE  /\ answer[r].baseURL = BaseURL(r)
                      /\ given.publicURL # NoURL \/ HostAllowed(config.hosts, link.host[1])
                      /\ Served(config, BehindEdge(link.path)) # Absent
    BY DEF LinksAreServed, LInv, AnswersFit
  <2> DEFINE c == config
             q == asked[r]
             base == ExternalBaseURL(c, q)
             d == Served(c, q.path)
             p == TrimRight(given.publicURL.path)
  <2>1. /\ answer[r].baseURL = BaseURL(r) /\ BaseURL(r) = base
        /\ answer[r].document = d
        /\ Granted(q)
    BY DEF LInv, AnswersFit, BaseURL
  <2>2. IsConfig(given) /\ c = Normalize(given) /\ c # Invalid
    BY MetadataCacheAssumption DEF LInv, ConfigFits, config
  <2>3. /\ c.basePath \in Path
        /\ given.publicURL = NoURL => c.publicURL = NoURL
        /\ given.publicURL # NoURL =>
             /\ c.publicURL # NoURL /\ "path" \in DOMAIN c.publicURL
             /\ p \in Path /\ c.publicURL.path = p \o c.basePath
    <3>1. NormalizedFits(given, c)
      BY <2>2, Normalized
    <3> HIDE DEF c
    <3> QED
      BY <3>1 DEF NormalizedFits
  <2>4. Exists(d) /\ d.kind \in DocumentKinds
    BY <2>1, ServedKind DEF Granted
  <2> HIDE DEF c, q, base, d, p
  <2>5. IsLink(c, base, link)
    BY <2>1, <2>4, LinksLead DEF c
  <2>6. PICK S : \E path \in Seq(S) : link = Below(base, path) /\ Leads(c, path)
    BY <2>5 DEF IsLink
  <2>7. PICK path \in Seq(S) : link = Below(base, path) /\ Leads(c, path)
    BY <2>6
  <2>8. Served(c, c.basePath \o path) # Absent
    BY <2>3, <2>7, ServedBelow
  <2>9. CASE given.publicURL = NoURL
    <3>1. base = [scheme |-> base.scheme, host |-> RequestHost(c, q), path |-> c.basePath]
      BY <2>3, <2>9 DEF base, ExternalBaseURL
    <3>2. link.host = RequestHost(c, q) /\ link.path = c.basePath \o path
      <4>1. "host" \in DOMAIN base /\ "path" \in DOMAIN base
        BY <3>1
      <4>2. base.host = RequestHost(c, q) /\ base.path = c.basePath
        BY <3>1
      <4>3. Below(base, path).host = base.host /\ Below(base, path).path = base.path \o path
        BY <4>1, BelowIs
      <4>4. link = Below(base, path)
        BY <2>7
      <4> QED
        BY <4>2, <4>3, <4>4
    <3>3. HostAllowed(c.hosts, link.host[1])
      BY <2>1, <3>2 DEF Granted, HostMiddleware, c, q
    <3>4. BehindEdge(link.path) = c.basePath \o path
      BY <2>9, <3>2 DEF BehindEdge
    <3> QED
      BY <2>1, <2>8, <3>3, <3>4 DEF c
  <2>10. CASE given.publicURL # NoURL
    <3>1. base = c.publicURL /\ base.path = p \o c.basePath
      BY <2>3, <2>10 DEF base, ExternalBaseURL
    <3>2. link.path = (p \o c.basePath) \o path
      <4>1. "path" \in DOMAIN base
        BY <2>3, <2>10, <3>1
      <4>2. Below(base, path).path = base.path \o path
        BY <4>1, BelowIs
      <4>3. link = Below(base, path)
        BY <2>7
      <4> QED
        BY <3>1, <4>2, <4>3
    <3>3. BehindEdge(link.path) = c.basePath \o path
      <4>1. p \in Path /\ c.basePath \in Path
        BY <2>3, <2>10
      <4> DEFINE b == c.basePath
                 whole == (p \o b) \o path
      <4>2. SubSeq(whole, Len(p) + 1, Len(whole)) = c.basePath \o path
        <5> HIDE DEF b
        <5>1. p \in Path /\ b \in Path
          BY <4>1 DEF b
        <5>2. SubSeq(whole, Len(p) + 1, Len(whole)) = b \o path
          BY <5>1, EdgeIsCut
        <5> QED
          BY <5>2 DEF b
      <4> QED
        BY <2>10, <3>2, <4>2 DEF BehindEdge, p
    <3> QED
      BY <2>1, <2>8, <2>10, <3>3 DEF c
  <2> QED
    BY <2>9, <2>10
<1> QED
  BY <1>1, InitLInv, NextLInv, PTL DEF Spec
=============================================================================
