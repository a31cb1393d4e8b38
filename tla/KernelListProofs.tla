-------------------------- MODULE KernelListProofs --------------------------
(***************************************************************************)
(* Facts about the lists of KernelList, for the proofs about its users.    *)
(***************************************************************************)
EXTENDS KernelList, SequenceTheorems, TLAPS

(* list_push_back adds one element to the list and, if it was not on it,   *)
(* keeps the list free of duplicates.                                      *)
LEMMA PushBackFacts ==
    ASSUME NEW S, NEW list \in Seq(S), NEW e \in S
    PROVE  /\ Append(list, e) \in Seq(S)
           /\ Append(list, e) # <<>>
           /\ ToSet(Append(list, e)) = ToSet(list) \cup {e}
           /\ NoDuplicates(list) /\ e \notin ToSet(list)
                 => NoDuplicates(Append(list, e))
<1> DEFINE a == Append(list, e)
<1>1. /\ a \in Seq(S) /\ a # <<>>
      /\ DOMAIN a = 1 .. Len(list) + 1
      /\ DOMAIN list = 1 .. Len(list) /\ Len(list) \in Nat
      /\ a[Len(list) + 1] = e
      /\ \A i \in 1 .. Len(list) : a[i] = list[i]
  BY AppendProperties
<1> HIDE DEF a
<1>2. ToSet(a) = ToSet(list) \cup {e}
  <2>1. ASSUME NEW x \in ToSet(a) PROVE x \in ToSet(list) \cup {e}
    BY <1>1, <2>1 DEF ToSet
  <2>2. ASSUME NEW x \in ToSet(list) PROVE x \in ToSet(a)
    BY <1>1, <2>2 DEF ToSet
  <2>3. e \in ToSet(a)
    BY <1>1 DEF ToSet
  <2> QED
    BY <2>1, <2>2, <2>3
<1>3. ASSUME NoDuplicates(list), e \notin ToSet(list)
      PROVE  NoDuplicates(a)
  BY <1>1, <1>3 DEF NoDuplicates, ToSet
<1>4. /\ a \in Seq(S) /\ a # <<>> /\ ToSet(a) = ToSet(list) \cup {e}
      /\ NoDuplicates(list) /\ e \notin ToSet(list) => NoDuplicates(a)
  BY <1>1, <1>2, <1>3
<1> QED
  BY <1>4 DEF a

(* What stands where after the element at position k is unlinked.          *)
LEMMA RemoveAtFacts ==
    ASSUME NEW S, NEW list \in Seq(S), NEW k \in 1 .. Len(list)
    PROVE  /\ RemoveAt(list, k) \in Seq(S)
           /\ Len(RemoveAt(list, k)) = Len(list) - 1
           /\ \A i \in 1 .. Len(list) - 1 :
                 RemoveAt(list, k)[i] = IF i < k THEN list[i] ELSE list[i + 1]
<1> DEFINE n == Len(list)
           p == SubSeq(list, 1, k - 1)
           q == SubSeq(list, k + 1, n)
<1>0. n \in Nat /\ k \in 1 .. n
  OBVIOUS
<1>1. p \in Seq(S) /\ Len(p) = k - 1 /\ \A i \in 1 .. k - 1 : p[i] = list[i]
  <2>1. \A i \in 1 .. k - 1 : list[i] \in S
    BY <1>0, ElementOfSeq
  <2>2. /\ p \in Seq(S) /\ Len(p) = IF 1 <= k - 1 THEN (k - 1) - 1 + 1 ELSE 0
        /\ \A i \in 1 .. (k - 1) - 1 + 1 : p[i] = list[1 + i - 1]
    BY <1>0, <2>1, SubSeqProperties
  <2> HIDE DEF p
  <2>3. (k - 1) - 1 + 1 = k - 1 /\ \A i \in Int : 1 + i - 1 = i
    BY <1>0
  <2>4. Len(p) = k - 1
    BY <1>0, <2>2
  <2> QED
    BY <2>2, <2>3, <2>4
<1>2. q \in Seq(S) /\ Len(q) = n - k /\ \A i \in 1 .. n - k : q[i] = list[i + k]
  <2>1. \A i \in k + 1 .. n : list[i] \in S
    BY <1>0, ElementOfSeq
  <2>2. /\ q \in Seq(S) /\ Len(q) = IF k + 1 <= n THEN n - (k + 1) + 1 ELSE 0
        /\ \A i \in 1 .. n - (k + 1) + 1 : q[i] = list[k + 1 + i - 1]
    BY <1>0, <2>1, SubSeqProperties
  <2> HIDE DEF q, n
  <2>3. n - (k + 1) + 1 = n - k /\ \A i \in Int : k + 1 + i - 1 = i + k
    BY <1>0
  <2>4. Len(q) = n - k
    BY <1>0, <2>2
  <2> QED
    BY <2>2, <2>3, <2>4
<1>3. RemoveAt(list, k) = p \o q
  BY DEF RemoveAt
<1> HIDE DEF n, p, q
<1>4. /\ p \o q \in Seq(S) /\ Len(p \o q) = Len(p) + Len(q)
      /\ \A i \in 1 .. Len(p) + Len(q) :
            (p \o q)[i] = IF i <= Len(p) THEN p[i] ELSE q[i - Len(p)]
  BY <1>1, <1>2, ConcatProperties
<1>5. Len(p) + Len(q) = n - 1
  BY <1>0, <1>1, <1>2
<1>6. ASSUME NEW i \in 1 .. n - 1
      PROVE  (p \o q)[i] = IF i < k THEN list[i] ELSE list[i + 1]
  <2>1. CASE i < k
    <3>1. i <= Len(p) /\ i \in 1 .. k - 1 /\ i \in 1 .. Len(p) + Len(q)
      BY <2>1, <1>0, <1>1, <1>5
    <3> QED
      BY <3>1, <2>1, <1>1, <1>4
  <2>2. CASE ~(i < k)
    <3>1. ~(i <= Len(p)) /\ i \in 1 .. Len(p) + Len(q)
      BY <2>2, <1>0, <1>1, <1>5
    <3>2. i - Len(p) \in 1 .. n - k /\ (i - Len(p)) + k = i + 1
      BY <2>2, <1>0, <1>1
    <3>3. (p \o q)[i] = q[i - Len(p)]
      BY <3>1, <1>4
    <3> QED
      BY <3>2, <3>3, <2>2, <1>2
  <2> QED
    BY <2>1, <2>2
<1> QED
  BY <1>3, <1>4, <1>5, <1>6 DEF n

(* list_remove takes away the one element it is given.                     *)
LEMMA ListRemoveFacts ==
    ASSUME NEW S, NEW list \in Seq(S), NEW e \in ToSet(list), NoDuplicates(list)
    PROVE  /\ ListRemove(list, e) \in Seq(S)
           /\ ToSet(ListRemove(list, e)) = ToSet(list) \ {e}
           /\ NoDuplicates(ListRemove(list, e))
<1> DEFINE k == CHOOSE i \in DOMAIN list : list[i] = e
           r == ListRemove(list, e)
           n == Len(list)
<1>1. k \in 1 .. n /\ list[k] = e /\ n \in Nat /\ DOMAIN list = 1 .. n
  BY DEF ToSet
<1>2. r = RemoveAt(list, k)
  BY DEF ListRemove
<1> HIDE DEF k
<1>3. /\ r \in Seq(S) /\ DOMAIN r = 1 .. n - 1
      /\ \A i \in 1 .. n - 1 : r[i] = IF i < k THEN list[i] ELSE list[i + 1]
  <2>1. r \in Seq(S) /\ Len(r) = n - 1
    BY <1>1, <1>2, RemoveAtFacts
  <2>2. DOMAIN r = 1 .. Len(r)
    BY <2>1
  <2> QED
    BY <1>1, <1>2, <2>1, <2>2, RemoveAtFacts
<1> HIDE DEF r, n
<1>4. ASSUME NEW i \in 1 .. n, i # k
      PROVE  \E j \in 1 .. n - 1 : r[j] = list[i]
  <2>1. CASE i < k
    <3>1. i \in 1 .. n - 1
      BY <2>1, <1>1
    <3> QED
      BY <3>1, <2>1, <1>3
  <2>2. CASE ~(i < k)
    <3>1. i - 1 \in 1 .. n - 1 /\ ~(i - 1 < k) /\ (i - 1) + 1 = i
      BY <2>2, <1>1, <1>4
    <3> QED
      BY <3>1, <1>3
  <2> QED
    BY <2>1, <2>2
<1>5. ASSUME NEW i \in 1 .. n - 1
      PROVE  \E j \in 1 .. n : /\ j # k /\ r[i] = list[j]
                              /\ \/ j = i /\ i < k
                                 \/ j = i + 1 /\ ~(i < k)
  <2>1. CASE i < k
    BY <2>1, <1>1, <1>3
  <2>2. CASE ~(i < k)
    <3>1. i + 1 \in 1 .. n /\ i + 1 # k
      BY <2>2, <1>1
    <3> QED
      BY <3>1, <2>2, <1>3
  <2> QED
    BY <2>1, <2>2
<1>6. ToSet(r) = ToSet(list) \ {e}
  <2>1. ASSUME NEW x \in ToSet(r) PROVE x \in ToSet(list) \ {e}
    <3>1. PICK i \in 1 .. n - 1 : x = r[i]
      BY <1>3 DEF ToSet
    <3>2. PICK j \in 1 .. n : j # k /\ x = list[j]
      BY <3>1, <1>5
    <3> QED
      BY <3>2, <1>1 DEF ToSet, NoDuplicates
  <2>2. ASSUME NEW x \in ToSet(list) \ {e} PROVE x \in ToSet(r)
    <3>1. PICK i \in 1 .. n : x = list[i] /\ i # k
      BY <1>1 DEF ToSet
    <3> QED
      BY <3>1, <1>3, <1>4 DEF ToSet
  <2> QED
    BY <2>1, <2>2
<1>7. NoDuplicates(r)
  <2> SUFFICES ASSUME NEW i \in 1 .. n - 1, NEW j \in 1 .. n - 1, r[i] = r[j]
               PROVE  i = j
    BY <1>3 DEF NoDuplicates
  <2>1. PICK a \in 1 .. n : /\ r[i] = list[a]
                            /\ \/ a = i /\ i < k
                               \/ a = i + 1 /\ ~(i < k)
    BY <1>5
  <2>2. PICK b \in 1 .. n : /\ r[j] = list[b]
                            /\ \/ b = j /\ j < k
                               \/ b = j + 1 /\ ~(j < k)
    BY <1>5
  <2>3. a = b
    BY <2>1, <2>2, <1>1 DEF NoDuplicates
  <2> QED
    BY <2>1, <2>2, <2>3, <1>1
<1> QED
  BY <1>3, <1>6, <1>7 DEF r

(* Typing alone does not need the list to be free of duplicates.           *)
LEMMA ListRemoveType ==
    ASSUME NEW S, NEW list \in Seq(S), NEW e \in ToSet(list)
    PROVE  ListRemove(list, e) \in Seq(S)
<1> DEFINE k == CHOOSE i \in DOMAIN list : list[i] = e
<1>1. k \in 1 .. Len(list)
  BY DEF ToSet
<1>2. ListRemove(list, e) = RemoveAt(list, k)
  BY DEF ListRemove
<1> HIDE DEF k
<1> QED
  BY <1>1, <1>2, RemoveAtFacts

(* Appending an enumeration w of a set D that is disjoint from the list.   *)
LEMMA ConcatFacts ==
    ASSUME NEW S, NEW list \in Seq(S), NEW D \in SUBSET S, NEW n \in Nat,
           NEW w \in Bijection(1 .. n, D)
    PROVE  /\ list \o w \in Seq(S)
           /\ ToSet(list \o w) = ToSet(list) \cup D
           /\ NoDuplicates(list) /\ ToSet(list) \cap D = {}
                 => NoDuplicates(list \o w)
<1>1. /\ w \in [1 .. n -> D]
      /\ \A i, j \in 1 .. n : w[i] = w[j] => i = j
      /\ \A d \in D : \E i \in 1 .. n : w[i] = d
  BY DEF Bijection, Injection, Surjection, IsInjective
<1>2. w \in Seq(S) /\ Len(w) = n
  BY <1>1
<1> DEFINE c == list \o w
           m == Len(list)
<1>3. /\ c \in Seq(S) /\ Len(c) = m + n /\ m \in Nat
      /\ DOMAIN list = 1 .. m /\ DOMAIN c = 1 .. m + n
      /\ \A i \in 1 .. m + n : c[i] = IF i <= m THEN list[i] ELSE w[i - m]
  <2>1. /\ c \in Seq(S) /\ Len(c) = Len(list) + Len(w)
        /\ \A i \in 1 .. Len(list) + Len(w) :
              c[i] = IF i <= Len(list) THEN list[i] ELSE w[i - Len(list)]
    BY <1>2, ConcatProperties
  <2> HIDE DEF c
  <2>2. DOMAIN c = 1 .. Len(c)
    BY <2>1
  <2> QED
    BY <1>2, <2>1, <2>2
<1> HIDE DEF c, m
<1>4. ToSet(c) = ToSet(list) \cup D
  <2>1. ASSUME NEW x \in ToSet(c) PROVE x \in ToSet(list) \cup D
    <3>1. PICK i \in 1 .. m + n : x = c[i]
      BY <1>3 DEF ToSet
    <3>2. CASE i <= m
      BY <3>1, <3>2, <1>3 DEF ToSet
    <3>3. CASE ~(i <= m)
      <4>1. i - m \in 1 .. n
        BY <3>3, <1>3
      <4> QED
        BY <4>1, <3>1, <3>3, <1>1, <1>3
    <3> QED
      BY <3>2, <3>3
  <2>2. ASSUME NEW x \in ToSet(list) PROVE x \in ToSet(c)
    <3>1. PICK i \in 1 .. m : x = list[i]
      BY <1>3 DEF ToSet
    <3>2. i \in 1 .. m + n /\ i <= m
      BY <1>3
    <3> QED
      BY <3>1, <3>2, <1>3 DEF ToSet
  <2>3. ASSUME NEW x \in D PROVE x \in ToSet(c)
    <3>1. PICK i \in 1 .. n : x = w[i]
      BY <1>1
    <3>2. i + m \in 1 .. m + n /\ ~(i + m <= m) /\ (i + m) - m = i
      BY <1>3
    <3> QED
      BY <3>1, <3>2, <1>3 DEF ToSet
  <2> QED
    BY <2>1, <2>2, <2>3
<1>5. ASSUME NoDuplicates(list), ToSet(list) \cap D = {}
      PROVE  NoDuplicates(c)
  <2> SUFFICES ASSUME NEW i \in 1 .. m + n, NEW j \in 1 .. m + n, c[i] = c[j]
               PROVE  i = j
    BY <1>3 DEF NoDuplicates
  <2>1. \A k \in 1 .. m + n : k <= m => k \in 1 .. m /\ c[k] = list[k] /\ c[k] \in ToSet(list)
    BY <1>3 DEF ToSet
  <2>2. \A k \in 1 .. m + n : ~(k <= m) => k - m \in 1 .. n /\ c[k] = w[k - m] /\ c[k] \in D
    BY <1>1, <1>3
  <2>3. CASE i <= m /\ j <= m
    BY <2>1, <2>3, <1>3, <1>5 DEF NoDuplicates
  <2>4. CASE ~(i <= m) /\ ~(j <= m)
    <3>1. i - m = j - m
      BY <2>2, <2>4, <1>1
    <3> QED
      BY <3>1, <1>3
  <2> QED
    BY <2>1, <2>2, <2>3, <2>4, <1>5
<1>6. /\ c \in Seq(S) /\ ToSet(c) = ToSet(list) \cup D
      /\ NoDuplicates(list) /\ ToSet(list) \cap D = {} => NoDuplicates(c)
  BY <1>3, <1>4, <1>5
<1> QED
  BY <1>6 DEF c
=============================================================================
