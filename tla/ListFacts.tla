----------------------------- MODULE ListFacts -----------------------------
(***************************************************************************)
(* Facts about lists that the proofs of several components rest on.        *)
(***************************************************************************)
EXTENDS Integers, Sequences, SequencesExt, FiniteSets, SequenceTheorems, FiniteSetTheorems,
        WellFoundedInduction, TLAPS

\* RemoveAt drops one position and shifts the later ones: it keeps the order
\* of what stays (g_slist_remove and g_slist_remove_link).
LEMMA RemoveAtProperties ==
  ASSUME NEW S, NEW s \in Seq(S), NEW i \in 1..Len(s)
  PROVE  /\ RemoveAt(s, i) \in Seq(S)
         /\ Len(RemoveAt(s, i)) = Len(s) - 1
         /\ \A j \in 1..(Len(s) - 1) :
              RemoveAt(s, i)[j] = IF j < i THEN s[j] ELSE s[j + 1]
<1> DEFINE front == SubSeq(s, 1, i - 1)
           back  == SubSeq(s, i + 1, Len(s))
<1>0. /\ Len(s) \in Nat
      /\ \A j \in 1..Len(s) : s[j] \in S
  BY LenProperties, ElementOfSeq
<1>1. /\ front \in Seq(S)
      /\ Len(front) = i - 1
      /\ \A j \in 1..(i - 1) : front[j] = s[j]
  <2>1. \A j \in 1..(i - 1) : s[j] \in S
    BY <1>0
  <2> QED  BY <1>0, <2>1, SubSeqProperties
<1>2. /\ back \in Seq(S)
      /\ Len(back) = Len(s) - i
      /\ \A j \in 1..(Len(s) - i) : back[j] = s[i + j]
  <2>1. \A j \in (i + 1)..Len(s) : s[j] \in S
    BY <1>0
  <2>2. /\ back \in Seq(S)
        /\ Len(back) = IF i + 1 <= Len(s) THEN Len(s) - (i + 1) + 1 ELSE 0
        /\ \A j \in 1..(Len(s) - (i + 1) + 1) : back[j] = s[(i + 1) + j - 1]
    BY <1>0, <2>1, SubSeqProperties
  <2> QED  BY <1>0, <2>2
<1> HIDE DEF front, back
<1>3. /\ front \o back \in Seq(S)
      /\ Len(front \o back) = Len(s) - 1
      /\ \A j \in 1..(Len(s) - 1) :
           (front \o back)[j] = IF j < i THEN s[j] ELSE s[j + 1]
  <2>1. /\ front \o back \in Seq(S)
        /\ Len(front \o back) = Len(front) + Len(back)
        /\ \A j \in 1..(Len(front) + Len(back)) :
             (front \o back)[j] = IF j <= Len(front) THEN front[j] ELSE back[j - Len(front)]
    BY <1>1, <1>2, ConcatProperties
  <2>2. ASSUME NEW j \in 1..(Len(s) - 1)
        PROVE  (front \o back)[j] = IF j < i THEN s[j] ELSE s[j + 1]
    <3>1. (front \o back)[j] =
            IF j <= i - 1 THEN front[j] ELSE back[j - (i - 1)]
      BY <1>0, <1>1, <1>2, <2>1
    <3>2. CASE j < i
      BY <1>1, <3>1, <3>2
    <3>3. CASE ~(j < i)
      <4>1. j - (i - 1) \in 1..(Len(s) - i) /\ i + (j - (i - 1)) = j + 1
        BY <1>0, <3>3
      <4>2. back[j - (i - 1)] = s[j + 1]
        BY <1>2, <4>1
      <4> QED  BY <3>1, <3>3, <4>2
    <3> QED  BY <3>2, <3>3
  <2> QED  BY <1>0, <1>1, <1>2, <2>1, <2>2
<1> QED  BY <1>3 DEF RemoveAt, front, back

\* Appending to a list without repetitions something that is not in it
\* (g_slist_append).
LEMMA AppendAddsItem ==
  ASSUME NEW S, NEW s \in Seq(S), NEW x \in S, NEW y
  PROVE  (\E i \in DOMAIN Append(s, x) : Append(s, x)[i] = y)
           <=> (\E i \in DOMAIN s : s[i] = y) \/ y = x
<1> DEFINE new == Append(s, x)
<1>1. /\ DOMAIN s = 1..Len(s) /\ DOMAIN new = 1..(Len(s) + 1) /\ Len(s) \in Nat
      /\ \A i \in 1..Len(s) : new[i] = s[i]
      /\ new[Len(s) + 1] = x
  BY AppendProperties, LenProperties
<1> HIDE DEF new
<1>2. \A i \in DOMAIN new : i \in DOMAIN s \/ i = Len(s) + 1
  BY <1>1
<1>3. DOMAIN s \subseteq DOMAIN new /\ Len(s) + 1 \in DOMAIN new
  BY <1>1
<1>4. (\E i \in DOMAIN new : new[i] = y) <=> (\E i \in DOMAIN s : s[i] = y) \/ y = x
  BY <1>1, <1>2, <1>3
<1> QED  BY <1>4 DEF new

LEMMA AppendToInjective ==
  ASSUME NEW S, NEW s \in Seq(S), NEW x \in S,
         \A i, j \in DOMAIN s : s[i] = s[j] => i = j,
         \A i \in DOMAIN s : s[i] # x
  PROVE  \A i, j \in DOMAIN Append(s, x) : Append(s, x)[i] = Append(s, x)[j] => i = j
<1> DEFINE new == Append(s, x)
<1>1. /\ DOMAIN s = 1..Len(s) /\ DOMAIN new = 1..(Len(s) + 1) /\ Len(s) \in Nat
      /\ \A i \in 1..Len(s) : new[i] = s[i]
      /\ new[Len(s) + 1] = x
  BY AppendProperties, LenProperties
<1> HIDE DEF new
<1>2. \A i \in DOMAIN new : i \in DOMAIN s \/ i = Len(s) + 1
  BY <1>1
<1>3. \A i, j \in DOMAIN new : new[i] = new[j] => i = j
  BY <1>1, <1>2
<1> QED  BY <1>3 DEF new

\* Taking an item out of a list without repetitions takes it out of what is in
\* the list, and nothing else.
LEMMA RemoveFromInjective ==
  ASSUME NEW S, NEW s \in Seq(S), NEW i \in 1..Len(s),
         \A j, k \in DOMAIN s : s[j] = s[k] => j = k
  PROVE  /\ \A j, k \in DOMAIN RemoveAt(s, i) : RemoveAt(s, i)[j] = RemoveAt(s, i)[k] => j = k
         /\ \A x : (\E j \in DOMAIN RemoveAt(s, i) : RemoveAt(s, i)[j] = x)
                   <=> (\E j \in DOMAIN s : s[j] = x) /\ x # s[i]
<1> DEFINE new == RemoveAt(s, i)
<1>1. /\ DOMAIN s = 1..Len(s) /\ Len(s) \in Nat
      /\ DOMAIN new = 1..(Len(s) - 1)
      /\ \A j \in 1..(Len(s) - 1) : new[j] = IF j < i THEN s[j] ELSE s[j + 1]
  BY RemoveAtProperties, LenProperties
<1> HIDE DEF new
<1>2. \A j \in DOMAIN new : \E k \in DOMAIN s :
        new[j] = s[k] /\ k # i /\ j = IF k < i THEN k ELSE k - 1
  BY <1>1, SMTT(30)
<1>3. \A k \in DOMAIN s \ {i} : \E j \in DOMAIN new : new[j] = s[k]
  <2> SUFFICES ASSUME NEW k \in DOMAIN s \ {i} PROVE \E j \in DOMAIN new : new[j] = s[k]
    OBVIOUS
  <2>1. CASE k < i
    BY <1>1, <2>1
  <2>2. CASE k > i
    <3>1. k - 1 \in DOMAIN new /\ ~(k - 1 < i) /\ (k - 1) + 1 = k
      BY <1>1, <2>2
    <3> QED  BY <1>1, <3>1
  <2> QED  BY <1>1, <2>1, <2>2
<1>4. \A j, k \in DOMAIN new : new[j] = new[k] => j = k
  BY <1>1, <1>2
<1>5. \A x : (\E j \in DOMAIN new : new[j] = x) <=> (\E j \in DOMAIN s : s[j] = x) /\ x # s[i]
  BY <1>1, <1>2, <1>3
<1> QED  BY <1>4, <1>5 DEF new

\* What a prefix keeps when the list grows at the end, and what it becomes when
\* the head of the list goes.
LEMMA PrefixOfLonger ==
  ASSUME NEW S, NEW s \in Seq(S), NEW t \in Seq(S), NEW n \in 0..Len(s)
  PROVE  SubSeq(s \o t, 1, n) = SubSeq(s, 1, n)
<1>1. Len(s) \in Nat
  BY LenProperties
<1>2. CASE n = 0
  <2>1. SubSeq(s \o t, 1, 0) = <<>> /\ SubSeq(s, 1, 0) = <<>>
    BY SubSeqEmpty
  <2> QED  BY <1>2, <2>1
<1>3. CASE n # 0
  <2>1. 1 \in 1..Len(s) /\ n \in 1..Len(s)
    BY <1>1, <1>3
  <2> QED  BY <2>1, SubSeqOfConcat1
<1> QED  BY <1>2, <1>3

LEMMA PrefixIsList ==
  ASSUME NEW S, NEW s \in Seq(S), NEW n \in 0..Len(s)
  PROVE  SubSeq(s, 1, n) \in Seq(S)
<1>1. Len(s) \in Nat /\ \A i \in 1..Len(s) : s[i] \in S
  BY LenProperties, ElementOfSeq
<1>2. \A i \in 1..n : s[i] \in S
  BY <1>1
<1> QED  BY <1>1, <1>2, SubSeqProperties

LEMMA PrefixLosesHead ==
  ASSUME NEW S, NEW s \in Seq(S), s # <<>>, NEW n \in 1..Len(s)
  PROVE  SubSeq(s, 1, n) = <<Head(s)>> \o SubSeq(Tail(s), 1, n - 1)
<1>1. /\ Len(s) \in Nat \ {0} /\ Tail(s) \in Seq(S) /\ Len(Tail(s)) = Len(s) - 1
      /\ Tail(s) = SubSeq(s, 2, Len(s)) /\ Head(s) = s[1]
  BY EmptySeq, LenProperties, HeadTailProperties, TailIsSubSeq
<1>2. SubSeq(s, 1, n) = <<s[1]>> \o SubSeq(s, 2, n)
  <2>1. 1 \in 1..Len(s) /\ n \in 1..Len(s) /\ 1 + 1 = 2
    BY <1>1
  <2>2. SubSeq(s, 1, n) = <<s[1]>> \o SubSeq(s, 1 + 1, n)
    BY <2>1, SubSeqRecursiveFirst
  <2> QED  BY <2>1, <2>2
<1>3. SubSeq(Tail(s), 1, n - 1) = SubSeq(s, 2, n)
  <2>1. CASE n = 1
    <3>1. SubSeq(Tail(s), 1, 0) = <<>> /\ SubSeq(s, 2, 1) = <<>>
      BY SubSeqEmpty
    <3> QED  BY <2>1, <3>1
  <2>2. CASE n # 1
    <3>1. 2 \in 1..Len(s) /\ Len(s) \in 1..Len(s) /\ 1 \in 1..(Len(s) - 2 + 1) /\ n - 1 \in 1..(Len(s) - 2 + 1)
      BY <1>1, <2>2
    <3>2. SubSeq(SubSeq(s, 2, Len(s)), 1, n - 1) = SubSeq(s, 2 + 1 - 1, 2 + (n - 1) - 1)
      BY <3>1, SubSeqOfSubSeq
    <3>3. 2 + 1 - 1 = 2 /\ 2 + (n - 1) - 1 = n
      BY <1>1
    <3> QED  BY <1>1, <3>2, <3>3
  <2> QED  BY <2>1, <2>2
<1> QED  BY <1>1, <1>2, <1>3

-----------------------------------------------------------------------------
\* What is in a list, and which of two items is the last one that is.
LastIs(s, a, b) == \E i \in 1..Len(s) : s[i] = a /\ \A j \in 1..Len(s) : j > i => s[j] # b

\* Where the items of a concatenation come from.
LEMMA ConcatItems ==
  ASSUME NEW S, NEW s \in Seq(S), NEW t \in Seq(S)
  PROVE  /\ s \o t \in Seq(S) /\ Len(s) \in Nat /\ Len(t) \in Nat
         /\ \A i \in 1..Len(s) : i \in 1..Len(s \o t) /\ (s \o t)[i] = s[i]
         /\ \A i \in 1..Len(t) : Len(s) + i \in 1..Len(s \o t) /\ (s \o t)[Len(s) + i] = t[i]
         /\ \A i \in 1..Len(s \o t) : i \in 1..Len(s) \/ \E j \in 1..Len(t) : i = Len(s) + j
<1>0. Len(s) \in Nat /\ Len(t) \in Nat
  BY LenProperties
<1> DEFINE r == s \o t
<1>1. /\ r \in Seq(S) /\ Len(r) = Len(s) + Len(t)
      /\ \A i \in 1..(Len(s) + Len(t)) : r[i] = IF i <= Len(s) THEN s[i] ELSE t[i - Len(s)]
  BY ConcatProperties
<1> HIDE DEF r
<1>2. \A i \in 1..Len(s) : i \in 1..Len(r) /\ r[i] = s[i]
  BY <1>0, <1>1
<1>3. ASSUME NEW i \in 1..Len(t) PROVE Len(s) + i \in 1..Len(r) /\ r[Len(s) + i] = t[i]
  <2>1. Len(s) + i \in 1..(Len(s) + Len(t)) /\ ~(Len(s) + i <= Len(s)) /\ (Len(s) + i) - Len(s) = i
    BY <1>0
  <2> QED  BY <1>1, <2>1
<1>4. ASSUME NEW i \in 1..Len(r), i \notin 1..Len(s) PROVE \E j \in 1..Len(t) : i = Len(s) + j
  <2>1. i - Len(s) \in 1..Len(t) /\ i = Len(s) + (i - Len(s))
    BY <1>0, <1>1, <1>4
  <2> QED  BY <2>1
<1> QED  BY <1>0, <1>1, <1>2, <1>3, <1>4 DEF r

LEMMA ContainsConcat ==
  ASSUME NEW S, NEW s \in Seq(S), NEW t \in Seq(S), NEW x
  PROVE  Contains(s \o t, x) <=> Contains(s, x) \/ Contains(t, x)
<1> DEFINE r == s \o t
<1>1. /\ \A i \in 1..Len(s) : i \in 1..Len(r) /\ r[i] = s[i]
      /\ \A i \in 1..Len(t) : Len(s) + i \in 1..Len(r) /\ r[Len(s) + i] = t[i]
      /\ \A i \in 1..Len(r) : i \in 1..Len(s) \/ \E j \in 1..Len(t) : i = Len(s) + j
  BY ConcatItems
<1> HIDE DEF r
<1>2. Contains(r, x) <=> Contains(s, x) \/ Contains(t, x)
  BY ONLY <1>1, ZenonT(40) DEF Contains
<1> QED  BY <1>2 DEF r

LEMMA LastIsConcat ==
  ASSUME NEW S, NEW s \in Seq(S), NEW t \in Seq(S), NEW a, NEW b
  PROVE  LastIs(s \o t, a, b) <=> LastIs(t, a, b) \/ (LastIs(s, a, b) /\ ~Contains(t, b))
<1> DEFINE r == s \o t
<1>1. /\ Len(s) \in Nat /\ Len(t) \in Nat
      /\ \A i \in 1..Len(s) : i \in 1..Len(r) /\ r[i] = s[i]
      /\ \A i \in 1..Len(t) : Len(s) + i \in 1..Len(r) /\ r[Len(s) + i] = t[i]
      /\ \A i \in 1..Len(r) : i \in 1..Len(s) \/ \E j \in 1..Len(t) : i = Len(s) + j
  BY ConcatItems
<1> HIDE DEF r
<1>2. ASSUME NEW i \in 1..Len(t), t[i] = a, \A j \in 1..Len(t) : j > i => t[j] # b
      PROVE  LastIs(r, a, b)
  <2>1. Len(s) + i \in 1..Len(r) /\ r[Len(s) + i] = a
    BY <1>1, <1>2
  <2>2. ASSUME NEW j \in 1..Len(r), j > Len(s) + i PROVE r[j] # b
    <3>1. j \notin 1..Len(s)
      BY <1>1, <2>2
    <3>2. PICK n \in 1..Len(t) : j = Len(s) + n
      BY <1>1, <3>1
    <3>3. n > i
      BY <1>1, <2>2, <3>2
    <3> QED  BY <1>1, <1>2, <3>2, <3>3
  <2> QED  BY <2>1, <2>2 DEF LastIs
<1>3. ASSUME NEW i \in 1..Len(s), s[i] = a, \A j \in 1..Len(s) : j > i => s[j] # b, ~Contains(t, b)
      PROVE  LastIs(r, a, b)
  <2>1. i \in 1..Len(r) /\ r[i] = a
    BY <1>1, <1>3
  <2>2. ASSUME NEW j \in 1..Len(r), j > i PROVE r[j] # b
    <3>1. CASE j \in 1..Len(s)
      BY <1>1, <1>3, <2>2, <3>1
    <3>2. CASE j \notin 1..Len(s)
      <4>1. PICK n \in 1..Len(t) : j = Len(s) + n
        BY <1>1, <3>2
      <4>2. t[n] # b
        BY <1>3 DEF Contains
      <4> QED  BY <1>1, <4>1, <4>2
    <3> QED  BY <3>1, <3>2
  <2> QED  BY <2>1, <2>2 DEF LastIs
<1>4. ASSUME NEW i \in 1..Len(r), r[i] = a, \A j \in 1..Len(r) : j > i => r[j] # b
      PROVE  LastIs(t, a, b) \/ (LastIs(s, a, b) /\ ~Contains(t, b))
  <2>1. CASE i \in 1..Len(s)
    <3>1. s[i] = a /\ \A j \in 1..Len(s) : j > i => s[j] # b
      BY <1>1, <1>4, <2>1
    <3>2. ASSUME NEW j \in 1..Len(t) PROVE t[j] # b
      <4>1. Len(s) + j > i
        BY <1>1, <2>1
      <4> QED  BY <1>1, <1>4, <4>1
    <3> QED  BY <2>1, <3>1, <3>2 DEF LastIs, Contains
  <2>2. CASE i \notin 1..Len(s)
    <3>1. PICK n \in 1..Len(t) : i = Len(s) + n
      BY <1>1, <2>2
    <3>2. ASSUME NEW j \in 1..Len(t), j > n PROVE t[j] # b
      <4>1. Len(s) + j > i
        BY <1>1, <3>1, <3>2
      <4> QED  BY <1>1, <1>4, <4>1
    <3>3. t[n] = a
      BY <1>1, <1>4, <3>1
    <3> QED  BY <3>2, <3>3 DEF LastIs
  <2> QED  BY <2>1, <2>2
<1>5. LastIs(r, a, b) <=> LastIs(t, a, b) \/ (LastIs(s, a, b) /\ ~Contains(t, b))
  BY <1>2, <1>3, <1>4 DEF LastIs
<1> QED  BY <1>5 DEF r

\* The same for an item that is appended, and for the head of a list.
LEMMA SingleItem ==
  ASSUME NEW x, NEW a, NEW b
  PROVE  /\ Contains(<<x>>, a) <=> x = a
         /\ LastIs(<<x>>, a, b) <=> x = a
BY DEF Contains, LastIs

LEMMA AppendItems ==
  ASSUME NEW S, NEW s \in Seq(S), NEW x \in S, NEW a, NEW b
  PROVE  /\ Contains(Append(s, x), a) <=> Contains(s, a) \/ x = a
         /\ LastIs(Append(s, x), a, b) <=> x = a \/ (LastIs(s, a, b) /\ x # b)
<1>1. <<x>> \in Seq(S) /\ Append(s, x) = s \o <<x>>
  BY AppendIsConcat
<1>2. Contains(s \o <<x>>, a) <=> Contains(s, a) \/ Contains(<<x>>, a)
  BY <1>1, ContainsConcat
<1>3. LastIs(s \o <<x>>, a, b) <=> LastIs(<<x>>, a, b) \/ (LastIs(s, a, b) /\ ~Contains(<<x>>, b))
  BY <1>1, LastIsConcat
<1>4. (Contains(<<x>>, a) <=> x = a) /\ (Contains(<<x>>, b) <=> x = b) /\ (LastIs(<<x>>, a, b) <=> x = a)
  BY SingleItem
<1> QED  BY <1>1, <1>2, <1>3, <1>4, Zenon

LEMMA HeadTailItems ==
  ASSUME NEW S, NEW s \in Seq(S), s # <<>>, NEW a, NEW b
  PROVE  /\ Contains(s, a) <=> Head(s) = a \/ Contains(Tail(s), a)
         /\ LastIs(s, a, b) <=> LastIs(Tail(s), a, b) \/ (Head(s) = a /\ ~Contains(Tail(s), b))
<1>1. Tail(s) \in Seq(S) /\ <<Head(s)>> \in Seq(S) /\ s = <<Head(s)>> \o Tail(s)
  BY HeadTailProperties
<1>2. Contains(<<Head(s)>> \o Tail(s), a) <=> Contains(<<Head(s)>>, a) \/ Contains(Tail(s), a)
  BY <1>1, ContainsConcat
<1>3. LastIs(<<Head(s)>> \o Tail(s), a, b)
        <=> LastIs(Tail(s), a, b) \/ (LastIs(<<Head(s)>>, a, b) /\ ~Contains(Tail(s), b))
  BY <1>1, LastIsConcat
<1>4. (Contains(<<Head(s)>>, a) <=> Head(s) = a) /\ (LastIs(<<Head(s)>>, a, b) <=> Head(s) = a)
  BY SingleItem
<1> QED  BY <1>1, <1>2, <1>3, <1>4, Zenon

-----------------------------------------------------------------------------
\* How often an item is in a list.
Count(s, x) == Cardinality({i \in 1..Len(s) : s[i] = x})

LEMMA CountOfConcat ==
  ASSUME NEW S, NEW s \in Seq(S), NEW t \in Seq(S), NEW x
  PROVE  /\ Count(s, x) \in Nat /\ Count(t, x) \in Nat
         /\ Count(s \o t, x) = Count(s, x) + Count(t, x)
<1> DEFINE r == s \o t
           n == Len(s)
           A == {i \in 1..Len(s) : s[i] = x}
           B == {i \in 1..Len(t) : t[i] = x}
           C == {i \in 1..Len(r) : r[i] = x}
           D == {n + i : i \in B}
<1>1. /\ n \in Nat /\ Len(t) \in Nat
      /\ \A i \in 1..Len(s) : i \in 1..Len(r) /\ r[i] = s[i]
      /\ \A i \in 1..Len(t) : n + i \in 1..Len(r) /\ r[n + i] = t[i]
      /\ \A i \in 1..Len(r) : i \in 1..Len(s) \/ \E j \in 1..Len(t) : i = n + j
  BY ConcatItems
<1>2. IsFiniteSet(A) /\ Cardinality(A) \in Nat /\ IsFiniteSet(B) /\ Cardinality(B) \in Nat
  <2>1. IsFiniteSet(1..Len(s)) /\ IsFiniteSet(1..Len(t))
    BY <1>1, FS_Interval
  <2>2. A \in SUBSET (1..Len(s)) /\ B \in SUBSET (1..Len(t))
    OBVIOUS
  <2>3. IsFiniteSet(A) /\ IsFiniteSet(B)
    BY <2>1, <2>2, FS_Subset
  <2> QED  BY <2>3, FS_CardinalityType
<1>3. B \subseteq Nat
  BY <1>1
<1>4. C = A \cup D
  <2> HIDE DEF r, n
  <2> QED  BY <1>1
<1>5. A \cap D = {}
  BY <1>1
<1>6. IsFiniteSet(D) /\ Cardinality(D) = Cardinality(B)
  <2> HIDE DEF B, n
  <2> DEFINE g == [i \in B |-> n + i]
  <2>1. g \in Bijection(B, D)
    <3>1. g \in [B -> D] /\ (\A i, j \in B : g[i] = g[j] => i = j) /\ \A y \in D : \E i \in B : g[i] = y
      BY <1>1, <1>3
    <3> HIDE DEF g, D
    <3> QED  BY <3>1 DEF Bijection, Injection, Surjection, IsInjective
  <2>2. ExistsBijection(B, D)
    BY <2>1 DEF ExistsBijection
  <2> HIDE DEF D
  <2> QED  BY <1>2, <2>2, FS_Bijection
<1> HIDE DEF A, B, C, D
<1>7. Cardinality(A \cup D) = Cardinality(A) + Cardinality(B)
  <2>1. Cardinality(A \cup D) = Cardinality(A) + Cardinality(D) - Cardinality(A \cap D)
    BY <1>2, <1>6, FS_Union
  <2>2. Cardinality(A \cap D) = 0
    BY <1>5, FS_EmptySet
  <2> QED  BY <1>2, <1>6, <2>1, <2>2
<1> QED  BY <1>2, <1>4, <1>7 DEF Count, A, B, C

LEMMA CountOfNone ==
  ASSUME NEW s, NEW x, ~Contains(s, x)
  PROVE  Count(s, x) = 0
<1>1. {i \in 1..Len(s) : s[i] = x} = {}
  BY DEF Contains
<1> QED  BY <1>1, FS_EmptySet DEF Count

LEMMA CountOfOne == ASSUME NEW x PROVE Count(<<x>>, x) = 1
<1>1. {i \in 1..Len(<<x>>) : <<x>>[i] = x} = {1}
  OBVIOUS
<1> QED  BY <1>1, FS_Singleton DEF Count

\* The same for an item that is appended, and for the head of a list.
LEMMA CountAppended ==
  ASSUME NEW S, NEW s \in Seq(S), NEW y \in S, NEW x
  PROVE  /\ Count(s, x) \in Nat
         /\ Count(Append(s, y), x) = IF y = x THEN Count(s, x) + 1 ELSE Count(s, x)
<1>1. <<y>> \in Seq(S) /\ Append(s, y) = s \o <<y>>
  BY AppendIsConcat
<1>2. Count(s, x) \in Nat /\ Count(s \o <<y>>, x) = Count(s, x) + Count(<<y>>, x)
  BY <1>1, CountOfConcat
<1>3. CASE y = x
  BY <1>1, <1>2, <1>3, CountOfOne
<1>4. CASE y # x
  <2>1. Count(<<y>>, x) = 0
    BY <1>4, SingleItem, CountOfNone
  <2> QED  BY <1>1, <1>2, <1>4, <2>1
<1> QED  BY <1>3, <1>4

LEMMA CountOfTail ==
  ASSUME NEW S, NEW s \in Seq(S), s # <<>>, NEW x
  PROVE  /\ Count(Tail(s), x) \in Nat
         /\ Count(s, x) = IF Head(s) = x THEN Count(Tail(s), x) + 1 ELSE Count(Tail(s), x)
<1> DEFINE h == Head(s)
           t == Tail(s)
<1>1. h \in S /\ t \in Seq(S) /\ <<h>> \in Seq(S) /\ s = <<h>> \o t
  BY HeadTailProperties
<1> HIDE DEF h, t
<1>2. Count(t, x) \in Nat /\ Count(<<h>> \o t, x) = Count(<<h>>, x) + Count(t, x)
  BY <1>1, CountOfConcat
<1>3. Count(<<h>>, x) = IF h = x THEN 1 ELSE 0
  <2>1. CASE h = x
    BY <2>1, CountOfOne
  <2>2. CASE h # x
    <3>1. Count(<<h>>, x) = 0
      BY <2>2, SingleItem, CountOfNone
    <3> QED  BY <2>2, <3>1
  <2> QED  BY <2>1, <2>2
<1>4. Count(s, x) = IF h = x THEN Count(t, x) + 1 ELSE Count(t, x)
  BY <1>1, <1>2, <1>3
<1> QED  BY <1>2, <1>4 DEF h, t

\* A finite set is listed completely.
LEMMA SetToSeqItems ==
  ASSUME NEW S, IsFiniteSet(S)
  PROVE  /\ Cardinality(S) \in Nat
         /\ SetToSeq(S) \in [1..Cardinality(S) -> S]
         /\ \A x \in S : \E i \in 1..Cardinality(S) : SetToSeq(S)[i] = x
<1> DEFINE n == Cardinality(S)
           f == SetToSeq(S)
<1>1. n \in Nat /\ \E g : g \in Bijection(1..n, S)
  BY FS_CardinalityType DEF ExistsBijection
<1>2. \E g \in [1..n -> S] : IsInjective(g)
  BY <1>1 DEF Bijection, Injection, IsInjective
<1>3. f \in [1..n -> S] /\ IsInjective(f)
  BY <1>2 DEF SetToSeq
<1> HIDE DEF f
<1>4. f \in Injection(1..n, S)
  BY <1>3 DEF Injection, IsInjective
<1>5. Cardinality(1..n) = n
  BY <1>1, FS_Interval
<1>6. f \in Surjection(1..n, S)
  BY <1>4, <1>5, FS_Injection
<1>7. \A x \in S : \E i \in 1..n : f[i] = x
  BY <1>6 DEF Surjection
<1> QED  BY <1>1, <1>3, <1>7 DEF f

\* A function from 1..n is a list of length n.
LEMMA ListOfLength ==
  ASSUME NEW S, NEW n \in Nat, NEW s \in [1..n -> S]
  PROVE  s \in Seq(S) /\ Len(s) = n
<1>1. s \in Seq(S)
  BY SeqDef
<1>2. Len(s) \in Nat /\ DOMAIN s = 1..Len(s)
  BY <1>1, LenProperties
<1>3. 1..Len(s) = 1..n
  BY <1>2
<1>4. ASSUME NEW a \in Nat, NEW b \in Nat, 1..a = 1..b PROVE a <= b
  <2>1. a \in 1..a \/ a = 0
    OBVIOUS
  <2> QED  BY <1>4, <2>1
<1> QED  BY <1>1, <1>2, <1>3, <1>4

-----------------------------------------------------------------------------
\* Induction over the naturals, for sets.
LEMMA SetInduction ==
  ASSUME NEW S, 0 \in S, \A n \in Nat : n \in S => n + 1 \in S
  PROVE  Nat \subseteq S
<1> DEFINE R == OpToRel(<, Nat)
<1>1. IsWellFoundedOn(R, Nat)
  BY NatLessThanWellFounded
<1>2. \A x, y \in Nat : <<x, y>> \in R <=> x < y
  BY DEF OpToRel
<1> HIDE DEF R
<1> SUFFICES ASSUME Nat \ S # {} PROVE FALSE
  OBVIOUS
<1>3. PICK x \in Nat \ S : \A y \in Nat \ S : ~(<<y, x>> \in R)
  BY <1>1, WFMin
<1>4. x # 0 /\ x - 1 \in Nat /\ x - 1 < x /\ x = (x - 1) + 1
  BY <1>3
<1>5. x - 1 \in S
  BY <1>2, <1>3, <1>4
<1> QED  BY <1>3, <1>4, <1>5

\* Lists of whatever.
IsSequence(s) == \E S : s \in Seq(S)

LEMMA EmptyIsSequence == IsSequence(<<>>)
<1>1. <<>> \in Seq({})
  OBVIOUS
<1> QED  BY <1>1 DEF IsSequence

LEMMA LenIsNatural == ASSUME NEW s, IsSequence(s) PROVE Len(s) \in Nat
BY DEF IsSequence

LEMMA AppendIsSequence ==
  ASSUME NEW s, IsSequence(s), NEW x
  PROVE  IsSequence(Append(s, x)) /\ Len(Append(s, x)) = Len(s) + 1 /\ Append(s, x) # <<>>
<1>1. PICK S : s \in Seq(S)
  BY DEF IsSequence
<1>2. s \in Seq(S \cup {x})
  BY <1>1
<1>3. Append(s, x) \in Seq(S \cup {x}) /\ Len(Append(s, x)) = Len(s) + 1 /\ Append(s, x) # <<>>
  BY <1>2, AppendProperties
<1> QED  BY <1>3 DEF IsSequence

LEMMA TailIsSequence ==
  ASSUME NEW s, IsSequence(s), s # <<>>
  PROVE  IsSequence(Tail(s)) /\ Len(Tail(s)) = Len(s) - 1 /\ Len(s) \in Nat \ {0}
<1>1. PICK S : s \in Seq(S)
  BY DEF IsSequence
<1>2. Tail(s) \in Seq(S) /\ Len(Tail(s)) = Len(s) - 1 /\ Len(s) \in Nat \ {0}
  BY <1>1
<1> QED  BY <1>2 DEF IsSequence

LEMMA ExceptIsSequence ==
  ASSUME NEW s, IsSequence(s), s # <<>>, NEW x
  PROVE  /\ IsSequence([s EXCEPT ![Len(s)] = x])
         /\ [s EXCEPT ![Len(s)] = x] # <<>> /\ Len([s EXCEPT ![Len(s)] = x]) = Len(s)
<1>1. PICK S : s \in Seq(S)
  BY DEF IsSequence
<1>2. s \in Seq(S \cup {x})
  BY <1>1
<1>3. Len(s) \in 1..Len(s)
  BY <1>1
<1> DEFINE t == [s EXCEPT ![Len(s)] = x]
<1>4. t \in Seq(S \cup {x}) /\ Len(t) = Len(s)
  BY <1>2, <1>3, ExceptSeq
<1>5. t # <<>>
  BY <1>3, <1>4
<1> HIDE DEF t
<1>6. IsSequence(t)
  BY <1>4 DEF IsSequence
<1> QED  BY <1>4, <1>5, <1>6 DEF t

LEMMA ListIsSequence ==
  ASSUME NEW n \in Nat, NEW s, DOMAIN s = 1..n, s = [i \in 1..n |-> s[i]]
  PROVE  IsSequence(s) /\ Len(s) = n
<1>1. s \in Seq({s[i] : i \in 1..n})
  OBVIOUS
<1>2. Len(s) = n
  OBVIOUS
<1> QED  BY <1>1, <1>2 DEF IsSequence

LEMMA ConcatIsSequence ==
  ASSUME NEW s, NEW t, IsSequence(s), IsSequence(t)
  PROVE  /\ IsSequence(s \o t) /\ Len(s \o t) = Len(s) + Len(t)
         /\ Len(s) \in Nat /\ Len(t) \in Nat
<1>1. PICK S : s \in Seq(S)
  BY DEF IsSequence
<1>2. PICK T : t \in Seq(T)
  BY DEF IsSequence
<1>3. s \in Seq(S \cup T) /\ t \in Seq(S \cup T)
  BY <1>1, <1>2
<1>4. s \o t \in Seq(S \cup T) /\ Len(s \o t) = Len(s) + Len(t)
  BY <1>3, ConcatProperties
<1> QED  BY <1>1, <1>2, <1>4 DEF IsSequence

\* What is flattened is put behind each other, one list after the other.
LEMMA FlattenSteps ==
  ASSUME NEW s, IsSequence(s), \A i \in 1..Len(s) : IsSequence(s[i])
  PROVE  \E f : /\ f[0] = <<>> /\ FlattenSeq(s) = f[Len(s)]
                /\ \A n \in Nat : n + 1 <= Len(s) => f[n + 1] = f[n] \o s[n + 1]
                /\ \A n \in 0..Len(s) : IsSequence(f[n])
<1> DEFINE Next(f, i) == IF i = 1 THEN s[i] ELSE f[i - 1] \o s[i]
           Made(f, n) == f = [i \in 1..n |-> Next(f, i)]
           T == {n \in Nat : \E f : Made(f, n)}
<1>1. Len(s) \in Nat
  BY LenProperties DEF IsSequence
<1>2. 0 \in T
  <2>1. Made([i \in 1..0 |-> 0], 0)
    OBVIOUS
  <2> QED  BY <2>1
<1>3. ASSUME NEW n \in Nat, n \in T PROVE n + 1 \in T
  <2>1. PICK f : Made(f, n)
    BY <1>3
  <2> DEFINE g == [i \in 1..(n + 1) |-> Next(f, i)]
  <2>2. \A i \in 1..n : g[i] = f[i]
    <3>1. \A i \in 1..n : f[i] = Next(f, i)
      BY <2>1
    <3> HIDE DEF Next
    <3>2. \A i \in 1..n : g[i] = Next(f, i)
      OBVIOUS
    <3> QED  BY <3>1, <3>2
  <2>3. \A i \in 1..(n + 1) : i # 1 => i - 1 \in 1..n
    OBVIOUS
  <2>4. \A i \in 1..(n + 1) : g[i] = Next(g, i)
    BY <2>2, <2>3
  <2>5. Made(g, n + 1)
    BY <2>4
  <2>6. \E h : Made(h, n + 1)
    BY <2>5
  <2> HIDE DEF Made
  <2> QED  BY <2>6
<1>4. Nat \subseteq T
  <2> HIDE DEF T
  <2> QED  BY <1>2, <1>3, SetInduction
<1> DEFINE flatten == CHOOSE f : Made(f, Len(s))
           v == [n \in 0..Len(s) |-> IF n = 0 THEN <<>> ELSE flatten[n]]
<1>5. Made(flatten, Len(s))
  BY <1>1, <1>4
<1>6. FlattenSeq(s) = v[Len(s)]
  <2>1. CASE Len(s) = 0
    <3>1. s = <<>> /\ FlattenSeq(s) = s
      BY <2>1 DEF FlattenSeq, IsSequence
    <3> QED  BY <2>1, <3>1
  <2>2. CASE Len(s) # 0
    <3>1. FlattenSeq(s) = flatten[Len(s)]
      BY <2>2 DEF FlattenSeq
    <3> HIDE DEF flatten
    <3> QED  BY <1>1, <2>2, <3>1
  <2> QED  BY <2>1, <2>2
<1> HIDE DEF flatten
<1>7. ASSUME NEW n \in Nat, n + 1 <= Len(s) PROVE v[n + 1] = v[n] \o s[n + 1]
  <2>1. n + 1 \in 1..Len(s)
    BY <1>1, <1>7
  <2>2. flatten[n + 1] = IF n = 0 THEN s[n + 1] ELSE flatten[n] \o s[n + 1]
    <3>1. flatten[n + 1] = Next(flatten, n + 1)
      <4> HIDE DEF Next
      <4> QED  BY <1>5, <2>1
    <3> QED  BY <3>1
  <2>3. <<>> \o s[n + 1] = s[n + 1]
    BY <2>1, ConcatEmptySeq DEF IsSequence
  <2>4. v[n + 1] = flatten[n + 1] /\ v[n] = IF n = 0 THEN <<>> ELSE flatten[n]
    BY <1>1, <1>7, <2>1
  <2> HIDE DEF v
  <2> QED  BY <2>2, <2>3, <2>4
<1>8. v[0] = <<>>
  BY <1>1
<1> HIDE DEF v
<1> DEFINE U == {n \in Nat : n <= Len(s) => IsSequence(v[n])}
<1>9. 0 \in U
  BY <1>8, EmptyIsSequence
<1>10. ASSUME NEW n \in Nat, n \in U, n + 1 <= Len(s) PROVE IsSequence(v[n + 1])
  <2>1. IsSequence(s[n + 1]) /\ IsSequence(v[n])
    BY <1>1, <1>10
  <2> QED  BY <1>7, <1>10, <2>1, ConcatIsSequence
<1>11. Nat \subseteq U
  <2>1. \A n \in Nat : n \in U => n + 1 \in U
    BY <1>10
  <2> HIDE DEF U
  <2> QED  BY <1>9, <2>1, SetInduction
<1>12. \A n \in 0..Len(s) : IsSequence(v[n])
  BY <1>1, <1>11
<1> QED  BY <1>6, <1>7, <1>8, <1>12

\* What is flattened is a list, however many lists there are.
LEMMA FlattenIsSequence ==
  ASSUME NEW s, IsSequence(s), \A i \in 1..Len(s) : IsSequence(s[i])
  PROVE  IsSequence(FlattenSeq(s))
<1>1. Len(s) \in Nat
  BY LenIsNatural
<1>2. PICK f : FlattenSeq(s) = f[Len(s)] /\ \A n \in 0..Len(s) : IsSequence(f[n])
  BY FlattenSteps
<1>3. Len(s) \in 0..Len(s)
  BY <1>1
<1> QED  BY <1>2, <1>3

\* An item of two lists is one of either.
LEMMA ConcatParts ==
  ASSUME NEW s, NEW t, IsSequence(s), IsSequence(t)
  PROVE  /\ \A i \in 1..Len(s) : i \in 1..Len(s \o t) /\ (s \o t)[i] = s[i]
         /\ \A i \in 1..Len(t) : Len(s) + i \in 1..Len(s \o t) /\ (s \o t)[Len(s) + i] = t[i]
         /\ \A i \in 1..Len(s \o t) : i \in 1..Len(s) \/ \E j \in 1..Len(t) : i = Len(s) + j
<1>1. PICK S : s \in Seq(S)
  BY DEF IsSequence
<1>2. PICK T : t \in Seq(T)
  BY DEF IsSequence
<1>3. s \in Seq(S \cup T) /\ t \in Seq(S \cup T)
  BY <1>1, <1>2
<1> QED  BY <1>3, ConcatItems

\* What is in the flattened list is in one of the lists.
LEMMA FlattenItems ==
  ASSUME NEW s, IsSequence(s), \A i \in 1..Len(s) : IsSequence(s[i])
  PROVE  \A i \in 1..Len(FlattenSeq(s)) : \E k \in 1..Len(s) : \E j \in 1..Len(s[k]) : FlattenSeq(s)[i] = s[k][j]
<1>1. Len(s) \in Nat
  BY LenIsNatural
<1>2. PICK f : /\ f[0] = <<>> /\ FlattenSeq(s) = f[Len(s)]
               /\ \A n \in Nat : n + 1 <= Len(s) => f[n + 1] = f[n] \o s[n + 1]
               /\ \A n \in 0..Len(s) : IsSequence(f[n])
  BY FlattenSteps
<1> DEFINE In(x) == \E k \in 1..Len(s) : \E j \in 1..Len(s[k]) : x = s[k][j]
           U == {n \in Nat : n <= Len(s) => \A i \in 1..Len(f[n]) : In(f[n][i])}
<1>3. 0 \in U
  BY <1>2
<1>4. ASSUME NEW n \in Nat, n \in U, n + 1 <= Len(s), NEW i \in 1..Len(f[n + 1])
      PROVE  In(f[n + 1][i])
  <2> DEFINE a == f[n]
             b == s[n + 1]
  <2>1. n \in 0..Len(s) /\ n + 1 \in 1..Len(s)
    BY <1>1, <1>4
  <2>2. IsSequence(a) /\ IsSequence(b) /\ f[n + 1] = a \o b
    BY <1>2, <1>4, <2>1
  <2>3. \A j \in 1..Len(a) : In(a[j])
    BY <1>1, <1>4
  <2>4. \A j \in 1..Len(b) : In(b[j])
    BY <2>1
  <2> HIDE DEF a, b, In
  <2>5. /\ \A k \in 1..Len(a) : (a \o b)[k] = a[k]
        /\ \A k \in 1..Len(b) : (a \o b)[Len(a) + k] = b[k]
        /\ \A k \in 1..Len(a \o b) : k \in 1..Len(a) \/ \E j \in 1..Len(b) : k = Len(a) + j
    BY <2>2, ConcatParts
  <2>6. i \in 1..Len(a \o b)
    BY <2>2
  <2> QED  BY <2>2, <2>3, <2>4, <2>5, <2>6
<1>5. Nat \subseteq U
  <2>1. \A n \in Nat : n \in U => n + 1 \in U
    <3> HIDE DEF In
    <3> QED  BY <1>4
  <2> HIDE DEF U
  <2> QED  BY <1>3, <2>1, SetInduction
<1> HIDE DEF In
<1>6. Len(s) \in U
  BY <1>1, <1>5
<1>7. \A i \in 1..Len(f[Len(s)]) : In(f[Len(s)][i])
  BY <1>1, <1>6
<1>8. \A i \in 1..Len(FlattenSeq(s)) : In(FlattenSeq(s)[i])
  BY <1>2, <1>7
<1> QED  BY <1>8 DEF In

\* A function with a finite domain has finitely many values.
LEMMA ImageIsFinite ==
  ASSUME NEW S, IsFiniteSet(S), NEW f, DOMAIN f = S, NEW T, \A y \in T : \E x \in S : f[x] = y
  PROVE  IsFiniteSet(T)
<1> DEFINE D == {x \in S : f[x] \in T}
           g == [x \in D |-> f[x]]
<1>1. IsFiniteSet(D)
  BY FS_Subset
<1>2. g \in Surjection(D, T)
  BY DEF Surjection
<1> HIDE DEF g, D
<1> QED  BY <1>1, <1>2, FS_Surjection

LEMMA ProductIsFinite ==
  ASSUME NEW S, IsFiniteSet(S), NEW T, IsFiniteSet(T)
  PROVE  IsFiniteSet(S \X T)
<1>1. PICK k \in Nat : ExistsSurjection(1..k, S)
  BY FS_NatSurjection
<1>2. PICK f \in Surjection(1..k, S) : TRUE
  BY <1>1 DEF ExistsSurjection
<1>3. f \in [1..k -> S] /\ \A x \in S : \E i \in 1..k : f[i] = x
  BY <1>2 DEF Surjection
<1> DEFINE Part(n) == {f[i] : i \in 1..n} \X T
           N == {n \in Nat : n <= k => IsFiniteSet(Part(n))}
<1>4. 0 \in N
  <2>1. Part(0) = {}
    OBVIOUS
  <2> QED  BY <2>1, FS_EmptySet
<1>5. ASSUME NEW n \in Nat, IsFiniteSet(Part(n)) PROVE IsFiniteSet(Part(n + 1))
  <2> DEFINE x == f[n + 1]
             h == [t \in T |-> <<x, t>>]
             Row == {x} \X T
  <2>1. IsFiniteSet(Row)
    <3>1. DOMAIN h = T /\ \A y \in Row : \E t \in T : h[t] = y
      OBVIOUS
    <3> HIDE DEF h, Row
    <3> QED  BY <3>1, ImageIsFinite
  <2>2. {f[i] : i \in 1..(n + 1)} = {f[i] : i \in 1..n} \cup {x}
    OBVIOUS
  <2>3. Part(n + 1) = Part(n) \cup Row
    BY <2>2
  <2> HIDE DEF Part, Row
  <2> QED  BY <1>5, <2>1, <2>3, FS_Union, ZenonT(40)
<1>6. \A n \in Nat : n \in N => n + 1 \in N
  <2> HIDE DEF Part
  <2> QED  BY <1>5
<1>7. Nat \subseteq N
  <2> HIDE DEF N
  <2> QED  BY <1>4, <1>6, SetInduction
<1>8. IsFiniteSet(Part(k))
  <2> HIDE DEF Part
  <2> QED  BY <1>7
<1>9. S \X T = Part(k)
  <2>1. S = {f[i] : i \in 1..k}
    BY <1>3
  <2> QED  BY <2>1
<1> QED  BY <1>8, <1>9

-----------------------------------------------------------------------------
\* Items that have others behind them.

\* Something of G is in the list; whatever of W is in it has something of G
\* behind it.
Has(s, G) == \E i \in 1..Len(s) : s[i] \in G
Covered(s, W, G) == \A i \in 1..Len(s) : s[i] \in W => \E j \in i..Len(s) : s[j] \in G

LEMMA HasTail ==
  ASSUME NEW S, NEW s \in Seq(S), s # <<>>, NEW G
  PROVE  Has(s, G) <=> Head(s) \in G \/ Has(Tail(s), G)
<1> DEFINE t == Tail(s)
<1>1. /\ Len(s) \in Nat \ {0} /\ Len(t) = Len(s) - 1 /\ Head(s) = s[1]
      /\ \A i \in 1..Len(t) : t[i] = s[i + 1] /\ i + 1 \in 1..Len(s)
      /\ \A i \in 1..Len(s) : i # 1 => i - 1 \in 1..Len(t) /\ t[i - 1] = s[i]
  OBVIOUS
<1> HIDE DEF t
<1>2. Has(t, G) => Has(s, G)
  BY <1>1 DEF Has
<1>3. Head(s) \in G => Has(s, G)
  <2>1. 1 \in 1..Len(s)
    BY <1>1
  <2> QED  BY <1>1, <2>1 DEF Has
<1>4. ASSUME NEW i \in 1..Len(s), s[i] \in G PROVE Head(s) \in G \/ Has(t, G)
  BY <1>1, <1>4 DEF Has
<1>5. Has(s, G) => Head(s) \in G \/ Has(t, G)
  BY <1>4 DEF Has
<1> QED  BY <1>2, <1>3, <1>5 DEF t

LEMMA CoveredTail ==
  ASSUME NEW S, NEW s \in Seq(S), s # <<>>, NEW W, NEW G, Covered(s, W, G), \A x \in W : x \notin G
  PROVE  Covered(Tail(s), W, G) /\ (Head(s) \in W => Has(Tail(s), G))
<1> DEFINE t == Tail(s)
<1>1. /\ Len(s) \in Nat \ {0} /\ Len(t) = Len(s) - 1 /\ Head(s) = s[1]
      /\ \A i \in 1..Len(t) : t[i] = s[i + 1] /\ i + 1 \in 1..Len(s)
      /\ \A i \in 1..Len(s) : i # 1 => i - 1 \in 1..Len(t) /\ t[i - 1] = s[i]
  OBVIOUS
<1> HIDE DEF t
<1>2. ASSUME NEW i \in 1..Len(t), t[i] \in W PROVE \E j \in i..Len(t) : t[j] \in G
  <2>1. i + 1 \in 1..Len(s) /\ s[i + 1] \in W
    BY <1>1, <1>2
  <2>2. PICK j \in (i + 1)..Len(s) : s[j] \in G
    BY <2>1 DEF Covered
  <2>3. j \in 1..Len(s) /\ j # 1 /\ j - 1 \in i..Len(t)
    BY <1>1, <2>2
  <2> QED  BY <1>1, <2>2, <2>3
<1>3. ASSUME Head(s) \in W PROVE Has(t, G)
  <2>1. 1 \in 1..Len(s) /\ s[1] \in W
    BY <1>1, <1>3
  <2>2. PICK j \in 1..Len(s) : s[j] \in G
    BY <2>1 DEF Covered
  <2>3. j # 1
    BY <1>1, <1>3, <2>2
  <2> QED  BY <1>1, <2>2, <2>3 DEF Has
<1> QED  BY <1>2, <1>3 DEF Covered, t

LEMMA CoveredConcat ==
  ASSUME NEW S, NEW s \in Seq(S), NEW t \in Seq(S), NEW W, NEW G
  PROVE  /\ Has(s \o t, G) <=> Has(s, G) \/ Has(t, G)
         /\ Covered(s, W, G) \/ Has(t, G) => (Covered(t, W, G) => Covered(s \o t, W, G))
<1> DEFINE u == s \o t
<1>1. /\ Len(s) \in Nat /\ Len(t) \in Nat /\ Len(u) = Len(s) + Len(t)
      /\ \A i \in 1..Len(s) : i \in 1..Len(u) /\ u[i] = s[i]
      /\ \A i \in 1..Len(t) : i + Len(s) \in 1..Len(u) /\ u[i + Len(s)] = t[i]
      /\ \A i \in 1..Len(u) : i \in 1..Len(s) \/ (i - Len(s) \in 1..Len(t) /\ u[i] = t[i - Len(s)])
  <2>1. /\ Len(u) = Len(s) + Len(t) /\ Len(s) \in Nat /\ Len(t) \in Nat
        /\ \A i \in 1..(Len(s) + Len(t)) : u[i] = IF i <= Len(s) THEN s[i] ELSE t[i - Len(s)]
    BY ConcatProperties
  <2> HIDE DEF u
  <2> QED  BY <2>1
<1> HIDE DEF u
<1>2. Has(u, G) <=> Has(s, G) \/ Has(t, G)
  <2>1. Has(s, G) \/ Has(t, G) => Has(u, G)
    BY <1>1 DEF Has
  <2>2. Has(u, G) => Has(s, G) \/ Has(t, G)
    BY <1>1 DEF Has
  <2> QED  BY <2>1, <2>2
<1>3. ASSUME Covered(s, W, G) \/ Has(t, G), Covered(t, W, G), NEW i \in 1..Len(u), u[i] \in W
      PROVE  \E j \in i..Len(u) : u[j] \in G
  <2>1. CASE i \in 1..Len(s)
    <3>1. CASE Has(t, G)
      <4>1. PICK j \in 1..Len(t) : t[j] \in G
        BY <3>1 DEF Has
      <4>2. j + Len(s) \in i..Len(u) /\ u[j + Len(s)] \in G
        BY <1>1, <2>1, <4>1
      <4> QED  BY <4>2
    <3>2. CASE Covered(s, W, G)
      <4>1. PICK j \in i..Len(s) : s[j] \in G
        BY <1>1, <1>3, <2>1, <3>2 DEF Covered
      <4>2. j \in 1..Len(s) /\ j \in i..Len(u)
        BY <1>1, <2>1, <4>1
      <4> QED  BY <1>1, <4>1, <4>2
    <3> QED  BY <1>3, <3>1, <3>2
  <2>2. CASE i \notin 1..Len(s)
    <3>1. i - Len(s) \in 1..Len(t) /\ t[i - Len(s)] \in W
      BY <1>1, <1>3, <2>2
    <3>2. PICK j \in (i - Len(s))..Len(t) : t[j] \in G
      BY <1>3, <3>1 DEF Covered
    <3>3. j \in 1..Len(t) /\ j + Len(s) \in i..Len(u)
      BY <1>1, <2>2, <3>1, <3>2
    <3> QED  BY <1>1, <3>2, <3>3
  <2> QED  BY <2>1, <2>2
<1> QED  BY <1>2, <1>3 DEF Covered, u

LEMMA CoveredAppend ==
  ASSUME NEW S, NEW s \in Seq(S), NEW x \in S, NEW W, NEW G
  PROVE  /\ Has(Append(s, x), G) <=> Has(s, G) \/ x \in G
         /\ Covered(s, W, G) /\ x \notin W => Covered(Append(s, x), W, G)
         /\ x \in G => Covered(Append(s, x), W, G)
<1> DEFINE t == <<x>>
           u == Append(s, x)
<1>1. u = s \o t /\ t \in Seq(S) /\ Len(t) = 1 /\ t[1] = x
  OBVIOUS
<1> HIDE DEF t, u
<1>2. Has(t, G) <=> x \in G
  BY <1>1 DEF Has
<1>3. x \notin W \/ x \in G => Covered(t, W, G)
  BY <1>1 DEF Covered
<1>4. /\ Has(s \o t, G) <=> Has(s, G) \/ Has(t, G)
      /\ Covered(s, W, G) \/ Has(t, G) => (Covered(t, W, G) => Covered(s \o t, W, G))
  BY <1>1, CoveredConcat
<1>5. /\ Has(u, G) <=> Has(s, G) \/ x \in G
      /\ Covered(s, W, G) /\ x \notin W => Covered(u, W, G)
      /\ x \in G => Covered(u, W, G)
  BY <1>1, <1>2, <1>3, <1>4
<1> QED  BY <1>5 DEF u

\* Whatever of B is in the list is before everything of A.
Ahead(s, B, A) == \A i, j \in 1..Len(s) : s[i] \in A /\ s[j] \in B => j < i

LEMMA AheadTail ==
  ASSUME NEW S, NEW s \in Seq(S), s # <<>>, NEW A, NEW B, Ahead(s, B, A)
  PROVE  Ahead(Tail(s), B, A) /\ (Head(s) \in A => ~Has(Tail(s), B))
<1> DEFINE t == Tail(s)
<1>1. /\ Len(s) \in Nat \ {0} /\ Len(t) = Len(s) - 1 /\ Head(s) = s[1]
      /\ \A i \in 1..Len(t) : t[i] = s[i + 1] /\ i + 1 \in 1..Len(s)
  OBVIOUS
<1> HIDE DEF t
<1>2. Ahead(t, B, A)
  <2> SUFFICES ASSUME NEW i \in 1..Len(t), NEW j \in 1..Len(t), t[i] \in A, t[j] \in B PROVE j < i
    BY DEF Ahead
  <2>1. j + 1 < i + 1
    BY <1>1 DEF Ahead
  <2> QED  BY <1>1, <2>1
<1>3. ASSUME Head(s) \in A, NEW j \in 1..Len(t), t[j] \in B PROVE FALSE
  <2>1. 1 \in 1..Len(s) /\ j + 1 \in 1..Len(s) /\ s[j + 1] \in B /\ s[1] \in A
    BY <1>1, <1>3
  <2>2. j + 1 < 1
    BY <2>1 DEF Ahead
  <2> QED  BY <2>2
<1> QED  BY <1>2, <1>3 DEF Has, t

LEMMA AheadAppend ==
  ASSUME NEW S, NEW s \in Seq(S), NEW x \in S, NEW A, NEW B, Ahead(s, B, A),
         x \notin A \/ x \notin B, x \notin B \/ ~Has(s, A)
  PROVE  Ahead(Append(s, x), B, A)
<1> DEFINE t == Append(s, x)
<1>1. /\ Len(s) \in Nat /\ Len(t) = Len(s) + 1
      /\ \A i \in 1..Len(t) : (i \in 1..Len(s) /\ t[i] = s[i]) \/ (i = Len(t) /\ t[i] = x)
  OBVIOUS
<1> HIDE DEF t
<1>2. ASSUME NEW i \in 1..Len(t), NEW j \in 1..Len(t), t[i] \in A, t[j] \in B PROVE j < i
  <2>1. CASE j \in 1..Len(s) /\ t[j] = s[j]
    BY <1>1, <1>2, <2>1 DEF Ahead
  <2>2. CASE j = Len(t) /\ t[j] = x
    BY <1>1, <1>2, <2>2 DEF Has
  <2> QED  BY <1>1, <2>1, <2>2
<1> QED  BY <1>2 DEF Ahead, t

-----------------------------------------------------------------------------
\* Recursion along a chain that ends: where up leads is of lower rank.
Chained(X, Y, N, rank, up, Base, base, step) ==
  /\ N \in Nat /\ rank \in [X -> 0..N] /\ Base \subseteq X
  /\ \A x \in X \ Base : up[x] \in X /\ rank[up[x]] < rank[x]
  /\ base \in [X -> Y] /\ step \in [X \X Y -> Y]

LEMMA ChainRecursion ==
  ASSUME NEW X, NEW Y, NEW N, NEW rank, NEW up, NEW Base, NEW base, NEW step,
         Chained(X, Y, N, rank, up, Base, base, step)
  PROVE  \E f \in [X -> Y] : \A x \in X :
           f[x] = IF x \in Base THEN base[x] ELSE step[<<x, f[up[x]]>>]
<1> USE DEF Chained
<1> DEFINE Body(f, x) == IF x \in Base THEN base[x] ELSE step[<<x, f[up[x]]>>]
           Made(f, n) == f \in [X -> Y] /\ \A x \in X : rank[x] < n => f[x] = Body(f, x)
           T == {n \in Nat : \E f : Made(f, n)}
<1>1. 0 \in T
  <2>1. Made(base, 0)
    OBVIOUS
  <2> QED  BY <2>1
<1>2. ASSUME NEW n \in Nat, NEW f, Made(f, n) PROVE \E g : Made(g, n + 1)
  <2> DEFINE g == [x \in X |-> Body(f, x)]
  <2>1. g \in [X -> Y]
    BY <1>2
  <2>2. ASSUME NEW x \in X, rank[x] < n + 1 PROVE g[x] = Body(g, x)
    <3>1. CASE x \in Base
      BY <3>1
    <3>2. CASE x \notin Base
      <4>1. up[x] \in X /\ rank[up[x]] < n /\ rank[x] \in 0..N /\ rank[up[x]] \in 0..N
        BY <2>2, <3>2
      <4>2. f[up[x]] = Body(f, up[x])
        BY <1>2, <4>1
      <4>3. g[up[x]] = Body(f, up[x])
        BY <4>1
      <4>4. g[x] = step[<<x, f[up[x]]>>]
        BY <3>2
      <4> HIDE DEF g
      <4> QED  BY <3>2, <4>2, <4>3, <4>4
    <3> QED  BY <3>1, <3>2
  <2>3. Made(g, n + 1)
    BY <2>1, <2>2
  <2> QED  BY <2>3
<1>3. Nat \subseteq T
  <2>1. \A n \in Nat : n \in T => n + 1 \in T
    <3> HIDE DEF Made
    <3> QED  BY <1>2
  <2> HIDE DEF T
  <2> QED  BY <1>1, <2>1, SetInduction
<1>4. PICK f : Made(f, N + 1)
  BY <1>3
<1> QED  BY <1>4

\* Numbers have a least, and below a bound a greatest.
LEMMA LeastExists ==
  ASSUME NEW S \in SUBSET Nat, S # {}
  PROVE  \E x \in S : \A y \in S : x <= y
<1> DEFINE T == {n \in Nat : (\E x \in S : x <= n) => \E x \in S : \A y \in S : x <= y}
<1>1. 0 \in T
  OBVIOUS
<1>2. \A n \in Nat : n \in T => n + 1 \in T
  <2> SUFFICES ASSUME NEW n \in Nat, n \in T, NEW x \in S, x <= n + 1
               PROVE  \E z \in S : \A y \in S : z <= y
    OBVIOUS
  <2>1. CASE \E y \in S : y <= n
    BY <2>1
  <2>2. CASE ~\E y \in S : y <= n
    <3>1. \A y \in S : x <= y
      BY <2>2
    <3> QED  BY <3>1
  <2> QED  BY <2>1, <2>2
<1>3. Nat \subseteq T
  <2> HIDE DEF T
  <2> QED  BY <1>1, <1>2, SetInduction
<1>4. PICK x \in S : TRUE
  OBVIOUS
<1>5. x \in T /\ x <= x
  BY <1>3
<1> QED  BY <1>5

LEMMA GreatestExists ==
  ASSUME NEW n \in Nat, NEW S \in SUBSET (1..n), S # {}
  PROVE  \E x \in S : \A y \in S : x >= y
<1> DEFINE D == {n - x : x \in S}
<1>1. D \in SUBSET Nat /\ D # {}
  <2>1. \A x \in S : n - x \in Nat
    OBVIOUS
  <2> QED  BY <2>1
<1>2. PICK d \in D : \A y \in D : d <= y
  <2> HIDE DEF D
  <2> QED  BY <1>1, LeastExists
<1>3. PICK x \in S : d = n - x
  OBVIOUS
<1>4. \A y \in S : n - x <= n - y
  BY <1>2, <1>3
<1>5. \A y \in S : x >= y
  BY <1>4
<1> QED  BY <1>5
=============================================================================
