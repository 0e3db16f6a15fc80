----------------------------- MODULE ListProofs -----------------------------
(***************************************************************************)
(* Lists of the executive (TList, in ports and in its tables) are          *)
(* sequences in the models, and no node is in a list twice.  The lemmas    *)
(* say that TAddTail, TRemHead and TRemove keep it so, and what is in the  *)
(* list then.                                                              *)
(***************************************************************************)
EXTENDS Lists, Integers, SequencesExt, Functions, SequenceTheorems, WellFoundedInduction, TLAPS

(* An element is added at the end of a queue, ...                          *)
LEMMA AppendOne ==
  ASSUME NEW T, NEW s \in Seq(T), NEW m \in T, IsInjective(s), ~ Contains(s, m)
  PROVE  /\ Append(s, m) \in Seq(T) /\ IsInjective(Append(s, m))
         /\ \A n : Contains(Append(s, m), n) <=> Contains(s, n) \/ n = m
<1> DEFINE r == Append(s, m)
<1>1. /\ r \in Seq(T) /\ Len(r) = Len(s) + 1 /\ Len(s) \in Nat /\ r[Len(s) + 1] = m
      /\ \A i \in 1..Len(s) : r[i] = s[i]
      /\ DOMAIN r = 1..Len(r) /\ DOMAIN s = 1..Len(s)
  BY AppendProperties
<1> HIDE DEF r
<1>2. IsInjective(r)
  BY <1>1 DEF IsInjective, Contains
<1>3. \A n : Contains(r, n) <=> Contains(s, n) \/ n = m
  BY <1>1 DEF Contains
<1>4. QED
  BY <1>1, <1>2, <1>3 DEF r

(* ... taken from its head, ...                                            *)
LEMMA TailOne ==
  ASSUME NEW T, NEW s \in Seq(T), IsInjective(s), s # <<>>
  PROVE  /\ Head(s) \in T /\ Contains(s, Head(s))
         /\ Tail(s) \in Seq(T) /\ IsInjective(Tail(s))
         /\ \A n : Contains(Tail(s), n) <=> Contains(s, n) /\ n # Head(s)
<1> DEFINE r == Tail(s)
           h == Head(s)
<1>1. /\ r \in Seq(T) /\ Len(r) = Len(s) - 1 /\ Len(s) \in Nat \ {0}
      /\ h \in T /\ h = s[1]
      /\ \A i \in 1..Len(r) : r[i] = s[i + 1]
      /\ DOMAIN r = 1..Len(r) /\ DOMAIN s = 1..Len(s)
  BY HeadTailProperties, EmptySeq
<1> HIDE DEF r, h
<1>2. \A i, j \in 1..Len(s) : s[i] = s[j] => i = j
  BY <1>1 DEF IsInjective
<1>3. IsInjective(r)
  <2>1. ASSUME NEW i \in 1..Len(r), NEW j \in 1..Len(r), r[i] = r[j] PROVE i = j
    <3>1. i + 1 \in 1..Len(s) /\ j + 1 \in 1..Len(s) /\ s[i + 1] = s[j + 1]
      BY <1>1, <2>1
    <3>2. i + 1 = j + 1
      BY <1>2, <3>1
    <3>3. QED
      BY <3>2
  <2>2. QED
    BY <1>1, <2>1 DEF IsInjective
<1>4. ASSUME NEW n PROVE Contains(r, n) <=> Contains(s, n) /\ n # h
  <2>1. ASSUME NEW i \in 1..Len(r), r[i] = n
        PROVE  i + 1 \in 1..Len(s) /\ s[i + 1] = n /\ n # h
    <3>1. i + 1 \in 1..Len(s) /\ s[i + 1] = n /\ 1 \in 1..Len(s) /\ i + 1 # 1
      BY <1>1, <2>1
    <3>2. QED
      BY <1>1, <1>2, <3>1
  <2>2. ASSUME NEW j \in 1..Len(s), s[j] = n, n # h
        PROVE  j - 1 \in 1..Len(r) /\ r[j - 1] = n
    <3>1. j # 1
      BY <1>1, <2>2
    <3>2. j - 1 \in 1..Len(r) /\ (j - 1) + 1 = j
      BY <1>1, <3>1
    <3>3. QED
      BY <1>1, <2>2, <3>2
  <2>3. QED
    BY <2>1, <2>2 DEF Contains
<1>5. Contains(s, h)
  BY <1>1 DEF Contains
<1>6. QED
  BY <1>1, <1>3, <1>4, <1>5 DEF r, h

(* Where the elements are when one is taken out of a sequence.             *)
LEMMA RemoveElements ==
  ASSUME NEW T, NEW s \in Seq(T), NEW i \in DOMAIN s
  PROVE  /\ RemoveAt(s, i) \in Seq(T) /\ Len(RemoveAt(s, i)) = Len(s) - 1
         /\ \A k \in 1..(Len(s) - 1) :
              RemoveAt(s, i)[k] = IF k <= i - 1 THEN s[k] ELSE s[k + 1]
<1> DEFINE n == Len(s)
           a == SubSeq(s, 1, i - 1)
           b == SubSeq(s, i + 1, n)
           r == RemoveAt(s, i)
<1>1. /\ n \in Nat /\ i \in 1..n /\ DOMAIN s = 1..n
      /\ \A k \in 1..n : s[k] \in T
  OBVIOUS
<1>2. /\ a \in Seq(T) /\ Len(a) = i - 1
      /\ \A k \in 1..(i - 1) : a[k] = s[k]
  <2>1. \A k \in 1..(i - 1) : s[k] \in T
    BY <1>1
  <2>2. i - 1 \in Int /\ (1 <= i - 1 \/ i - 1 = 0)
    BY <1>1
  <2>3. /\ a \in Seq(T) /\ Len(a) = IF 1 <= i - 1 THEN (i - 1) - 1 + 1 ELSE 0
        /\ \A k \in 1..((i - 1) - 1 + 1) : a[k] = s[1 + k - 1]
    BY <2>1, <2>2, SubSeqProperties
  <2>4. QED
    BY <1>1, <2>2, <2>3
<1>3. /\ b \in Seq(T) /\ Len(b) = n - i
      /\ \A k \in 1..(n - i) : b[k] = s[k + i]
  <2>1. \A k \in (i + 1)..n : s[k] \in T
    BY <1>1
  <2>2. i + 1 \in Int /\ n \in Int /\ (i + 1 <= n \/ n - i = 0)
    BY <1>1
  <2>3. /\ b \in Seq(T) /\ Len(b) = IF i + 1 <= n THEN n - (i + 1) + 1 ELSE 0
        /\ \A k \in 1..(n - (i + 1) + 1) : b[k] = s[(i + 1) + k - 1]
    BY <2>1, <2>2, SubSeqProperties
  <2>4. QED
    BY <1>1, <2>2, <2>3
<1>4. /\ r \in Seq(T) /\ Len(r) = n - 1
      /\ \A k \in 1..(n - 1) : r[k] = IF k <= i - 1 THEN s[k] ELSE s[k + 1]
  <2> HIDE DEF a, b, r, n
  <2>1. r = a \o b
    BY DEF RemoveAt, a, b, r, n
  <2>2. /\ a \o b \in Seq(T) /\ Len(a \o b) = Len(a) + Len(b)
        /\ \A k \in 1..(Len(a) + Len(b)) :
             (a \o b)[k] = IF k <= Len(a) THEN a[k] ELSE b[k - Len(a)]
    BY <1>2, <1>3, ConcatProperties
  <2>3. ASSUME NEW k \in 1..(n - 1), ~ (k <= i - 1)
        PROVE  k - (i - 1) \in 1..(n - i) /\ k - (i - 1) + i = k + 1
    BY <1>1, <2>3
  <2>4. (i - 1) + (n - i) = n - 1
    BY <1>1
  <2>5. ASSUME NEW k \in 1..(n - 1)
        PROVE  r[k] = IF k <= i - 1 THEN s[k] ELSE s[k + 1]
    <3>1. CASE k <= i - 1
      <4>1. k \in 1..(i - 1)
        BY <1>1, <3>1
      <4>2. QED
        BY <1>2, <1>3, <2>1, <2>2, <2>4, <3>1, <4>1
    <3>2. CASE ~ (k <= i - 1)
      BY <1>2, <1>3, <2>1, <2>2, <2>3, <2>4, <3>2
    <3>3. QED
      BY <3>1, <3>2
  <2>6. QED
    BY <1>2, <1>3, <2>1, <2>2, <2>4, <2>5
<1>5. QED
  BY <1>4

(* The sequence r is s with m put at i.                                    *)
IsInserted(r, s, i, m, T) ==
  /\ r \in Seq(T) /\ Len(r) = Len(s) + 1
  /\ \A k \in 1..(Len(s) + 1) : r[k] = IF k < i THEN s[k] ELSE IF k = i THEN m ELSE s[k - 1]

(* Where its elements are when one is put into it.                         *)
LEMMA InsertedIs ==
  ASSUME NEW T, NEW s \in Seq(T), NEW m \in T, NEW i \in 1..(Len(s) + 1)
  PROVE  IsInserted(InsertAt(s, i, m), s, i, m, T)
<1>1. PICK n, a, b, o : /\ n = Len(s) /\ a = SubSeq(s, 1, i - 1)
                        /\ b = SubSeq(s, i, n) /\ o = <<m>>
  OBVIOUS
<1>2. /\ n \in Nat /\ i \in 1..(n + 1) /\ \A k \in 1..n : s[k] \in T
      /\ o \in Seq(T) /\ Len(o) = 1 /\ o[1] = m
  BY <1>1
<1>3. /\ a \in Seq(T) /\ Len(a) = i - 1
      /\ \A k \in 1..(i - 1) : a[k] = s[k]
  <2>1. \A k \in 1..(i - 1) : s[k] \in T
    BY <1>2
  <2>2. i - 1 \in Int /\ (1 <= i - 1 \/ i - 1 = 0)
    BY <1>2
  <2>3. /\ a \in Seq(T) /\ Len(a) = IF 1 <= i - 1 THEN (i - 1) - 1 + 1 ELSE 0
        /\ \A k \in 1..((i - 1) - 1 + 1) : a[k] = s[1 + k - 1]
    BY <1>1, <2>1, <2>2, SubSeqProperties
  <2>4. QED
    BY <1>2, <2>2, <2>3
<1>4. /\ b \in Seq(T) /\ Len(b) = n + 1 - i
      /\ \A k \in 1..(n + 1 - i) : b[k] = s[k + i - 1]
  <2>1. \A k \in i..n : s[k] \in T
    BY <1>2
  <2>2. i \in Int /\ n \in Int /\ (i <= n \/ n + 1 - i = 0)
    BY <1>2
  <2>3. /\ b \in Seq(T) /\ Len(b) = IF i <= n THEN n - i + 1 ELSE 0
        /\ \A k \in 1..(n - i + 1) : b[k] = s[i + k - 1]
    BY <1>1, <2>1, <2>2, SubSeqProperties
  <2>4. QED
    BY <1>2, <2>2, <2>3
<1>5. PICK c : c = a \o o
  OBVIOUS
<1>6. /\ c \in Seq(T) /\ Len(c) = i
      /\ \A k \in 1..i : c[k] = IF k < i THEN s[k] ELSE m
  <2>1. /\ a \o o \in Seq(T) /\ Len(a \o o) = Len(a) + Len(o)
        /\ \A k \in 1..(Len(a) + Len(o)) :
             (a \o o)[k] = IF k <= Len(a) THEN a[k] ELSE o[k - Len(a)]
    BY <1>2, <1>3, ConcatProperties
  <2>2. Len(a) + Len(o) = i
    BY <1>2, <1>3
  <2>3. ASSUME NEW k \in 1..i PROVE c[k] = IF k < i THEN s[k] ELSE m
    <3>1. CASE k < i
      <4>1. k \in 1..(i - 1) /\ k <= i - 1
        BY <1>2, <3>1
      <4>2. QED
        BY <1>3, <1>5, <2>1, <2>2, <3>1, <4>1
    <3>2. CASE ~ (k < i)
      <4>1. k - (i - 1) = 1 /\ ~ (k <= i - 1)
        BY <1>2, <3>2
      <4>2. QED
        BY <1>2, <1>3, <1>5, <2>1, <2>2, <3>2, <4>1
    <3>3. QED
      BY <3>1, <3>2
  <2>4. QED
    BY <1>5, <2>1, <2>2, <2>3
<1>7. PICK r : r = c \o b
  OBVIOUS
<1>8. r = InsertAt(s, i, m)
  BY <1>1, <1>5, <1>7 DEF InsertAt
<1>9. /\ r \in Seq(T) /\ Len(r) = n + 1
      /\ \A k \in 1..(n + 1) : r[k] = IF k <= i THEN c[k] ELSE b[k - i]
  <2>1. /\ c \o b \in Seq(T) /\ Len(c \o b) = Len(c) + Len(b)
        /\ \A k \in 1..(Len(c) + Len(b)) :
             (c \o b)[k] = IF k <= Len(c) THEN c[k] ELSE b[k - Len(c)]
    BY <1>4, <1>6, ConcatProperties
  <2>2. Len(c) + Len(b) = n + 1
    BY <1>2, <1>4, <1>6
  <2>3. QED
    BY <1>6, <1>7, <2>1, <2>2
<1>10. ASSUME NEW k \in 1..(n + 1)
       PROVE  r[k] = IF k < i THEN s[k] ELSE IF k = i THEN m ELSE s[k - 1]
  <2>1. CASE k <= i
    <3>1. k \in 1..i
      BY <1>2, <2>1
    <3>2. QED
      BY <1>2, <1>6, <1>9, <2>1, <3>1
  <2>2. CASE ~ (k <= i)
    <3>1. k - i \in 1..(n + 1 - i) /\ (k - i) + i - 1 = k - 1 /\ ~ (k < i) /\ k # i
      BY <1>2, <2>2
    <3>2. QED
      BY <1>4, <1>9, <2>2, <3>1
  <2>3. QED
    BY <2>1, <2>2
<1>11. QED
  BY <1>1, <1>8, <1>9, <1>10 DEF IsInserted

(* ... or unlinked from the middle.                                        *)
LEMMA RemoveOne ==
  ASSUME NEW T, NEW s \in Seq(T), IsInjective(s), NEW i \in DOMAIN s
  PROVE  /\ RemoveAt(s, i) \in Seq(T)
         /\ IsInjective(RemoveAt(s, i))
         /\ \A u : Contains(RemoveAt(s, i), u) <=> Contains(s, u) /\ u # s[i]
<1> DEFINE n == Len(s)
           r == RemoveAt(s, i)
<1>1. n \in Nat /\ i \in 1..n /\ DOMAIN s = 1..n
  OBVIOUS
<1>4. /\ r \in Seq(T) /\ Len(r) = n - 1
      /\ \A k \in 1..(n - 1) : r[k] = IF k <= i - 1 THEN s[k] ELSE s[k + 1]
  BY RemoveElements
<1> HIDE DEF r, n
<1>5. DOMAIN r = 1..(n - 1)
  BY <1>1, <1>4
<1>6. IsInjective(r)
  <2>1. ASSUME NEW j \in 1..(n - 1), NEW k \in 1..(n - 1), r[j] = r[k] PROVE j = k
    <3>1. \A x, y \in 1..n : s[x] = s[y] => x = y
      BY <1>1 DEF IsInjective
    <3>2. QED
      BY <1>1, <1>4, <2>1, <3>1
  <2>2. QED
    BY <1>5, <2>1 DEF IsInjective
<1>7. ASSUME NEW u PROVE Contains(r, u) <=> Contains(s, u) /\ u # s[i]
  <2>1. ASSUME NEW k \in 1..(n - 1), r[k] = u PROVE \E j \in 1..n : s[j] = u /\ j # i
    BY <1>1, <1>4, <2>1
  <2>2. ASSUME NEW j \in 1..n, s[j] = u, j # i PROVE \E k \in 1..(n - 1) : r[k] = u
    <3>1. CASE j < i
      <4>1. j \in 1..(n - 1) /\ r[j] = u
        BY <1>1, <1>4, <2>2, <3>1
      <4>2. QED
        BY <4>1
    <3>2. CASE j > i
      <4>1. j - 1 \in 1..(n - 1) /\ r[j - 1] = u
        BY <1>1, <1>4, <2>2, <3>2
      <4>2. QED
        BY <4>1
    <3>3. QED
      BY <1>1, <2>2, <3>1, <3>2
  <2>3. \A j \in 1..n : s[j] = s[i] => j = i
    BY <1>1 DEF IsInjective
  <2>4. QED
    BY <1>1, <1>4, <2>1, <2>2, <2>3 DEF Contains, n
<1>8. QED
  BY <1>4, <1>6, <1>7 DEF r
-----------------------------------------------------------------------------
(* Numbers have a least one: what does not hold of all of them fails       *)
(* somewhere first.                                                        *)
LEMMA LeastNat ==
  ASSUME NEW S \in SUBSET Nat, S # {} PROVE \E n \in S : \A m \in S : n <= m
<1>1. OpToRel(<, Nat) = {p \in Nat \X Nat : p[1] < p[2]}
  BY DEF OpToRel
<1>2. IsWellFoundedOn({p \in Nat \X Nat : p[1] < p[2]}, Nat)
  BY NatLessThanWellFounded, <1>1
<1>3. PICK n \in S : \A y \in S : ~ (<<y, n>> \in {p \in Nat \X Nat : p[1] < p[2]})
  BY <1>2, WFMin
<1>4. \A m \in S : ~ (m < n)
  <2>1. ASSUME NEW m \in S PROVE <<m, n>> \in Nat \X Nat /\ <<m, n>>[1] = m /\ <<m, n>>[2] = n
    OBVIOUS
  <2>2. QED
    BY <1>3, <2>1
<1>5. QED
  BY <1>4

(* What the recursive function in Select has to satisfy.                   *)
Selects(q, R, g) ==
  g = [i \in 0..Len(q) |->
         IF i = 0 THEN <<>>
         ELSE IF q[i] \in R THEN Append(g[i - 1], q[i]) ELSE g[i - 1]]

(* A sequence is empty, or one is appended to a shorter one.               *)
LEMMA LastOne ==
  ASSUME NEW T, NEW q \in Seq(T), Len(q) # 0
  PROVE  \E p \in Seq(T), m \in T : q = Append(p, m) /\ Len(q) = Len(p) + 1 /\ Len(p) \in Nat
<1>1. q # <<>>
  OBVIOUS
<1>2. PICK p \in Seq(T), m \in T : q = Append(p, m)
  BY <1>1, SequenceEmptyOrAppend
<1>3. QED
  BY <1>2, AppendProperties

(* There is such a function: it is that of a prefix and one more value.    *)
LEMMA SelectsExtends ==
  ASSUME NEW T, NEW q \in Seq(T), NEW m \in T, NEW R, NEW g, Selects(q, R, g)
  PROVE  \E h : /\ Selects(Append(q, m), R, h)
                /\ \A i \in 0..Len(q) : h[i] = g[i]
                /\ h[Len(q) + 1] = IF m \in R THEN Append(g[Len(q)], m) ELSE g[Len(q)]
<1> DEFINE l == Len(q)
           p == Append(q, m)
           e == IF m \in R THEN Append(g[l], m) ELSE g[l]
           h == [i \in 0..(l + 1) |-> IF i = l + 1 THEN e ELSE g[i]]
<1>1. /\ l \in Nat /\ Len(p) = l + 1 /\ p[l + 1] = m
      /\ \A i \in 1..l : p[i] = q[i]
  BY AppendProperties
<1>2. \A i \in 0..l : g[i] = IF i = 0 THEN <<>>
                             ELSE IF q[i] \in R THEN Append(g[i - 1], q[i]) ELSE g[i - 1]
  BY DEF Selects
<1> HIDE DEF l, p, e
<1>3. /\ h[l + 1] = e /\ \A i \in 0..l : h[i] = g[i]
  BY <1>1
<1>4. \A i \in 0..(l + 1) :
        h[i] = IF i = 0 THEN <<>>
               ELSE IF p[i] \in R THEN Append(h[i - 1], p[i]) ELSE h[i - 1]
  <2>1. ASSUME NEW i \in 0..(l + 1), i = 0 PROVE h[i] = <<>>
    <3>1. 0 \in 0..l
      BY <1>1
    <3>2. QED
      BY <1>2, <1>3, <2>1, <3>1
  <2>2. ASSUME NEW i \in 0..(l + 1), i # 0, i # l + 1
        PROVE  h[i] = IF p[i] \in R THEN Append(h[i - 1], p[i]) ELSE h[i - 1]
    <3>1. i \in 0..l /\ i - 1 \in 0..l /\ i \in 1..l
      BY <1>1, <2>2
    <3>2. h[i] = g[i] /\ h[i - 1] = g[i - 1] /\ p[i] = q[i]
      BY <1>1, <1>3, <3>1
    <3>3. QED
      BY <1>2, <2>2, <3>1, <3>2
  <2>3. h[l + 1] = IF p[l + 1] \in R THEN Append(h[(l + 1) - 1], p[l + 1]) ELSE h[(l + 1) - 1]
    <3>1. (l + 1) - 1 = l /\ l \in 0..l
      BY <1>1
    <3>2. h[l] = g[l]
      BY <1>3, <3>1
    <3>3. QED
      BY <1>1, <1>3, <3>1, <3>2 DEF e
  <2>4. l + 1 # 0
    BY <1>1
  <2>5. QED
    BY <2>1, <2>2, <2>3, <2>4
<1>5. Selects(p, R, h)
  <2>1. h = [i \in 0..(l + 1) |-> h[i]]
    OBVIOUS
  <2> HIDE DEF h
  <2>2. h = [i \in 0..Len(p) |->
              IF i = 0 THEN <<>>
              ELSE IF p[i] \in R THEN Append(h[i - 1], p[i]) ELSE h[i - 1]]
    BY <1>1, <1>4, <2>1
  <2>3. QED
    BY <2>2 DEF Selects
<1> HIDE DEF h
<1>6. QED
  BY <1>1, <1>3, <1>5 DEF p, l, e

(* There is such a function for every sequence, ...                        *)
LEMMA SelectsExists ==
  ASSUME NEW T, NEW q \in Seq(T), NEW R PROVE \E g : Selects(q, R, g)
<1> DEFINE S == {n \in Nat : \E p \in Seq(T) : Len(p) = n /\ ~ \E g : Selects(p, R, g)}
<1>1. SUFFICES ASSUME ~ \E g : Selects(q, R, g) PROVE FALSE
  OBVIOUS
<1>2. Len(q) \in S
  BY <1>1
<1>3. PICK n \in S : \A k \in S : n <= k
  BY <1>2, LeastNat
<1>4. PICK p \in Seq(T) : Len(p) = n /\ ~ \E g : Selects(p, R, g)
  OBVIOUS
<1>5. CASE n = 0
  <2> DEFINE g == [i \in 0..0 |-> <<>>]
  <2>1. Selects(p, R, g)
    BY <1>4, <1>5 DEF Selects
  <2>2. QED
    BY <1>4, <2>1
<1>6. CASE n # 0
  <2>1. PICK r \in Seq(T), m \in T : p = Append(r, m) /\ n = Len(r) + 1 /\ Len(r) \in Nat
    <3>1. Len(p) # 0
      BY <1>4, <1>6
    <3>2. \E r \in Seq(T), m \in T : p = Append(r, m) /\ Len(p) = Len(r) + 1 /\ Len(r) \in Nat
      BY <3>1, LastOne
    <3>3. QED
      BY <1>4, <3>2
  <2>2. Len(r) \notin S
    BY <1>3, <2>1
  <2>3. PICK g : Selects(r, R, g)
    BY <2>1, <2>2
  <2>4. QED
    BY <1>4, <2>1, <2>3, SelectsExtends
<1>7. QED
  BY <1>5, <1>6

(* ... and only one.                                                       *)
LEMMA SelectsUnique ==
  ASSUME NEW T, NEW q \in Seq(T), NEW R, NEW g, NEW h, Selects(q, R, g), Selects(q, R, h)
  PROVE  g = h
<1> DEFINE l == Len(q)
           S == {i \in Nat : i <= l /\ g[i] # h[i]}
<1>0. ASSUME NEW f, Selects(q, R, f)
      PROVE  /\ f = [i \in 0..l |-> f[i]]
             /\ \A i \in 0..l : f[i] = IF i = 0 THEN <<>>
                  ELSE IF q[i] \in R THEN Append(f[i - 1], q[i]) ELSE f[i - 1]
  BY <1>0 DEF Selects
<1>1. /\ l \in Nat /\ g = [i \in 0..l |-> g[i]] /\ h = [i \in 0..l |-> h[i]]
      /\ \A i \in 0..l : g[i] = IF i = 0 THEN <<>>
           ELSE IF q[i] \in R THEN Append(g[i - 1], q[i]) ELSE g[i - 1]
      /\ \A i \in 0..l : h[i] = IF i = 0 THEN <<>>
           ELSE IF q[i] \in R THEN Append(h[i - 1], q[i]) ELSE h[i - 1]
  BY <1>0
<1> HIDE DEF l
<1>2. S = {}
  <2>1. SUFFICES ASSUME S # {} PROVE FALSE
    OBVIOUS
  <2>2. PICK n \in S : \A k \in S : n <= k
    BY <2>1, LeastNat
  <2>3. n # 0
    <3>1. 0 \in 0..l
      BY <1>1
    <3>2. QED
      BY <1>1, <3>1
  <2>4. n - 1 \in Nat /\ n - 1 <= l /\ n \in 0..l /\ n - 1 \notin S
    BY <1>1, <2>2, <2>3
  <2>5. g[n - 1] = h[n - 1]
    BY <2>4
  <2>6. QED
    BY <1>1, <2>3, <2>4, <2>5
<1>3. ASSUME NEW i \in 0..l PROVE g[i] = h[i]
  <2>1. i \in Nat /\ i <= l /\ i \notin S
    BY <1>1, <1>2
  <2>2. QED
    BY <2>1
<1>4. QED
  BY <1>1, <1>3

(* Select is the last value of the function.                               *)
LEMMA SelectIs ==
  ASSUME NEW T, NEW q \in Seq(T), NEW R, NEW g, Selects(q, R, g)
  PROVE  Select(q, R) = g[Len(q)]
<1> DEFINE h == CHOOSE f : Selects(q, R, f)
<1>1. Selects(q, R, h)
  OBVIOUS
<1>2. h = g
  BY <1>1, SelectsUnique
<1>3. Select(q, R) = h[Len(q)]
  BY DEF Select, Selects
<1>4. QED
  BY <1>2, <1>3

(* Nothing is selected from nothing; ...                                   *)
LEMMA SelectEmpty == \A R : Select(<<>>, R) = <<>>
<1> SUFFICES ASSUME NEW R PROVE Select(<<>>, R) = <<>>
  OBVIOUS
<1>1. <<>> \in Seq({}) /\ Len(<<>>) = 0
  OBVIOUS
<1>2. PICK g : Selects(<<>>, R, g)
  BY <1>1, SelectsExists
<1>3. Select(<<>>, R) = g[0]
  BY <1>1, <1>2, SelectIs
<1>4. g[0] = <<>>
  BY <1>1, <1>2 DEF Selects
<1>5. QED
  BY <1>3, <1>4

(* ... what is added at the end is selected last, if at all.               *)
LEMMA SelectAppend ==
  ASSUME NEW T, NEW q \in Seq(T), NEW m \in T, NEW R
  PROVE  Select(Append(q, m), R) = IF m \in R THEN Append(Select(q, R), m) ELSE Select(q, R)
<1>1. PICK g : Selects(q, R, g)
  BY SelectsExists
<1>2. Append(q, m) \in Seq(T) /\ Len(Append(q, m)) = Len(q) + 1
  BY AppendProperties
<1>3. PICK h : /\ Selects(Append(q, m), R, h)
               /\ h[Len(q) + 1] = IF m \in R THEN Append(g[Len(q)], m) ELSE g[Len(q)]
  BY <1>1, SelectsExtends
<1>4. Select(Append(q, m), R) = h[Len(q) + 1]
  BY <1>2, <1>3, SelectIs
<1>5. Select(q, R) = g[Len(q)]
  BY <1>1, SelectIs
<1>6. QED
  BY <1>3, <1>4, <1>5

(* What is selected is a sequence.                                         *)
LEMMA SelectType == ASSUME NEW T, NEW q \in Seq(T), NEW R PROVE Select(q, R) \in Seq(T)
<1> DEFINE S == {n \in Nat : \E p \in Seq(T) : Len(p) = n /\ Select(p, R) \notin Seq(T)}
<1>1. SUFFICES ASSUME Select(q, R) \notin Seq(T) PROVE FALSE
  OBVIOUS
<1>2. Len(q) \in S
  BY <1>1
<1>3. PICK n \in S : \A k \in S : n <= k
  BY <1>2, LeastNat
<1>4. PICK p \in Seq(T) : Len(p) = n /\ Select(p, R) \notin Seq(T)
  OBVIOUS
<1>5. CASE Len(p) = 0
  <2>1. p = <<>> /\ <<>> \in Seq(T)
    BY <1>5
  <2>2. QED
    BY <1>4, <2>1, SelectEmpty
<1>6. CASE Len(p) # 0
  <2>1. PICK r \in Seq(T), m \in T : p = Append(r, m) /\ Len(p) = Len(r) + 1 /\ Len(r) \in Nat
    BY <1>6, LastOne
  <2>2. Len(r) \notin S
    BY <1>3, <1>4, <2>1
  <2>3. Select(r, R) \in Seq(T)
    BY <2>1, <2>2
  <2>4. Append(Select(r, R), m) \in Seq(T)
    BY <2>3, AppendProperties
  <2>5. Select(p, R) \in {Append(Select(r, R), m), Select(r, R)}
    BY <2>1, SelectAppend
  <2>6. QED
    BY <1>4, <2>3, <2>4, <2>5
<1>7. QED
  BY <1>5, <1>6

(* It depends on which elements are in R, and on nothing else.             *)
LEMMA SelectSame ==
  ASSUME NEW T, NEW q \in Seq(T), NEW Q, NEW R,
         \A m \in T : Contains(q, m) => (m \in Q <=> m \in R)
  PROVE  Select(q, Q) = Select(q, R)
<1> DEFINE S == {n \in Nat : \E p \in Seq(T) :
                   /\ Len(p) = n /\ Select(p, Q) # Select(p, R)
                   /\ \A m \in T : Contains(p, m) => (m \in Q <=> m \in R)}
<1>1. SUFFICES ASSUME Select(q, Q) # Select(q, R) PROVE FALSE
  OBVIOUS
<1>2. Len(q) \in S
  BY <1>1
<1>3. PICK n \in S : \A k \in S : n <= k
  BY <1>2, LeastNat
<1>4. PICK p \in Seq(T) :
        /\ Len(p) = n /\ Select(p, Q) # Select(p, R)
        /\ \A m \in T : Contains(p, m) => (m \in Q <=> m \in R)
  OBVIOUS
<1>5. CASE Len(p) = 0
  <2>1. p = <<>>
    BY <1>5
  <2>2. QED
    BY <1>4, <2>1, SelectEmpty
<1>6. CASE Len(p) # 0
  <2>1. PICK r \in Seq(T), m \in T : p = Append(r, m) /\ Len(p) = Len(r) + 1 /\ Len(r) \in Nat
    BY <1>6, LastOne
  <2>2. \A k : Contains(p, k) <=> Contains(r, k) \/ k = m
    <3>1. /\ p[Len(r) + 1] = m /\ Len(r) \in Nat /\ DOMAIN p = 1..(Len(r) + 1)
          /\ DOMAIN r = 1..Len(r) /\ \A i \in 1..Len(r) : p[i] = r[i]
      BY <2>1, AppendProperties
    <3>2. QED
      BY <3>1 DEF Contains
  <2>3. Len(r) \notin S
    BY <1>3, <1>4, <2>1
  <2>4. Select(r, Q) = Select(r, R)
    BY <1>4, <2>1, <2>2, <2>3
  <2>5. m \in Q <=> m \in R
    BY <1>4, <2>2
  <2>6. /\ Select(p, Q) = IF m \in Q THEN Append(Select(r, Q), m) ELSE Select(r, Q)
        /\ Select(p, R) = IF m \in R THEN Append(Select(r, R), m) ELSE Select(r, R)
    BY <2>1, SelectAppend
  <2>7. QED
    BY <1>4, <2>4, <2>5, <2>6
<1>7. QED
  BY <1>5, <1>6

(* What is appended to the second of two is appended to both.              *)
LEMMA ConcatAppend ==
  ASSUME NEW T, NEW x \in Seq(T), NEW y \in Seq(T), NEW m \in T
  PROVE  x \o Append(y, m) = Append(x \o y, m)
<1>1. PICK u, v : u = Append(x \o y, m) /\ v = Append(y, m)
  OBVIOUS
<1>2. /\ x \o y \in Seq(T) /\ Len(x \o y) = Len(x) + Len(y) /\ Len(x) \in Nat /\ Len(y) \in Nat
      /\ \A i \in 1..(Len(x) + Len(y)) :
           (x \o y)[i] = IF i <= Len(x) THEN x[i] ELSE y[i - Len(x)]
  BY ConcatProperties
<1>3. /\ v \in Seq(T) /\ Len(v) = Len(y) + 1 /\ v[Len(y) + 1] = m
      /\ \A i \in 1..Len(y) : v[i] = y[i]
  BY <1>1, AppendProperties
<1>4. /\ u \in Seq(T) /\ Len(u) = Len(x) + Len(y) + 1 /\ u[Len(x) + Len(y) + 1] = m
      /\ \A i \in 1..(Len(x) + Len(y)) : u[i] = (x \o y)[i]
  BY <1>1, <1>2, AppendProperties
<1>5. /\ x \o v \in Seq(T) /\ Len(x \o v) = Len(x) + Len(y) + 1
      /\ \A i \in 1..(Len(x) + (Len(y) + 1)) :
           (x \o v)[i] = IF i <= Len(x) THEN x[i] ELSE v[i - Len(x)]
  <2>1. /\ x \o v \in Seq(T) /\ Len(x \o v) = Len(x) + Len(v)
        /\ \A i \in 1..(Len(x) + Len(v)) :
             (x \o v)[i] = IF i <= Len(x) THEN x[i] ELSE v[i - Len(x)]
    BY <1>3, ConcatProperties
  <2>2. Len(x) + Len(v) = Len(x) + Len(y) + 1 /\ Len(x) + Len(v) = Len(x) + (Len(y) + 1)
    BY <1>2, <1>3
  <2>3. QED
    BY <2>1, <2>2
<1>6. ASSUME NEW i \in 1..Len(u) PROVE u[i] = (x \o v)[i]
  <2>1. CASE i <= Len(x)
    <3>1. i \in 1..(Len(x) + Len(y)) /\ i \in 1..(Len(x) + (Len(y) + 1))
      BY <1>2, <1>4, <2>1
    <3>2. QED
      BY <1>2, <1>4, <1>5, <2>1, <3>1
  <2>2. CASE i > Len(x) /\ i <= Len(x) + Len(y)
    <3>1. /\ i \in 1..(Len(x) + Len(y)) /\ i \in 1..(Len(x) + (Len(y) + 1))
          /\ i - Len(x) \in 1..Len(y) /\ ~ (i <= Len(x))
      BY <1>2, <1>4, <2>2
    <3>2. QED
      BY <1>2, <1>3, <1>4, <1>5, <3>1
  <2>3. CASE i = Len(x) + Len(y) + 1
    <3>1. /\ i \in 1..(Len(x) + (Len(y) + 1)) /\ i - Len(x) = Len(y) + 1 /\ ~ (i <= Len(x))
      BY <1>2, <1>4, <2>3
    <3>2. QED
      BY <1>3, <1>4, <1>5, <2>3, <3>1
  <2>4. Len(x) \in Nat /\ Len(y) \in Nat /\ i \in Nat /\ i <= Len(x) + Len(y) + 1
    BY <1>2, <1>4
  <2>5. (i <= Len(x)) \/ (i > Len(x) /\ i <= Len(x) + Len(y)) \/ i = Len(x) + Len(y) + 1
    BY ONLY <2>4
  <2>6. QED
    BY <2>1, <2>2, <2>3, <2>5
<1>7. u = x \o v
  BY <1>4, <1>5, <1>6, SeqEqual
<1>8. QED
  BY <1>1, <1>7

(* It can be done part by part.                                            *)
LEMMA SelectConcat ==
  ASSUME NEW T, NEW a \in Seq(T), NEW b \in Seq(T), NEW R
  PROVE  Select(a \o b, R) = Select(a, R) \o Select(b, R)
<1> DEFINE S == {n \in Nat : \E p \in Seq(T) :
                   Len(p) = n /\ Select(a \o p, R) # Select(a, R) \o Select(p, R)}
<1>1. SUFFICES ASSUME Select(a \o b, R) # Select(a, R) \o Select(b, R) PROVE FALSE
  OBVIOUS
<1>2. Len(b) \in S
  BY <1>1
<1>3. PICK n \in S : \A k \in S : n <= k
  BY <1>2, LeastNat
<1>4. PICK p \in Seq(T) : Len(p) = n /\ Select(a \o p, R) # Select(a, R) \o Select(p, R)
  OBVIOUS
<1>5. CASE Len(p) = 0
  <2>1. p = <<>>
    BY <1>5
  <2>2. a \o <<>> = a /\ Select(a, R) \o <<>> = Select(a, R)
    BY SelectType, ConcatEmptySeq
  <2>3. QED
    BY <1>4, <2>1, <2>2, SelectEmpty
<1>6. CASE Len(p) # 0
  <2>1. PICK r \in Seq(T), m \in T : p = Append(r, m) /\ Len(p) = Len(r) + 1 /\ Len(r) \in Nat
    BY <1>6, LastOne
  <2>2. Len(r) \notin S
    BY <1>3, <1>4, <2>1
  <2>3. Select(a \o r, R) = Select(a, R) \o Select(r, R)
    BY <2>1, <2>2
  <2>4. a \o Append(r, m) = Append(a \o r, m)
    BY ConcatAppend, SMTT(60)
  <2>5. a \o r \in Seq(T)
    BY ConcatProperties
  <2>6. a \o p = Append(a \o r, m)
    BY <2>1, <2>4
  <2>7. Select(a \o p, R) = IF m \in R THEN Append(Select(a \o r, R), m) ELSE Select(a \o r, R)
    <3>1. PICK x : x = a \o r
      OBVIOUS
    <3>2. x \in Seq(T) /\ m \in T
      BY <2>1, <2>5, <3>1
    <3>3. Select(Append(x, m), R) = IF m \in R THEN Append(Select(x, R), m) ELSE Select(x, R)
      BY ONLY <3>2, SelectAppend, SMTT(30)
    <3>4. a \o p = Append(x, m)
      BY <2>6, <3>1
    <3>5. QED
      BY ONLY <3>1, <3>3, <3>4, Zenon
  <2>8. Select(p, R) = IF m \in R THEN Append(Select(r, R), m) ELSE Select(r, R)
    BY <2>1, SelectAppend
  <2>9. Select(a, R) \o Append(Select(r, R), m) = Append(Select(a, R) \o Select(r, R), m)
    <3>1. PICK x, y : x = Select(a, R) /\ y = Select(r, R)
      OBVIOUS
    <3>2. x \in Seq(T) /\ y \in Seq(T)
      BY <3>1, SelectType
    <3>3. x \o Append(y, m) = Append(x \o y, m)
      BY <3>2, ConcatAppend, SMTT(60)
    <3>4. QED
      BY <3>1, <3>3
  <2>10. QED
    BY <1>4, <2>3, <2>7, <2>8, <2>9
<1>7. QED
  BY <1>5, <1>6

(* One element.                                                            *)
LEMMA SelectOne == \A m, R : Select(<<m>>, R) = IF m \in R THEN <<m>> ELSE <<>>
<1> SUFFICES ASSUME NEW m, NEW R PROVE Select(<<m>>, R) = IF m \in R THEN <<m>> ELSE <<>>
  OBVIOUS
<1>1. PICK S, e : S = {m} /\ e = <<>>
  OBVIOUS
<1>2. e \in Seq(S) /\ m \in S
  BY <1>1
<1>3. Append(e, m) = <<m>>
  BY <1>1
<1>4. Select(Append(e, m), R) = IF m \in R THEN Append(Select(e, R), m) ELSE Select(e, R)
  BY <1>2, SelectAppend
<1>5. Select(e, R) = e
  BY <1>1, SelectEmpty
<1>6. QED
  BY <1>3, <1>4, <1>5

(* The first of a sequence is the first that is selected, or is not.       *)
LEMMA SelectTail ==
  ASSUME NEW T, NEW q \in Seq(T), q # <<>>, NEW R
  PROVE  IF Head(q) \in R
         THEN /\ Select(q, R) # <<>> /\ Head(Select(q, R)) = Head(q)
              /\ Tail(Select(q, R)) = Select(Tail(q), R)
         ELSE Select(Tail(q), R) = Select(q, R)
<1> DEFINE h == Head(q)
           t == Tail(q)
           s == Select(t, R)
<1>1. h \in T /\ t \in Seq(T) /\ <<h>> \in Seq(T) /\ q = <<h>> \o t
  BY HeadTailProperties, ConcatSimplifications
<1>2. s \in Seq(T)
  BY <1>1, SelectType
<1> HIDE DEF h, t, s
<1>3. Select(q, R) = Select(<<h>>, R) \o Select(t, R)
  <2>1. PICK a : a = <<h>>
    OBVIOUS
  <2>2. a \in Seq(T) /\ t \in Seq(T)
    BY <1>1, <2>1
  <2>3. Select(a \o t, R) = Select(a, R) \o Select(t, R)
    BY <2>2, SelectConcat
  <2>4. QED
    BY <1>1, <2>1, <2>3
<1>4. CASE h \in R
  <2>1. Select(q, R) = <<h>> \o s
    BY <1>3, <1>4, SelectOne DEF s
  <2>2. <<h>> \o s # <<>> /\ Head(<<h>> \o s) = h /\ Tail(<<h>> \o s) = s
    BY <1>1, <1>2, ConcatSimplifications
  <2>3. QED
    BY <1>4, <2>1, <2>2 DEF h, t, s
<1>5. CASE h \notin R
  <2>1. Select(q, R) = <<>> \o s
    BY <1>3, <1>5, SelectOne DEF s
  <2>2. <<>> \o s = s
    BY <1>2, ConcatEmptySeq
  <2>3. QED
    BY <1>5, <2>1, <2>2 DEF h, t, s
<1>6. QED
  BY <1>4, <1>5

(* The two parts of a sequence.                                            *)
LEMMA ConcatParts ==
  ASSUME NEW T, NEW a \in Seq(T), NEW b \in Seq(T)
  PROVE  /\ SubSeq(a \o b, 1, Len(a)) = a
         /\ SubSeq(a \o b, Len(a) + 1, Len(a \o b)) = b
<1>1. PICK c, k, n : c = a \o b /\ k = Len(a) /\ n = Len(b)
  OBVIOUS
<1>2. /\ k \in Nat /\ n \in Nat /\ k + n \in Nat
      /\ c \in Seq(T) /\ Len(c) = k + n
      /\ \A i \in 1..(k + n) : c[i] = IF i <= k THEN a[i] ELSE b[i - k]
      /\ \A i \in 1..(k + n) : c[i] \in T
  BY <1>1, ConcatProperties
<1>3. SubSeq(c, 1, k) = a
  <2>1. k \in Int /\ \A i \in 1..k : c[i] \in T
    BY <1>2
  <2>2. PICK d : d = SubSeq(c, 1, k)
    OBVIOUS
  <2>3. /\ d \in Seq(T) /\ Len(d) = IF 1 <= k THEN k - 1 + 1 ELSE 0
        /\ \A i \in 1..(k - 1 + 1) : d[i] = c[1 + i - 1]
    BY <2>1, <2>2, SubSeqProperties
  <2>4. Len(d) = Len(a)
    BY <1>1, <1>2, <2>3
  <2>5. ASSUME NEW i \in 1..Len(d) PROVE d[i] = a[i]
    <3>1. i \in 1..(k - 1 + 1) /\ 1 + i - 1 = i /\ i \in 1..(k + n) /\ i <= k
      BY <1>1, <1>2, <2>4
    <3>2. QED
      BY <1>2, <2>3, <3>1
  <2>6. QED
    BY <2>2, <2>3, <2>4, <2>5, SeqEqual
<1>4. SubSeq(c, k + 1, k + n) = b
  <2>1. PICK d, x, y : d = SubSeq(c, k + 1, k + n) /\ x = k + 1 /\ y = k + n
    OBVIOUS
  <2>2. x \in Int /\ y \in Int /\ \A i \in x..y : c[i] \in T
    BY <1>2, <2>1
  <2>3. /\ d \in Seq(T) /\ Len(d) = IF x <= y THEN y - x + 1 ELSE 0
        /\ \A i \in 1..(y - x + 1) : d[i] = c[x + i - 1]
    BY <2>1, <2>2, SubSeqProperties
  <2>4. Len(d) = n /\ y - x + 1 = n
    BY <1>2, <2>1, <2>3, SMTT(60)
  <2>5. ASSUME NEW i \in 1..Len(d) PROVE d[i] = b[i]
    <3>1. /\ i \in 1..(y - x + 1) /\ x + i - 1 = k + i
          /\ k + i \in 1..(k + n) /\ ~ (k + i <= k) /\ k + i - k = i
      BY <1>2, <2>1, <2>4
    <3>2. d[i] = c[k + i]
      BY <2>3, <3>1
    <3>3. c[k + i] = b[i]
      <4>1. c[k + i] = IF k + i <= k THEN a[k + i] ELSE b[k + i - k]
        BY <1>2, <3>1
      <4>2. QED
        BY <3>1, <4>1
    <3>4. QED
      BY <3>2, <3>3
  <2>6. Len(b) = n
    BY <1>1
  <2>7. QED
    BY <2>1, <2>3, <2>4, <2>5, <2>6, SeqEqual
<1>5. QED
  BY <1>1, <1>2, <1>3, <1>4

(* What is put somewhere into a sequence is put somewhere into what is     *)
(* selected, if it is in R.                                                *)
LEMMA SelectInsert ==
  ASSUME NEW T, NEW q \in Seq(T), NEW m \in T, NEW R, m \in R, NEW k \in 1..(Len(q) + 1)
  PROVE  \E i \in 0..Len(Select(q, R)) :
           Select(InsertAt(q, k, m), R) = InsertAt(Select(q, R), i + 1, m)
<1>1. PICK a, b, o, l : /\ a = SubSeq(q, 1, k - 1) /\ b = SubSeq(q, k, Len(q))
                        /\ o = <<m>> /\ l = Len(q)
  OBVIOUS
<1>2. /\ l \in Nat /\ k \in 1..(l + 1) /\ o \in Seq(T)
      /\ \A i \in 1..l : q[i] \in T
  BY <1>1
<1>3. a \in Seq(T) /\ b \in Seq(T)
  <2>1. \A i \in 1..(k - 1) : q[i] \in T
    BY <1>2
  <2>2. \A i \in k..l : q[i] \in T
    BY <1>2
  <2>3. 1 \in Int /\ k \in Int /\ k - 1 \in Int /\ l \in Int
    BY <1>2
  <2>4. SubSeq(q, 1, k - 1) \in Seq(T)
    BY <2>1, <2>3, SubSeqProperties
  <2>5. SubSeq(q, k, l) \in Seq(T)
    BY <2>2, <2>3, SubSeqProperties
  <2>6. QED
    BY <1>1, <2>4, <2>5
<1>4. q = a \o b
  <2>1. /\ 1 \in 1..(l + 1) /\ k - 1 \in (1 - 1)..l /\ l \in (k - 1)..l
        /\ (k - 1) + 1 = k
    BY <1>2
  <2>2. SubSeq(q, 1, k - 1) \o SubSeq(q, (k - 1) + 1, l) = SubSeq(q, 1, l)
    BY <1>1, <2>1, ConcatAdjacentSubSeq
  <2>3. SubSeq(q, 1, l) = q
    BY <1>1, SubSeqFull
  <2>4. QED
    BY <1>1, <2>1, <2>2, <2>3
<1>5. PICK A, B : A = Select(a, R) /\ B = Select(b, R)
  OBVIOUS
<1>6. A \in Seq(T) /\ B \in Seq(T)
  BY <1>3, <1>5, SelectType
<1>7. Select(q, R) = A \o B
  <2>1. Select(a \o b, R) = Select(a, R) \o Select(b, R)
    BY <1>3, SelectConcat
  <2>2. QED
    BY <1>4, <1>5, <2>1
<1>8. Select(InsertAt(q, k, m), R) = (A \o o) \o B
  <2>1. InsertAt(q, k, m) = (a \o o) \o b
    BY <1>1 DEF InsertAt
  <2>2. PICK c : c = a \o o
    OBVIOUS
  <2>3. c \in Seq(T)
    BY <1>2, <1>3, <2>2, ConcatProperties
  <2>4. Select(c \o b, R) = Select(c, R) \o Select(b, R)
    BY <1>3, <2>3, SelectConcat, SMTT(60)
  <2>5. Select(c, R) = Select(a, R) \o Select(o, R)
    <3>1. a \in Seq(T) /\ o \in Seq(T)
      BY <1>2, <1>3
    <3>2. Select(a \o o, R) = Select(a, R) \o Select(o, R)
      BY <3>1, SelectConcat
    <3>3. QED
      BY <2>2, <3>2
  <2>6. Select(o, R) = o
    BY <1>1, SelectOne
  <2>7. QED
    BY <1>5, <2>1, <2>2, <2>4, <2>5, <2>6
<1>9. PICK s, i : s = A \o B /\ i = Len(A)
  OBVIOUS
<1>10. i \in 0..Len(s) /\ (i + 1) - 1 = i
  <2>1. Len(s) = Len(A) + Len(B) /\ Len(A) \in Nat /\ Len(B) \in Nat
    BY <1>6, <1>9, ConcatProperties
  <2>2. QED
    BY <1>9, <2>1
<1>11. SubSeq(s, 1, i) = A /\ SubSeq(s, i + 1, Len(s)) = B
  BY <1>6, <1>9, ConcatParts
<1>12. InsertAt(s, i + 1, m) = (A \o o) \o B
  BY <1>1, <1>10, <1>11 DEF InsertAt
<1>13. QED
  BY <1>7, <1>8, <1>9, <1>10, <1>12
=============================================================================
