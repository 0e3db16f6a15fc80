-------------------------- MODULE ExecMemoryProofs --------------------------
(***************************************************************************)
(* Proofs about ExecMemory, MemPool and MemHead, for any memory, alignment *)
(* and sizes: memory managers and pools lose nothing, blocks do not        *)
(* overlap and keep their contents, and a puddle serves whom it is for.    *)
(***************************************************************************)
EXTENDS ExecMemory, ListProofs, FiniteSetTheorems

-----------------------------------------------------------------------------
(***************************************************************************)
(* The static allocator: exec_initmemhead, exec_staticalloc,               *)
(* exec_staticfree and exec_staticrealloc. Sizes and addresses are         *)
(* multiples of the alignment; this is the arithmetic that needs.          *)
(***************************************************************************)

(* tmh_Align divides it.                                                   *)
Multiple(n) == n \in Int /\ n % Align = 0

(* A multiple has a factor, ...                                            *)
LEMMA MultipleIs == \A n \in Int : Multiple(n) <=> \E k \in Int : n = k * Align
<1>1. Align \in Nat \ {0}
  BY AlignAssumption
<1>2. \A n \in Int : Multiple(n) => \E k \in Int : n = k * Align
  <2>1. SUFFICES ASSUME NEW n \in Int, n % Align = 0 PROVE n = (n \div Align) * Align /\ n \div Align \in Int
    BY DEF Multiple
  <2>2. QED
    BY <1>1, <2>1
<1>3. \A k \in Int : (k * Align) % Align = 0
  BY <1>1
<1>4. QED
  BY <1>1, <1>2, <1>3 DEF Multiple

(* ... sums and differences of multiples are multiples, ...                *)
LEMMA MultipleSum == \A m, n : Multiple(m) /\ Multiple(n) => Multiple(m + n) /\ Multiple(m - n)
<1> SUFFICES ASSUME NEW m, NEW n, Multiple(m), Multiple(n) PROVE Multiple(m + n) /\ Multiple(m - n)
  OBVIOUS
<1>1. Align \in Int /\ m \in Int /\ n \in Int
  BY AlignAssumption DEF Multiple
<1>2. PICK j \in Int, k \in Int : m = j * Align /\ n = k * Align
  BY <1>1, MultipleIs
<1>3. m + n = (j + k) * Align /\ j + k \in Int
  BY <1>1, <1>2
<1>4. m - n = (j - k) * Align /\ j - k \in Int
  BY <1>1, <1>2
<1>5. Multiple(m + n)
  BY <1>1, <1>3, MultipleIs
<1>6. Multiple(m - n)
  BY <1>1, <1>4, MultipleIs
<1>7. QED
  BY <1>5, <1>6

(* ... and rounding up leads to the next one.                              *)
LEMMA Rounded ==
  \A n \in Int : /\ Multiple(RoundUp(n)) /\ n <= RoundUp(n) /\ RoundUp(n) < n + Align
                 /\ \A m : Multiple(m) /\ n <= m => RoundUp(n) <= m
<1>1. Align \in Nat \ {0}
  BY AlignAssumption
<1> SUFFICES ASSUME NEW n \in Int
             PROVE  /\ Multiple(RoundUp(n)) /\ n <= RoundUp(n) /\ RoundUp(n) < n + Align
                    /\ \A m : Multiple(m) /\ n <= m => RoundUp(n) <= m
  OBVIOUS
<1> DEFINE q == (n + Align - 1) \div Align
<1>2. RoundUp(n) = q * Align /\ q \in Int
  BY <1>1 DEF RoundUp
<1>3. q * Align <= n + Align - 1 /\ n + Align - 1 < q * Align + Align
  BY <1>1
<1>4. RoundUp(n) \in Int /\ Multiple(RoundUp(n)) /\ n <= RoundUp(n) /\ RoundUp(n) < n + Align
  <2>1. RoundUp(n) \in Int
    BY <1>1, <1>2
  <2>2. Multiple(RoundUp(n))
    BY <1>2, <2>1, MultipleIs
  <2>3. QED
    BY <1>1, <1>2, <1>3, <2>1, <2>2
<1>5. ASSUME NEW m, Multiple(m), n <= m PROVE RoundUp(n) <= m
  <2>1. PICK k \in Int : m = k * Align
    BY <1>5, MultipleIs DEF Multiple
  <2>2. ~ (k + 1 <= q)
    <3>1. SUFFICES ASSUME k + 1 <= q PROVE FALSE
      OBVIOUS
    <3>2. (k + 1) * Align <= q * Align
      BY <1>1, <1>2, <3>1
    <3>3. (k + 1) * Align = k * Align + Align
      BY <1>1
    <3>4. QED
      BY <1>1, <1>2, <1>4, <1>5, <2>1, <3>2, <3>3
  <2>3. q <= k
    BY <1>2, <2>2
  <2>4. q * Align <= k * Align
    BY <1>1, <1>2, <2>3
  <2>5. QED
    BY <1>2, <2>1, <2>4
<1>6. QED
  BY <1>4, <1>5

(* None is smaller than the alignment itself.                              *)
LEMMA MultipleLeast == \A n : Multiple(n) /\ n > 0 => n >= Align
<1> SUFFICES ASSUME NEW n, Multiple(n), n > 0 PROVE n >= Align
  OBVIOUS
<1>1. Align \in Nat \ {0} /\ n \in Int
  BY AlignAssumption DEF Multiple
<1>2. PICK k \in Int : n = k * Align
  BY <1>1, MultipleIs
<1>3. k >= 1
  BY <1>1, <1>2
<1>4. k * Align >= 1 * Align
  BY <1>1, <1>3
<1>5. QED
  BY <1>1, <1>2, <1>4

(* A multiple is not rounded.                                              *)
LEMMA RoundedMultiple == \A n : Multiple(n) => RoundUp(n) = n
<1> SUFFICES ASSUME NEW n, Multiple(n) PROVE RoundUp(n) = n
  OBVIOUS
<1>1. n \in Int /\ n <= n
  BY DEF Multiple
<1>2. Multiple(RoundUp(n)) /\ n <= RoundUp(n) /\ RoundUp(n) <= n
  BY <1>1, Rounded
<1>3. QED
  BY <1>1, <1>2 DEF Multiple

(* The memory of a memheader is a multiple, at most what it was given.     *)
LEMMA RoundedDown ==
  \A n \in Int : LET m == (n \div Align) * Align IN
    Multiple(m) /\ m <= n /\ n < m + Align /\ (Multiple(n) => m = n)
<1>1. Align \in Nat \ {0}
  BY AlignAssumption
<1> SUFFICES ASSUME NEW n \in Int
             PROVE  LET m == (n \div Align) * Align IN
                    Multiple(m) /\ m <= n /\ n < m + Align /\ (Multiple(n) => m = n)
  OBVIOUS
<1>2. n \div Align \in Int /\ (n \div Align) * Align \in Int
  BY <1>1
<1>3. (n \div Align) * Align <= n /\ n < (n \div Align) * Align + Align
  BY <1>1
<1>4. Multiple((n \div Align) * Align)
  BY <1>2, MultipleIs
<1>5. n % Align = 0 => (n \div Align) * Align = n
  BY <1>1
<1>6. QED
  BY <1>3, <1>4, <1>5 DEF Multiple

(* A free node.                                                            *)
NodeSet == [at : Int, size : Int]

(* Free nodes within lo..hi, in order; those before p and at p may touch.  *)
IsRow(q, lo, hi, p) ==
  /\ q \in Seq(NodeSet) /\ lo \in Int /\ hi \in Int
  /\ \A i \in 1..Len(q) : /\ q[i].size > 0 /\ Multiple(q[i].at) /\ Multiple(q[i].size)
                          /\ lo <= q[i].at /\ q[i].at + q[i].size <= hi
  /\ \A i, j \in 1..Len(q) : i < j =>
       \/ q[i].at + q[i].size < q[j].at
       \/ i = p - 1 /\ j = p /\ q[i].at + q[i].size = q[j].at

(* None of them touch.                                                     *)
IsList(q, lo, hi) ==
  /\ q \in Seq(NodeSet) /\ lo \in Int /\ hi \in Int
  /\ \A i \in 1..Len(q) : /\ q[i].size > 0 /\ Multiple(q[i].at) /\ Multiple(q[i].size)
                          /\ lo <= q[i].at /\ q[i].at + q[i].size <= hi
  /\ \A i, j \in 1..Len(q) : i < j => q[i].at + q[i].size < q[j].at

(* The byte b is in one of the nodes.                                      *)
Covers(q, b) == \E i \in 1..Len(q) : q[i].at <= b /\ b < q[i].at + q[i].size

(* What a list is, without the set of records.                             *)
LEMMA ListIs ==
  ASSUME NEW q, NEW lo, NEW hi, IsList(q, lo, hi)
  PROVE  /\ Len(q) \in Nat /\ DOMAIN q = 1..Len(q) /\ lo \in Int /\ hi \in Int
         /\ \A k \in 1..Len(q) : q[k] \in NodeSet /\ q[k].at \in Int /\ q[k].size \in Int
         /\ \A k \in 1..Len(q) : /\ q[k].size > 0 /\ Multiple(q[k].at) /\ Multiple(q[k].size)
                                 /\ lo <= q[k].at /\ q[k].at + q[k].size <= hi
         /\ \A k, j \in 1..Len(q) : k < j => q[k].at + q[k].size < q[j].at
<1>1. q \in Seq(NodeSet)
  BY DEF IsList
<1>2. Len(q) \in Nat /\ DOMAIN q = 1..Len(q) /\ \A k \in 1..Len(q) : q[k] \in NodeSet
  BY <1>1
<1>3. \A x \in NodeSet : x.at \in Int /\ x.size \in Int
  BY DEF NodeSet
<1>4. QED
  BY <1>2, <1>3 DEF IsList

(* A part of a node is taken from its front.                               *)
LEMMA CutList ==
  ASSUME NEW q, NEW lo, NEW hi, IsList(q, lo, hi), NEW i \in 1..Len(q),
         NEW n, Multiple(n), 0 < n, n <= q[i].size
  PROVE  /\ IsList(Cut(q, i, n), lo, hi)
         /\ \A b \in Int : Covers(Cut(q, i, n), b) <=>
              Covers(q, b) /\ ~ (q[i].at <= b /\ b < q[i].at + n)
<1>1. PICK m, r : m = Len(q) /\ r = Cut(q, i, n)
  OBVIOUS
<1>2. /\ m \in Nat /\ i \in 1..m /\ DOMAIN q = 1..m /\ lo \in Int /\ hi \in Int /\ n \in Int
      /\ \A k \in 1..m : /\ q[k] \in NodeSet /\ q[k].at \in Int /\ q[k].size \in Int
                         /\ q[k].size > 0 /\ Multiple(q[k].at) /\ Multiple(q[k].size)
                         /\ lo <= q[k].at /\ q[k].at + q[k].size <= hi
      /\ \A k, j \in 1..m : k < j => q[k].at + q[k].size < q[j].at
  <2>1. n \in Int
    BY DEF Multiple
  <2>2. QED
    BY <1>1, <2>1, ListIs
<1>3. CASE q[i].size = n
  <2>1. /\ r \in Seq(NodeSet) /\ Len(r) = m - 1
        /\ \A k \in 1..(m - 1) : r[k] = IF k <= i - 1 THEN q[k] ELSE q[k + 1]
    <3>1. r = RemoveAt(q, i) /\ q \in Seq(NodeSet) /\ i \in DOMAIN q
      BY <1>1, <1>2, <1>3 DEF Cut, IsList
    <3>2. QED
      BY <1>1, <3>1, RemoveElements
  <2>2. \A k \in 1..(m - 1) : \E j \in 1..m : j # i /\ r[k] = q[j]
    <3>1. SUFFICES ASSUME NEW k \in 1..(m - 1) PROVE \E j \in 1..m : j # i /\ r[k] = q[j]
      OBVIOUS
    <3>2. CASE k <= i - 1
      <4>1. k \in 1..m /\ k # i /\ r[k] = q[k]
        BY <1>2, <2>1, <3>2
      <4>2. QED
        BY <4>1
    <3>3. CASE ~ (k <= i - 1)
      <4>1. k + 1 \in 1..m /\ k + 1 # i /\ r[k] = q[k + 1]
        BY <1>2, <2>1, <3>3
      <4>2. QED
        BY <4>1
    <3>4. QED
      BY <3>2, <3>3
  <2>3. \A k, l \in 1..(m - 1) : k < l => r[k].at + r[k].size < r[l].at
    <3>1. SUFFICES ASSUME NEW k \in 1..(m - 1), NEW l \in 1..(m - 1), k < l
                   PROVE  r[k].at + r[k].size < r[l].at
      OBVIOUS
    <3>2. PICK x \in 1..m, y \in 1..m : x < y /\ r[k] = q[x] /\ r[l] = q[y]
      <4>1. CASE l <= i - 1
        <5>1. k \in 1..m /\ l \in 1..m /\ k <= i - 1
          BY <1>2, <3>1, <4>1
        <5>2. QED
          BY <2>1, <3>1, <4>1, <5>1
      <4>2. CASE k <= i - 1 /\ ~ (l <= i - 1)
        <5>1. k \in 1..m /\ l + 1 \in 1..m /\ k < l + 1
          BY <1>2, <3>1, <4>2
        <5>2. QED
          BY <2>1, <3>1, <4>2, <5>1
      <4>3. CASE ~ (k <= i - 1) /\ ~ (l <= i - 1)
        <5>1. k + 1 \in 1..m /\ l + 1 \in 1..m /\ k + 1 < l + 1
          BY <1>2, <3>1, <4>3
        <5>2. QED
          BY <2>1, <3>1, <4>3, <5>1
      <4>4. QED
        BY <1>2, <3>1, <4>1, <4>2, <4>3
    <3>3. QED
      BY <1>2, <3>2
  <2>4. IsList(r, lo, hi)
    BY <1>2, <2>1, <2>2, <2>3 DEF IsList
  <2>5. ASSUME NEW b \in Int PROVE Covers(r, b) <=> Covers(q, b) /\ ~ (q[i].at <= b /\ b < q[i].at + n)
    <3>1. ASSUME Covers(r, b) PROVE Covers(q, b) /\ ~ (q[i].at <= b /\ b < q[i].at + n)
      <4>1. PICK k \in 1..(m - 1) : r[k].at <= b /\ b < r[k].at + r[k].size
        BY <2>1, <3>1 DEF Covers
      <4>2. PICK j \in 1..m : j # i /\ r[k] = q[j]
        BY <2>2
      <4>3. Covers(q, b)
        BY <1>1, <4>1, <4>2 DEF Covers
      <4>4. j < i \/ i < j
        BY <1>2, <4>2
      <4>5. \/ q[j].at + q[j].size < q[i].at
            \/ q[i].at + q[i].size < q[j].at
        BY <1>2, <4>4
      <4>6. /\ q[j].at <= b /\ b < q[j].at + q[j].size
            /\ q[j].at \in Int /\ q[j].size \in Int /\ q[i].at \in Int /\ q[i].size \in Int
        BY <1>2, <4>1, <4>2
      <4>7. ~ (q[i].at <= b /\ b < q[i].at + q[i].size)
        BY <4>5, <4>6, SMTT(20)
      <4>8. QED
        BY <1>3, <4>3, <4>7
    <3>2. ASSUME Covers(q, b), ~ (q[i].at <= b /\ b < q[i].at + n) PROVE Covers(r, b)
      <4>1. PICK j \in 1..m : q[j].at <= b /\ b < q[j].at + q[j].size
        BY <1>1, <3>2 DEF Covers
      <4>2. j # i
        BY <1>3, <3>2, <4>1
      <4>3. CASE j < i
        <5>1. j \in 1..(m - 1) /\ r[j] = q[j]
          BY <1>2, <2>1, <4>3
        <5>2. QED
          BY <2>1, <4>1, <5>1 DEF Covers
      <4>4. CASE j > i
        <5>1. j - 1 \in 1..(m - 1) /\ r[j - 1] = q[j]
          <6>1. j - 1 \in 1..(m - 1) /\ ~ (j - 1 <= i - 1) /\ (j - 1) + 1 = j
            BY <1>2, <4>4
          <6>2. QED
            BY <2>1, <6>1
        <5>2. QED
          BY <2>1, <4>1, <5>1 DEF Covers
      <4>5. QED
        BY <1>2, <4>2, <4>3, <4>4
    <3>3. QED
      BY <3>1, <3>2
  <2>6. QED
    BY <1>1, <2>4, <2>5
<1>4. CASE q[i].size # n
  <2>1. PICK u : u = FreeNode(q[i].at + n, q[i].size - n)
    OBVIOUS
  <2>2. /\ u \in NodeSet /\ u.at = q[i].at + n /\ u.size = q[i].size - n /\ u.size > 0
        /\ u.at \in Int /\ u.size \in Int
    <3>1. q[i].at + n \in Int /\ q[i].size - n \in Int /\ q[i].size - n > 0
      BY <1>2, <1>4
    <3>2. QED
      BY <2>1, <3>1 DEF FreeNode, NodeSet
  <2>3. Multiple(u.at) /\ Multiple(u.size)
    BY <1>2, <2>2, MultipleSum
  <2>4. r = [q EXCEPT ![i] = u]
    BY <1>1, <1>4, <2>1 DEF Cut
  <2>5. /\ r \in Seq(NodeSet) /\ Len(r) = m
        /\ r[i] = u /\ \A k \in 1..m : k # i => r[k] = q[k]
    BY <1>1, <1>2, <2>2, <2>4 DEF IsList
  <2>a. /\ r[i].at = q[i].at + n /\ r[i].size = q[i].size - n
        /\ \A k \in 1..m : k # i => r[k].at = q[k].at /\ r[k].size = q[k].size
    BY <2>2, <2>5
  <2>6. IsList(r, lo, hi)
    <3>1. \A k \in 1..m : /\ r[k].size > 0 /\ Multiple(r[k].at) /\ Multiple(r[k].size)
                          /\ lo <= r[k].at /\ r[k].at + r[k].size <= hi
      <4>1. SUFFICES ASSUME NEW k \in 1..m
                     PROVE  /\ r[k].size > 0 /\ Multiple(r[k].at) /\ Multiple(r[k].size)
                            /\ lo <= r[k].at /\ r[k].at + r[k].size <= hi
        OBVIOUS
      <4>2. CASE k = i
        <5>1. /\ u.size > 0 /\ Multiple(u.at) /\ Multiple(u.size)
              /\ lo <= u.at /\ u.at + u.size <= hi
          BY <1>2, <2>2, <2>3
        <5>2. r[k] = u
          BY <2>5, <4>2
        <5>3. QED
          BY <5>1, <5>2
      <4>3. CASE k # i
        BY <1>2, <2>a, <4>3
      <4>4. QED
        BY <4>2, <4>3
    <3>2. \A k, j \in 1..m : k < j => r[k].at + r[k].size < r[j].at
      <4>1. SUFFICES ASSUME NEW k \in 1..m, NEW j \in 1..m, k < j
                     PROVE  r[k].at + r[k].size < r[j].at
        OBVIOUS
      <4>2. CASE k = i
        <5>1. /\ q[i].at + q[i].size < q[j].at /\ q[j].at \in Int
              /\ q[i].at \in Int /\ q[i].size \in Int /\ n \in Int
          BY <1>2, <4>1, <4>2
        <5>2. r[k].at = q[i].at + n /\ r[k].size = q[i].size - n /\ r[j].at = q[j].at
          BY <1>2, <2>a, <4>1, <4>2
        <5>3. QED
          BY <5>1, <5>2
      <4>3. CASE k # i /\ j = i
        <5>1. q[k].at + q[k].size < q[i].at /\ q[i].at \in Int /\ q[k].at \in Int /\ q[k].size \in Int
          BY <1>2, <4>1, <4>3
        <5>2. r[k].at = q[k].at /\ r[k].size = q[k].size /\ r[j].at = q[i].at + n
          BY <2>a, <4>3
        <5>3. n \in Int /\ n > 0
          BY <1>2
        <5>4. QED
          BY ONLY <5>1, <5>2, <5>3
      <4>4. CASE k # i /\ j # i
        <5>1. q[k].at + q[k].size < q[j].at
          BY <1>2, <4>1
        <5>2. r[k].at = q[k].at /\ r[k].size = q[k].size /\ r[j].at = q[j].at
          BY <2>a, <4>4
        <5>3. QED
          BY <5>1, <5>2
      <4>5. QED
        BY <4>2, <4>3, <4>4
    <3>3. QED
      BY <1>2, <2>5, <3>1, <3>2 DEF IsList
  <2>7. ASSUME NEW b \in Int PROVE Covers(r, b) <=> Covers(q, b) /\ ~ (q[i].at <= b /\ b < q[i].at + n)
    <3>1. ASSUME Covers(r, b) PROVE Covers(q, b) /\ ~ (q[i].at <= b /\ b < q[i].at + n)
      <4>1. PICK k \in 1..m : r[k].at <= b /\ b < r[k].at + r[k].size
        BY <2>5, <3>1 DEF Covers
      <4>2. CASE k = i
        <5>1. q[i].at <= b /\ b < q[i].at + q[i].size /\ ~ (b < q[i].at + n)
          <6>1. q[i].at + n <= b /\ b < (q[i].at + n) + (q[i].size - n)
            BY <2>a, <4>1, <4>2
          <6>2. n \in Int /\ n > 0 /\ q[i].at \in Int /\ q[i].size \in Int
            BY <1>2
          <6>3. QED
            BY <6>1, <6>2
        <5>2. QED
          BY <1>1, <1>2, <5>1 DEF Covers
      <4>3. CASE k # i
        <5>1. q[k].at <= b /\ b < q[k].at + q[k].size /\ (k < i \/ i < k)
          BY <1>2, <2>a, <4>1, <4>3
        <5>2. \/ q[k].at + q[k].size < q[i].at
              \/ q[i].at + q[i].size < q[k].at
          BY <1>2, <5>1
        <5>3. /\ n \in Int /\ q[i].at \in Int /\ q[i].size \in Int
              /\ q[k].at \in Int /\ q[k].size \in Int
          BY <1>2
        <5>4. ~ (q[i].at <= b /\ b < q[i].at + n)
          <6>1. CASE q[k].at + q[k].size < q[i].at
            BY <5>1, <5>3, <6>1
          <6>2. CASE q[i].at + q[i].size < q[k].at
            <7>1. q[i].at + n <= q[i].at + q[i].size
              BY <5>3
            <7>2. q[i].at + q[i].size < b
              BY <5>1, <5>3, <6>2
            <7>3. QED
              BY <5>3, <7>1, <7>2
          <6>3. QED
            BY <5>2, <6>1, <6>2
        <5>5. QED
          BY <1>1, <5>1, <5>4 DEF Covers
      <4>4. QED
        BY <4>2, <4>3
    <3>2. ASSUME Covers(q, b), ~ (q[i].at <= b /\ b < q[i].at + n) PROVE Covers(r, b)
      <4>1. PICK j \in 1..m : q[j].at <= b /\ b < q[j].at + q[j].size
        BY <1>1, <3>2 DEF Covers
      <4>2. r[j].at <= b /\ b < r[j].at + r[j].size
        <5>1. CASE j = i
          BY <1>2, <2>a, <3>2, <4>1, <5>1
        <5>2. CASE j # i
          BY <1>2, <2>a, <4>1, <5>2
        <5>3. QED
          BY <5>1, <5>2
      <4>3. QED
        BY <2>5, <4>2 DEF Covers
    <3>3. QED
      BY <3>1, <3>2
  <2>8. QED
    BY <1>1, <2>6, <2>7
<1>5. QED
  BY <1>3, <1>4

(* A node between others that it does not overlap; it is joined with the   *)
(* one after it.                                                           *)
Fits(q, p, x, lo, hi) ==
  /\ p \in 1..(Len(q) + 1) /\ x \in NodeSet /\ x.size > 0 /\ Multiple(x.at) /\ Multiple(x.size)
  /\ lo <= x.at /\ x.at + x.size <= hi
  /\ \A i \in 1..Len(q) : i < p => q[i].at <= x.at
  /\ \A i \in 1..Len(q) : i >= p => x.at < q[i].at
  /\ \A b \in Int : Covers(q, b) => ~ (x.at <= b /\ b < x.at + x.size)

(* A node that fits at p is behind the nodes before p, and before the      *)
(* others.                                                                 *)
LEMMA FitsBetween ==
  ASSUME NEW q, NEW lo, NEW hi, IsList(q, lo, hi), NEW p, NEW x, Fits(q, p, x, lo, hi)
  PROVE  /\ x.at \in Int /\ x.size \in Int /\ p \in Nat
         /\ \A i \in 1..Len(q) : i < p => q[i].at + q[i].size <= x.at
         /\ \A i \in 1..Len(q) : i >= p => x.at + x.size <= q[i].at
<1>1. /\ Len(q) \in Nat
      /\ \A k \in 1..Len(q) : q[k].at \in Int /\ q[k].size \in Int /\ q[k].size > 0
  BY ListIs
<1>2. x.at \in Int /\ x.size \in Int /\ x.size > 0 /\ p \in Nat
  BY <1>1 DEF Fits, NodeSet
<1>3. ASSUME NEW i \in 1..Len(q), i < p PROVE q[i].at + q[i].size <= x.at
  <2>1. q[i].at <= x.at
    BY <1>3 DEF Fits
  <2>2. SUFFICES ASSUME x.at < q[i].at + q[i].size PROVE FALSE
    BY <1>1, <1>2
  <2>3. Covers(q, x.at)
    BY <2>1, <2>2 DEF Covers
  <2>4. QED
    BY <1>2, <2>3 DEF Fits
<1>4. ASSUME NEW i \in 1..Len(q), i >= p PROVE x.at + x.size <= q[i].at
  <2>1. x.at < q[i].at
    BY <1>4 DEF Fits
  <2>2. SUFFICES ASSUME q[i].at < x.at + x.size PROVE FALSE
    BY <1>1, <1>2
  <2>3. Covers(q, q[i].at) /\ q[i].at \in Int
    BY <1>1 DEF Covers
  <2>4. QED
    BY <1>1, <1>2, <2>1, <2>2, <2>3 DEF Fits
<1>5. QED
  BY <1>2, <1>3, <1>4

(* With it the list is in order, but for the node before it, that it may   *)
(* touch; and its bytes are added.                                         *)
LEMMA InsertRow ==
  ASSUME NEW q, NEW lo, NEW hi, IsList(q, lo, hi), NEW p, NEW x, Fits(q, p, x, lo, hi)
  PROVE  /\ IsRow(Insert(q, p, x), lo, hi, p) /\ p \in 1..Len(Insert(q, p, x))
         /\ \A b \in Int : Covers(Insert(q, p, x), b) <=>
              Covers(q, b) \/ (x.at <= b /\ b < x.at + x.size)
         /\ \A i \in 1..Len(q) : i < p => Insert(q, p, x)[i] = q[i]
         /\ Insert(q, p, x)[p].at = x.at
<1>1. PICK m, r : m = Len(q) /\ r = Insert(q, p, x)
  OBVIOUS
<1>2. /\ m \in Nat /\ DOMAIN q = 1..m /\ lo \in Int /\ hi \in Int /\ q \in Seq(NodeSet)
      /\ \A k \in 1..m : /\ q[k] \in NodeSet /\ q[k].at \in Int /\ q[k].size \in Int
                         /\ q[k].size > 0 /\ Multiple(q[k].at) /\ Multiple(q[k].size)
                         /\ lo <= q[k].at /\ q[k].at + q[k].size <= hi
      /\ \A k, j \in 1..m : k < j => q[k].at + q[k].size < q[j].at
  BY <1>1, ListIs DEF IsList
<1>3. /\ x \in NodeSet /\ x.at \in Int /\ x.size \in Int /\ x.size > 0 /\ p \in 1..(m + 1)
      /\ Multiple(x.at) /\ Multiple(x.size) /\ lo <= x.at /\ x.at + x.size <= hi
      /\ \A i \in 1..m : i < p => q[i].at + q[i].size <= x.at
      /\ \A i \in 1..m : i >= p => x.at + x.size <= q[i].at
  BY <1>1, FitsBetween DEF Fits
<1>4. CASE p <= m /\ q[p].at = x.at + x.size
  <2>1. PICK u : u = FreeNode(x.at, x.size + q[p].size)
    OBVIOUS
  <2>2. u \in NodeSet /\ u.at = x.at /\ u.size = x.size + q[p].size /\ p \in 1..m
    BY <1>2, <1>3, <1>4, <2>1 DEF FreeNode, NodeSet
  <2>3. Multiple(u.at) /\ Multiple(u.size)
    BY <1>2, <1>3, <2>2, MultipleSum
  <2>4. r = [q EXCEPT ![p] = u]
    BY <1>1, <1>4, <2>1 DEF Insert
  <2>5. /\ r \in Seq(NodeSet) /\ Len(r) = m
        /\ r[p] = u /\ \A k \in 1..m : k # p => r[k] = q[k]
    BY <1>1, <1>2, <2>2, <2>4
  <2>6. /\ r[p].at = x.at /\ r[p].size = x.size + q[p].size
        /\ \A k \in 1..m : k # p => r[k].at = q[k].at /\ r[k].size = q[k].size
    BY <2>2, <2>5
  <2>7. \A k \in 1..m : /\ r[k].size > 0 /\ Multiple(r[k].at) /\ Multiple(r[k].size)
                        /\ lo <= r[k].at /\ r[k].at + r[k].size <= hi
    <3>1. SUFFICES ASSUME NEW k \in 1..m
                   PROVE  /\ r[k].size > 0 /\ Multiple(r[k].at) /\ Multiple(r[k].size)
                          /\ lo <= r[k].at /\ r[k].at + r[k].size <= hi
      OBVIOUS
    <3>2. CASE k = p
      <4>1. q[p].at + q[p].size <= hi /\ q[p].size > 0 /\ q[p].size \in Int
        BY <1>2, <2>2
      <4>2. /\ u.size > 0 /\ Multiple(u.at) /\ Multiple(u.size)
            /\ lo <= u.at /\ u.at + u.size <= hi
        <5>1. u.at = x.at /\ u.size = x.size + q[p].size /\ q[p].at = x.at + x.size
          BY <1>4, <2>2
        <5>2. QED
          BY <1>3, <2>3, <4>1, <5>1
      <4>3. r[k] = u
        BY <2>5, <3>2
      <4>4. QED
        BY <4>2, <4>3
    <3>3. CASE k # p
      BY <1>2, <2>6, <3>3
    <3>4. QED
      BY <3>2, <3>3
  <2>8. ASSUME NEW k \in 1..m, NEW j \in 1..m, k < j
        PROVE  \/ r[k].at + r[k].size < r[j].at
               \/ k = p - 1 /\ j = p /\ r[k].at + r[k].size = r[j].at
    <3>1. q[k].at + q[k].size < q[j].at /\ q[k].at \in Int /\ q[k].size \in Int /\ q[j].at \in Int
      BY <1>2, <2>8
    <3>2. CASE k = p
      <4>1. r[k].at = x.at /\ r[k].size = x.size + q[k].size /\ r[j].at = q[j].at
        BY <1>2, <2>6, <2>8, <3>2
      <4>2. QED
        BY <1>3, <1>4, <3>1, <3>2, <4>1
    <3>3. CASE j = p
      <4>1. r[k].at = q[k].at /\ r[k].size = q[k].size /\ r[j].at = x.at
        BY <1>2, <2>6, <2>8, <3>3
      <4>2. q[k].at + q[k].size <= x.at
        BY <1>3, <2>8, <3>3
      <4>3. CASE k = p - 1
        BY <1>3, <3>1, <3>3, <4>1, <4>2, <4>3
      <4>4. CASE k # p - 1
        <5>1. p - 1 \in 1..m /\ k < p - 1 /\ p - 1 < p
          BY <1>2, <1>3, <2>8, <3>3, <4>4
        <5>2. q[k].at + q[k].size < q[p - 1].at /\ q[p - 1].at + q[p - 1].size <= x.at
              /\ q[p - 1].at \in Int /\ q[p - 1].size \in Int /\ q[p - 1].size > 0
          BY <1>2, <1>3, <5>1
        <5>3. QED
          BY <1>3, <3>1, <4>1, <5>2
      <4>5. QED
        BY <4>3, <4>4
    <3>4. CASE k # p /\ j # p
      BY <2>6, <3>1, <3>4
    <3>5. QED
      BY <3>2, <3>3, <3>4
  <2>9. IsRow(r, lo, hi, p)
    BY <1>2, <2>5, <2>7, <2>8 DEF IsRow
  <2>10. ASSUME NEW b \in Int
         PROVE  Covers(r, b) <=> Covers(q, b) \/ (x.at <= b /\ b < x.at + x.size)
    <3>1. ASSUME Covers(r, b) PROVE Covers(q, b) \/ (x.at <= b /\ b < x.at + x.size)
      <4>1. PICK k \in 1..m : r[k].at <= b /\ b < r[k].at + r[k].size
        BY <2>5, <3>1 DEF Covers
      <4>2. CASE k = p
        <5>1. q[p].at \in Int /\ q[p].size \in Int /\ q[p].at = x.at + x.size
          BY <1>2, <1>4, <2>2
        <5>2. (x.at <= b /\ b < x.at + x.size) \/ (q[p].at <= b /\ b < q[p].at + q[p].size)
          BY <1>3, <2>6, <4>1, <4>2, <5>1
        <5>3. QED
          BY <1>1, <2>2, <5>2 DEF Covers
      <4>3. CASE k # p
        <5>1. q[k].at <= b /\ b < q[k].at + q[k].size
          BY <2>6, <4>1, <4>3
        <5>2. QED
          BY <1>1, <5>1 DEF Covers
      <4>4. QED
        BY <4>2, <4>3
    <3>2. ASSUME Covers(q, b) PROVE Covers(r, b)
      <4>1. PICK j \in 1..m : q[j].at <= b /\ b < q[j].at + q[j].size
        BY <1>1, <3>2 DEF Covers
      <4>2. r[j].at <= b /\ b < r[j].at + r[j].size
        <5>1. CASE j = p
          <6>1. q[p].at \in Int /\ q[p].size \in Int /\ q[p].at = x.at + x.size
            BY <1>2, <1>4, <2>2
          <6>2. QED
            BY <1>3, <2>6, <4>1, <5>1, <6>1
        <5>2. CASE j # p
          BY <2>6, <4>1, <5>2
        <5>3. QED
          BY <5>1, <5>2
      <4>3. QED
        BY <2>5, <4>2 DEF Covers
    <3>3. ASSUME x.at <= b /\ b < x.at + x.size PROVE Covers(r, b)
      <4>1. q[p].at \in Int /\ q[p].size \in Int /\ q[p].size > 0
        BY <1>2, <2>2
      <4>2. r[p].at <= b /\ b < r[p].at + r[p].size
        BY <1>3, <2>6, <3>3, <4>1
      <4>3. QED
        BY <2>2, <2>5, <4>2 DEF Covers
    <3>4. QED
      BY <3>1, <3>2, <3>3
  <2>11. \A i \in 1..m : i < p => r[i] = q[i]
    BY <1>2, <1>3, <2>5
  <2>12. QED
    BY <1>1, <2>2, <2>5, <2>6, <2>9, <2>10, <2>11
<1>5. CASE ~ (p <= m /\ q[p].at = x.at + x.size)
  <2>1. r = InsertAt(q, p, x)
    BY <1>1, <1>5 DEF Insert
  <2>2. /\ r \in Seq(NodeSet) /\ Len(r) = m + 1
        /\ \A k \in 1..(m + 1) : r[k] = IF k < p THEN q[k] ELSE IF k = p THEN x ELSE q[k - 1]
    <3>1. q \in Seq(NodeSet) /\ x \in NodeSet /\ p \in 1..(Len(q) + 1)
      BY <1>1, <1>2, <1>3
    <3>2. IsInserted(InsertAt(q, p, x), q, p, x, NodeSet)
      BY ONLY <3>1, InsertedIs
    <3>3. QED
      BY <1>1, <2>1, <3>2 DEF IsInserted
  <2>3. /\ r[p] = x
        /\ \A k \in 1..(m + 1) : k < p => k \in 1..m /\ r[k] = q[k]
        /\ \A k \in 1..(m + 1) : k > p => k - 1 \in 1..m /\ k - 1 >= p /\ r[k] = q[k - 1]
    BY <1>2, <1>3, <2>2
  <2>4. \A k \in 1..m : k >= p => x.at + x.size < q[k].at
    <3>1. SUFFICES ASSUME NEW k \in 1..m, k >= p PROVE x.at + x.size < q[k].at
      OBVIOUS
    <3>2. p \in 1..m /\ q[p].at # x.at + x.size /\ q[p].at \in Int /\ q[p].size \in Int /\ q[p].size > 0
      BY <1>2, <1>3, <1>5, <3>1
    <3>3. x.at + x.size <= q[p].at /\ (k = p \/ q[p].at + q[p].size < q[k].at) /\ q[k].at \in Int
      BY <1>2, <1>3, <3>1, <3>2
    <3>4. QED
      BY <1>3, <3>2, <3>3
  <2>5. \A k \in 1..(m + 1) : /\ r[k].size > 0 /\ Multiple(r[k].at) /\ Multiple(r[k].size)
                              /\ lo <= r[k].at /\ r[k].at + r[k].size <= hi
    <3>1. SUFFICES ASSUME NEW k \in 1..(m + 1)
                   PROVE  /\ r[k].size > 0 /\ Multiple(r[k].at) /\ Multiple(r[k].size)
                          /\ lo <= r[k].at /\ r[k].at + r[k].size <= hi
      OBVIOUS
    <3>2. r[k] = x \/ \E j \in 1..m : r[k] = q[j]
      <4>1. k < p \/ k = p \/ k > p
        BY <1>2, <1>3
      <4>2. QED
        BY <2>3, <4>1
    <3>3. QED
      BY <1>2, <1>3, <3>2
  <2>6. ASSUME NEW k \in 1..(m + 1), NEW j \in 1..(m + 1), k < j
        PROVE  \/ r[k].at + r[k].size < r[j].at
               \/ k = p - 1 /\ j = p /\ r[k].at + r[k].size = r[j].at
    <3>1. CASE j < p
      <4>1. k \in 1..m /\ j \in 1..m /\ r[k] = q[k] /\ r[j] = q[j]
        BY <1>2, <1>3, <2>3, <2>6, <3>1
      <4>2. QED
        BY <1>2, <2>6, <4>1
    <3>2. CASE j = p
      <4>1. k \in 1..m /\ r[k] = q[k] /\ r[j] = x /\ k < p
        BY <1>2, <1>3, <2>3, <2>6, <3>2
      <4>2. q[k].at + q[k].size <= x.at /\ q[k].at \in Int /\ q[k].size \in Int
        BY <1>2, <1>3, <4>1
      <4>3. CASE k = p - 1
        BY <1>3, <3>2, <4>1, <4>2, <4>3
      <4>4. CASE k # p - 1
        <5>1. p - 1 \in 1..m /\ k < p - 1 /\ p - 1 < p
          BY <1>2, <1>3, <4>1, <4>4
        <5>2. q[k].at + q[k].size < q[p - 1].at /\ q[p - 1].at + q[p - 1].size <= x.at
              /\ q[p - 1].at \in Int /\ q[p - 1].size \in Int /\ q[p - 1].size > 0
          BY <1>2, <1>3, <4>1, <5>1
        <5>3. QED
          BY <1>3, <4>1, <4>2, <5>2
      <4>5. QED
        BY <4>3, <4>4
    <3>3. CASE j > p /\ k = p
      <4>1. j - 1 \in 1..m /\ j - 1 >= p /\ r[j] = q[j - 1] /\ r[k] = x
        BY <2>3, <3>3
      <4>2. QED
        BY <2>4, <4>1
    <3>4. CASE j > p /\ k > p
      <4>1. j - 1 \in 1..m /\ k - 1 \in 1..m /\ k - 1 < j - 1 /\ r[j] = q[j - 1] /\ r[k] = q[k - 1]
        BY <1>2, <1>3, <2>3, <2>6, <3>4
      <4>2. QED
        BY <1>2, <4>1
    <3>5. CASE j > p /\ k < p
      <4>1. j - 1 \in 1..m /\ k \in 1..m /\ k < j - 1 /\ r[j] = q[j - 1] /\ r[k] = q[k]
        BY <1>2, <1>3, <2>3, <2>6, <3>5
      <4>2. QED
        BY <1>2, <4>1
    <3>6. QED
      BY <1>2, <1>3, <3>1, <3>2, <3>3, <3>4, <3>5
  <2>7. IsRow(r, lo, hi, p)
    BY <1>2, <2>2, <2>5, <2>6 DEF IsRow
  <2>8. ASSUME NEW b \in Int
        PROVE  Covers(r, b) <=> Covers(q, b) \/ (x.at <= b /\ b < x.at + x.size)
    <3>1. ASSUME Covers(r, b) PROVE Covers(q, b) \/ (x.at <= b /\ b < x.at + x.size)
      <4>1. PICK k \in 1..(m + 1) : r[k].at <= b /\ b < r[k].at + r[k].size
        BY <2>2, <3>1 DEF Covers
      <4>2. r[k] = x \/ \E j \in 1..m : r[k] = q[j]
        <5>1. k < p \/ k = p \/ k > p
          BY <1>2, <1>3
        <5>2. QED
          BY <2>3, <5>1
      <4>3. QED
        BY <1>1, <4>1, <4>2 DEF Covers
    <3>2. ASSUME Covers(q, b) PROVE Covers(r, b)
      <4>1. PICK j \in 1..m : q[j].at <= b /\ b < q[j].at + q[j].size
        BY <1>1, <3>2 DEF Covers
      <4>2. CASE j < p
        <5>1. j \in 1..(m + 1)
          BY <1>2
        <5>2. r[j] = q[j]
          BY <2>3, <4>2, <5>1
        <5>3. QED
          BY <2>2, <4>1, <5>1, <5>2 DEF Covers
      <4>3. CASE j >= p
        <5>1. j + 1 \in 1..(m + 1) /\ j + 1 > p /\ (j + 1) - 1 = j
          BY <1>2, <1>3, <4>3
        <5>2. r[j + 1] = q[j]
          BY <2>3, <5>1
        <5>3. QED
          BY <2>2, <4>1, <5>1, <5>2 DEF Covers
      <4>4. QED
        BY <1>2, <1>3, <4>2, <4>3
    <3>3. ASSUME x.at <= b /\ b < x.at + x.size PROVE Covers(r, b)
      BY <1>3, <2>2, <2>3, <3>3 DEF Covers
    <3>4. QED
      BY <3>1, <3>2, <3>3
  <2>9. p \in 1..(m + 1) /\ \A i \in 1..m : i < p => r[i] = q[i]
    BY <1>2, <1>3, <2>3
  <2>10. QED
    BY <1>1, <2>2, <2>3, <2>7, <2>8, <2>9
<1>6. QED
  BY <1>4, <1>5

(* Two nodes that touch become one.                                        *)
LEMMA MergeRow ==
  ASSUME NEW q, NEW lo, NEW hi, NEW p, IsRow(q, lo, hi, p), p \in 1..Len(q)
  PROVE  /\ IsList(Merge(q, p), lo, hi)
         /\ \A b \in Int : Covers(Merge(q, p), b) <=> Covers(q, b)
<1>1. PICK m, r : m = Len(q) /\ r = Merge(q, p)
  OBVIOUS
<1>2. /\ m \in Nat /\ DOMAIN q = 1..m /\ lo \in Int /\ hi \in Int /\ q \in Seq(NodeSet)
      /\ \A k \in 1..m : q[k] \in NodeSet
  BY <1>1 DEF IsRow
<1>3. \A k \in 1..m : q[k].at \in Int /\ q[k].size \in Int
  BY <1>2 DEF NodeSet
<1>4. \A k \in 1..m : /\ q[k].size > 0 /\ Multiple(q[k].at) /\ Multiple(q[k].size)
                      /\ lo <= q[k].at /\ q[k].at + q[k].size <= hi
  BY <1>1 DEF IsRow
<1>5. \A i, j \in 1..m : i < j =>
       \/ q[i].at + q[i].size < q[j].at
       \/ i = p - 1 /\ j = p /\ q[i].at + q[i].size = q[j].at
  BY <1>1 DEF IsRow
<1>6. p \in 1..m
  BY <1>1
<1>7. CASE ~ (p > 1 /\ q[p - 1].at + q[p - 1].size = q[p].at)
  <2>1. r = q
    BY <1>1, <1>7 DEF Merge
  <2>2. \A i, j \in 1..m : i < j => q[i].at + q[i].size < q[j].at
    <3>1. SUFFICES ASSUME NEW i \in 1..m, NEW j \in 1..m, i < j
                   PROVE  q[i].at + q[i].size < q[j].at
      OBVIOUS
    <3>2. ~ (i = p - 1 /\ j = p /\ q[i].at + q[i].size = q[j].at)
      BY <1>2, <1>6, <1>7, <3>1
    <3>3. QED
      BY <1>5, <3>1, <3>2
  <2>3. IsList(q, lo, hi)
    BY <1>1, <1>2, <1>4, <2>2 DEF IsList
  <2>4. QED
    BY <1>1, <2>1, <2>3
<1>8. CASE p > 1 /\ q[p - 1].at + q[p - 1].size = q[p].at
  <2>1. PICK u, s : u = FreeNode(q[p - 1].at, q[p - 1].size + q[p].size) /\ s = [q EXCEPT ![p - 1] = u]
    OBVIOUS
  <2>2. p - 1 \in 1..m /\ p - 1 < p
    BY <1>2, <1>6, <1>8
  <2>3. u \in NodeSet /\ u.at = q[p - 1].at /\ u.size = q[p - 1].size + q[p].size
    BY <1>3, <1>6, <2>1, <2>2 DEF FreeNode, NodeSet
  <2>4. Multiple(u.at) /\ Multiple(u.size)
    BY <1>4, <1>6, <2>2, <2>3, MultipleSum
  <2>5. /\ s \in Seq(NodeSet) /\ Len(s) = m
        /\ s[p - 1] = u /\ \A k \in 1..m : k # p - 1 => s[k] = q[k]
    BY <1>1, <1>2, <2>1, <2>2, <2>3
  <2>6. r = RemoveAt(s, p)
    BY <1>1, <1>8, <2>1 DEF Merge
  <2>7. /\ r \in Seq(NodeSet) /\ Len(r) = m - 1
        /\ \A k \in 1..(m - 1) : r[k] = IF k <= p - 1 THEN s[k] ELSE s[k + 1]
    <3>1. p \in DOMAIN s
      BY <1>6, <2>5
    <3>2. /\ RemoveAt(s, p) \in Seq(NodeSet) /\ Len(RemoveAt(s, p)) = Len(s) - 1
          /\ \A k \in 1..(Len(s) - 1) :
               RemoveAt(s, p)[k] = IF k <= p - 1 THEN s[k] ELSE s[k + 1]
      BY <2>5, <3>1, RemoveElements
    <3>3. QED
      BY <2>5, <2>6, <3>2
  <2>8. /\ p - 1 \in 1..(m - 1) /\ r[p - 1] = u
        /\ \A k \in 1..(m - 1) : k < p - 1 => k \in 1..m /\ r[k] = q[k]
        /\ \A k \in 1..(m - 1) : k > p - 1 => k + 1 \in 1..m /\ k + 1 > p /\ r[k] = q[k + 1]
    <3>1. p - 1 \in 1..(m - 1)
      BY <1>2, <1>6, <1>8
    <3>2. r[p - 1] = u
      BY <2>5, <2>7, <3>1
    <3>3. ASSUME NEW k \in 1..(m - 1), k < p - 1 PROVE k \in 1..m /\ r[k] = q[k]
      <4>1. k \in 1..m /\ k # p - 1 /\ k <= p - 1
        BY <1>2, <1>6, <3>3
      <4>2. QED
        BY <2>5, <2>7, <4>1
    <3>4. ASSUME NEW k \in 1..(m - 1), k > p - 1
          PROVE  k + 1 \in 1..m /\ k + 1 > p /\ r[k] = q[k + 1]
      <4>1. k + 1 \in 1..m /\ k + 1 > p /\ k + 1 # p - 1 /\ ~ (k <= p - 1)
        BY <1>2, <1>6, <3>4
      <4>2. QED
        BY <2>5, <2>7, <4>1
    <3>5. QED
      BY <3>1, <3>2, <3>3, <3>4
  <2>9. /\ r[p - 1].at = q[p - 1].at /\ r[p - 1].size = q[p - 1].size + q[p].size
        /\ q[p - 1].at + q[p - 1].size = q[p].at
        /\ q[p - 1].at \in Int /\ q[p - 1].size \in Int /\ q[p].at \in Int /\ q[p].size \in Int
        /\ q[p - 1].size > 0 /\ q[p].size > 0 /\ lo <= q[p - 1].at /\ q[p].at + q[p].size <= hi
    BY <1>3, <1>4, <1>6, <1>8, <2>2, <2>3, <2>8
  <2>10. \A k \in 1..(m - 1) : /\ r[k].size > 0 /\ Multiple(r[k].at) /\ Multiple(r[k].size)
                               /\ lo <= r[k].at /\ r[k].at + r[k].size <= hi
    <3>1. SUFFICES ASSUME NEW k \in 1..(m - 1)
                   PROVE  /\ r[k].size > 0 /\ Multiple(r[k].at) /\ Multiple(r[k].size)
                          /\ lo <= r[k].at /\ r[k].at + r[k].size <= hi
      OBVIOUS
    <3>2. CASE k < p - 1
      BY <1>4, <2>8, <3>2
    <3>3. CASE k = p - 1
      <4>1. /\ u.size > 0 /\ Multiple(u.at) /\ Multiple(u.size)
            /\ lo <= u.at /\ u.at + u.size <= hi
        BY <1>2, <2>3, <2>4, <2>9
      <4>2. r[k] = u
        BY <2>8, <3>3
      <4>3. QED
        BY <4>1, <4>2
    <3>4. CASE k > p - 1
      BY <1>4, <2>8, <3>4
    <3>5. QED
      BY <1>6, <3>2, <3>3, <3>4
  <2>11. ASSUME NEW k \in 1..(m - 1), NEW j \in 1..(m - 1), k < j
         PROVE  r[k].at + r[k].size < r[j].at
    <3>1. CASE j < p - 1
      <4>1. k \in 1..m /\ j \in 1..m /\ r[k] = q[k] /\ r[j] = q[j] /\ j # p
        BY <1>2, <1>6, <2>8, <2>11, <3>1
      <4>2. QED
        BY <1>5, <2>11, <4>1
    <3>2. CASE j = p - 1
      <4>1. k \in 1..m /\ r[k] = q[k] /\ k < p - 1 /\ p - 1 # p
        BY <1>2, <1>6, <2>8, <2>11, <3>2
      <4>2. q[k].at + q[k].size < q[p - 1].at
        BY <1>5, <2>2, <4>1
      <4>3. QED
        BY <2>9, <3>2, <4>1, <4>2
    <3>3. CASE j > p - 1 /\ k = p - 1
      <4>1. j + 1 \in 1..m /\ p < j + 1 /\ r[j] = q[j + 1] /\ j + 1 # p
        BY <1>2, <1>6, <2>8, <3>3
      <4>2. q[p].at + q[p].size < q[j + 1].at /\ q[j + 1].at \in Int
        BY <1>3, <1>5, <1>6, <4>1
      <4>3. QED
        BY <2>9, <3>3, <4>1, <4>2
    <3>4. CASE j > p - 1 /\ k > p - 1
      <4>1. j + 1 \in 1..m /\ k + 1 \in 1..m /\ k + 1 < j + 1 /\ j + 1 # p
            /\ r[j] = q[j + 1] /\ r[k] = q[k + 1]
        BY <1>2, <1>6, <2>8, <2>11, <3>4
      <4>2. QED
        BY <1>5, <4>1
    <3>5. CASE j > p - 1 /\ k < p - 1
      <4>1. j + 1 \in 1..m /\ k \in 1..m /\ k < j + 1 /\ j + 1 # p /\ r[j] = q[j + 1] /\ r[k] = q[k]
        BY <1>2, <1>6, <2>8, <2>11, <3>5
      <4>2. QED
        BY <1>5, <4>1
    <3>6. QED
      BY <1>6, <3>1, <3>2, <3>3, <3>4, <3>5
  <2>12. IsList(r, lo, hi)
    BY <1>2, <2>7, <2>10, <2>11 DEF IsList
  <2>13. ASSUME NEW b \in Int PROVE Covers(r, b) <=> Covers(q, b)
    <3>1. ASSUME Covers(r, b) PROVE Covers(q, b)
      <4>1. PICK k \in 1..(m - 1) : r[k].at <= b /\ b < r[k].at + r[k].size
        BY <2>7, <3>1 DEF Covers
      <4>2. CASE k = p - 1
        <5>1. \/ q[p - 1].at <= b /\ b < q[p - 1].at + q[p - 1].size
              \/ q[p].at <= b /\ b < q[p].at + q[p].size
          <6>1. r[p - 1].at <= b /\ b < r[p - 1].at + r[p - 1].size
            BY <4>1, <4>2
          <6>2. CASE b < q[p].at
            BY <2>9, <6>1, <6>2
          <6>3. CASE q[p].at <= b
            BY <2>9, <6>1, <6>3
          <6>4. QED
            BY <2>9, <6>2, <6>3
        <5>2. p \in 1..m /\ p - 1 \in 1..m /\ Len(q) = m
          BY <1>1, <1>6, <2>2
        <5>3. \E l \in 1..m : q[l].at <= b /\ b < q[l].at + q[l].size
          BY <5>1, <5>2
        <5>4. QED
          BY <5>2, <5>3 DEF Covers
      <4>3. CASE k # p - 1
        <5>1. k < p - 1 \/ k > p - 1
          BY <1>6, <4>3
        <5>2. \E j \in 1..m : r[k] = q[j]
          BY <2>8, <5>1
        <5>3. QED
          BY <1>1, <4>1, <5>2 DEF Covers
      <4>4. QED
        BY <4>2, <4>3
    <3>2. ASSUME Covers(q, b) PROVE Covers(r, b)
      <4>1. PICK j \in 1..m : q[j].at <= b /\ b < q[j].at + q[j].size
        BY <1>1, <3>2 DEF Covers
      <4>2. CASE j = p - 1 \/ j = p
        <5>1. r[p - 1].at <= b /\ b < r[p - 1].at + r[p - 1].size
          <6>1. CASE j = p
            <7>1. q[p].at <= b /\ b < q[p].at + q[p].size
              BY ONLY <4>1, <6>1
            <7>2. QED
              BY <2>9, <7>1, SMTT(20)
          <6>2. CASE j = p - 1
            BY <2>9, <4>1, <6>2, SMTT(30)
          <6>3. QED
            BY <4>2, <6>1, <6>2
        <5>2. QED
          BY <2>7, <2>8, <5>1 DEF Covers
      <4>3. CASE j < p - 1
        <5>1. j \in 1..(m - 1)
          BY <1>2, <1>6, <4>3
        <5>2. r[j] = q[j]
          BY <2>8, <4>3, <5>1
        <5>3. QED
          BY <2>7, <4>1, <5>1, <5>2 DEF Covers
      <4>4. CASE j > p
        <5>1. j - 1 \in 1..(m - 1) /\ j - 1 > p - 1 /\ (j - 1) + 1 = j
          BY <1>2, <1>6, <4>4
        <5>2. r[j - 1] = q[j]
          BY <2>8, <5>1
        <5>3. QED
          BY <2>7, <4>1, <5>1, <5>2 DEF Covers
      <4>5. QED
        BY <1>6, <4>2, <4>3, <4>4
    <3>3. QED
      BY <3>1, <3>2
  <2>14. QED
    BY <1>1, <2>12, <2>13
<1>9. QED
  BY <1>7, <1>8

(* A set of natural numbers has a least element, and Min is it.            *)
LEMMA MinIs ==
  ASSUME NEW S \in SUBSET Nat, S # {}
  PROVE  Min(S) \in S /\ \A k \in S : Min(S) <= k
<1>1. \E n \in S : \A k \in S : n <= k
  BY LeastNat
<1>2. QED
  BY <1>1 DEF Min

(* The n bytes at a.                                                       *)
Run(a, n) == a..(a + n - 1)

(* Bytes are taken from a set, or added to it.                             *)
LEMMA CountBytes ==
  ASSUME NEW S, IsFiniteSet(S), NEW a \in Int, NEW n \in Nat
  PROVE  /\ Run(a, n) \subseteq S => Cardinality(S \ Run(a, n)) = Cardinality(S) - n
         /\ Run(a, n) \cap S = {} => Cardinality(S \cup Run(a, n)) = Cardinality(S) + n
<1>1. PICK T : T = Run(a, n)
  OBVIOUS
<1>2. IsFiniteSet(T) /\ Cardinality(T) = n
  <2>1. a + n - 1 \in Int
    OBVIOUS
  <2>2. IsFiniteSet(T) /\ Cardinality(T) = IF a > a + n - 1 THEN 0 ELSE (a + n - 1) - a + 1
    BY <1>1, <2>1, FS_Interval DEF Run
  <2>3. QED
    BY <2>2
<1>3. Cardinality(S) \in Nat
  BY FS_CardinalityType
<1>4. ASSUME T \subseteq S PROVE Cardinality(S \ T) = Cardinality(S) - n
  <2>1. S \cap T = T
    BY <1>4
  <2>2. QED
    BY <1>2, <2>1, FS_Difference
<1>5. ASSUME T \cap S = {} PROVE Cardinality(S \cup T) = Cardinality(S) + n
  <2>1. S \cap T = {}
    BY <1>5
  <2>2. Cardinality(S \cup T) = Cardinality(S) + Cardinality(T) - Cardinality(S \cap T)
    BY <1>2, FS_Union
  <2>3. Cardinality(S \cap T) = 0
    BY <2>1, FS_EmptySet
  <2>4. QED
    BY <1>2, <1>3, <2>2, <2>3
<1>6. QED
  BY <1>1, <1>4, <1>5

(* The bytes of the free nodes.                                            *)
FreeSet(mh) == {b \in mh.mem..(mh.end - 1) : Covers(mh.list, b)}

(* The fields of a memheader.                                              *)
MemHeads == [mem : Int, end : Int, free : Int, lowfrag : BOOLEAN, large : BOOLEAN,
             list : Seq(NodeSet)]

(* A memheader is as it should be.                                         *)
Sound(mh) ==
  /\ mh \in MemHeads
  /\ mh.mem > 0 /\ mh.mem <= mh.end
  /\ IsList(mh.list, mh.mem, mh.end)
  /\ mh.free = Cardinality(FreeSet(mh))

(* What the operations on it leave alone.                                  *)
SameMemory(mh, other) ==
  other.mem = mh.mem /\ other.end = mh.end /\ other.large = mh.large

(* The byte b is one of the n at p; they are within the memory.            *)
Within(b, p, n) == p <= b /\ b < p + n

(* They are within the memory.                                             *)
Inside(mh, p, n) == mh.mem <= p /\ p + n <= mh.end

(* What there is to know of such a memheader.                              *)
LEMMA SoundParts ==
  ASSUME NEW mh, Sound(mh)
  PROVE  /\ mh.mem \in Int /\ mh.end \in Int /\ mh.free \in Nat /\ mh.list \in Seq(NodeSet)
         /\ mh.lowfrag \in BOOLEAN /\ mh.large \in BOOLEAN
         /\ mh.mem > 0 /\ mh.mem <= mh.end
         /\ IsList(mh.list, mh.mem, mh.end)
         /\ IsFiniteSet(FreeSet(mh)) /\ mh.free = Cardinality(FreeSet(mh))
         /\ \A b \in Int : Covers(mh.list, b) <=> b \in FreeSet(mh)
         /\ mh.free <= mh.end - mh.mem
         /\ mh.free = mh.end - mh.mem => \A b \in mh.mem..(mh.end - 1) : Covers(mh.list, b)
<1>1. /\ mh.mem \in Int /\ mh.end \in Int /\ mh.list \in Seq(NodeSet) /\ mh.mem <= mh.end
      /\ mh.lowfrag \in BOOLEAN /\ mh.large \in BOOLEAN
  BY DEF Sound, MemHeads
<1>2. /\ IsFiniteSet(mh.mem..(mh.end - 1))
      /\ Cardinality(mh.mem..(mh.end - 1)) = mh.end - mh.mem
  <2>1. mh.end - 1 \in Int
    BY <1>1
  <2>2. /\ IsFiniteSet(mh.mem..(mh.end - 1))
        /\ Cardinality(mh.mem..(mh.end - 1)) =
             IF mh.mem > mh.end - 1 THEN 0 ELSE (mh.end - 1) - mh.mem + 1
    BY <1>1, <2>1, FS_Interval
  <2>3. QED
    BY <1>1, <2>2
<1>3. FreeSet(mh) \in SUBSET (mh.mem..(mh.end - 1))
  BY DEF FreeSet
<1>4. /\ IsFiniteSet(FreeSet(mh)) /\ Cardinality(FreeSet(mh)) <= mh.end - mh.mem
      /\ mh.end - mh.mem = Cardinality(FreeSet(mh)) => mh.mem..(mh.end - 1) = FreeSet(mh)
  <2>1. PICK A, B : A = FreeSet(mh) /\ B = mh.mem..(mh.end - 1)
    OBVIOUS
  <2>2. IsFiniteSet(B) /\ A \in SUBSET B
    BY <1>2, <1>3, <2>1
  <2>3. /\ IsFiniteSet(A) /\ Cardinality(A) <= Cardinality(B)
        /\ Cardinality(B) = Cardinality(A) => B = A
    BY <2>2, FS_Subset
  <2>4. QED
    BY <1>2, <2>1, <2>3
<1>5. Cardinality(FreeSet(mh)) \in Nat
  BY <1>4, FS_CardinalityType
<1>6. ASSUME NEW b \in Int PROVE Covers(mh.list, b) <=> b \in FreeSet(mh)
  <2>1. ASSUME Covers(mh.list, b) PROVE b \in mh.mem..(mh.end - 1)
    <3>1. PICK i \in 1..Len(mh.list) : mh.list[i].at <= b /\ b < mh.list[i].at + mh.list[i].size
      BY <2>1 DEF Covers
    <3>2. /\ mh.list[i].at \in Int /\ mh.list[i].size \in Int
          /\ mh.mem <= mh.list[i].at /\ mh.list[i].at + mh.list[i].size <= mh.end
      BY ListIs DEF Sound
    <3>3. QED
      BY <1>1, <3>1, <3>2
  <2>2. QED
    BY <2>1 DEF FreeSet
<1>7. mh.free = mh.end - mh.mem => \A b \in mh.mem..(mh.end - 1) : Covers(mh.list, b)
  BY <1>4 DEF Sound, FreeSet
<1>8. QED
  BY <1>1, <1>4, <1>5, <1>6, <1>7 DEF Sound

(* This is what the model calls sound, and these are its bytes.            *)
LEMMA SoundIs ==
  ASSUME NEW mh, Sound(mh) PROVE IsSound(mh) /\ FreeBytes(mh) = FreeSet(mh)
<1>1. /\ mh.mem \in Int /\ mh.end \in Int /\ IsList(mh.list, mh.mem, mh.end)
      /\ mh.free = Cardinality(FreeSet(mh))
      /\ \A b \in Int : Covers(mh.list, b) <=> b \in FreeSet(mh)
  BY SoundParts
<1>2. PICK q, m : q = mh.list /\ m = Len(q)
  OBVIOUS
<1>3. /\ m \in Nat /\ DOMAIN q = 1..m
      /\ \A k \in 1..m : /\ q[k].at \in Int /\ q[k].size \in Int
                         /\ q[k].size > 0 /\ Multiple(q[k].at) /\ Multiple(q[k].size)
                         /\ mh.mem <= q[k].at /\ q[k].at + q[k].size <= mh.end
      /\ \A k, j \in 1..m : k < j => q[k].at + q[k].size < q[j].at
  BY <1>1, <1>2, ListIs
<1>4. FreeBytes(mh) = FreeSet(mh)
  <2>1. FreeBytes(mh) = UNION {q[i].at..(q[i].at + q[i].size - 1) : i \in 1..m}
    BY <1>2, <1>3 DEF FreeBytes
  <2>2. ASSUME NEW b PROVE b \in FreeBytes(mh) <=> b \in FreeSet(mh)
    <3>1. ASSUME b \in FreeBytes(mh) PROVE b \in FreeSet(mh)
      <4>1. PICK i \in 1..m : b \in q[i].at..(q[i].at + q[i].size - 1)
        BY <2>1, <3>1
      <4>2. b \in Int /\ q[i].at <= b /\ b < q[i].at + q[i].size
        BY <1>3, <4>1
      <4>3. Covers(q, b)
        BY <1>2, <4>2 DEF Covers
      <4>4. QED
        BY <1>1, <1>2, <4>2, <4>3
    <3>2. ASSUME b \in FreeSet(mh) PROVE b \in FreeBytes(mh)
      <4>1. b \in Int /\ Covers(q, b)
        BY <1>1, <1>2, <3>2 DEF FreeSet
      <4>2. PICK i \in 1..m : q[i].at <= b /\ b < q[i].at + q[i].size
        BY <1>2, <4>1 DEF Covers
      <4>3. b \in q[i].at..(q[i].at + q[i].size - 1)
        BY <1>3, <4>1, <4>2
      <4>4. QED
        BY <2>1, <4>3
    <3>3. QED
      BY <3>1, <3>2
  <2>3. QED
    BY <2>2
<1>5. IsSound(mh)
  BY <1>1, <1>2, <1>3, <1>4 DEF IsSound, Multiple
<1>6. QED
  BY <1>4, <1>5

(* A memheader with another list.                                          *)
Relisted(mh, q, f) == [mh EXCEPT !.list = q, !.free = f]

(* A header whose list and count have changed.                             *)
LEMMA SoundChange ==
  ASSUME NEW mh, Sound(mh), NEW q, IsList(q, mh.mem, mh.end), NEW f, NEW other, other = Relisted(mh, q, f),
         f = Cardinality({b \in mh.mem..(mh.end - 1) : Covers(q, b)})
  PROVE  Sound(other) /\ SameMemory(mh, other) /\ other.list = q
<1>1. mh \in MemHeads /\ mh.mem > 0 /\ mh.mem <= mh.end
  BY DEF Sound
<1>2. q \in Seq(NodeSet)
  BY DEF IsList
<1>3. /\ other.mem = mh.mem /\ other.end = mh.end /\ other.large = mh.large
      /\ other.lowfrag = mh.lowfrag /\ other.list = q /\ other.free = f
  BY <1>1 DEF MemHeads, Relisted
<1>4. f \in Int
  <2>1. mh.mem \in Int /\ mh.end - 1 \in Int
    BY <1>1 DEF MemHeads
  <2>2. IsFiniteSet(mh.mem..(mh.end - 1))
    BY <2>1, FS_Interval
  <2>3. PICK S : S = {b \in mh.mem..(mh.end - 1) : Covers(q, b)}
    OBVIOUS
  <2>4. S \in SUBSET (mh.mem..(mh.end - 1))
    BY <2>3
  <2>5. IsFiniteSet(S)
    BY <2>2, <2>4, FS_Subset
  <2>6. Cardinality(S) \in Nat
    BY <2>5, FS_CardinalityType
  <2>7. QED
    BY <2>3, <2>6
<1>5. other \in MemHeads
  <2>1. other = [mem |-> mh.mem, end |-> mh.end, free |-> f, lowfrag |-> mh.lowfrag,
                 large |-> mh.large, list |-> q]
    BY <1>1 DEF MemHeads, Relisted
  <2>2. QED
    BY <1>1, <1>2, <1>4, <2>1 DEF MemHeads
<1>6. FreeSet(other) = {b \in mh.mem..(mh.end - 1) : Covers(q, b)}
  BY <1>3 DEF FreeSet
<1>7. QED
  BY <1>1, <1>3, <1>5, <1>6 DEF Sound, SameMemory

(* Bytes of free nodes are taken.                                          *)
HasLess(mh, q, p, n) ==
  /\ IsList(q, mh.mem, mh.end) /\ p \in Int /\ n \in Nat
  /\ \A b \in Int : Within(b, p, n) => Covers(mh.list, b)
  /\ \A b \in Int : Covers(q, b) <=> Covers(mh.list, b) /\ ~ Within(b, p, n)

(* ... and is a memheader as it should be.                                 *)
LEMMA SoundLess ==
  ASSUME NEW mh, Sound(mh), NEW q, NEW p, NEW n, HasLess(mh, q, p, n),
         NEW other, other = Relisted(mh, q, mh.free - n)
  PROVE  Sound(other) /\ SameMemory(mh, other) /\ other.list = q
<1>0. /\ IsList(q, mh.mem, mh.end) /\ p \in Int /\ n \in Nat
      /\ \A b \in Int : Within(b, p, n) => Covers(mh.list, b)
      /\ \A b \in Int : Covers(q, b) <=> Covers(mh.list, b) /\ ~ Within(b, p, n)
  BY DEF HasLess
<1>1. /\ mh.mem \in Int /\ mh.end \in Int /\ IsFiniteSet(FreeSet(mh)) /\ mh.free = Cardinality(FreeSet(mh))
      /\ \A b \in Int : Covers(mh.list, b) <=> b \in FreeSet(mh)
  BY SoundParts
<1>2. FreeSet(mh) \subseteq Int
  BY <1>1 DEF FreeSet
<1>3. \A b : b \in Run(p, n) <=> b \in Int /\ Within(b, p, n)
  BY <1>0 DEF Within, Run
<1>4. Run(p, n) \subseteq FreeSet(mh)
  BY <1>0, <1>1, <1>3
<1>5. {b \in mh.mem..(mh.end - 1) : Covers(q, b)} = FreeSet(mh) \ Run(p, n)
  BY <1>0, <1>1, <1>2, <1>3 DEF FreeSet
<1>6. Cardinality(FreeSet(mh) \ Run(p, n)) = mh.free - n
  BY <1>0, <1>1, <1>4, CountBytes
<1>7. QED
  BY <1>0, <1>5, <1>6, SoundChange

(* Bytes of no free node become free.                                      *)
HasMore(mh, q, p, n) ==
  /\ IsList(q, mh.mem, mh.end) /\ p \in Int /\ n \in Nat /\ Inside(mh, p, n)
  /\ \A b \in Int : Within(b, p, n) => ~ Covers(mh.list, b)
  /\ \A b \in Int : Covers(q, b) <=> Covers(mh.list, b) \/ Within(b, p, n)

(* The same, for some more.                                                *)
LEMMA SoundMore ==
  ASSUME NEW mh, Sound(mh), NEW q, NEW p, NEW n, HasMore(mh, q, p, n),
         NEW other, other = Relisted(mh, q, mh.free + n)
  PROVE  Sound(other) /\ SameMemory(mh, other) /\ other.list = q
<1>0. /\ IsList(q, mh.mem, mh.end) /\ p \in Int /\ n \in Nat /\ Inside(mh, p, n)
      /\ \A b \in Int : Within(b, p, n) => ~ Covers(mh.list, b)
      /\ \A b \in Int : Covers(q, b) <=> Covers(mh.list, b) \/ Within(b, p, n)
  BY DEF HasMore
<1>1. /\ mh.mem \in Int /\ mh.end \in Int /\ IsFiniteSet(FreeSet(mh)) /\ mh.free = Cardinality(FreeSet(mh))
      /\ \A b \in Int : Covers(mh.list, b) <=> b \in FreeSet(mh)
  BY SoundParts
<1>2. FreeSet(mh) \subseteq mh.mem..(mh.end - 1)
  BY DEF FreeSet
<1>3. \A b : b \in Run(p, n) <=> b \in Int /\ Within(b, p, n)
  BY <1>0 DEF Within, Run
<1>4. Run(p, n) \cap FreeSet(mh) = {}
  BY <1>0, <1>1, <1>3
<1>5. Run(p, n) \subseteq mh.mem..(mh.end - 1)
  BY <1>0, <1>1 DEF Inside, Run
<1>6. {b \in mh.mem..(mh.end - 1) : Covers(q, b)} = FreeSet(mh) \cup Run(p, n)
  <2>1. \A b \in mh.mem..(mh.end - 1) : Covers(q, b) <=> b \in FreeSet(mh) \/ b \in Run(p, n)
    BY <1>0, <1>1, <1>3
  <2>2. QED
    BY <1>2, <1>5, <2>1
<1>7. Cardinality(FreeSet(mh) \cup Run(p, n)) = mh.free + n
  BY <1>0, <1>1, <1>4, CountBytes
<1>8. QED
  BY <1>0, <1>6, <1>7, SoundChange

(* Where n bytes at p have been taken from the free nodes, or given back.  *)
Taken(mh, other, p, n) ==
  /\ Sound(other) /\ SameMemory(mh, other)
  /\ Multiple(p) /\ Inside(mh, p, n)
  /\ \A b \in Int : Within(b, p, n) => Covers(mh.list, b)
  /\ \A b \in Int : Covers(other.list, b) <=> Covers(mh.list, b) /\ ~ Within(b, p, n)

(* The same, where they are given back.                                    *)
Given(mh, other, p, n) ==
  /\ Sound(other) /\ SameMemory(mh, other)
  /\ \A b \in Int : Covers(other.list, b) <=> Covers(mh.list, b) \/ Within(b, p, n)

(* The bytes of a block are in no free node.                               *)
Occupied(mh, p, n) ==
  /\ Multiple(p) /\ Multiple(n) /\ n > 0 /\ Inside(mh, p, n)
  /\ \A b \in Int : Within(b, p, n) => ~ Covers(mh.list, b)

(* A new memheader has one free node, that is all of its memory.           *)
LEMMA InitHead ==
  ASSUME NEW p, Multiple(p), p > 0, NEW size \in Int, size >= Align, NEW lowfrag \in BOOLEAN,
         NEW large \in BOOLEAN, NEW mh, mh = InitMemHead(p, size, lowfrag, large)
  PROVE  /\ Sound(mh) /\ mh.mem = p /\ mh.end = p + (size \div Align) * Align
         /\ mh.large = large /\ p < mh.end /\ mh.free = mh.end - p
         /\ \A b \in Int : Covers(mh.list, b) <=> p <= b /\ b < mh.end
<1>1. Align \in Nat \ {0} /\ p \in Int
  BY AlignAssumption DEF Multiple
<1>2. PICK n : n = (size \div Align) * Align
  OBVIOUS
<1>3. Multiple(n) /\ n \in Int /\ n <= size /\ size < n + Align
  BY <1>2, RoundedDown DEF Multiple
<1>4. n > 0
  <2>1. size \div Align >= 1
    BY <1>1
  <2>2. QED
    BY <1>1, <1>3, MultipleLeast, <1>2, <2>1
<1>5. mh = [mem |-> p, end |-> p + n, free |-> n, lowfrag |-> lowfrag, large |-> large,
            list |-> <<FreeNode(p, n)>>]
  BY <1>2 DEF InitMemHead
<1>6. PICK q : q = <<FreeNode(p, n)>>
  OBVIOUS
<1>7. /\ q \in Seq(NodeSet) /\ Len(q) = 1 /\ q[1].at = p /\ q[1].size = n
  BY <1>1, <1>3, <1>6 DEF FreeNode, NodeSet
<1>8. IsList(q, p, p + n)
  BY <1>1, <1>3, <1>4, <1>7 DEF IsList
<1>9. \A b \in Int : Covers(q, b) <=> p <= b /\ b < p + n
  BY <1>7 DEF Covers
<1>10. /\ mh.mem = p /\ mh.end = p + n /\ mh.free = n /\ mh.lowfrag = lowfrag
       /\ mh.large = large /\ mh.list = q
  BY <1>5, <1>6
<1>11. mh \in MemHeads
  BY <1>1, <1>3, <1>5, <1>6, <1>7 DEF MemHeads
<1>12. FreeSet(mh) = p..(p + n - 1)
  BY <1>1, <1>3, <1>9, <1>10 DEF FreeSet
<1>13. Cardinality(p..(p + n - 1)) = n
  <2>1. p + n - 1 \in Int
    BY <1>1, <1>3
  <2>2. Cardinality(p..(p + n - 1)) = IF p > p + n - 1 THEN 0 ELSE (p + n - 1) - p + 1
    BY <1>1, <2>1, FS_Interval
  <2>3. QED
    BY <1>1, <1>3, <1>4, <2>2
<1>14. Sound(mh)
  BY <1>1, <1>3, <1>4, <1>8, <1>10, <1>11, <1>12, <1>13 DEF Sound
<1>15. QED
  BY <1>1, <1>2, <1>3, <1>4, <1>9, <1>10, <1>14

(* The node a block is taken from has room for it.                         *)
LEMMA FitIs ==
  ASSUME NEW mh, Sound(mh), NEW n \in Int, Candidates(mh, n) # {}
  PROVE  Fit(mh, n) \in 1..Len(mh.list) /\ mh.list[Fit(mh, n)].size >= n
<1>1. IsList(mh.list, mh.mem, mh.end)
  BY SoundParts
<1>2. /\ DOMAIN mh.list = 1..Len(mh.list) /\ Len(mh.list) \in Nat
      /\ \A k \in 1..Len(mh.list) : mh.list[k].size \in Int /\ mh.list[k].size > 0
  BY <1>1, ListIs
<1>3. PICK C : C = Candidates(mh, n)
  OBVIOUS
<1>4. C = {i \in 1..Len(mh.list) : mh.list[i].size >= n}
  BY <1>2, <1>3 DEF Candidates
<1>5. C \in SUBSET Nat /\ C # {}
  BY <1>2, <1>3, <1>4
<1>6. CASE mh.lowfrag
  <2>1. PICK Z : Z = {mh.list[i].size : i \in C}
    OBVIOUS
  <2>a. \A i \in C : mh.list[i].size \in Nat
    BY <1>2, <1>4
  <2>2. Z \in SUBSET Nat /\ Z # {}
    BY <1>5, <2>1, <2>a
  <2>3. Min(Z) \in Z
    BY <2>2, MinIs
  <2>4. PICK B : B = {i \in C : mh.list[i].size = Min(Z)}
    OBVIOUS
  <2>5. B \in SUBSET Nat /\ B # {}
    BY <1>5, <2>1, <2>3, <2>4
  <2>6. Min(B) \in B
    BY <2>5, MinIs
  <2>7. Fit(mh, n) = Min(B)
    BY <1>3, <1>6, <2>1, <2>4 DEF Fit
  <2>8. QED
    BY <1>4, <2>4, <2>6, <2>7
<1>7. CASE ~ mh.lowfrag
  <2>1. Min(C) \in C
    BY <1>5, MinIs
  <2>2. Fit(mh, n) = Min(C)
    BY <1>3, <1>7 DEF Fit
  <2>3. QED
    BY <1>4, <2>1, <2>2
<1>8. QED
  BY <1>6, <1>7

(* The front of a free node is taken.                                      *)
LEMMA CutHead ==
  ASSUME NEW mh, Sound(mh), NEW i \in 1..Len(mh.list),
         NEW n, Multiple(n), 0 < n, n <= mh.list[i].size,
         NEW other, other = Relisted(mh, Cut(mh.list, i, n), mh.free - n)
  PROVE  Taken(mh, other, mh.list[i].at, n)
<1>1. IsList(mh.list, mh.mem, mh.end)
  BY SoundParts
<1>2. PICK q : q = Cut(mh.list, i, n)
  OBVIOUS
<1>3. PICK p : p = mh.list[i].at
  OBVIOUS
<1>4. /\ p \in Int /\ mh.list[i].size \in Int /\ Multiple(p)
      /\ mh.mem <= p /\ p + mh.list[i].size <= mh.end /\ mh.mem \in Int /\ mh.end \in Int
  BY <1>1, <1>3, ListIs
<1>5. n \in Nat
  BY DEF Multiple
<1>6. /\ IsList(q, mh.mem, mh.end)
      /\ \A b \in Int : Covers(q, b) <=> Covers(mh.list, b) /\ ~ Within(b, p, n)
  <2>1. PICK o : o = mh.list
    OBVIOUS
  <2>2. /\ IsList(Cut(o, i, n), mh.mem, mh.end)
        /\ \A b \in Int : Covers(Cut(o, i, n), b) <=>
             Covers(o, b) /\ ~ (o[i].at <= b /\ b < o[i].at + n)
    BY <1>1, <2>1, CutList
  <2>3. QED
    BY <1>2, <1>3, <2>1, <2>2 DEF Within
<1>7. ASSUME NEW b \in Int, Within(b, p, n) PROVE Covers(mh.list, b)
  <2>1. p <= b /\ b < p + n
    BY <1>7 DEF Within
  <2>2. mh.list[i].at <= b /\ b < mh.list[i].at + mh.list[i].size
    BY <1>3, <1>4, <1>5, <2>1
  <2>3. QED
    BY <2>2 DEF Covers
<1>8. Sound(other) /\ SameMemory(mh, other) /\ other.list = q
  <2>1. HasLess(mh, q, p, n)
    BY <1>4, <1>5, <1>6, <1>7 DEF HasLess
  <2>2. QED
    BY <1>2, <2>1, SoundLess
<1>9. Inside(mh, p, n)
  BY <1>4, <1>5 DEF Inside
<1>10. QED
  BY <1>3, <1>4, <1>6, <1>7, <1>8, <1>9 DEF Taken

(* exec_staticalloc                                                        *)
LEMMA AllocHead ==
  ASSUME NEW mh, Sound(mh), NEW size \in Int, size > 0, NEW a, a = StaticAlloc(mh, size)
  PROVE  \/ a.at = TNULL /\ a.mh = mh
         \/ a.at # TNULL /\ Taken(mh, a.mh, a.at, RoundUp(size))
<1>1. PICK n : n = RoundUp(size)
  OBVIOUS
<1>2. Multiple(n) /\ n \in Int /\ n > 0
  BY <1>1, Rounded DEF Multiple
<1>3. CASE mh.free < n \/ Candidates(mh, n) = {}
  BY <1>1, <1>3 DEF StaticAlloc
<1>4. CASE ~ (mh.free < n \/ Candidates(mh, n) = {})
  <2>1. PICK i : i = Fit(mh, n)
    OBVIOUS
  <2>2. i \in 1..Len(mh.list) /\ mh.list[i].size >= n
    BY <1>2, <1>4, <2>1, FitIs
  <2>3. a = [at |-> mh.list[i].at, mh |-> [mh EXCEPT !.list = Cut(@, i, n), !.free = @ - n]]
    BY <1>1, <1>4, <2>1 DEF StaticAlloc
  <2>4. [mh EXCEPT !.list = Cut(@, i, n), !.free = @ - n] = Relisted(mh, Cut(mh.list, i, n), mh.free - n)
    BY DEF Relisted
  <2>5. a.at = mh.list[i].at /\ a.mh = Relisted(mh, Cut(mh.list, i, n), mh.free - n)
    BY <2>3, <2>4
  <2>6. mh.list[i].size \in Int /\ mh.list[i].at \in Int /\ mh.mem <= mh.list[i].at
        /\ mh.mem > 0 /\ mh.mem \in Int
    BY <2>2, SoundParts, ListIs
  <2>7. Taken(mh, a.mh, a.at, n)
    BY <1>2, <2>2, <2>5, <2>6, CutHead
  <2>8. a.at # TNULL
    BY <2>5, <2>6 DEF TNULL
  <2>9. QED
    BY <1>1, <2>7, <2>8
<1>5. QED
  BY <1>3, <1>4

(* The place of a block that is freed.                                     *)
LEMMA PlaceForIs ==
  ASSUME NEW q, NEW lo, NEW hi, IsList(q, lo, hi), NEW p \in Int
  PROVE  /\ PlaceFor(q, p) \in 1..(Len(q) + 1)
         /\ \A i \in 1..Len(q) : i < PlaceFor(q, p) => q[i].at <= p
         /\ \A i \in 1..Len(q) : i >= PlaceFor(q, p) => p < q[i].at
<1>1. PICK m, L : m = Len(q) /\ L = {i \in DOMAIN q : p < q[i].at}
  OBVIOUS
<1>2. /\ m \in Nat /\ L = {i \in 1..m : p < q[i].at}
      /\ \A k \in 1..m : q[k].at \in Int /\ q[k].size \in Int /\ q[k].size > 0
      /\ \A k, j \in 1..m : k < j => q[k].at + q[k].size < q[j].at
  BY <1>1, ListIs
<1>3. CASE L = {}
  <2>1. PlaceFor(q, p) = m + 1
    BY <1>1, <1>3 DEF PlaceFor
  <2>2. \A i \in 1..m : q[i].at <= p
    BY <1>2, <1>3
  <2>3. \A i \in 1..m : ~ (i >= m + 1)
    BY <1>2
  <2>4. QED
    BY <1>1, <1>2, <2>1, <2>2, <2>3
<1>4. CASE L # {}
  <2>1. PICK l : l = Min(L)
    OBVIOUS
  <2>2. PlaceFor(q, p) = l
    BY <1>1, <1>4, <2>1 DEF PlaceFor
  <2>3. l \in L /\ \A k \in L : l <= k
    BY <1>2, <1>4, <2>1, MinIs
  <2>4. l \in 1..m /\ p < q[l].at
    BY <1>2, <2>3
  <2>5. ASSUME NEW i \in 1..m, i < l PROVE q[i].at <= p
    <3>1. i \notin L
      BY <1>2, <2>3, <2>4, <2>5
    <3>2. QED
      BY <1>2, <2>5, <3>1
  <2>6. ASSUME NEW i \in 1..m, i >= l PROVE p < q[i].at
    <3>1. CASE i = l
      BY <2>4, <3>1
    <3>2. CASE i # l
      <4>1. q[l].at + q[l].size < q[i].at
        BY <1>2, <2>4, <2>6, <3>2
      <4>2. QED
        BY <1>2, <2>4, <2>6, <4>1
    <3>3. QED
      BY <3>1, <3>2
  <2>7. QED
    BY <1>1, <1>2, <2>2, <2>4, <2>5, <2>6
<1>5. QED
  BY <1>3, <1>4

(* exec_staticfree                                                         *)
LEMMA FreeHead ==
  ASSUME NEW mh, Sound(mh), NEW p, NEW size \in Int, Occupied(mh, p, RoundUp(size)),
         NEW other, other = StaticFree(mh, p, size)
  PROVE  Given(mh, other, p, RoundUp(size))
<1>1. PICK n, x, k : n = RoundUp(size) /\ x = FreeNode(p, n) /\ k = PlaceFor(mh.list, p)
  OBVIOUS
<1>2. /\ p \in Int /\ n \in Nat /\ n > 0 /\ Multiple(p) /\ Multiple(n) /\ Inside(mh, p, n)
      /\ \A b \in Int : Within(b, p, n) => ~ Covers(mh.list, b)
  BY <1>1 DEF Occupied, Multiple
<1>3. x \in NodeSet /\ x.at = p /\ x.size = n
  BY <1>1, <1>2 DEF FreeNode, NodeSet
<1>4. IsList(mh.list, mh.mem, mh.end) /\ mh.mem \in Int /\ mh.end \in Int
  BY SoundParts
<1>5. Fits(mh.list, k, x, mh.mem, mh.end)
  <2>1. /\ k \in 1..(Len(mh.list) + 1)
        /\ \A i \in 1..Len(mh.list) : i < k => mh.list[i].at <= p
        /\ \A i \in 1..Len(mh.list) : i >= k => p < mh.list[i].at
    BY <1>1, <1>2, <1>4, PlaceForIs
  <2>2. QED
    BY <1>2, <1>3, <2>1 DEF Fits, Inside, Within
<1>6. PICK r, q : r = Insert(mh.list, k, x) /\ q = Merge(r, k)
  OBVIOUS
<1>7. /\ IsRow(r, mh.mem, mh.end, k) /\ k \in 1..Len(r)
      /\ \A b \in Int : Covers(r, b) <=> Covers(mh.list, b) \/ Within(b, p, n)
  <2>1. /\ IsRow(Insert(mh.list, k, x), mh.mem, mh.end, k) /\ k \in 1..Len(Insert(mh.list, k, x))
        /\ \A b \in Int : Covers(Insert(mh.list, k, x), b) <=>
             Covers(mh.list, b) \/ (x.at <= b /\ b < x.at + x.size)
    BY <1>4, <1>5, InsertRow
  <2>2. QED
    BY <1>3, <1>6, <2>1 DEF Within
<1>8. /\ IsList(q, mh.mem, mh.end)
      /\ \A b \in Int : Covers(q, b) <=> Covers(r, b)
  BY <1>6, <1>7, MergeRow
<1>9. other = Relisted(mh, q, mh.free + n)
  <2>1. other = [mh EXCEPT !.free = @ + n, !.list = Merge(Insert(@, k, x), k)]
    BY <1>1 DEF StaticFree
  <2>2. [mh EXCEPT !.free = @ + n, !.list = Merge(Insert(@, k, x), k)] = Relisted(mh, q, mh.free + n)
    <3>1. mh \in MemHeads
      BY DEF Sound
    <3>2. QED
      BY <1>6, <3>1 DEF Relisted, MemHeads
  <2>3. QED
    BY <2>1, <2>2
<1>10. \A b \in Int : Covers(q, b) <=> Covers(mh.list, b) \/ Within(b, p, n)
  BY <1>7, <1>8
<1>11. Sound(other) /\ SameMemory(mh, other) /\ other.list = q
  <2>1. HasMore(mh, q, p, n)
    BY <1>2, <1>8, <1>10 DEF HasMore
  <2>2. QED
    BY <1>9, <2>1, SoundMore
<1>12. QED
  BY <1>1, <1>10, <1>11 DEF Given

(* A block of old bytes at p has become one of new bytes at s.at, in       *)
(* memory that was its own or free; s.via is how the memory was when it    *)
(* was copied.                                                             *)
Resized(mh, s, p, old, new) ==
  /\ s.at # TNULL /\ Multiple(s.at) /\ Inside(mh, s.at, new)
  /\ Sound(s.mh) /\ SameMemory(mh, s.mh)
  /\ Sound(s.via) /\ SameMemory(mh, s.via)
  /\ \A b \in Int : Within(b, s.at, new) => Covers(mh.list, b) \/ Within(b, p, old)
  /\ \A b \in Int : Covers(s.mh.list, b) <=>
       (Covers(mh.list, b) \/ Within(b, p, old)) /\ ~ Within(b, s.at, new)
  /\ \A b \in Int : Covers(s.via.list, b) => Covers(mh.list, b)

(* It stays where it is, as large as it was.                               *)
LEMMA StaysResized ==
  ASSUME NEW mh, Sound(mh), NEW p, NEW n, Occupied(mh, p, n),
         NEW s, s = [at |-> p, mh |-> mh, via |-> mh]
  PROVE  Resized(mh, s, p, n, n)
<1>1. s.at = p /\ s.mh = mh /\ s.via = mh
  OBVIOUS
<1>2. /\ p \in Int /\ n \in Int /\ Multiple(p) /\ Inside(mh, p, n) /\ mh.mem \in Int /\ mh.mem > 0
      /\ \A b \in Int : Within(b, p, n) => ~ Covers(mh.list, b)
  BY SoundParts DEF Occupied, Multiple
<1>3. p # TNULL
  BY <1>2 DEF Inside, TNULL
<1>4. QED
  BY <1>1, <1>2, <1>3 DEF Resized, SameMemory

(* It is given the front of the node after it.                             *)
LEMMA ExtendResized ==
  ASSUME NEW mh, Sound(mh), NEW p, NEW old, NEW new, Occupied(mh, p, old), Multiple(new), new > old,
         NEW i \in 1..Len(mh.list), mh.list[i].at = p + old, mh.list[i].size >= new - old,
         NEW s, s = [at |-> p, mh |-> Extend(mh, i, new - old), via |-> mh]
  PROVE  Resized(mh, s, p, old, new)
<1>1. PICK d : d = new - old
  OBVIOUS
<1>2. /\ p \in Int /\ old \in Int /\ old > 0 /\ new \in Int /\ Multiple(p) /\ Multiple(old)
      /\ Inside(mh, p, old) /\ mh.mem \in Int /\ mh.mem > 0 /\ mh.end \in Int
      /\ \A b \in Int : Within(b, p, old) => ~ Covers(mh.list, b)
  BY SoundParts DEF Occupied, Multiple
<1>3. Multiple(d) /\ d \in Int /\ 0 < d /\ d <= mh.list[i].size
  <2>1. Multiple(d)
    BY <1>1, <1>2, MultipleSum
  <2>2. QED
    BY <1>1, <1>2, <2>1 DEF Multiple
<1>4. Extend(mh, i, d) = Relisted(mh, Cut(mh.list, i, d), mh.free - d)
  <2>1. mh \in MemHeads
    BY DEF Sound
  <2>2. QED
    BY <2>1 DEF Extend, Relisted, MemHeads
<1>5. PICK t : t = Extend(mh, i, d)
  OBVIOUS
<1>6. Taken(mh, t, p + old, d)
  BY <1>3, <1>4, <1>5, CutHead
<1>7. s.at = p /\ s.mh = t /\ s.via = mh
  BY <1>1, <1>5
<1>8. /\ Sound(t) /\ SameMemory(mh, t) /\ Inside(mh, p + old, d)
      /\ \A b \in Int : Within(b, p + old, d) => Covers(mh.list, b)
      /\ \A b \in Int : Covers(t.list, b) <=> Covers(mh.list, b) /\ ~ Within(b, p + old, d)
  BY <1>6 DEF Taken
<1>9. \A b \in Int : Within(b, p, new) <=> Within(b, p, old) \/ Within(b, p + old, d)
  BY <1>1, <1>2, <1>3 DEF Within
<1>10. Inside(mh, p, new) /\ p # TNULL
  BY <1>1, <1>2, <1>8 DEF Inside, TNULL
<1>11. \A b \in Int : Covers(t.list, b) <=>
         (Covers(mh.list, b) \/ Within(b, p, old)) /\ ~ Within(b, p, new)
  BY <1>2, <1>8, <1>9
<1>12. \A b \in Int : Within(b, p, new) => Covers(mh.list, b) \/ Within(b, p, old)
  BY <1>8, <1>9
<1>13. SameMemory(mh, mh)
  BY DEF SameMemory
<1>14. QED
  BY <1>2, <1>7, <1>8, <1>10, <1>11, <1>12, <1>13 DEF Resized

(* It gives its end to the node after it, or as a node of its own; the one *)
(* before it is not touched.                                               *)
LEMMA TruncateResized ==
  ASSUME NEW mh, Sound(mh), NEW p, NEW old, NEW new, Occupied(mh, p, old), Multiple(new),
         0 < new, new < old,
         NEW i \in 1..Len(mh.list), mh.list[i].at >= p + old,
         \A k \in 1..Len(mh.list) : mh.list[k].at >= p + old => i <= k,
         NEW s, s = [at |-> p, mh |-> Truncate(mh, i, p + old, old - new), via |-> mh]
  PROVE  Resized(mh, s, p, old, new)
<1>1. PICK d, x, q : /\ d = old - new /\ x = FreeNode((p + old) - d, d)
                     /\ q = Insert(mh.list, i, x)
  OBVIOUS
<1>2. /\ p \in Int /\ old \in Int /\ old > 0 /\ new \in Int /\ Multiple(p) /\ Multiple(old)
      /\ Inside(mh, p, old) /\ mh.mem \in Int /\ mh.mem > 0 /\ mh.end \in Int
      /\ \A b \in Int : Within(b, p, old) => ~ Covers(mh.list, b)
  BY SoundParts DEF Occupied, Multiple
<1>3. Multiple(d) /\ d \in Int /\ d > 0 /\ (p + old) - d = p + new /\ Multiple(p + new)
  <2>1. Multiple(d) /\ Multiple(p + new)
    BY <1>1, <1>2, MultipleSum
  <2>2. QED
    BY <1>1, <1>2, <2>1
<1>4. x \in NodeSet /\ x.at = p + new /\ x.size = d
  BY <1>1, <1>2, <1>3 DEF FreeNode, NodeSet
<1>5. PICK l, m : l = mh.list /\ m = Len(l)
  OBVIOUS
<1>a. /\ IsList(l, mh.mem, mh.end) /\ m \in Nat /\ i \in 1..m
      /\ l[i].at >= p + old /\ \A k \in 1..m : l[k].at >= p + old => i <= k
      /\ \A k \in 1..m : l[k].at \in Int /\ l[k].size \in Int /\ l[k].size > 0
      /\ \A k, j \in 1..m : k < j => l[k].at + l[k].size < l[j].at
  BY <1>5, SoundParts, ListIs
<1>6. ASSUME NEW k \in 1..m, k < i PROVE l[k].at + l[k].size <= p
  <2>1. l[k].at < p + old /\ l[k].at \in Int /\ l[k].size \in Int /\ l[k].size > 0
    BY <1>2, <1>a, <1>6, SMTT(20)
  <2>2. SUFFICES ASSUME p < l[k].at + l[k].size PROVE FALSE
    BY <1>2, <2>1, SMTT(20)
  <2>3. CASE l[k].at <= p
    <3>1. Covers(mh.list, p)
      BY <1>5, <2>2, <2>3 DEF Covers
    <3>2. Within(p, p, old)
      BY <1>2 DEF Within
    <3>3. QED
      BY <1>2, <3>1, <3>2
  <2>4. CASE p < l[k].at
    <3>1. PICK b : b = l[k].at
      OBVIOUS
    <3>2. b \in Int /\ b <= l[k].at /\ l[k].at <= b /\ b < l[k].at + l[k].size
      BY <2>1, <3>1
    <3>3. Covers(mh.list, b)
      BY <1>5, <3>2 DEF Covers
    <3>4. Within(b, p, old)
      BY <1>2, <2>1, <2>4, <3>1, <3>2 DEF Within
    <3>5. QED
      BY <1>2, <3>2, <3>3, <3>4
  <2>5. QED
    BY <1>2, <2>1, <2>3, <2>4
<1>7. Fits(l, i, x, mh.mem, mh.end)
  <2>1. i \in 1..(m + 1)
    BY <1>a
  <2>2. mh.mem <= x.at /\ x.at + x.size <= mh.end
    <3>1. mh.mem <= p /\ p + old <= mh.end /\ x.at + x.size = p + old
      BY <1>1, <1>2, <1>3, <1>4 DEF Inside
    <3>2. QED
      BY <1>2, <1>3, <1>4, <3>1, SMTT(20)
  <2>3. ASSUME NEW k \in 1..m, k < i PROVE l[k].at <= x.at
    <3>1. l[k].at + l[k].size <= p /\ l[k].at \in Int /\ l[k].size \in Int /\ l[k].size > 0
      BY <1>a, <1>6, <2>3
    <3>2. QED
      BY <1>2, <1>4, <3>1, SMTT(20)
  <2>4. ASSUME NEW k \in 1..m, k >= i PROVE x.at < l[k].at
    <3>1. l[i].at <= l[k].at /\ l[i].at \in Int /\ l[k].at \in Int
      <4>1. CASE i < k
        <5>1. l[i].at + l[i].size < l[k].at
          BY <1>a, <4>1
        <5>2. QED
          BY <1>a, <5>1
      <4>2. CASE i = k
        BY <1>a, <4>2
      <4>3. QED
        BY <1>a, <2>4, <4>1, <4>2
    <3>2. QED
      BY <1>2, <1>4, <1>a, <3>1
  <2>5. ASSUME NEW b \in Int, Covers(l, b), x.at <= b, b < x.at + x.size PROVE FALSE
    <3>1. p + new <= b /\ b < (p + new) + d
      BY <1>4, <2>5
    <3>2. p <= b /\ b < p + old
      BY <1>1, <1>2, <1>3, <3>1
    <3>3. QED
      BY <1>2, <1>5, <2>5, <3>2 DEF Within
  <2>6. QED
    BY <1>3, <1>4, <1>5, <2>1, <2>2, <2>3, <2>4, <2>5 DEF Fits
<1>8. /\ IsRow(q, mh.mem, mh.end, i) /\ i \in 1..Len(q)
      /\ \A b \in Int : Covers(q, b) <=> Covers(mh.list, b) \/ Within(b, p + new, d)
      /\ \A k \in 1..m : k < i => q[k] = l[k]
      /\ q[i].at = p + new
  BY <1>1, <1>4, <1>5, <1>a, <1>7, InsertRow, SMTT(20) DEF Within
<1>9. Merge(q, i) = q
  <2>1. SUFFICES ASSUME i > 1 PROVE q[i - 1].at + q[i - 1].size # q[i].at
    BY DEF Merge
  <2>2. i - 1 \in 1..m /\ i - 1 < i
    BY <1>a, <2>1
  <2>3. q[i - 1].at + q[i - 1].size <= p /\ q[i - 1].at \in Int /\ q[i - 1].size \in Int
    BY <1>a, <1>6, <1>8, <2>2
  <2>4. QED
    BY <1>2, <1>8, <2>3
<1>10. IsList(q, mh.mem, mh.end)
  BY <1>8, <1>9, MergeRow
<1>11. PICK t : t = Truncate(mh, i, p + old, d)
  OBVIOUS
<1>12. t = Relisted(mh, q, mh.free + d)
  <2>1. mh \in MemHeads
    BY DEF Sound
  <2>2. t = [mh EXCEPT !.free = @ + d, !.list = Insert(@, i, x)]
    BY <1>1, <1>11 DEF Truncate
  <2>3. [mh EXCEPT !.free = @ + d, !.list = Insert(@, i, x)] = Relisted(mh, q, mh.free + d)
    BY <1>1, <2>1 DEF Relisted, MemHeads
  <2>4. QED
    BY <2>2, <2>3
<1>13. Inside(mh, p + new, d) /\ Inside(mh, p, new) /\ p # TNULL
  <2>1. mh.mem <= p /\ p + old <= mh.end /\ new + d = old
    BY <1>1, <1>2 DEF Inside
  <2>2. /\ mh.mem <= p + new /\ (p + new) + d <= mh.end
        /\ p + new <= mh.end /\ p > 0
    BY <1>2, <1>3, <2>1, SMTT(20)
  <2>3. QED
    BY <1>2, <2>1, <2>2 DEF Inside, TNULL
<1>14. \A b \in Int : Within(b, p, old) <=> Within(b, p, new) \/ Within(b, p + new, d)
  BY <1>1, <1>2, <1>3, SMTT(20) DEF Within
<1>15. HasMore(mh, q, p + new, d)
  <2>1. p + new \in Int /\ d \in Nat
    BY <1>2, <1>3
  <2>2. \A b \in Int : Within(b, p + new, d) => ~ Covers(mh.list, b)
    BY <1>2, <1>14
  <2>3. QED
    BY <1>8, <1>10, <1>13, <2>1, <2>2 DEF HasMore
<1>16. Sound(t) /\ SameMemory(mh, t) /\ t.list = q
  BY <1>12, <1>15, SoundMore
<1>17. \A b \in Int : ~ (Within(b, p, new) /\ Within(b, p + new, d))
  BY <1>2, <1>3 DEF Within
<1>18. s.at = p /\ s.mh = t /\ s.via = mh
  BY <1>1, <1>11
<1>19. \A b \in Int : Covers(t.list, b) <=>
         (Covers(mh.list, b) \/ Within(b, p, old)) /\ ~ Within(b, p, new)
  BY <1>2, <1>8, <1>14, <1>16, <1>17
<1>20. SameMemory(mh, mh)
  BY DEF SameMemory
<1>21. QED
  BY <1>2, <1>13, <1>14, <1>16, <1>18, <1>19, <1>20 DEF Resized

(* It is copied to a new place, and the old one is freed.                  *)
LEMMA MoveResized ==
  ASSUME NEW mh, Sound(mh), NEW p, NEW size \in Int, NEW n \in Int, n > 0,
         Occupied(mh, p, RoundUp(size)), NEW s, s = Move(mh, p, RoundUp(size), RoundUp(n))
  PROVE  \/ s.at = TNULL /\ s.mh = mh
         \/ Resized(mh, s, p, RoundUp(size), RoundUp(n))
<1>1. PICK old, new : old = RoundUp(size) /\ new = RoundUp(n)
  OBVIOUS
<1>2. Multiple(old) /\ Multiple(new) /\ new \in Int /\ new > 0 /\ old \in Int
  BY <1>1, Rounded DEF Multiple
<1>3. RoundUp(old) = old /\ RoundUp(new) = new
  BY <1>2, RoundedMultiple
<1>4. PICK a : a = StaticAlloc(mh, new)
  OBVIOUS
<1>5. \/ a.at = TNULL /\ a.mh = mh
      \/ a.at # TNULL /\ Taken(mh, a.mh, a.at, new)
  BY <1>2, <1>3, <1>4, AllocHead
<1>6. CASE a.at = TNULL
  BY <1>1, <1>4, <1>6 DEF Move
<1>7. CASE a.at # TNULL
  <2>1. PICK t : t = StaticFree(a.mh, p, old)
    OBVIOUS
  <2>2. s.at = a.at /\ s.mh = t /\ s.via = a.mh
    BY <1>1, <1>4, <1>7, <2>1 DEF Move
  <2>3. /\ Sound(a.mh) /\ SameMemory(mh, a.mh) /\ Multiple(a.at) /\ Inside(mh, a.at, new)
        /\ \A b \in Int : Within(b, a.at, new) => Covers(mh.list, b)
        /\ \A b \in Int : Covers(a.mh.list, b) <=> Covers(mh.list, b) /\ ~ Within(b, a.at, new)
    BY <1>5, <1>7 DEF Taken
  <2>4. Occupied(a.mh, p, old)
    BY <1>1, <2>3 DEF Occupied, Inside, SameMemory
  <2>5. Given(a.mh, t, p, old)
    BY <1>2, <1>3, <2>1, <2>3, <2>4, FreeHead
  <2>6. /\ Sound(t) /\ SameMemory(a.mh, t)
        /\ \A b \in Int : Covers(t.list, b) <=> Covers(a.mh.list, b) \/ Within(b, p, old)
    BY <2>5 DEF Given
  <2>7. \A b \in Int : Within(b, p, old) => ~ Covers(mh.list, b)
    BY <1>1 DEF Occupied
  <2>8. \A b \in Int : Covers(t.list, b) <=>
          (Covers(mh.list, b) \/ Within(b, p, old)) /\ ~ Within(b, a.at, new)
    BY <2>3, <2>6, <2>7
  <2>9. SameMemory(mh, t)
    BY <2>3, <2>6 DEF SameMemory
  <2>10. Resized(mh, s, p, old, new)
    BY <1>7, <2>2, <2>3, <2>6, <2>8, <2>9 DEF Resized
  <2>11. QED
    BY <1>1, <2>10
<1>8. QED
  BY <1>6, <1>7

(* exec_staticrealloc                                                      *)
LEMMA ReallocHead ==
  ASSUME NEW mh, Sound(mh), NEW p, NEW size \in Int, NEW n \in Int, n > 0,
         Occupied(mh, p, RoundUp(size)), NEW s, s = StaticRealloc(mh, p, size, n)
  PROVE  \/ s.at = TNULL /\ s.mh = mh
         \/ Resized(mh, s, p, RoundUp(size), RoundUp(n))
<1>1. PICK old, new : old = RoundUp(size) /\ new = RoundUp(n)
  OBVIOUS
<1>2. /\ Multiple(new) /\ new \in Int /\ new > 0 /\ old \in Int /\ p \in Int
      /\ Occupied(mh, p, old)
  BY <1>1, Rounded DEF Multiple, Occupied
<1>3. PICK L, i : L = {j \in DOMAIN mh.list : mh.list[j].at >= p + old} /\ i = Min(L)
  OBVIOUS
<1>4. Len(mh.list) \in Nat /\ DOMAIN mh.list = 1..Len(mh.list)
  BY SoundParts, ListIs
<1>5. L # {} => /\ i \in 1..Len(mh.list) /\ mh.list[i].at >= p + old
                /\ \A k \in 1..Len(mh.list) : mh.list[k].at >= p + old => i <= k
  <2>1. L \in SUBSET Nat
    BY <1>3, <1>4
  <2>2. L # {} => i \in L /\ \A k \in L : i <= k
    BY <1>3, <2>1, MinIs
  <2>3. QED
    BY <1>3, <1>4, <2>2
<1>6. s = CASE new = old -> [at |-> p, mh |-> mh, via |-> mh]
            [] new > old /\ L # {} /\ mh.list[i].at = p + old
                 /\ mh.list[i].size >= new - old ->
                   [at |-> p, mh |-> Extend(mh, i, new - old), via |-> mh]
            [] new < old /\ L # {} ->
                   [at |-> p, mh |-> Truncate(mh, i, p + old, old - new), via |-> mh]
            [] OTHER -> Move(mh, p, old, new)
  BY <1>1, <1>3 DEF StaticRealloc
<1>7. CASE new = old
  <2>1. s = [at |-> p, mh |-> mh, via |-> mh]
    BY <1>2, <1>6, <1>7
  <2>2. QED
    BY <1>1, <1>2, <1>7, <2>1, StaysResized
<1>8. CASE new > old /\ L # {} /\ mh.list[i].at = p + old /\ mh.list[i].size >= new - old
  <2>1. s = [at |-> p, mh |-> Extend(mh, i, new - old), via |-> mh]
    BY <1>2, <1>6, <1>8
  <2>2. Resized(mh, s, p, old, new)
    BY <1>2, <1>5, <1>8, <2>1, ExtendResized
  <2>3. QED
    BY <1>1, <2>2
<1>9. CASE new < old /\ L # {}
  <2>1. s = [at |-> p, mh |-> Truncate(mh, i, p + old, old - new), via |-> mh]
    BY <1>2, <1>6, <1>9
  <2>2. Resized(mh, s, p, old, new)
    BY <1>2, <1>5, <1>9, <2>1, TruncateResized
  <2>3. QED
    BY <1>1, <2>2
<1>10. CASE /\ new # old
            /\ ~ (new > old /\ L # {} /\ mh.list[i].at = p + old /\ mh.list[i].size >= new - old)
            /\ ~ (new < old /\ L # {})
  <2>1. s = Move(mh, p, old, new)
    BY <1>2, <1>6, <1>10
  <2>2. QED
    BY <1>1, <2>1, MoveResized
<1>11. QED
  BY <1>7, <1>8, <1>9, <1>10

-----------------------------------------------------------------------------
(***************************************************************************)
(* Pools: a set of puddles, each with a static allocator, and the blocks   *)
(* in them.                                                                *)
(***************************************************************************)

(* Puddles and the blocks in them: h[r] is the memheader of the puddle in  *)
(* the piece of memory r, bl[q] the bytes that the block at q takes.       *)
Heads(h) ==
  /\ DOMAIN h \subseteq Nat \ {0}
  /\ \A r \in DOMAIN h : /\ Sound(h[r]) /\ h[r].mem = Memory(r)
                         /\ h[r].end <= Memory(r) + Span

(* Blocks do not overlap.                                                  *)
AreApart(bl, p, q) == p + bl[p] <= q \/ q + bl[q] <= p

(* Each block is in a puddle, and apart from the others.                   *)
Blocks(h, bl) ==
  /\ \A q \in DOMAIN bl : /\ Multiple(q) /\ Multiple(bl[q]) /\ bl[q] > 0
                          /\ \E r \in DOMAIN h : Inside(h[r], q, bl[q])
  /\ \A p, q \in DOMAIN bl : p # q => AreApart(bl, p, q)

(* The byte b is in one of the blocks at D.                                *)
InBlock(D, bl, b) == \E q \in D : Within(b, q, bl[q])

(* The byte b is one of the memheader's.                                   *)
InMemory(mh, b) == mh.mem <= b /\ b < mh.end

(* Every byte of a puddle is either free or in a block.                    *)
Tiled(h, bl) ==
  /\ Heads(h) /\ Blocks(h, bl)
  /\ \A r \in DOMAIN h : \A b \in Int : InMemory(h[r], b) =>
       (Covers(h[r].list, b) <=> ~ InBlock(DOMAIN bl, bl, b))

(* Pieces of memory are apart.                                             *)
LEMMA MemoryApart ==
  ASSUME NEW r \in Nat, NEW s \in Nat, NEW b \in Int, Memory(r) <= b, b < Memory(r) + Span,
         Memory(s) <= b, b < Memory(s) + Span
  PROVE  r = s
<1>1. Span \in Nat
  BY SpanAssumption
<1>2. ASSUME NEW x \in Nat, NEW y \in Nat, x < y PROVE Memory(x) + Span <= Memory(y)
  <2>1. x + 1 <= y
    BY <1>2
  <2>2. (x + 1) * Span <= y * Span
    BY <1>1, <2>1
  <2>3. (x + 1) * Span = x * Span + Span
    BY <1>1
  <2>4. QED
    BY <2>2, <2>3 DEF Memory
<1>3. Memory(r) \in Int /\ Memory(s) \in Int
  BY <1>1 DEF Memory
<1>4. ~ (r < s)
  <2>1. SUFFICES ASSUME r < s PROVE FALSE
    OBVIOUS
  <2>2. Memory(r) + Span <= Memory(s)
    BY <1>2, <2>1
  <2>3. QED
    BY <1>1, <1>3, <2>2
<1>5. ~ (s < r)
  <2>1. SUFFICES ASSUME s < r PROVE FALSE
    OBVIOUS
  <2>2. Memory(s) + Span <= Memory(r)
    BY <1>2, <2>1
  <2>3. QED
    BY <1>1, <1>3, <2>2
<1>6. QED
  BY <1>4, <1>5

(* A piece of memory is not at 0, and is aligned.                          *)
LEMMA MemoryIs ==
  ASSUME NEW r \in Nat \ {0} PROVE Memory(r) \in Nat /\ Memory(r) > 0 /\ Multiple(Memory(r))
<1>1. Span \in Nat \ {0} /\ Span % Align = 0 /\ Align \in Nat \ {0}
  BY SpanAssumption, AlignAssumption
<1>2. r * Span \in Nat /\ r * Span > 0
  <2>1. r >= 1
    OBVIOUS
  <2>2. r * Span >= 1 * Span
    BY <1>1, <2>1
  <2>3. QED
    BY <1>1, <2>2
<1>3. PICK k \in Int : Span = k * Align
  BY <1>1, MultipleIs DEF Multiple
<1>4. r * Span = (r * k) * Align /\ r * k \in Int
  BY <1>1, <1>3
<1>5. QED
  BY <1>2, <1>4, MultipleIs DEF Memory

(* So are the memories of puddles.                                         *)
LEMMA HeadsApart ==
  ASSUME NEW h, Heads(h), NEW r \in DOMAIN h, NEW s \in DOMAIN h, NEW b \in Int,
         InMemory(h[r], b), InMemory(h[s], b)
  PROVE  r = s
<1>1. /\ r \in Nat \ {0} /\ s \in Nat \ {0} /\ h[r].end \in Int /\ h[s].end \in Int
      /\ h[r].mem = Memory(r) /\ h[r].end <= Memory(r) + Span
      /\ h[s].mem = Memory(s) /\ h[s].end <= Memory(s) + Span
  BY SoundParts DEF Heads
<1>2. Span \in Int /\ Memory(r) \in Int /\ Memory(s) \in Int
  BY <1>1, MemoryIs, SpanAssumption
<1>3. Memory(r) <= b /\ b < Memory(r) + Span /\ Memory(s) <= b /\ b < Memory(s) + Span
  BY <1>1, <1>2 DEF InMemory
<1>4. QED
  BY <1>1, <1>3, MemoryApart

(* The first byte of a block is one of its bytes, and in its puddle.       *)
LEMMA BlockIs ==
  ASSUME NEW h, NEW bl, Heads(h), Blocks(h, bl), NEW q \in DOMAIN bl
  PROVE  /\ q \in Int /\ bl[q] \in Int /\ bl[q] > 0 /\ Within(q, q, bl[q])
         /\ \A r \in DOMAIN h : Inside(h[r], q, bl[q]) =>
              \A b \in Int : Within(b, q, bl[q]) => InMemory(h[r], b)
<1>1. q \in Int /\ bl[q] \in Int /\ bl[q] > 0
  BY DEF Blocks, Multiple
<1>2. Within(q, q, bl[q])
  BY <1>1 DEF Within
<1>3. ASSUME NEW r \in DOMAIN h, Inside(h[r], q, bl[q]), NEW b \in Int, Within(b, q, bl[q])
      PROVE  InMemory(h[r], b)
  <2>1. h[r].mem \in Int /\ h[r].end \in Int
    BY SoundParts DEF Heads
  <2>2. QED
    BY <1>1, <1>3, <2>1 DEF Inside, Within, InMemory
<1>4. QED
  BY <1>1, <1>2, <1>3

(* What is known of a change of one puddle: the blocks at gone are no      *)
(* longer there, those at made are new.                                    *)
Replaces(h, bl, r, mh, bm, gone, made) ==
  /\ Sound(mh) /\ SameMemory(h[r], mh)
  /\ gone \subseteq DOMAIN bl /\ DOMAIN bm = (DOMAIN bl \ gone) \cup made
  /\ \A q \in DOMAIN bm : q \notin made => bm[q] = bl[q]
  /\ \A q \in gone : Inside(h[r], q, bl[q])
  /\ \A q \in made : Multiple(q) /\ Multiple(bm[q]) /\ bm[q] > 0 /\ Inside(h[r], q, bm[q])
  /\ \A p, q \in made : p = q
  /\ \A b \in Int : InBlock(made, bm, b) => Covers(h[r].list, b) \/ InBlock(gone, bl, b)
  /\ \A b \in Int : Covers(mh.list, b) <=>
       (Covers(h[r].list, b) \/ InBlock(gone, bl, b)) /\ ~ InBlock(made, bm, b)

(* That is so after one puddle has changed.                                *)
LEMMA Replaced ==
  ASSUME NEW h, NEW bl, Tiled(h, bl), NEW r \in DOMAIN h, NEW k, DOMAIN k = DOMAIN h,
         \A s \in DOMAIN h : s # r => k[s] = h[s],
         NEW bm, NEW gone, NEW made, Replaces(h, bl, r, k[r], bm, gone, made)
  PROVE  Tiled(k, bm) /\ (DOMAIN bl \ gone) \cap made = {}
<1>1. /\ Heads(h) /\ Blocks(h, bl)
      /\ \A s \in DOMAIN h : \A b \in Int : InMemory(h[s], b) =>
           (Covers(h[s].list, b) <=> ~ InBlock(DOMAIN bl, bl, b))
  BY DEF Tiled
<1>2. /\ \A s \in DOMAIN h : k[s].mem = h[s].mem /\ k[s].end = h[s].end
      /\ \A s \in DOMAIN h : \A b : InMemory(k[s], b) <=> InMemory(h[s], b)
      /\ \A s \in DOMAIN h : \A p, n : Inside(k[s], p, n) <=> Inside(h[s], p, n)
  <2>1. \A s \in DOMAIN h : k[s].mem = h[s].mem /\ k[s].end = h[s].end
    BY DEF Replaces, SameMemory
  <2>2. QED
    BY <2>1 DEF InMemory, Inside
<1>3. Heads(k)
  BY <1>1, <1>2 DEF Heads, Replaces
<1>4. PICK kept : kept = DOMAIN bl \ gone
  OBVIOUS
<1>5. /\ gone \subseteq DOMAIN bl /\ DOMAIN bm = kept \cup made
      /\ \A q \in DOMAIN bm : q \notin made => bm[q] = bl[q]
      /\ \A q \in gone : Inside(h[r], q, bl[q])
      /\ \A q \in made : Multiple(q) /\ Multiple(bm[q]) /\ bm[q] > 0 /\ Inside(h[r], q, bm[q])
      /\ \A p, q \in made : p = q
      /\ \A b \in Int : InBlock(made, bm, b) => Covers(h[r].list, b) \/ InBlock(gone, bl, b)
      /\ \A b \in Int : Covers(k[r].list, b) <=>
           (Covers(h[r].list, b) \/ InBlock(gone, bl, b)) /\ ~ InBlock(made, bm, b)
  BY <1>4 DEF Replaces
<1>6. \A p, q \in DOMAIN bl : \A b \in Int :
        Within(b, p, bl[p]) /\ Within(b, q, bl[q]) => p = q
  <2>1. SUFFICES ASSUME NEW p \in DOMAIN bl, NEW q \in DOMAIN bl, NEW b \in Int,
                        Within(b, p, bl[p]), Within(b, q, bl[q]), p # q
                 PROVE  FALSE
    OBVIOUS
  <2>2. p \in Int /\ q \in Int /\ bl[p] \in Int /\ bl[q] \in Int
    BY <1>1, BlockIs
  <2>3. AreApart(bl, p, q)
    BY <1>1, <2>1 DEF Blocks
  <2>4. QED
    BY <2>1, <2>2, <2>3 DEF AreApart, Within
<1>7. \A b \in Int : InBlock(kept, bl, b) => ~ InBlock(gone, bl, b)
  BY <1>4, <1>5, <1>6 DEF InBlock
<1>8. \A b \in Int : InBlock(gone, bl, b) \/ InBlock(made, bm, b) => InMemory(h[r], b)
  <2>1. h[r].mem \in Int /\ h[r].end \in Int
    BY <1>1, SoundParts DEF Heads
  <2>2. \A q \in gone : \A b \in Int : Within(b, q, bl[q]) => InMemory(h[r], b)
    BY <1>1, <1>5, BlockIs
  <2>3. ASSUME NEW q \in made, NEW b \in Int, Within(b, q, bm[q]) PROVE InMemory(h[r], b)
    <3>1. q \in Int /\ bm[q] \in Int /\ Inside(h[r], q, bm[q])
      BY <1>5 DEF Multiple
    <3>2. QED
      BY <2>1, <2>3, <3>1 DEF Within, Inside, InMemory
  <2>4. QED
    BY <2>2, <2>3 DEF InBlock
<1>9. \A b \in Int : InBlock(kept, bl, b) => ~ InBlock(made, bm, b)
  <2>1. SUFFICES ASSUME NEW b \in Int, InBlock(kept, bl, b), InBlock(made, bm, b) PROVE FALSE
    OBVIOUS
  <2>2. InBlock(DOMAIN bl, bl, b)
    BY <1>4, <2>1 DEF InBlock
  <2>3. ~ Covers(h[r].list, b)
    BY <1>1, <1>8, <2>1, <2>2
  <2>4. QED
    BY <1>5, <1>7, <2>1, <2>3
<1>10. kept \cap made = {}
  <2>1. SUFFICES ASSUME NEW q \in kept, q \in made PROVE FALSE
    OBVIOUS
  <2>2. q \in Int /\ Within(q, q, bl[q])
    BY <1>1, <1>4, BlockIs
  <2>3. Within(q, q, bm[q])
    BY <1>5, <2>1, <2>2 DEF Within, Multiple
  <2>4. QED
    BY <1>9, <2>1, <2>2, <2>3 DEF InBlock
<1>11. \A q \in kept : q \in DOMAIN bl /\ bm[q] = bl[q]
  BY <1>4, <1>5, <1>10
<1>12. \A b : InBlock(DOMAIN bm, bm, b) <=> InBlock(kept, bl, b) \/ InBlock(made, bm, b)
  BY <1>5, <1>11 DEF InBlock
<1>13. \A b : InBlock(DOMAIN bl, bl, b) <=> InBlock(kept, bl, b) \/ InBlock(gone, bl, b)
  BY <1>4, <1>5 DEF InBlock
<1>14. Blocks(k, bm)
  <2>1. ASSUME NEW q \in DOMAIN bm
        PROVE  /\ Multiple(q) /\ Multiple(bm[q]) /\ bm[q] > 0
               /\ \E s \in DOMAIN k : Inside(k[s], q, bm[q])
    <3>1. CASE q \in made
      BY <1>2, <1>5, <3>1
    <3>2. CASE q \in kept
      <4>1. /\ Multiple(q) /\ Multiple(bl[q]) /\ bl[q] > 0
            /\ \E s \in DOMAIN h : Inside(h[s], q, bl[q])
        BY <1>1, <1>11, <3>2 DEF Blocks
      <4>2. QED
        BY <1>2, <1>11, <3>2, <4>1
    <3>3. QED
      BY <1>5, <2>1, <3>1, <3>2
  <2>2. ASSUME NEW p \in kept, NEW q \in made PROVE AreApart(bm, p, q) /\ AreApart(bm, q, p)
    <3>1. /\ p \in Int /\ bm[p] \in Int /\ bm[p] > 0 /\ bm[p] = bl[p]
          /\ q \in Int /\ bm[q] \in Int /\ bm[q] > 0
      BY <1>1, <1>5, <1>11, BlockIs DEF Multiple
    <3>2. SUFFICES ASSUME ~ (p + bm[p] <= q), ~ (q + bm[q] <= p) PROVE FALSE
      BY <3>1 DEF AreApart
    <3>3. \E b \in Int : Within(b, p, bm[p]) /\ Within(b, q, bm[q])
      <4>1. CASE p <= q
        <5>1. Within(q, p, bm[p]) /\ Within(q, q, bm[q])
          BY <3>1, <3>2, <4>1 DEF Within
        <5>2. QED
          BY <3>1, <5>1
      <4>2. CASE q <= p
        <5>1. Within(p, p, bm[p]) /\ Within(p, q, bm[q])
          BY <3>1, <3>2, <4>2 DEF Within
        <5>2. QED
          BY <3>1, <5>1
      <4>3. QED
        BY <3>1, <4>1, <4>2
    <3>4. QED
      BY <1>9, <3>1, <3>3 DEF InBlock
  <2>3. ASSUME NEW p \in DOMAIN bm, NEW q \in DOMAIN bm, p # q PROVE AreApart(bm, p, q)
    <3>1. CASE p \in kept /\ q \in kept
      <4>1. AreApart(bl, p, q)
        BY <1>1, <1>11, <2>3, <3>1 DEF Blocks
      <4>2. QED
        BY <1>11, <3>1, <4>1 DEF AreApart
    <3>2. QED
      BY <1>5, <2>2, <2>3, <3>1
  <2>4. QED
    BY <2>1, <2>3 DEF Blocks
<1>15. ASSUME NEW s \in DOMAIN k, NEW b \in Int, InMemory(k[s], b)
       PROVE  Covers(k[s].list, b) <=> ~ InBlock(DOMAIN bm, bm, b)
  <2>1. InMemory(h[s], b) /\ (Covers(h[s].list, b) <=> ~ InBlock(DOMAIN bl, bl, b))
    BY <1>1, <1>2, <1>15
  <2>2. CASE s = r
    BY <1>5, <1>7, <1>12, <1>13, <2>1, <2>2
  <2>3. CASE s # r
    <3>1. ~ InMemory(h[r], b)
      BY <1>1, <2>1, <2>3, HeadsApart
    <3>2. ~ InBlock(gone, bl, b) /\ ~ InBlock(made, bm, b)
      BY <1>8, <3>1
    <3>3. QED
      BY <1>12, <1>13, <2>1, <2>3, <3>2
  <2>4. QED
    BY <2>2, <2>3
<1>16. QED
  BY <1>3, <1>4, <1>10, <1>14, <1>15 DEF Tiled

(* A puddle without blocks is added.                                       *)
LEMMA PuddleAdded ==
  ASSUME NEW h, NEW bl, Tiled(h, bl), NEW r \in Nat \ {0}, r \notin DOMAIN h,
         NEW k, DOMAIN k = DOMAIN h \cup {r}, \A s \in DOMAIN h : k[s] = h[s],
         Sound(k[r]), k[r].mem = Memory(r), k[r].end <= Memory(r) + Span,
         \A b \in Int : InMemory(k[r], b) => Covers(k[r].list, b)
  PROVE  Tiled(k, bl)
<1>1. /\ Heads(h) /\ Blocks(h, bl)
      /\ \A s \in DOMAIN h : \A b \in Int : InMemory(h[s], b) =>
           (Covers(h[s].list, b) <=> ~ InBlock(DOMAIN bl, bl, b))
  BY DEF Tiled
<1>2. Heads(k)
  BY <1>1 DEF Heads
<1>3. Blocks(k, bl)
  BY <1>1 DEF Blocks
<1>4. ASSUME NEW b \in Int, InMemory(k[r], b) PROVE ~ InBlock(DOMAIN bl, bl, b)
  <2>1. SUFFICES ASSUME InBlock(DOMAIN bl, bl, b) PROVE FALSE
    OBVIOUS
  <2>2. PICK q \in DOMAIN bl : Within(b, q, bl[q])
    BY <2>1 DEF InBlock
  <2>3. PICK s \in DOMAIN h : Inside(h[s], q, bl[q])
    BY <1>1 DEF Blocks
  <2>4. InMemory(h[s], b)
    BY <1>1, <2>2, <2>3, BlockIs
  <2>5. s = r
    BY <1>2, <1>4, <2>4, HeadsApart
  <2>6. QED
    BY <2>5
<1>5. QED
  BY <1>1, <1>2, <1>3, <1>4 DEF Tiled

(* A puddle that is free is given back.                                    *)
LEMMA PuddleDropped ==
  ASSUME NEW h, NEW bl, Tiled(h, bl), NEW r \in DOMAIN h,
         \A b \in Int : InMemory(h[r], b) => Covers(h[r].list, b),
         NEW k, DOMAIN k = DOMAIN h \ {r}, \A s \in DOMAIN k : k[s] = h[s]
  PROVE  Tiled(k, bl)
<1>1. /\ Heads(h) /\ Blocks(h, bl)
      /\ \A s \in DOMAIN h : \A b \in Int : InMemory(h[s], b) =>
           (Covers(h[s].list, b) <=> ~ InBlock(DOMAIN bl, bl, b))
  BY DEF Tiled
<1>2. Heads(k)
  BY <1>1 DEF Heads
<1>3. ASSUME NEW q \in DOMAIN bl PROVE ~ Inside(h[r], q, bl[q])
  <2>1. SUFFICES ASSUME Inside(h[r], q, bl[q]) PROVE FALSE
    OBVIOUS
  <2>2. q \in Int /\ Within(q, q, bl[q]) /\ InMemory(h[r], q)
    BY <1>1, <2>1, BlockIs
  <2>3. InBlock(DOMAIN bl, bl, q)
    BY <2>2 DEF InBlock
  <2>4. QED
    BY <1>1, <2>2, <2>3
<1>4. Blocks(k, bl)
  <2>1. ASSUME NEW q \in DOMAIN bl PROVE \E s \in DOMAIN k : Inside(k[s], q, bl[q])
    <3>1. PICK s \in DOMAIN h : Inside(h[s], q, bl[q])
      BY <1>1 DEF Blocks
    <3>2. s # r
      BY <1>3, <3>1
    <3>3. QED
      BY <3>1, <3>2
  <2>2. QED
    BY <1>1, <2>1 DEF Blocks
<1>5. QED
  BY <1>1, <1>2, <1>4 DEF Tiled

(* The list of a pool's puddles D, with the large ones L at its end.       *)
Ordered(q, D, L) ==
  /\ q \in Seq(Nat) /\ \A i \in 1..Len(q) : q[i] \in D
  /\ \A r \in D : \E i \in 1..Len(q) : q[i] = r
  /\ \A i, j \in 1..Len(q) : i # j => q[i] # q[j]
  /\ \A i, j \in 1..Len(q) : i < j /\ q[i] \in L => q[j] \in L

(* Such a list is one of all of D.                                         *)
LEMMA OrderedIs ==
  ASSUME NEW q, NEW D, NEW L, Ordered(q, D, L)
  PROVE  /\ Len(q) \in Nat /\ DOMAIN q = 1..Len(q) /\ Range(q) = D
         /\ \A r \in D : r \in Nat
<1>1. /\ q \in Seq(Nat) /\ \A i \in 1..Len(q) : q[i] \in D
      /\ \A r \in D : \E i \in 1..Len(q) : q[i] = r
  BY DEF Ordered
<1>2. Len(q) \in Nat /\ DOMAIN q = 1..Len(q) /\ \A i \in 1..Len(q) : q[i] \in Nat
  BY <1>1
<1>3. QED
  BY <1>1, <1>2 DEF Range

(* A large puddle is added at the tail, ...                                *)
LEMMA OrderedLast ==
  ASSUME NEW q, NEW D, NEW L, Ordered(q, D, L), NEW r \in Nat, r \notin D
  PROVE  Ordered(Append(q, r), D \cup {r}, L \cup {r})
<1>1. PICK m, s : m = Len(q) /\ s = Append(q, r)
  OBVIOUS
<1>2. q \in Seq(Nat)
  BY DEF Ordered
<1>3. /\ m \in Nat /\ s \in Seq(Nat) /\ Len(s) = m + 1 /\ s[m + 1] = r
      /\ \A i \in 1..m : s[i] = q[i]
  BY <1>1, <1>2, AppendProperties
<1>4. \A i \in 1..(m + 1) : i = m + 1 \/ i \in 1..m
  BY <1>3
<1>5. \A i \in 1..(m + 1) : s[i] \in D \cup {r}
  BY <1>1, <1>3, <1>4 DEF Ordered
<1>6. \A x \in D \cup {r} : \E i \in 1..(m + 1) : s[i] = x
  <2>1. m + 1 \in 1..(m + 1) /\ \A i \in 1..m : i \in 1..(m + 1)
    BY <1>3
  <2>2. QED
    BY <1>1, <1>3, <2>1 DEF Ordered
<1>7. \A i, j \in 1..(m + 1) : i # j => s[i] # s[j]
  BY <1>1, <1>3, <1>4 DEF Ordered
<1>8. ASSUME NEW i \in 1..(m + 1), NEW j \in 1..(m + 1), i < j, s[i] \in L \cup {r}
      PROVE  s[j] \in L \cup {r}
  <2>1. i \in 1..m /\ (j = m + 1 \/ j \in 1..m)
    BY <1>3, <1>8
  <2>2. q[i] \in D /\ q[i] # r
    BY <1>1, <2>1 DEF Ordered
  <2>3. QED
    BY <1>1, <1>3, <1>8, <2>1, <2>2 DEF Ordered
<1>9. \A i, j \in 1..(m + 1) : i < j /\ s[i] \in L \cup {r} => s[j] \in L \cup {r}
  BY <1>8
<1>10. QED
  BY <1>1, <1>3, <1>5, <1>6, <1>7, <1>9, SMTT(20) DEF Ordered

(* ... a regular one at the head.                                          *)
LEMMA OrderedFirst ==
  ASSUME NEW q, NEW D, NEW L, Ordered(q, D, L), NEW r \in Nat, r \notin D
  PROVE  Ordered(<<r>> \o q, D \cup {r}, L \ {r})
<1>1. PICK m, s : m = Len(q) /\ s = <<r>> \o q
  OBVIOUS
<1>2. q \in Seq(Nat) /\ <<r>> \in Seq(Nat) /\ Len(<<r>>) = 1
  BY DEF Ordered
<1>3. /\ m \in Nat /\ s \in Seq(Nat) /\ Len(s) = m + 1
      /\ \A i \in 1..(m + 1) : s[i] = IF i <= 1 THEN r ELSE q[i - 1]
  <2>1. m \in Nat
    BY <1>1, <1>2
  <2>2. /\ s \in Seq(Nat) /\ Len(s) = Len(<<r>>) + Len(q)
        /\ \A i \in 1..(Len(<<r>>) + Len(q)) : s[i] =
             IF i <= Len(<<r>>) THEN <<r>>[i] ELSE q[i - Len(<<r>>)]
    BY <1>1, <1>2, ConcatProperties
  <2>3. Len(<<r>>) + Len(q) = m + 1
    BY <1>1, <1>2, <2>1
  <2>4. \A i \in 1..(m + 1) : i <= 1 => i = 1
    BY <2>1
  <2>5. QED
    BY <1>2, <2>1, <2>2, <2>3, <2>4
<1>4. \A i \in 1..(m + 1) : \/ i = 1 /\ s[i] = r
                            \/ i > 1 /\ i - 1 \in 1..m /\ s[i] = q[i - 1]
  BY <1>3
<1>5. \A i \in 1..(m + 1) : s[i] \in D \cup {r}
  BY <1>1, <1>4 DEF Ordered
<1>6. \A x \in D \cup {r} : \E i \in 1..(m + 1) : s[i] = x
  <2>1. 1 \in 1..(m + 1) /\ s[1] = r
    BY <1>3
  <2>2. ASSUME NEW i \in 1..m PROVE i + 1 \in 1..(m + 1) /\ s[i + 1] = q[i]
    <3>1. i + 1 \in 1..(m + 1) /\ ~ (i + 1 <= 1) /\ (i + 1) - 1 = i
      BY <1>3
    <3>2. QED
      BY <1>3, <3>1
  <2>3. ASSUME NEW x \in D PROVE \E i \in 1..(m + 1) : s[i] = x
    <3>1. PICK i \in 1..m : q[i] = x
      BY <1>1 DEF Ordered
    <3>2. QED
      BY <2>2, <3>1
  <2>4. QED
    BY <2>1, <2>3
<1>7. ASSUME NEW i \in 1..(m + 1), NEW j \in 1..(m + 1), i # j PROVE s[i] # s[j]
  <2>1. CASE i = 1 \/ j = 1
    <3>1. \A k \in 1..m : q[k] # r
      BY <1>1 DEF Ordered
    <3>2. CASE i = 1
      <4>1. s[i] = r /\ j # 1
        BY <1>4, <1>7, <3>2
      <4>2. j - 1 \in 1..m /\ s[j] = q[j - 1]
        BY <1>4, <4>1
      <4>3. QED
        BY <3>1, <4>1, <4>2
    <3>3. CASE j = 1
      <4>1. s[j] = r /\ i # 1
        BY <1>4, <1>7, <3>3
      <4>2. i - 1 \in 1..m /\ s[i] = q[i - 1]
        BY <1>4, <4>1
      <4>3. QED
        BY <3>1, <4>1, <4>2
    <3>4. QED
      BY <2>1, <3>2, <3>3
  <2>2. CASE i # 1 /\ j # 1
    <3>1. i - 1 \in 1..m /\ j - 1 \in 1..m /\ i - 1 # j - 1 /\ s[i] = q[i - 1] /\ s[j] = q[j - 1]
      <4>1. i - 1 \in 1..m /\ s[i] = q[i - 1]
        BY <1>4, <2>2
      <4>2. j - 1 \in 1..m /\ s[j] = q[j - 1]
        BY <1>4, <2>2
      <4>3. i - 1 # j - 1
        BY <1>3, <1>7
      <4>4. QED
        BY <4>1, <4>2, <4>3
    <3>2. QED
      BY <1>1, <3>1 DEF Ordered
  <2>3. QED
    BY <2>1, <2>2
<1>8. ASSUME NEW i \in 1..(m + 1), NEW j \in 1..(m + 1), i < j, s[i] \in L \ {r}
      PROVE  s[j] \in L \ {r}
  <2>1. i - 1 \in 1..m /\ j - 1 \in 1..m /\ i - 1 < j - 1 /\ s[i] = q[i - 1] /\ s[j] = q[j - 1]
    <3>1. j > 1 /\ j - 1 \in 1..m /\ s[j] = q[j - 1]
      <4>1. j # 1
        BY <1>3, <1>8
      <4>2. QED
        BY <1>4, <4>1
    <3>2. i # 1
      BY <1>3, <1>8
    <3>3. QED
      BY <1>3, <1>4, <1>8, <3>1, <3>2
  <2>2. q[j - 1] \in L /\ q[j - 1] \in D
    BY <1>1, <1>8, <2>1 DEF Ordered
  <2>3. QED
    BY <2>1, <2>2
<1>9. QED
  BY <1>1, <1>3, <1>5, <1>6, <1>7, <1>8, SMTT(20) DEF Ordered

(* A puddle is taken out.                                                  *)
LEMMA OrderedRemove ==
  ASSUME NEW q, NEW D, NEW L, Ordered(q, D, L), NEW i \in 1..Len(q)
  PROVE  Ordered(RemoveAt(q, i), D \ {q[i]}, L)
<1>1. PICK m, s : m = Len(q) /\ s = RemoveAt(q, i)
  OBVIOUS
<1>2. q \in Seq(Nat) /\ i \in DOMAIN q
  BY DEF Ordered
<1>3. /\ m \in Nat /\ s \in Seq(Nat) /\ Len(s) = m - 1
      /\ \A k \in 1..(m - 1) : s[k] = IF k <= i - 1 THEN q[k] ELSE q[k + 1]
  <2>1. /\ RemoveAt(q, i) \in Seq(Nat) /\ Len(RemoveAt(q, i)) = Len(q) - 1
        /\ \A k \in 1..(Len(q) - 1) :
             RemoveAt(q, i)[k] = IF k <= i - 1 THEN q[k] ELSE q[k + 1]
    BY <1>2, RemoveElements
  <2>2. m \in Nat
    BY <1>1, <1>2
  <2>3. QED
    BY <1>1, <2>1, <2>2
<1>4. \A k \in 1..(m - 1) : \/ k < i /\ k \in 1..m /\ s[k] = q[k]
                            \/ k >= i /\ k + 1 \in 1..m /\ s[k] = q[k + 1]
  <2>1. i \in 1..m
    BY <1>1
  <2>2. SUFFICES ASSUME NEW k \in 1..(m - 1)
                 PROVE  \/ k < i /\ k \in 1..m /\ s[k] = q[k]
                        \/ k >= i /\ k + 1 \in 1..m /\ s[k] = q[k + 1]
    OBVIOUS
  <2>3. /\ k < i <=> k <= i - 1
        /\ k \in 1..m /\ k + 1 \in 1..m /\ (k < i \/ k >= i)
    BY <1>3, <2>1
  <2>4. QED
    BY <1>3, <2>3
<1>5. ASSUME NEW k \in 1..(m - 1) PROVE s[k] \in D \ {q[i]}
  <2>1. \E j \in 1..m : j # i /\ s[k] = q[j]
    <3>1. CASE k < i
      BY <1>3, <1>4, <3>1
    <3>2. CASE k >= i
      <4>1. k + 1 \in 1..m /\ k + 1 # i /\ s[k] = q[k + 1]
        BY <1>1, <1>3, <1>4, <3>2
      <4>2. QED
        BY <4>1
    <3>3. QED
      BY <1>1, <1>3, <3>1, <3>2
  <2>2. QED
    BY <1>1, <2>1 DEF Ordered
<1>6. ASSUME NEW x \in D \ {q[i]} PROVE \E k \in 1..(m - 1) : s[k] = x
  <2>1. PICK j \in 1..m : q[j] = x /\ j # i
    BY <1>1, <1>6 DEF Ordered
  <2>2. CASE j < i
    <3>1. j \in 1..(m - 1) /\ j <= i - 1
      BY <1>1, <1>3, <2>1, <2>2
    <3>2. QED
      BY <1>3, <2>1, <3>1
  <2>3. CASE j > i
    <3>1. j - 1 \in 1..(m - 1) /\ ~ (j - 1 <= i - 1) /\ (j - 1) + 1 = j
      BY <1>1, <1>3, <2>1, <2>3
    <3>2. QED
      BY <1>3, <2>1, <3>1
  <2>4. QED
    BY <1>1, <1>3, <2>1, <2>2, <2>3
<1>7. ASSUME NEW k \in 1..(m - 1), NEW l \in 1..(m - 1), k < l
      PROVE  \E x, y \in 1..m : x < y /\ s[k] = q[x] /\ s[l] = q[y]
  <2>1. CASE l < i
    <3>1. k \in 1..m /\ l \in 1..m /\ s[k] = q[k] /\ s[l] = q[l]
      <4>1. k < i /\ i \in Int
        BY <1>1, <1>3, <1>7, <2>1
      <4>2. ~ (k >= i) /\ ~ (l >= i)
        BY <1>3, <2>1, <4>1
      <4>3. QED
        BY <1>4, <4>2
    <3>2. QED
      BY <1>7, <3>1
  <2>2. CASE l >= i /\ k < i
    <3>1. k \in 1..m /\ l + 1 \in 1..m /\ k < l + 1 /\ s[k] = q[k] /\ s[l] = q[l + 1]
      BY <1>1, <1>3, <1>4, <1>7, <2>2
    <3>2. QED
      BY <3>1
  <2>3. CASE l >= i /\ k >= i
    <3>1. k + 1 \in 1..m /\ l + 1 \in 1..m /\ k + 1 < l + 1 /\ s[k] = q[k + 1] /\ s[l] = q[l + 1]
      BY <1>1, <1>3, <1>4, <1>7, <2>3
    <3>2. QED
      BY <3>1
  <2>4. QED
    BY <1>1, <1>3, <2>1, <2>2, <2>3
<1>8. ASSUME NEW k \in 1..(m - 1), NEW l \in 1..(m - 1), k # l PROVE s[k] # s[l]
  <2>1. \E x, y \in 1..m : x # y /\ s[k] = q[x] /\ s[l] = q[y]
    <3>1. CASE k < l
      <4>1. PICK x \in 1..m, y \in 1..m : x < y /\ s[k] = q[x] /\ s[l] = q[y]
        BY <1>7, <3>1
      <4>2. x # y
        BY <4>1
      <4>3. QED
        BY <4>1, <4>2
    <3>2. CASE l < k
      <4>1. PICK x \in 1..m, y \in 1..m : x < y /\ s[l] = q[x] /\ s[k] = q[y]
        BY <1>7, <3>2
      <4>2. y # x
        BY <4>1
      <4>3. QED
        BY <4>1, <4>2
    <3>3. QED
      BY <1>3, <1>8, <3>1, <3>2
  <2>2. QED
    BY <1>1, <2>1 DEF Ordered
<1>9. ASSUME NEW k \in 1..(m - 1), NEW l \in 1..(m - 1), k < l, s[k] \in L PROVE s[l] \in L
  <2>1. PICK x \in 1..m, y \in 1..m : x < y /\ s[k] = q[x] /\ s[l] = q[y]
    BY <1>7, <1>9
  <2>2. QED
    BY <1>1, <1>9, <2>1 DEF Ordered
<1>10. QED
  BY <1>1, <1>3, <1>5, <1>6, <1>8, <1>9 DEF Ordered

(* A regular puddle moves up by one.                                       *)
LEMMA OrderedUp ==
  ASSUME NEW q, NEW D, NEW L, Ordered(q, D, L), NEW i \in 1..Len(q), q[i] \notin L
  PROVE  Ordered(NodeUp(q, i), D, L)
<1>1. PICK m, s : m = Len(q) /\ s = NodeUp(q, i)
  OBVIOUS
<1>2. /\ q \in Seq(Nat) /\ m \in Nat /\ i \in 1..m
      /\ \A k \in 1..m : q[k] \in Nat /\ q[k] \in D
      /\ \A r \in D : \E k \in 1..m : q[k] = r
      /\ \A k, j \in 1..m : k # j => q[k] # q[j]
      /\ \A k, j \in 1..m : k < j /\ q[k] \in L => q[j] \in L
  <2>1. q \in Seq(Nat)
    BY DEF Ordered
  <2>2. QED
    BY <1>1, <2>1 DEF Ordered
<1>3. CASE i = 1
  BY <1>1, <1>3 DEF NodeUp
<1>4. CASE i # 1
  <2>1. PICK h : h = i - 1
    OBVIOUS
  <2>2. h \in 1..m /\ h < i
    BY <1>2, <1>4, <2>1
  <2>3. PICK t : t = [q EXCEPT ![i] = q[h]]
    OBVIOUS
  <2>4. s = [t EXCEPT ![h] = q[i]]
    BY <1>1, <1>4, <2>1, <2>3 DEF NodeUp
  <2>5. t \in Seq(Nat) /\ Len(t) = m /\ t[i] = q[h] /\ \A k \in 1..m : k # i => t[k] = q[k]
    <3>1. DOMAIN q = 1..m /\ q[h] \in Nat
      BY <1>1, <1>2, <2>2
    <3>2. t[i] = q[h] /\ \A k \in 1..m : k # i => t[k] = q[k]
      BY <1>2, <2>3, <3>1
    <3>3. t \in Seq(Nat) /\ Len(t) = m
      BY <1>1, <1>2, <2>3, <3>1
    <3>4. QED
      BY <3>2, <3>3
  <2>6. /\ s \in Seq(Nat) /\ Len(s) = m /\ s[i] = q[h] /\ s[h] = q[i]
        /\ \A k \in 1..m : k # i /\ k # h => s[k] = q[k]
    <3>1. DOMAIN t = 1..m /\ q[i] \in Nat /\ h # i
      BY <1>2, <2>2, <2>5
    <3>2. s[h] = q[i] /\ \A k \in 1..m : k # h => s[k] = t[k]
      BY <2>2, <2>4, <3>1
    <3>3. s \in Seq(Nat) /\ Len(s) = m
      BY <2>2, <2>4, <2>5, <3>1
    <3>4. QED
      BY <1>2, <2>5, <3>1, <3>2, <3>3
  <2>7. \A k \in 1..m : s[k] \in D
    BY <1>2, <2>2, <2>6
  <2>8. ASSUME NEW r \in D PROVE \E k \in 1..m : s[k] = r
    <3>1. PICK x \in 1..m : q[x] = r
      BY <1>2
    <3>2. CASE x = i
      BY <2>2, <2>6, <3>1, <3>2
    <3>3. CASE x = h
      BY <1>2, <2>6, <3>1, <3>3
    <3>4. CASE x # i /\ x # h
      BY <2>6, <3>1, <3>4
    <3>5. QED
      BY <3>2, <3>3, <3>4
  <2>9. ASSUME NEW k \in 1..m, NEW j \in 1..m, k # j PROVE s[k] # s[j]
    <3>1. ASSUME NEW x \in 1..m
          PROVE  (x = i /\ s[x] = q[h]) \/ (x = h /\ s[x] = q[i]) \/ (x # i /\ x # h /\ s[x] = q[x])
      <4>2. CASE x = i
        BY <2>6, <4>2
      <4>3. CASE x = h
        BY <2>6, <4>3
      <4>4. CASE x # i /\ x # h
        BY <2>6, <4>4
      <4>5. QED
        BY <4>2, <4>3, <4>4
    <3>2. i \in 1..m /\ h \in 1..m /\ i # h /\ q[i] # q[h]
      BY <1>2, <2>2
    <3>3. \A x \in 1..m : x # i => q[x] # q[i]
      BY <1>2
    <3>4. \A x \in 1..m : x # h => q[x] # q[h]
      BY <1>2, <2>2
    <3>5. CASE k = i
      BY <2>9, <3>1, <3>2, <3>4, <3>5
    <3>6. CASE k = h
      BY <2>9, <3>1, <3>2, <3>3, <3>6
    <3>7. CASE k # i /\ k # h
      <4>1. s[k] = q[k] /\ q[k] # q[i] /\ q[k] # q[h] /\ q[k] # q[j]
        BY <1>2, <2>6, <2>9, <3>3, <3>4, <3>7
      <4>2. QED
        BY <3>1, <4>1
    <3>8. QED
      BY <3>5, <3>6, <3>7
  <2>10. ASSUME NEW k \in 1..m, NEW j \in 1..m, k < j, s[k] \in L PROVE s[j] \in L
    <3>1. q[h] \notin L
      BY <1>1, <1>2, <2>2
    <3>2. k # i /\ k # h /\ s[k] = q[k]
      BY <1>1, <2>6, <2>10, <3>1
    <3>3. CASE j # i /\ j # h
      BY <1>2, <2>6, <2>10, <3>2, <3>3
    <3>4. CASE j = i \/ j = h
      <4>1. k < i
        BY <1>2, <2>2, <2>10, <3>4
      <4>2. QED
        BY <1>1, <1>2, <2>10, <3>2, <4>1
    <3>5. QED
      BY <3>3, <3>4
  <2>11. QED
    BY <1>1, <2>6, <2>7, <2>8, <2>9, <2>10 DEF Ordered
<1>5. QED
  BY <1>3, <1>4

(* The puddles k are those of h, but for that in r.                        *)
OneChanged(h, r, k) ==
  DOMAIN k = DOMAIN h /\ \A s \in DOMAIN h : s # r => k[s] = h[s]

(* Then nothing is lost in the others.                                     *)
LEMMA ReplacedOne ==
  ASSUME NEW h, NEW bl, Tiled(h, bl), NEW r \in DOMAIN h, NEW k, OneChanged(h, r, k),
         NEW bm, NEW gone, NEW made, Replaces(h, bl, r, k[r], bm, gone, made)
  PROVE  Tiled(k, bm) /\ (DOMAIN bl \ gone) \cap made = {}
<1>1. DOMAIN k = DOMAIN h /\ \A s \in DOMAIN h : s # r => k[s] = h[s]
  BY DEF OneChanged
<1>2. QED
  BY <1>1, Replaced

(* A block has been allocated, ...                                         *)
LEMMA TakenTiled ==
  ASSUME NEW h, NEW bl, Tiled(h, bl), NEW r \in DOMAIN h, NEW k, OneChanged(h, r, k),
         NEW p, NEW n, Multiple(n), n > 0, Taken(h[r], k[r], p, n)
  PROVE  p \notin DOMAIN bl /\ Tiled(k, With(bl, p, n))
<1>1. /\ Sound(k[r]) /\ SameMemory(h[r], k[r]) /\ Multiple(p) /\ Inside(h[r], p, n)
      /\ \A b \in Int : Within(b, p, n) => Covers(h[r].list, b)
      /\ \A b \in Int : Covers(k[r].list, b) <=> Covers(h[r].list, b) /\ ~ Within(b, p, n)
  BY DEF Taken
<1>2. PICK bm : bm = With(bl, p, n)
  OBVIOUS
<1>3. DOMAIN bm = DOMAIN bl \cup {p} /\ bm[p] = n /\ \A q \in DOMAIN bl : q # p => bm[q] = bl[q]
  BY <1>2 DEF With
<1>4. \A b : InBlock({p}, bm, b) <=> Within(b, p, n)
  BY <1>3 DEF InBlock
<1>5. \A b : ~ InBlock({}, bl, b)
  BY DEF InBlock
<1>6. Replaces(h, bl, r, k[r], bm, {}, {p})
  <2>1. /\ {} \subseteq DOMAIN bl /\ DOMAIN bm = (DOMAIN bl \ {}) \cup {p}
        /\ \A q \in DOMAIN bm : q \notin {p} => bm[q] = bl[q]
        /\ \A q \in {} : Inside(h[r], q, bl[q])
        /\ \A q \in {p} : Multiple(q) /\ Multiple(bm[q]) /\ bm[q] > 0 /\ Inside(h[r], q, bm[q])
        /\ \A q, u \in {p} : q = u
    BY <1>1, <1>3
  <2>2. /\ \A b \in Int : InBlock({p}, bm, b) => Covers(h[r].list, b) \/ InBlock({}, bl, b)
        /\ \A b \in Int : Covers(k[r].list, b) <=>
             (Covers(h[r].list, b) \/ InBlock({}, bl, b)) /\ ~ InBlock({p}, bm, b)
    BY <1>1, <1>4, <1>5
  <2>3. QED
    BY <1>1, <2>1, <2>2 DEF Replaces
<1>7. Tiled(k, bm) /\ (DOMAIN bl \ {}) \cap {p} = {}
  <2>1. PICK gone, made : gone = {} /\ made = {p}
    OBVIOUS
  <2>2. Replaces(h, bl, r, k[r], bm, gone, made)
    BY <1>6, <2>1
  <2>3. Tiled(k, bm) /\ (DOMAIN bl \ gone) \cap made = {}
    BY <2>2, ReplacedOne
  <2>4. QED
    BY <2>1, <2>3
<1>8. QED
  BY <1>2, <1>7

(* A block and the free nodes of its puddle.                               *)
LEMMA BlockOccupied ==
  ASSUME NEW h, NEW bl, Tiled(h, bl), NEW r \in DOMAIN h, NEW p \in DOMAIN bl,
         Inside(h[r], p, bl[p])
  PROVE  Occupied(h[r], p, bl[p])
<1>1. Heads(h) /\ Blocks(h, bl)
  BY DEF Tiled
<1>2. Multiple(p) /\ Multiple(bl[p]) /\ bl[p] > 0
  BY <1>1 DEF Blocks
<1>3. ASSUME NEW b \in Int, Within(b, p, bl[p]) PROVE ~ Covers(h[r].list, b)
  <2>1. InMemory(h[r], b)
    BY <1>1, <1>3, BlockIs
  <2>2. InBlock(DOMAIN bl, bl, b)
    BY <1>3 DEF InBlock
  <2>3. QED
    BY <2>1, <2>2 DEF Tiled
<1>4. QED
  BY <1>2, <1>3 DEF Occupied

(* ... freed, ...                                                          *)
LEMMA GivenTiled ==
  ASSUME NEW h, NEW bl, Tiled(h, bl), NEW r \in DOMAIN h, NEW k, OneChanged(h, r, k),
         NEW p \in DOMAIN bl, Inside(h[r], p, bl[p]), Given(h[r], k[r], p, bl[p])
  PROVE  Tiled(k, DropKey(bl, p))
<1>1. /\ Sound(k[r]) /\ SameMemory(h[r], k[r])
      /\ \A b \in Int : Covers(k[r].list, b) <=> Covers(h[r].list, b) \/ Within(b, p, bl[p])
  BY DEF Given
<1>2. PICK bm : bm = DropKey(bl, p)
  OBVIOUS
<1>3. DOMAIN bm = DOMAIN bl \ {p} /\ \A q \in DOMAIN bm : bm[q] = bl[q]
  BY <1>2 DEF DropKey
<1>4. \A b : InBlock({p}, bl, b) <=> Within(b, p, bl[p])
  BY DEF InBlock
<1>5. \A b : ~ InBlock({}, bm, b)
  BY DEF InBlock
<1>6. Replaces(h, bl, r, k[r], bm, {p}, {})
  BY <1>1, <1>3, <1>4, <1>5 DEF Replaces
<1>7. Tiled(k, bm)
  BY <1>6, ReplacedOne
<1>8. QED
  BY <1>2, <1>7

(* ... or resized.                                                         *)
LEMMA ResizedTiled ==
  ASSUME NEW h, NEW bl, Tiled(h, bl), NEW r \in DOMAIN h, NEW k, OneChanged(h, r, k),
         NEW p \in DOMAIN bl, Inside(h[r], p, bl[p]),
         NEW s, NEW n, Multiple(n), n > 0, Resized(h[r], s, p, bl[p], n), k[r] = s.mh
  PROVE  /\ s.at \notin DOMAIN bl \ {p}
         /\ Tiled(k, With(DropKey(bl, p), s.at, n))
<1>0. PICK a : a = s.at
  OBVIOUS
<1>1. /\ Multiple(a) /\ Inside(h[r], a, n) /\ Sound(k[r]) /\ SameMemory(h[r], k[r])
      /\ \A b \in Int : Within(b, a, n) => Covers(h[r].list, b) \/ Within(b, p, bl[p])
      /\ \A b \in Int : Covers(k[r].list, b) <=>
           (Covers(h[r].list, b) \/ Within(b, p, bl[p])) /\ ~ Within(b, a, n)
  BY <1>0 DEF Resized
<1>2. PICK bm : bm = With(DropKey(bl, p), a, n)
  OBVIOUS
<1>3. /\ DOMAIN bm = (DOMAIN bl \ {p}) \cup {a} /\ bm[a] = n
      /\ \A q \in DOMAIN bm : q # a => bm[q] = bl[q]
  BY <1>2 DEF With, DropKey
<1>4. \A b : InBlock({p}, bl, b) <=> Within(b, p, bl[p])
  BY DEF InBlock
<1>5. \A b : InBlock({a}, bm, b) <=> Within(b, a, n)
  BY <1>3 DEF InBlock
<1>6. Replaces(h, bl, r, k[r], bm, {p}, {a})
  BY <1>1, <1>3, <1>4, <1>5 DEF Replaces
<1>7. Tiled(k, bm) /\ (DOMAIN bl \ {p}) \cap {a} = {}
  <2>1. PICK gone, made : gone = {p} /\ made = {a}
    OBVIOUS
  <2>2. Replaces(h, bl, r, k[r], bm, gone, made)
    BY <1>6, <2>1
  <2>3. Tiled(k, bm) /\ (DOMAIN bl \ gone) \cap made = {}
    BY <2>2, ReplacedOne
  <2>4. QED
    BY <2>1, <2>3
<1>8. QED
  BY <1>0, <1>2, <1>7

(* Two blocks are in the same puddle only if it is one.                    *)
LEMMA OneHolder ==
  ASSUME NEW h, Heads(h), NEW p \in Int, NEW n \in Int, NEW m \in Int, n > 0, m > 0,
         NEW r \in DOMAIN h, NEW s \in DOMAIN h, Inside(h[r], p, n), Inside(h[s], p, m)
  PROVE  r = s
<1>1. /\ h[r].mem \in Int /\ h[r].end \in Int /\ h[s].mem \in Int /\ h[s].end \in Int
  BY SoundParts DEF Heads
<1>2. InMemory(h[r], p) /\ InMemory(h[s], p)
  BY <1>1 DEF Inside, InMemory
<1>3. QED
  BY <1>2, HeadsApart

(* The fields of a pool; those no operation changes.                       *)
Shaped(pl) ==
  pl = [flags |-> pl.flags, list |-> pl.list, pudsize |-> pl.pudsize,
        thressize |-> pl.thressize, mm |-> pl.mm, head |-> pl.head]

(* What no operation changes.                                              *)
SameKind(pl, other) == other.flags = pl.flags /\ other.mm = pl.mm

(* What only an allocation changes.                                        *)
SameSizes(pl, other) == other.pudsize = pl.pudsize /\ other.thressize = pl.thressize

(* The large puddles.                                                      *)
Large(h) == {r \in DOMAIN h : h[r].large}

(* Every puddle has a block; a large one has no more than that.            *)
Uses(mh, q, n) == Inside(mh, q, n) /\ (mh.large => n = mh.end - mh.mem)

(* Every puddle is in use.                                                 *)
Used(h, bl) == \A r \in DOMAIN h : \E q \in DOMAIN bl : Uses(h[r], q, bl[q])

(* A pool that takes puddles from its memory manager is as it should be;   *)
(* so is a fixed one.                                                      *)
Growing(pl, bl) ==
  /\ Shaped(pl) /\ "fixed" \notin pl.flags
  /\ pl.pudsize \in Int /\ pl.thressize \in Int /\ pl.thressize <= pl.pudsize
  /\ Tiled(pl.head, bl) /\ Used(pl.head, bl)
  /\ Ordered(pl.list, DOMAIN pl.head, Large(pl.head))

(* A fixed pool has one puddle.                                            *)
Fixed(pl, bl) ==
  /\ Shaped(pl) /\ "fixed" \in pl.flags
  /\ Tiled(pl.head, bl) /\ Large(pl.head) = {}
  /\ \E r : pl.list = <<r>> /\ DOMAIN pl.head = {r}

(* A pool is of one of both kinds.                                         *)
Ready(pl, bl) == Growing(pl, bl) \/ Fixed(pl, bl)

(* One puddle is replaced or added.                                        *)
LEMMA SetHeadIs ==
  ASSUME NEW pl, Shaped(pl), NEW r, NEW mh, NEW other, other = SetHead(pl, r, mh)
  PROVE  /\ Shaped(other) /\ SameKind(pl, other) /\ SameSizes(pl, other) /\ other.list = pl.list
         /\ DOMAIN other.head = DOMAIN pl.head \cup {r} /\ other.head[r] = mh
         /\ \A s \in DOMAIN pl.head : s # r => other.head[s] = pl.head[s]
<1>1. PICK k : k = With(pl.head, r, mh)
  OBVIOUS
<1>2. /\ DOMAIN k = DOMAIN pl.head \cup {r} /\ k[r] = mh
      /\ \A s \in DOMAIN pl.head : s # r => k[s] = pl.head[s]
  BY <1>1 DEF With
<1>3. other = [pl EXCEPT !.head = k]
  BY <1>1 DEF SetHead
<1>4. other = [flags |-> pl.flags, list |-> pl.list, pudsize |-> pl.pudsize,
               thressize |-> pl.thressize, mm |-> pl.mm, head |-> k]
  BY <1>3 DEF Shaped
<1>5. QED
  BY <1>2, <1>4 DEF Shaped, SameKind, SameSizes

(* A puddle has changed, but for its place.                                *)
LEMMA HeadChanged ==
  ASSUME NEW pl, NEW bl, Ready(pl, bl), NEW r \in DOMAIN pl.head, NEW mh,
         SameMemory(pl.head[r], mh), NEW other, other = SetHead(pl, r, mh),
         NEW bm, Tiled(other.head, bm), Growing(pl, bl) => Used(other.head, bm)
  PROVE  /\ Growing(pl, bl) => Growing(other, bm)
         /\ Fixed(pl, bl) => Fixed(other, bm)
         /\ SameKind(pl, other) /\ SameSizes(pl, other) /\ other.list = pl.list
         /\ OneChanged(pl.head, r, other.head) /\ other.head[r] = mh
<1>1. Shaped(pl)
  BY DEF Ready, Growing, Fixed
<1>2. /\ Shaped(other) /\ SameKind(pl, other) /\ SameSizes(pl, other) /\ other.list = pl.list
      /\ DOMAIN other.head = DOMAIN pl.head /\ other.head[r] = mh
      /\ \A s \in DOMAIN pl.head : s # r => other.head[s] = pl.head[s]
  <2>1. /\ Shaped(other) /\ SameKind(pl, other) /\ SameSizes(pl, other) /\ other.list = pl.list
        /\ DOMAIN other.head = DOMAIN pl.head \cup {r} /\ other.head[r] = mh
        /\ \A s \in DOMAIN pl.head : s # r => other.head[s] = pl.head[s]
    BY <1>1, SetHeadIs
  <2>2. DOMAIN pl.head \cup {r} = DOMAIN pl.head
    OBVIOUS
  <2>3. QED
    BY <2>1, <2>2
<1>3. Large(other.head) = Large(pl.head)
  BY <1>2 DEF Large, SameMemory
<1>4. Growing(pl, bl) => Growing(other, bm)
  BY <1>2, <1>3 DEF Growing, SameKind, SameSizes
<1>5. Fixed(pl, bl) => Fixed(other, bm)
  BY <1>2, <1>3 DEF Fixed, SameKind
<1>6. QED
  BY <1>2, <1>4, <1>5 DEF OneChanged

(* A block of a puddle that the pool has.                                  *)
LEMMA AllocReady ==
  ASSUME NEW pl, NEW bl, Ready(pl, bl), NEW r \in DOMAIN pl.head, NEW size \in Int, size > 0,
         NEW a, a = StaticAlloc(pl.head[r], size), a.at # TNULL,
         NEW other, other = SetHead(pl, r, a.mh)
  PROVE  /\ a.at \notin DOMAIN bl
         /\ Growing(pl, bl) => Growing(other, With(bl, a.at, RoundUp(size)))
         /\ Fixed(pl, bl) => Fixed(other, With(bl, a.at, RoundUp(size)))
         /\ SameKind(pl, other) /\ SameSizes(pl, other) /\ DOMAIN other.head = DOMAIN pl.head
<1>1. Tiled(pl.head, bl) /\ Shaped(pl)
  BY DEF Ready, Growing, Fixed
<1>2. PICK n, p, bm : n = RoundUp(size) /\ p = a.at /\ bm = With(bl, p, n)
  OBVIOUS
<1>3. Multiple(n) /\ n > 0
  BY <1>2, Rounded DEF Multiple
<1>4. Sound(pl.head[r])
  BY <1>1 DEF Tiled, Heads
<1>5. Taken(pl.head[r], a.mh, p, n)
  BY <1>2, <1>4, AllocHead
<1>6. /\ DOMAIN other.head = DOMAIN pl.head /\ other.head[r] = a.mh
      /\ \A s \in DOMAIN pl.head : s # r => other.head[s] = pl.head[s]
  <2>1. /\ DOMAIN other.head = DOMAIN pl.head \cup {r} /\ other.head[r] = a.mh
        /\ \A s \in DOMAIN pl.head : s # r => other.head[s] = pl.head[s]
    BY <1>1, SetHeadIs
  <2>2. DOMAIN pl.head \cup {r} = DOMAIN pl.head
    OBVIOUS
  <2>3. QED
    BY <2>1, <2>2
<1>7. OneChanged(pl.head, r, other.head)
  BY <1>6 DEF OneChanged
<1>8. p \notin DOMAIN bl /\ Tiled(other.head, bm)
  BY <1>1, <1>2, <1>3, <1>5, <1>6, <1>7, TakenTiled
<1>9. SameMemory(pl.head[r], a.mh)
  BY <1>5 DEF Taken
<1>10. ASSUME Growing(pl, bl) PROVE Used(other.head, bm)
  <2>1. \A q \in DOMAIN bl : q \in DOMAIN bm /\ bm[q] = bl[q]
    BY <1>2, <1>8 DEF With
  <2>2. \A s \in DOMAIN pl.head : SameMemory(pl.head[s], other.head[s])
    BY <1>6, <1>9 DEF SameMemory
  <2>3. Used(pl.head, bl)
    BY <1>10 DEF Growing
  <2>4. ASSUME NEW s \in DOMAIN other.head
        PROVE  \E q \in DOMAIN bm : Uses(other.head[s], q, bm[q])
    <3>1. PICK q \in DOMAIN bl : Uses(pl.head[s], q, bl[q])
      BY <1>6, <2>3, <2>4 DEF Used
    <3>2. SameMemory(pl.head[s], other.head[s])
      BY <1>6, <2>2, <2>4
    <3>3. QED
      BY <2>1, <3>1, <3>2 DEF SameMemory, Inside, Uses
  <2>5. QED
    BY <2>4 DEF Used
<1>11. /\ Growing(pl, bl) => Growing(other, bm)
       /\ Fixed(pl, bl) => Fixed(other, bm)
       /\ SameKind(pl, other) /\ SameSizes(pl, other)
  BY <1>8, <1>9, <1>10, HeadChanged
<1>12. QED
  BY <1>2, <1>6, <1>8, <1>11

(* A new memheader serves a block that fits.                               *)
LEMMA InitAlloc ==
  ASSUME NEW p, Multiple(p), p > 0, NEW n, Multiple(n), NEW lowfrag \in BOOLEAN,
         NEW large \in BOOLEAN, NEW mh, mh = InitMemHead(p, n, lowfrag, large),
         NEW size \in Int, size > 0, RoundUp(size) <= n
  PROVE  /\ Sound(mh) /\ mh.mem = p /\ mh.end = p + n /\ mh.large = large
         /\ \A b \in Int : Covers(mh.list, b) <=> InMemory(mh, b)
         /\ StaticAlloc(mh, size).at # TNULL
<1>1. PICK m : m = RoundUp(size)
  OBVIOUS
<1>2. Multiple(m) /\ m \in Int /\ m > 0 /\ n \in Int /\ p \in Int /\ Align \in Int
  BY <1>1, Rounded, AlignAssumption DEF Multiple
<1>3. n >= Align
  BY <1>1, <1>2, MultipleLeast
<1>4. (n \div Align) * Align = n
  BY <1>2, RoundedDown
<1>5. /\ Sound(mh) /\ mh.mem = p /\ mh.end = p + n /\ mh.large = large /\ mh.free = mh.end - p
      /\ \A b \in Int : Covers(mh.list, b) <=> p <= b /\ b < mh.end
  <2>1. /\ Sound(mh) /\ mh.mem = p /\ mh.end = p + (n \div Align) * Align /\ mh.large = large
        /\ mh.free = mh.end - p
        /\ \A b \in Int : Covers(mh.list, b) <=> p <= b /\ b < mh.end
    BY <1>2, <1>3, InitHead
  <2>2. QED
    BY <1>4, <2>1
<1>6. mh.free = n /\ mh.list = <<FreeNode(p, n)>>
  BY <1>4 DEF InitMemHead
<1>7. mh.list[1].size = n /\ 1 \in DOMAIN mh.list /\ mh.list[1].at = p
  BY <1>6 DEF FreeNode
<1>8. 1 \in Candidates(mh, m) /\ ~ (mh.free < m)
  BY <1>1, <1>2, <1>6, <1>7 DEF Candidates
<1>9. Fit(mh, m) \in 1..Len(mh.list)
  BY <1>2, <1>5, <1>8, FitIs
<1>10. StaticAlloc(mh, size).at = mh.list[Fit(mh, m)].at
  BY <1>1, <1>8 DEF StaticAlloc
<1>11. Fit(mh, m) = 1
  BY <1>6, <1>9
<1>12. QED
  BY <1>2, <1>5, <1>7, <1>10, <1>11 DEF InMemory, TNULL

(* A block of a new puddle.                                                *)
LEMMA NewPuddleReady ==
  ASSUME NEW pl, NEW bl, Growing(pl, bl), NEW room \in Nat \ {0}, room \notin DOMAIN pl.head,
         room # None, NEW n, Multiple(n), n <= Span, NEW large \in BOOLEAN,
         NEW size \in Int, size > 0, RoundUp(size) <= n, large => RoundUp(size) = n,
         NEW a, a = NewPuddle(pl, room, n, large, size)
  PROVE  /\ a.at # TNULL /\ a.at \notin DOMAIN bl /\ a.asked = n
         /\ Growing(a.pool, With(bl, a.at, RoundUp(size)))
         /\ SameKind(pl, a.pool) /\ SameSizes(pl, a.pool)
         /\ DOMAIN a.pool.head = DOMAIN pl.head \cup {room}
<1>1. Shaped(pl) /\ Tiled(pl.head, bl) /\ Used(pl.head, bl)
      /\ Ordered(pl.list, DOMAIN pl.head, Large(pl.head))
  BY DEF Growing
<1>2. PICK mh : mh = InitMemHead(Memory(room), n, "lowfrag" \in pl.flags, large)
  OBVIOUS
<1>3. PICK c : c = StaticAlloc(mh, size)
  OBVIOUS
<1>4. Memory(room) > 0 /\ Multiple(Memory(room)) /\ Memory(room) \in Int
  BY MemoryIs
<1>5. /\ Sound(mh) /\ mh.mem = Memory(room) /\ mh.end = Memory(room) + n /\ mh.large = large
      /\ \A b \in Int : Covers(mh.list, b) <=> InMemory(mh, b)
      /\ c.at # TNULL
  <2>1. PICK lowfrag : lowfrag = ("lowfrag" \in pl.flags)
    OBVIOUS
  <2>2. lowfrag \in BOOLEAN
    BY <2>1
  <2>3. mh = InitMemHead(Memory(room), n, lowfrag, large)
    BY <1>2, <2>1
  <2>4. QED
    BY <1>3, <1>4, <2>2, <2>3, InitAlloc
<1>6. PICK m, p, bm : m = RoundUp(size) /\ p = c.at /\ bm = With(bl, p, m)
  OBVIOUS
<1>7. Multiple(m) /\ m > 0
  BY <1>6, Rounded DEF Multiple
<1>8. Taken(mh, c.mh, p, m)
  BY <1>3, <1>5, <1>6, AllocHead
<1>9. PICK h, k : h = With(pl.head, room, mh) /\ k = With(pl.head, room, c.mh)
  OBVIOUS
<1>10. /\ DOMAIN h = DOMAIN pl.head \cup {room} /\ DOMAIN k = DOMAIN pl.head \cup {room}
       /\ h[room] = mh /\ k[room] = c.mh
       /\ \A s \in DOMAIN pl.head : h[s] = pl.head[s] /\ k[s] = pl.head[s]
  BY <1>9 DEF With
<1>11. Tiled(h, bl)
  <2>1. n \in Int /\ Span \in Int
    BY SpanAssumption DEF Multiple
  <2>2. h[room].end <= Memory(room) + Span
    BY <1>4, <1>5, <1>10, <2>1
  <2>3. QED
    BY <1>1, <1>5, <1>10, <2>2, PuddleAdded
<1>12. OneChanged(h, room, k) /\ room \in DOMAIN h
  BY <1>10 DEF OneChanged
<1>13. p \notin DOMAIN bl /\ Tiled(k, bm)
  BY <1>6, <1>7, <1>8, <1>10, <1>11, <1>12, TakenTiled
<1>14. /\ SameMemory(mh, c.mh) /\ Inside(mh, p, m)
  BY <1>8 DEF Taken
<1>15. Used(k, bm)
  <2>1. /\ \A q \in DOMAIN bl : q \in DOMAIN bm /\ bm[q] = bl[q]
        /\ p \in DOMAIN bm /\ bm[p] = m
    BY <1>6, <1>13 DEF With
  <2>2. ASSUME NEW s \in DOMAIN k
        PROVE  \E q \in DOMAIN bm : Uses(k[s], q, bm[q])
    <3>1. CASE s \in DOMAIN pl.head
      BY <1>1, <1>10, <2>1, <3>1 DEF Used
    <3>2. CASE s = room
      <4>1. Inside(k[room], p, m) /\ k[room].large = large /\ k[room].mem = Memory(room)
            /\ k[room].end = Memory(room) + n
        BY <1>5, <1>10, <1>14 DEF SameMemory, Inside
      <4>2. large => m = (Memory(room) + n) - Memory(room)
        BY <1>4, <1>6 DEF Multiple
      <4>3. QED
        BY <2>1, <3>2, <4>1, <4>2 DEF Uses
    <3>3. QED
      BY <1>10, <2>2, <3>1, <3>2
  <2>3. QED
    BY <2>2 DEF Used
<1>16. PICK q : q = IF large THEN Append(pl.list, room) ELSE <<room>> \o pl.list
  OBVIOUS
<1>17. Ordered(q, DOMAIN k, Large(k))
  <2>1. k[room].large = large
    BY <1>5, <1>10, <1>14 DEF SameMemory
  <2>2. CASE large
    <3>1. Large(k) = Large(pl.head) \cup {room}
      BY <1>10, <2>1, <2>2 DEF Large
    <3>2. QED
      BY <1>1, <1>10, <1>16, <2>2, <3>1, OrderedLast
  <2>3. CASE ~ large
    <3>1. Large(k) = Large(pl.head) \ {room}
      BY <1>10, <2>1, <2>3 DEF Large
    <3>2. QED
      BY <1>1, <1>10, <1>16, <2>3, <3>1, OrderedFirst
  <2>4. QED
    BY <2>2, <2>3
<1>18. PICK o : o = [pl EXCEPT !.list = q]
  OBVIOUS
<1>19. /\ Shaped(o) /\ SameKind(pl, o) /\ SameSizes(pl, o) /\ o.list = q /\ o.head = pl.head
  <2>1. o = [flags |-> pl.flags, list |-> q, pudsize |-> pl.pudsize,
             thressize |-> pl.thressize, mm |-> pl.mm, head |-> pl.head]
    BY <1>1, <1>18 DEF Shaped
  <2>2. QED
    BY <2>1 DEF Shaped, SameKind, SameSizes
<1>20. PICK other : other = SetHead(o, room, c.mh)
  OBVIOUS
<1>21. a = [at |-> p, pool |-> other, asked |-> n]
  BY <1>2, <1>3, <1>6, <1>16, <1>18, <1>20 DEF NewPuddle, Result
<1>22. /\ Shaped(other) /\ SameKind(o, other) /\ SameSizes(o, other) /\ other.list = q
  BY <1>19, <1>20, SetHeadIs
<1>23. other.head = k
  <2>1. o = [flags |-> o.flags, list |-> o.list, pudsize |-> o.pudsize,
             thressize |-> o.thressize, mm |-> o.mm, head |-> o.head]
    BY <1>19 DEF Shaped
  <2>2. QED
    BY <1>9, <1>19, <1>20, <2>1 DEF SetHead
<1>24. Growing(other, bm)
  <2>1. "fixed" \notin pl.flags /\ pl.pudsize \in Int /\ pl.thressize \in Int /\ pl.thressize <= pl.pudsize
    BY DEF Growing
  <2>2. QED
    BY <1>13, <1>15, <1>17, <1>19, <1>22, <1>23, <2>1 DEF Growing, SameKind, SameSizes
<1>25. SameKind(pl, other) /\ SameSizes(pl, other)
  BY <1>19, <1>22 DEF SameKind, SameSizes
<1>26. QED
  BY <1>5, <1>6, <1>10, <1>13, <1>21, <1>23, <1>24, <1>25

-----------------------------------------------------------------------------
(***************************************************************************)
(* The operations of a pool: exec_AllocPool, exec_FreePool and             *)
(* exec_ReallocPool.                                                       *)
(***************************************************************************)

(* The greater of two.                                                     *)
LEMMA MaxPair ==
  ASSUME NEW a \in Int, NEW b \in Int
  PROVE  Max({a, b}) \in Int /\ Max({a, b}) >= a /\ Max({a, b}) >= b
<1>1. \E x \in {a, b} : \A y \in {a, b} : x >= y
  OBVIOUS
<1>2. Max({a, b}) \in {a, b} /\ \A y \in {a, b} : Max({a, b}) >= y
  BY <1>1 DEF Max
<1>3. QED
  BY <1>2

(* The parameters of a pool stay in order.                                 *)
LEMMA Adapted ==
  ASSUME NEW pl, NEW bl, Growing(pl, bl), NEW size \in Int, NEW q, q = Adapt(pl, size)
  PROVE  Growing(q, bl) /\ SameKind(pl, q) /\ q.head = pl.head /\ q.list = pl.list
<1>1. /\ Shaped(pl) /\ "fixed" \notin pl.flags /\ pl.pudsize \in Int /\ pl.thressize \in Int
      /\ Tiled(pl.head, bl) /\ Used(pl.head, bl)
      /\ Ordered(pl.list, DOMAIN pl.head, Large(pl.head))
  BY DEF Growing
<1>2. PICK t, u : /\ t = pl.thressize + (size - pl.thressize \div 4) \div 4
                  /\ u = pl.pudsize + (t - pl.pudsize \div 8) \div 8
  OBVIOUS
<1>3. t \in Int
  BY <1>1, <1>2
<1>4. u \in Int
  BY <1>1, <1>2, <1>3
<1>5. PICK v : v = Max({u, t})
  OBVIOUS
<1>6. v \in Int /\ t <= v
  BY <1>3, <1>4, <1>5, MaxPair
<1>7. q = [pl EXCEPT !.thressize = t, !.pudsize = v]
  BY <1>2, <1>5 DEF Adapt
<1>8. q = [flags |-> pl.flags, list |-> pl.list, pudsize |-> v, thressize |-> t,
           mm |-> pl.mm, head |-> pl.head]
  BY <1>1, <1>7 DEF Shaped
<1>9. /\ q.flags = pl.flags /\ q.list = pl.list /\ q.pudsize = v /\ q.thressize = t
      /\ q.mm = pl.mm /\ q.head = pl.head
  BY <1>8
<1>10. Shaped(q)
  BY <1>8, <1>9 DEF Shaped
<1>11. QED
  BY <1>1, <1>3, <1>6, <1>9, <1>10 DEF Growing, SameKind

(* What an allocation leaves behind.                                       *)
Stays(pl, other, bl, bm) ==
  /\ SameKind(pl, other)
  /\ Growing(pl, bl) => Growing(other, bm)
  /\ Fixed(pl, bl) => Fixed(other, bm)

(* What an allocation may do: fail, or return a block that is new, in a    *)
(* puddle the pool had or in one it has asked for.                         *)
Allocated(pl, a, size, bl, room) ==
  \/ /\ a.at = TNULL /\ Stays(pl, a.pool, bl, bl) /\ DOMAIN a.pool.head = DOMAIN pl.head
     /\ a.asked = 0 \/ room = None
  \/ /\ a.at # TNULL /\ a.at \notin DOMAIN bl
     /\ Stays(pl, a.pool, bl, With(bl, a.at, RoundUp(size)))
     /\ \/ a.asked = 0 /\ DOMAIN a.pool.head = DOMAIN pl.head
        \/ /\ a.asked \in Int /\ a.asked > 0 /\ room # None
           /\ DOMAIN a.pool.head = DOMAIN pl.head \cup {room}

(* A piece of memory that the pool does not have.                          *)
IsRoom(room, h) == room = None \/ (room # None /\ room \in Nat \ {0} /\ room \notin DOMAIN h)

(* A pool is not both.                                                     *)
LEMMA OneKind == \A pl, bl : Growing(pl, bl) /\ Fixed(pl, bl) => FALSE
  BY DEF Growing, Fixed

(* The first puddle is the only one of a fixed pool.                       *)
LEMMA FixedHead ==
  ASSUME NEW pl, NEW bl, Fixed(pl, bl)
  PROVE  /\ IsFixed(pl) /\ Head(pl.list) \in DOMAIN pl.head /\ DOMAIN pl.head = {Head(pl.list)}
         /\ Head(pl.list) = pl.list[1]
<1>1. PICK r : pl.list = <<r>> /\ DOMAIN pl.head = {r}
  BY DEF Fixed
<1>2. Head(pl.list) = r /\ pl.list[1] = r
  BY <1>1
<1>3. QED
  BY <1>1, <1>2 DEF Fixed, IsFixed

(* Nothing changes when a puddle is written back as it was.                *)
LEMMA SetSame ==
  ASSUME NEW pl, Shaped(pl), NEW r \in DOMAIN pl.head, NEW other,
         other = SetHead(pl, r, pl.head[r])
  PROVE  /\ SameKind(pl, other) /\ DOMAIN other.head = DOMAIN pl.head
         /\ \A bl : Fixed(pl, bl) => Fixed(other, bl)
<1>1. /\ Shaped(other) /\ SameKind(pl, other) /\ other.list = pl.list
      /\ DOMAIN other.head = DOMAIN pl.head \cup {r} /\ other.head[r] = pl.head[r]
      /\ \A s \in DOMAIN pl.head : s # r => other.head[s] = pl.head[s]
  BY SetHeadIs
<1>2. DOMAIN other.head = DOMAIN pl.head
  BY <1>1
<1>3. \A s \in DOMAIN pl.head : other.head[s] = pl.head[s]
  BY <1>1
<1>4. \A bl : Tiled(pl.head, bl) => Tiled(other.head, bl)
  BY <1>2, <1>3 DEF Tiled, Heads, Blocks
<1>5. Large(other.head) = Large(pl.head)
  BY <1>2, <1>3 DEF Large
<1>6. QED
  BY <1>1, <1>2, <1>4, <1>5 DEF Fixed, SameKind

(* A pool asks for a puddle.                                               *)
LEMMA AskedFor ==
  ASSUME NEW pl, NEW bl, Growing(pl, bl), NEW room, IsRoom(room, pl.head),
         NEW n, Multiple(n), n <= Span, NEW large \in BOOLEAN,
         NEW size \in Int, size > 0, RoundUp(size) <= n, large => RoundUp(size) = n,
         NEW a, a = NewPuddle(pl, room, n, large, size)
  PROVE  Allocated(pl, a, size, bl, room) /\ SameSizes(pl, a.pool)
<1>1. CASE room = None
  <2>1. a = [at |-> TNULL, pool |-> pl, asked |-> n]
    BY <1>1 DEF NewPuddle, Result
  <2>2. ~ Fixed(pl, bl)
    BY OneKind
  <2>3. QED
    BY <1>1, <2>1, <2>2 DEF Allocated, Stays, SameKind, SameSizes
<1>2. CASE room # None
  <2>1. room \in Nat \ {0} /\ room \notin DOMAIN pl.head
    BY <1>2 DEF IsRoom
  <2>2. /\ a.at # TNULL /\ a.at \notin DOMAIN bl /\ a.asked = n
        /\ Growing(a.pool, With(bl, a.at, RoundUp(size)))
        /\ SameKind(pl, a.pool) /\ SameSizes(pl, a.pool)
        /\ DOMAIN a.pool.head = DOMAIN pl.head \cup {room}
    BY <1>2, <2>1, NewPuddleReady
  <2>3. n \in Int /\ n > 0
    BY Rounded DEF Multiple
  <2>4. ~ Fixed(pl, bl)
    BY OneKind
  <2>5. QED
    BY <1>2, <2>2, <2>3, <2>4 DEF Allocated, Stays
<1>3. QED
  BY <1>1, <1>2

(* A puddle of the pool's usual size is in one piece of memory.            *)
SmallEnough(pl) == pl.pudsize \in Int => RoundUp(pl.pudsize) <= Span

(* exec_AllocPool                                                          *)
LEMMA AllocPoolIs ==
  ASSUME NEW pl, NEW bl, Ready(pl, bl), NEW room, IsRoom(room, pl.head),
         NEW size \in Int, size > 0, RoundUp(size) <= Span,
         NEW a, a = AllocPool(pl, size, room), Growing(pl, bl) => SmallEnough(a.pool)
  PROVE  Allocated(pl, a, size, bl, room)
<1>1. CASE Fixed(pl, bl)
  <2>1. PICK r : r = Head(pl.list)
    OBVIOUS
  <2>2. IsFixed(pl) /\ r \in DOMAIN pl.head
    BY <1>1, <2>1, FixedHead
  <2>3. PICK c, other : c = StaticAlloc(pl.head[r], size) /\ other = SetHead(pl, r, c.mh)
    OBVIOUS
  <2>4. a = [at |-> c.at, pool |-> other, asked |-> 0]
    BY <2>1, <2>2, <2>3 DEF AllocPool, AllocFrom, Result
  <2>5. ~ Growing(pl, bl)
    BY <1>1, OneKind
  <2>6. CASE c.at = TNULL
    <3>1. Sound(pl.head[r]) /\ Shaped(pl)
      BY <1>1, <2>2 DEF Fixed, Tiled, Heads
    <3>2. c.mh = pl.head[r]
      BY <2>3, <2>6, <3>1, AllocHead
    <3>3. other = SetHead(pl, r, pl.head[r])
      BY <2>3, <3>2
    <3>4. SameKind(pl, other) /\ DOMAIN other.head = DOMAIN pl.head
      BY <2>2, <3>1, <3>3, SetSame
    <3>5. Fixed(other, bl)
      BY <1>1, <2>2, <3>1, <3>3, SetSame
    <3>6. QED
      BY <2>4, <2>5, <2>6, <3>4, <3>5 DEF Allocated, Stays
  <2>7. CASE c.at # TNULL
    <3>1. /\ c.at \notin DOMAIN bl /\ Fixed(other, With(bl, c.at, RoundUp(size)))
          /\ SameKind(pl, other) /\ DOMAIN other.head = DOMAIN pl.head
      BY <1>1, <2>2, <2>3, <2>7, AllocReady
    <3>2. QED
      BY <2>4, <2>5, <2>7, <3>1 DEF Allocated, Stays
  <2>8. QED
    BY <2>6, <2>7
<1>2. CASE Growing(pl, bl)
  <2>1. PICK q : q = IF "auto" \in pl.flags THEN Adapt(pl, size) ELSE pl
    OBVIOUS
  <2>2. Growing(q, bl) /\ SameKind(pl, q) /\ q.head = pl.head /\ q.list = pl.list
    <3>1. CASE "auto" \in pl.flags
      BY <1>2, <2>1, <3>1, Adapted
    <3>2. CASE "auto" \notin pl.flags
      BY <1>2, <2>1, <3>2 DEF SameKind
    <3>3. QED
      BY <3>1, <3>2
  <2>3. /\ ~ IsFixed(pl) /\ ~ Fixed(pl, bl) /\ ~ Fixed(q, bl)
    BY <1>2, <2>2, OneKind DEF Growing, IsFixed
  <2>4. PICK n : n = RoundUp(size)
    OBVIOUS
  <2>5. Multiple(n) /\ n \in Int /\ n > 0 /\ size <= n /\ RoundUp(n) = n
    BY <2>4, Rounded, RoundedMultiple DEF Multiple
  <2>6. /\ q.thressize \in Int /\ q.pudsize \in Int /\ q.thressize <= q.pudsize /\ Shaped(q)
        /\ Ordered(q.list, DOMAIN q.head, Large(q.head))
    BY <2>2 DEF Growing
  <2>7. a = IF size > RoundUp(q.thressize) THEN NewPuddle(q, room, n, TRUE, n)
            ELSE IF Serving(q, size) # {} THEN AllocFrom(q, q.list[Min(Serving(q, size))], size)
            ELSE NewPuddle(q, room, RoundUp(q.pudsize), FALSE, size)
    BY <2>1, <2>3, <2>4 DEF AllocPool
  <2>8. IsRoom(room, q.head) /\ Ready(q, bl)
    BY <2>2 DEF Ready
  <2>9. Allocated(q, a, size, bl, room)
    <3>1. CASE size > RoundUp(q.thressize)
      <4>1. a = NewPuddle(q, room, n, TRUE, n)
        BY <2>7, <3>1
      <4>2. n <= Span /\ n <= n /\ TRUE \in BOOLEAN
        BY <2>4, <2>5
      <4>3. Allocated(q, a, n, bl, room)
        BY <2>2, <2>5, <2>8, <4>1, <4>2, AskedFor
      <4>4. QED
        BY <2>4, <2>5, <4>3 DEF Allocated
    <3>2. CASE ~ (size > RoundUp(q.thressize)) /\ Serving(q, size) # {}
      <4>1. PICK i, r : i = Min(Serving(q, size)) /\ r = q.list[i]
        OBVIOUS
      <4>2. i \in Serving(q, size)
        <5>1. Serving(q, size) \subseteq DOMAIN q.list /\ DOMAIN q.list = 1..Len(q.list)
              /\ Len(q.list) \in Nat
          BY <2>6, OrderedIs DEF Serving
        <5>2. PICK S : S = Serving(q, size)
          OBVIOUS
        <5>3. S \in SUBSET Nat /\ S # {}
          BY <3>2, <5>1, <5>2
        <5>4. Min(S) \in S
          BY <5>3, MinIs
        <5>5. QED
          BY <4>1, <5>2, <5>4
      <4>3. r \in DOMAIN q.head
        <5>1. i \in DOMAIN q.list /\ DOMAIN q.list = 1..Len(q.list)
          BY <2>6, <4>2, OrderedIs DEF Serving
        <5>2. QED
          BY <2>6, <4>1, <5>1 DEF Ordered
      <4>4. PICK c, other : c = StaticAlloc(q.head[r], size) /\ other = SetHead(q, r, c.mh)
        OBVIOUS
      <4>5. c.at # TNULL
        BY <4>1, <4>2, <4>4 DEF Serving
      <4>6. a = [at |-> c.at, pool |-> other, asked |-> 0]
        BY <2>7, <3>2, <4>1, <4>4 DEF AllocFrom, Result
      <4>7. /\ c.at \notin DOMAIN bl /\ Growing(other, With(bl, c.at, RoundUp(size)))
            /\ SameKind(q, other) /\ DOMAIN other.head = DOMAIN q.head
        BY <2>2, <2>8, <4>3, <4>4, <4>5, AllocReady
      <4>8. QED
        BY <2>3, <4>5, <4>6, <4>7 DEF Allocated, Stays
    <3>3. CASE ~ (size > RoundUp(q.thressize)) /\ Serving(q, size) = {}
      <4>1. PICK m : m = RoundUp(q.pudsize)
        OBVIOUS
      <4>2. a = NewPuddle(q, room, m, FALSE, size)
        BY <2>7, <3>3, <4>1
      <4>3. Multiple(m) /\ m \in Int
        BY <2>6, <4>1, Rounded DEF Multiple
      <4>4. n <= m
        <5>1. Multiple(RoundUp(q.thressize)) /\ size <= RoundUp(q.thressize)
          BY <2>6, <3>3, Rounded DEF Multiple
        <5>2. n <= RoundUp(q.thressize)
          BY <2>4, <5>1, Rounded
        <5>3. q.thressize <= m
          <6>1. q.pudsize <= m
            BY <2>6, <4>1, Rounded
          <6>2. QED
            BY <2>6, <4>3, <6>1
        <5>4. RoundUp(q.thressize) <= m
          BY <2>6, <4>3, <5>3, Rounded
        <5>5. QED
          BY <2>5, <4>3, <5>1, <5>2, <5>4 DEF Multiple
      <4>5. a.pool.pudsize = q.pudsize
        <5>1. CASE room = None
          BY <4>2, <5>1 DEF NewPuddle, Result
        <5>2. CASE room # None
          <6>1. PICK l, mh : /\ l = <<room>> \o q.list
                             /\ mh = StaticAlloc(InitMemHead(Memory(room), m,
                                               "lowfrag" \in q.flags, FALSE), size).mh
            OBVIOUS
          <6>2. PICK o : o = [q EXCEPT !.list = l]
            OBVIOUS
          <6>3. a.pool = SetHead(o, room, mh)
            BY <4>2, <5>2, <6>1, <6>2 DEF NewPuddle, Result
          <6>4. o = [flags |-> q.flags, list |-> l, pudsize |-> q.pudsize,
                     thressize |-> q.thressize, mm |-> q.mm, head |-> q.head]
            BY <2>6, <6>2 DEF Shaped
          <6>5. QED
            BY <6>3, <6>4 DEF SetHead
        <5>3. QED
          BY <5>1, <5>2
      <4>6. m <= Span
        BY <1>2, <2>6, <4>1, <4>5 DEF SmallEnough
      <4>7. QED
        BY <2>2, <2>4, <2>8, <4>2, <4>3, <4>4, <4>6, AskedFor
    <3>4. QED
      BY <3>1, <3>2, <3>3
  <2>10. QED
    BY <1>2, <2>2, <2>3, <2>9 DEF Allocated, Stays, SameKind
<1>3. QED
  BY <1>1, <1>2 DEF Ready

(* The puddle of a block is found.                                         *)
LEMMA HolderIs ==
  ASSUME NEW pl, NEW bl, Growing(pl, bl), NEW p \in DOMAIN bl, NEW size \in Int, size > 0,
         bl[p] = RoundUp(size), NEW i, i = Holder(pl, p, size)
  PROVE  /\ i \in 1..Len(pl.list) /\ pl.list[i] \in DOMAIN pl.head
         /\ Inside(pl.head[pl.list[i]], p, bl[p])
<1>1. Heads(pl.head) /\ Blocks(pl.head, bl) /\ Ordered(pl.list, DOMAIN pl.head, Large(pl.head))
  BY DEF Growing, Tiled
<1>2. PICK r \in DOMAIN pl.head : Inside(pl.head[r], p, bl[p])
  BY <1>1 DEF Blocks
<1>3. PICK k \in 1..Len(pl.list) : pl.list[k] = r
  BY <1>1 DEF Ordered
<1>4. p \in Int /\ bl[p] \in Int /\ bl[p] > 0 /\ size <= bl[p]
  BY <1>1, BlockIs, Rounded
<1>5. Holds(pl, r, p, size)
  <2>1. pl.head[r].mem \in Int /\ pl.head[r].end \in Int
    BY <1>1, SoundParts DEF Heads
  <2>2. QED
    BY <1>2, <1>4, <2>1 DEF Holds, Inside
<1>6. PICK S : S = {j \in 1..Len(pl.list) : Holds(pl, pl.list[j], p, size)}
  OBVIOUS
<1>7. k \in S
  BY <1>3, <1>5, <1>6
<1>8. i = Min(S)
  BY <1>6, <1>7 DEF Holder, SelectInSeq
<1>9. i \in S
  <2>1. S \in SUBSET Nat /\ S # {}
    BY <1>6, <1>7
  <2>2. QED
    BY <1>8, <2>1, MinIs
<1>10. i \in 1..Len(pl.list) /\ Inside(pl.head[pl.list[i]], p, size)
  BY <1>6, <1>9 DEF Holds, Inside
<1>11. pl.list[i] \in DOMAIN pl.head
  BY <1>1, <1>10 DEF Ordered
<1>12. pl.list[i] = r
  BY <1>1, <1>2, <1>4, <1>10, <1>11, OneHolder
<1>13. QED
  BY <1>2, <1>10, <1>12

(* A puddle that is not whole has a byte that is in no free node.          *)
LEMMA NotWhole ==
  ASSUME NEW mh, Sound(mh), mh.free # mh.end - mh.mem
  PROVE  \E b \in Int : InMemory(mh, b) /\ ~ Covers(mh.list, b)
<1>1. /\ mh.mem \in Int /\ mh.end \in Int /\ mh.mem <= mh.end
      /\ mh.free = Cardinality(FreeSet(mh))
  BY SoundParts
<1>2. SUFFICES ASSUME \A b \in Int : InMemory(mh, b) => Covers(mh.list, b) PROVE FALSE
  OBVIOUS
<1>3. FreeSet(mh) = mh.mem..(mh.end - 1)
  BY <1>1, <1>2 DEF FreeSet, InMemory
<1>4. Cardinality(mh.mem..(mh.end - 1)) = mh.end - mh.mem
  <2>1. PICK x, y : x = mh.mem /\ y = mh.end
    OBVIOUS
  <2>2. x \in Int /\ y - 1 \in Int /\ x <= y
    BY <1>1, <2>1
  <2>3. Cardinality(x..(y - 1)) = IF x > y - 1 THEN 0 ELSE (y - 1) - x + 1
    BY <2>2, FS_Interval
  <2>4. QED
    BY <1>1, <2>1, <2>3
<1>5. QED
  BY <1>1, <1>3, <1>4

(* The list may say of other pieces what it likes.                         *)
LEMMA OrderedSame ==
  ASSUME NEW q, NEW D, NEW L, NEW M, Ordered(q, D, L), \A r \in D : r \in L <=> r \in M
  PROVE  Ordered(q, D, M)
  BY DEF Ordered

(* Every other puddle keeps its block.                                     *)
LEMMA OthersUsed ==
  ASSUME NEW h, NEW bl, Heads(h), Blocks(h, bl), Used(h, bl), NEW r \in DOMAIN h,
         NEW p \in DOMAIN bl, Inside(h[r], p, bl[p]), NEW s \in DOMAIN h, s # r
  PROVE  \E q \in DOMAIN bl \ {p} : Uses(h[s], q, bl[q])
<1>1. PICK q \in DOMAIN bl : Uses(h[s], q, bl[q])
  BY DEF Used
<1>2. p \in Int /\ bl[p] \in Int /\ bl[p] > 0
  BY BlockIs
<1>3. q # p
  <2>1. SUFFICES ASSUME q = p PROVE FALSE
    OBVIOUS
  <2>2. Inside(h[s], p, bl[p])
    BY <1>1, <2>1 DEF Uses
  <2>3. QED
    BY <1>2, <2>2, OneHolder
<1>4. QED
  BY <1>1, <1>3

(* What freeing a block leaves behind; a puddle may be gone.               *)
Released(pl, other, bl, p) ==
  /\ SameKind(pl, other) /\ SameSizes(pl, other)
  /\ \E r \in DOMAIN pl.head : /\ Inside(pl.head[r], p, bl[p])
                               /\ \/ DOMAIN other.head = DOMAIN pl.head
                                  \/ DOMAIN other.head = DOMAIN pl.head \ {r}

(* A puddle whose block goes is kept: there is another block in it, and it *)
(* is not a large one.                                                     *)
LEMMA KeptUsed ==
  ASSUME NEW h, NEW bl, Tiled(h, bl), Used(h, bl), NEW r \in DOMAIN h,
         NEW p \in DOMAIN bl, Inside(h[r], p, bl[p]),
         NEW k, OneChanged(h, r, k), SameMemory(h[r], k[r]), Tiled(k, DropKey(bl, p)),
         k[r].free # k[r].end - k[r].mem
  PROVE  Used(k, DropKey(bl, p)) /\ ~ h[r].large
<1>1. Heads(h) /\ Blocks(h, bl) /\ Heads(k) /\ Blocks(k, DropKey(bl, p))
  BY DEF Tiled
<1>2. PICK bm : bm = DropKey(bl, p)
  OBVIOUS
<1>3. DOMAIN bm = DOMAIN bl \ {p} /\ \A q \in DOMAIN bm : bm[q] = bl[q]
  BY <1>2 DEF DropKey
<1>4. r \in DOMAIN k /\ DOMAIN k = DOMAIN h /\ Sound(k[r])
  BY <1>1 DEF OneChanged, Heads
<1>5. PICK b \in Int : InMemory(k[r], b) /\ ~ Covers(k[r].list, b)
  BY <1>4, NotWhole
<1>6. PICK q \in DOMAIN bm : Within(b, q, bm[q])
  BY <1>2, <1>4, <1>5 DEF Tiled, InBlock
<1>7. PICK s \in DOMAIN k : Inside(k[s], q, bm[q])
  BY <1>1, <1>2 DEF Blocks
<1>8. s = r
  <2>1. InMemory(k[s], b)
    BY <1>1, <1>2, <1>6, <1>7, BlockIs
  <2>2. QED
    BY <1>1, <1>4, <1>5, <2>1, HeadsApart
<1>9. Inside(h[r], q, bl[q]) /\ q \in DOMAIN bl /\ q # p
  BY <1>3, <1>7, <1>8 DEF SameMemory, Inside
<1>10. ~ h[r].large
  <2>1. SUFFICES ASSUME h[r].large PROVE FALSE
    OBVIOUS
  <2>2. PICK z \in DOMAIN bl : Inside(h[r], z, bl[z]) /\ bl[z] = h[r].end - h[r].mem
    BY <2>1 DEF Used, Uses
  <2>3. PICK x \in {p, q} : x # z
    BY <1>9
  <2>4. /\ x \in DOMAIN bl /\ Inside(h[r], x, bl[x]) /\ AreApart(bl, x, z)
    BY <1>1, <1>9, <2>3 DEF Blocks
  <2>5. /\ x \in Int /\ bl[x] \in Int /\ bl[x] > 0 /\ z \in Int /\ bl[z] \in Int
        /\ h[r].mem \in Int /\ h[r].end \in Int
    BY <1>1, <2>4, BlockIs, SoundParts DEF Heads
  <2>6. QED
    BY <2>2, <2>4, <2>5 DEF AreApart, Inside
<1>11. ASSUME NEW t \in DOMAIN k PROVE \E z \in DOMAIN bm : Uses(k[t], z, bm[z])
  <2>1. CASE t = r
    <3>1. Inside(k[r], q, bm[q])
      BY <1>7, <1>8
    <3>2. ~ k[r].large
      BY <1>10 DEF SameMemory
    <3>3. QED
      BY <1>6, <2>1, <3>1, <3>2 DEF Uses
  <2>2. CASE t # r
    <3>1. PICK z \in DOMAIN bl \ {p} : Uses(h[t], z, bl[z])
      BY <1>1, <1>4, <2>2, OthersUsed
    <3>2. k[t] = h[t]
      BY <1>4, <2>2 DEF OneChanged
    <3>3. QED
      BY <1>3, <3>1, <3>2
  <2>3. QED
    BY <2>1, <2>2
<1>12. QED
  BY <1>2, <1>10, <1>11 DEF Used

(* exec_FreePool of a pool that takes puddles from its memory manager.     *)
LEMMA ReleaseReady ==
  ASSUME NEW pl, NEW bl, Growing(pl, bl), NEW p \in DOMAIN bl, NEW size \in Int, size > 0,
         bl[p] = RoundUp(size), NEW other, other = Release(pl, p, size)
  PROVE  Growing(other, DropKey(bl, p)) /\ Released(pl, other, bl, p)
<1>1. /\ Shaped(pl) /\ "fixed" \notin pl.flags
      /\ pl.pudsize \in Int /\ pl.thressize \in Int /\ pl.thressize <= pl.pudsize
      /\ Tiled(pl.head, bl) /\ Used(pl.head, bl)
      /\ Ordered(pl.list, DOMAIN pl.head, Large(pl.head))
  BY DEF Growing
<1>2. PICK i, r : i = Holder(pl, p, size) /\ r = pl.list[i]
  OBVIOUS
<1>3. i \in 1..Len(pl.list) /\ r \in DOMAIN pl.head /\ Inside(pl.head[r], p, bl[p])
  BY <1>2, HolderIs
<1>4. PICK mh : mh = StaticFree(pl.head[r], p, size)
  OBVIOUS
<1>5. Given(pl.head[r], mh, p, bl[p])
  <2>1. Occupied(pl.head[r], p, RoundUp(size))
    BY <1>1, <1>3, BlockOccupied
  <2>2. Sound(pl.head[r])
    BY <1>1, <1>3 DEF Tiled, Heads
  <2>3. QED
    BY <1>4, <2>1, <2>2, FreeHead
<1>6. SameMemory(pl.head[r], mh)
  BY <1>5 DEF Given
<1>7. PICK o, bm : o = SetHead(pl, r, mh) /\ bm = DropKey(bl, p)
  OBVIOUS
<1>8. /\ Shaped(o) /\ SameKind(pl, o) /\ SameSizes(pl, o) /\ o.list = pl.list
      /\ DOMAIN o.head = DOMAIN pl.head /\ o.head[r] = mh
      /\ \A s \in DOMAIN pl.head : s # r => o.head[s] = pl.head[s]
  <2>1. /\ Shaped(o) /\ SameKind(pl, o) /\ SameSizes(pl, o) /\ o.list = pl.list
        /\ DOMAIN o.head = DOMAIN pl.head \cup {r} /\ o.head[r] = mh
        /\ \A s \in DOMAIN pl.head : s # r => o.head[s] = pl.head[s]
    BY <1>1, <1>7, SetHeadIs
  <2>2. DOMAIN pl.head \cup {r} = DOMAIN pl.head
    BY <1>3
  <2>3. QED
    BY <2>1, <2>2
<1>9. OneChanged(pl.head, r, o.head)
  BY <1>8 DEF OneChanged
<1>10. Tiled(o.head, bm)
  BY <1>1, <1>3, <1>5, <1>7, <1>8, <1>9, GivenTiled
<1>11. DOMAIN bm = DOMAIN bl \ {p} /\ \A q \in DOMAIN bm : bm[q] = bl[q]
  BY <1>7 DEF DropKey
<1>12. Large(o.head) = Large(pl.head)
  BY <1>6, <1>8 DEF Large, SameMemory
<1>13. CASE mh.free = mh.end - mh.mem
  <2>1. PICK k, l : k = DropKey(pl.head, r) /\ l = RemoveAt(pl.list, i)
    OBVIOUS
  <2>2. DOMAIN k = DOMAIN pl.head \ {r} /\ \A s \in DOMAIN k : k[s] = pl.head[s]
    BY <2>1 DEF DropKey
  <2>3. other = [pl EXCEPT !.list = l, !.head = k]
    BY <1>2, <1>4, <1>13, <2>1 DEF Release
  <2>4. other = [flags |-> pl.flags, list |-> l, pudsize |-> pl.pudsize,
                 thressize |-> pl.thressize, mm |-> pl.mm, head |-> k]
    BY <1>1, <2>3 DEF Shaped
  <2>5. Tiled(k, bm)
    <3>1. \A b \in Int : InMemory(o.head[r], b) => Covers(o.head[r].list, b)
      <4>1. Sound(mh)
        BY <1>5 DEF Given
      <4>2. /\ mh.mem \in Int /\ mh.end \in Int
            /\ \A b \in mh.mem..(mh.end - 1) : Covers(mh.list, b)
        BY <1>13, <4>1, SoundParts
      <4>3. QED
        BY <1>8, <4>2 DEF InMemory
    <3>2. DOMAIN k = DOMAIN o.head \ {r} /\ \A s \in DOMAIN k : k[s] = o.head[s]
      BY <1>8, <2>2
    <3>3. r \in DOMAIN o.head
      BY <1>3, <1>8
    <3>4. QED
      BY <1>10, <3>1, <3>2, <3>3, PuddleDropped
  <2>6. ASSUME NEW s \in DOMAIN k PROVE \E q \in DOMAIN bm : Uses(k[s], q, bm[q])
    <3>1. s \in DOMAIN pl.head /\ s # r /\ k[s] = pl.head[s]
      BY <2>2
    <3>2. PICK q \in DOMAIN bl \ {p} : Uses(pl.head[s], q, bl[q])
      BY <1>1, <1>3, <3>1, OthersUsed DEF Tiled
    <3>3. QED
      BY <1>11, <3>1, <3>2
  <2>7. Ordered(l, DOMAIN k, Large(k))
    <3>1. Ordered(l, DOMAIN pl.head \ {r}, Large(pl.head))
      BY <1>1, <1>2, <1>3, <2>1, OrderedRemove
    <3>2. \A s \in DOMAIN k : s \in Large(pl.head) <=> s \in Large(k)
      BY <2>2 DEF Large
    <3>3. QED
      BY <2>2, <3>1, <3>2, OrderedSame
  <2>8. Shaped(other)
    BY <2>4 DEF Shaped
  <2>9. Growing(other, bm)
    BY <1>1, <2>4, <2>5, <2>6, <2>7, <2>8 DEF Growing, Used
  <2>10. Released(pl, other, bl, p)
    BY <1>3, <2>2, <2>4 DEF Released, SameKind, SameSizes
  <2>11. QED
    BY <1>7, <2>9, <2>10
<1>14. CASE mh.free # mh.end - mh.mem
  <2>1. Used(o.head, bm) /\ ~ pl.head[r].large
    BY <1>1, <1>3, <1>6, <1>7, <1>8, <1>9, <1>10, <1>14, KeptUsed
  <2>2. PICK l : l = NodeUp(pl.list, i)
    OBVIOUS
  <2>3. other = [o EXCEPT !.list = l]
    BY <1>2, <1>4, <1>7, <1>8, <1>14, <2>2 DEF Release
  <2>4. other = [flags |-> o.flags, list |-> l, pudsize |-> o.pudsize,
                 thressize |-> o.thressize, mm |-> o.mm, head |-> o.head]
    BY <1>8, <2>3 DEF Shaped
  <2>5. Ordered(l, DOMAIN pl.head, Large(pl.head))
    BY <1>1, <1>2, <1>3, <2>1, <2>2, OrderedUp DEF Large
  <2>6. Shaped(other)
    BY <2>4 DEF Shaped
  <2>7. Growing(other, bm)
    BY <1>1, <1>8, <1>10, <1>12, <2>1, <2>4, <2>5, <2>6 DEF Growing, SameKind, SameSizes
  <2>8. Released(pl, other, bl, p)
    BY <1>3, <1>8, <2>4 DEF Released, SameKind, SameSizes
  <2>9. QED
    BY <1>7, <2>7, <2>8
<1>15. QED
  BY <1>13, <1>14

(* A puddle that is no longer a large one is in the same place.            *)
LEMMA SmallTiled ==
  ASSUME NEW h, NEW bl, Tiled(h, bl), NEW r \in DOMAIN h, NEW k, OneChanged(h, r, k),
         k[r] = [h[r] EXCEPT !.large = FALSE]
  PROVE  /\ Tiled(k, bl) /\ k[r].mem = h[r].mem /\ k[r].end = h[r].end /\ ~ k[r].large
<1>1. Heads(h) /\ Sound(h[r]) /\ DOMAIN k = DOMAIN h
  BY DEF Tiled, Heads, OneChanged
<1>2. /\ k[r] \in MemHeads /\ k[r].mem = h[r].mem /\ k[r].end = h[r].end /\ k[r].list = h[r].list
      /\ k[r].free = h[r].free /\ ~ k[r].large
  <2>1. h[r] \in MemHeads
    BY <1>1 DEF Sound
  <2>2. QED
    BY <2>1 DEF MemHeads
<1>3. FreeSet(k[r]) = FreeSet(h[r])
  BY <1>2 DEF FreeSet
<1>4. Sound(k[r])
  BY <1>1, <1>2, <1>3 DEF Sound
<1>5. \A s \in DOMAIN h : /\ k[s].mem = h[s].mem /\ k[s].end = h[s].end
                          /\ k[s].list = h[s].list
  BY <1>2 DEF OneChanged
<1>6. Heads(k)
  BY <1>1, <1>4, <1>5 DEF Heads, OneChanged
<1>7. Blocks(k, bl)
  BY <1>1, <1>5 DEF Blocks, Tiled, Inside
<1>8. QED
  BY <1>1, <1>2, <1>5, <1>6, <1>7 DEF Tiled, InMemory

(* A block has been resized in its puddle.                                 *)
LEMMA ResizeReady ==
  ASSUME NEW pl, NEW bl, Growing(pl, bl), NEW i \in 1..Len(pl.list), NEW r \in DOMAIN pl.head,
         pl.list[i] = r, NEW p \in DOMAIN bl, Inside(pl.head[r], p, bl[p]),
         NEW n, Multiple(n), n > 0, NEW s, Resized(pl.head[r], s, p, bl[p], n),
         NEW other, other = NoLongerLarge(SetHead(pl, r, s.mh), i)
  PROVE  /\ s.at \notin DOMAIN bl \ {p}
         /\ Growing(other, With(DropKey(bl, p), s.at, n))
         /\ SameKind(pl, other) /\ SameSizes(pl, other) /\ DOMAIN other.head = DOMAIN pl.head
<1>1. /\ Shaped(pl) /\ "fixed" \notin pl.flags
      /\ pl.pudsize \in Int /\ pl.thressize \in Int /\ pl.thressize <= pl.pudsize
      /\ Tiled(pl.head, bl) /\ Used(pl.head, bl)
      /\ Ordered(pl.list, DOMAIN pl.head, Large(pl.head))
  BY DEF Growing
<1>2. PICK o, mh, a : mh = s.mh /\ a = s.at /\ o = SetHead(pl, r, mh)
  OBVIOUS
<1>3. /\ Shaped(o) /\ SameKind(pl, o) /\ SameSizes(pl, o) /\ o.list = pl.list
      /\ DOMAIN o.head = DOMAIN pl.head /\ o.head[r] = mh
      /\ \A t \in DOMAIN pl.head : t # r => o.head[t] = pl.head[t]
  <2>1. /\ Shaped(o) /\ SameKind(pl, o) /\ SameSizes(pl, o) /\ o.list = pl.list
        /\ DOMAIN o.head = DOMAIN pl.head \cup {r} /\ o.head[r] = mh
        /\ \A t \in DOMAIN pl.head : t # r => o.head[t] = pl.head[t]
    BY <1>1, <1>2, SetHeadIs
  <2>2. DOMAIN pl.head \cup {r} = DOMAIN pl.head
    OBVIOUS
  <2>3. QED
    BY <2>1, <2>2
<1>4. OneChanged(pl.head, r, o.head)
  BY <1>3 DEF OneChanged
<1>5. PICK bm : bm = With(DropKey(bl, p), a, n)
  OBVIOUS
<1>6. a \notin DOMAIN bl \ {p} /\ Tiled(o.head, bm)
  <2>1. /\ s.at \notin DOMAIN bl \ {p}
        /\ Tiled(o.head, With(DropKey(bl, p), s.at, n))
    BY <1>1, <1>2, <1>3, <1>4, ResizedTiled
  <2>2. QED
    BY <1>2, <1>5, <2>1
<1>7. SameMemory(pl.head[r], mh) /\ Inside(mh, a, n)
  BY <1>2 DEF Resized, SameMemory, Inside
<1>8. /\ DOMAIN bm = (DOMAIN bl \ {p}) \cup {a} /\ bm[a] = n
      /\ \A q \in DOMAIN bl \ {p} : bm[q] = bl[q]
  BY <1>5, <1>6 DEF With, DropKey
<1>9. Large(o.head) = Large(pl.head)
  BY <1>3, <1>7 DEF Large, SameMemory
<1>10. ASSUME NEW k, OneChanged(pl.head, r, k), k[r].mem = mh.mem, k[r].end = mh.end, ~ k[r].large
       PROVE  Used(k, bm)
  <2>1. ASSUME NEW t \in DOMAIN k PROVE \E q \in DOMAIN bm : Uses(k[t], q, bm[q])
    <3>1. CASE t = r
      <4>1. Inside(k[r], a, n)
        BY <1>7, <1>10 DEF Inside
      <4>2. QED
        BY <1>8, <1>10, <3>1, <4>1 DEF Uses
    <3>2. CASE t # r
      <4>1. t \in DOMAIN pl.head /\ k[t] = pl.head[t]
        BY <1>10, <2>1, <3>2 DEF OneChanged
      <4>2. PICK q \in DOMAIN bl \ {p} : Uses(pl.head[t], q, bl[q])
        BY <1>1, <3>2, <4>1, OthersUsed DEF Tiled
      <4>3. QED
        BY <1>8, <4>1, <4>2
    <3>3. QED
      BY <3>1, <3>2
  <2>2. QED
    BY <2>1 DEF Used
<1>11. CASE mh.large
  <2>1. PICK l, k : l = <<r>> \o RemoveAt(pl.list, i) /\ k = [o.head EXCEPT ![r].large = FALSE]
    OBVIOUS
  <2>2. other = [o EXCEPT !.list = l, !.head = k]
    <3>1. o.list[i] = r /\ o.list = pl.list /\ o.head[r].large /\ other = NoLongerLarge(o, i)
      BY <1>2, <1>3, <1>11
    <3>2. other = [o EXCEPT !.list = <<r>> \o RemoveAt(@, i), !.head[r].large = FALSE]
      BY <3>1 DEF NoLongerLarge
    <3>3. QED
      BY <2>1, <3>1, <3>2
  <2>3. other = [flags |-> o.flags, list |-> l, pudsize |-> o.pudsize,
                 thressize |-> o.thressize, mm |-> o.mm, head |-> k]
    BY <1>3, <2>2 DEF Shaped
  <2>4. OneChanged(o.head, r, k) /\ k[r] = [o.head[r] EXCEPT !.large = FALSE]
    BY <1>3, <2>1 DEF OneChanged
  <2>5. Tiled(k, bm) /\ k[r].mem = mh.mem /\ k[r].end = mh.end /\ ~ k[r].large
    BY <1>3, <1>6, <2>4, SmallTiled
  <2>6. OneChanged(pl.head, r, k)
    BY <1>4, <2>4 DEF OneChanged
  <2>7. Used(k, bm)
    BY <1>10, <2>5, <2>6
  <2>8. Ordered(l, DOMAIN k, Large(k))
    <3>1. Ordered(RemoveAt(pl.list, i), DOMAIN pl.head \ {r}, Large(pl.head))
      BY <1>1, OrderedRemove
    <3>2. r \in Nat
      BY <1>1, OrderedIs
    <3>3. Ordered(l, (DOMAIN pl.head \ {r}) \cup {r}, Large(pl.head) \ {r})
      BY <2>1, <3>1, <3>2, OrderedFirst
    <3>4. DOMAIN k = (DOMAIN pl.head \ {r}) \cup {r}
      BY <2>6 DEF OneChanged
    <3>5. Large(k) = Large(pl.head) \ {r}
      BY <2>5, <2>6 DEF Large, OneChanged
    <3>6. QED
      BY <3>3, <3>4, <3>5
  <2>9. Shaped(other)
    BY <2>3 DEF Shaped
  <2>10. Growing(other, bm)
    BY <1>1, <1>3, <2>3, <2>5, <2>7, <2>8, <2>9 DEF Growing, SameKind, SameSizes
  <2>11. SameKind(pl, other) /\ SameSizes(pl, other) /\ DOMAIN other.head = DOMAIN pl.head
    BY <1>3, <2>3, <2>6 DEF SameKind, SameSizes, OneChanged
  <2>12. QED
    BY <1>2, <1>5, <1>6, <2>10, <2>11
<1>12. CASE ~ mh.large
  <2>1. other = o
    BY <1>2, <1>3, <1>12 DEF NoLongerLarge
  <2>2. Used(o.head, bm)
    BY <1>3, <1>4, <1>10, <1>12
  <2>3. Growing(o, bm)
    BY <1>1, <1>3, <1>6, <1>9, <2>2 DEF Growing, SameKind, SameSizes
  <2>4. QED
    BY <1>2, <1>3, <1>5, <1>6, <2>1, <2>3
<1>13. QED
  BY <1>11, <1>12

(* The same for the puddle of a fixed pool.                                *)
LEMMA ResizeFixed ==
  ASSUME NEW pl, NEW bl, Fixed(pl, bl), NEW r, r = pl.list[1], NEW p \in DOMAIN bl,
         NEW n, Multiple(n), n > 0, NEW s, Resized(pl.head[r], s, p, bl[p], n),
         NEW other, other = NoLongerLarge(SetHead(pl, r, s.mh), 1)
  PROVE  /\ s.at \notin DOMAIN bl \ {p}
         /\ Fixed(other, With(DropKey(bl, p), s.at, n))
         /\ SameKind(pl, other) /\ DOMAIN other.head = DOMAIN pl.head
<1>1. /\ Tiled(pl.head, bl) /\ r \in DOMAIN pl.head /\ DOMAIN pl.head = {r} /\ Ready(pl, bl)
      /\ ~ Growing(pl, bl) /\ Large(pl.head) = {} /\ pl.list[1] = r
  BY FixedHead, OneKind DEF Fixed, Ready
<1>2. Inside(pl.head[r], p, bl[p])
  BY <1>1 DEF Tiled, Blocks
<1>3. PICK o, mh, a : mh = s.mh /\ a = s.at /\ o = SetHead(pl, r, mh)
  OBVIOUS
<1>4. SameMemory(pl.head[r], mh)
  BY <1>3 DEF Resized
<1>5. OneChanged(pl.head, r, o.head) /\ o.head[r] = mh
  <2>1. /\ DOMAIN o.head = DOMAIN pl.head \cup {r} /\ o.head[r] = mh
        /\ \A t \in DOMAIN pl.head : t # r => o.head[t] = pl.head[t]
    BY <1>3, SetHeadIs DEF Fixed
  <2>2. DOMAIN pl.head \cup {r} = DOMAIN pl.head
    BY <1>1
  <2>3. QED
    BY <2>1, <2>2 DEF OneChanged
<1>6. PICK bm : bm = With(DropKey(bl, p), a, n)
  OBVIOUS
<1>7. a \notin DOMAIN bl \ {p} /\ Tiled(o.head, bm)
  <2>1. /\ s.at \notin DOMAIN bl \ {p}
        /\ Tiled(o.head, With(DropKey(bl, p), s.at, n))
    BY <1>1, <1>2, <1>3, <1>5, ResizedTiled
  <2>2. QED
    BY <1>3, <1>6, <2>1
<1>8. /\ Fixed(o, bm) /\ SameKind(pl, o) /\ o.list = pl.list /\ DOMAIN o.head = DOMAIN pl.head
  <2>1. Fixed(pl, bl) => Fixed(o, bm)
    BY <1>1, <1>3, <1>4, <1>7, HeadChanged
  <2>2. SameKind(pl, o) /\ o.list = pl.list /\ OneChanged(pl.head, r, o.head)
    BY <1>1, <1>3, <1>4, <1>7, HeadChanged
  <2>3. QED
    BY <2>1, <2>2 DEF OneChanged
<1>9. other = o
  <2>1. ~ mh.large
    BY <1>1, <1>4 DEF Large, SameMemory
  <2>2. QED
    BY <1>1, <1>3, <1>5, <1>8, <2>1 DEF NoLongerLarge
<1>10. QED
  BY <1>3, <1>6, <1>7, <1>8, <1>9

(* No free node has any of the n bytes at p.                               *)
Clear(h, p, n) ==
  \A r \in DOMAIN h : Sound(h[r]) /\ \A b \in Int : Within(b, p, n) => ~ Covers(h[r].list, b)

(* It is so for a block.                                                   *)
LEMMA BlockClear ==
  ASSUME NEW h, NEW bl, Tiled(h, bl), NEW p \in DOMAIN bl
  PROVE  Clear(h, p, bl[p])
<1>1. ASSUME NEW r \in DOMAIN h, NEW b \in Int, Within(b, p, bl[p]), Covers(h[r].list, b)
      PROVE  FALSE
  <2>1. Sound(h[r])
    BY DEF Tiled, Heads
  <2>2. b \in FreeSet(h[r]) /\ h[r].mem \in Int /\ h[r].end \in Int
    BY <1>1, <2>1, SoundParts
  <2>3. InMemory(h[r], b)
    BY <2>2 DEF FreeSet, InMemory
  <2>4. InBlock(DOMAIN bl, bl, b)
    BY <1>1 DEF InBlock
  <2>5. QED
    BY <1>1, <2>3, <2>4 DEF Tiled
<1>2. QED
  BY <1>1 DEF Clear, Tiled, Heads

(* exec_FreePool                                                           *)
LEMMA FreePoolIs ==
  ASSUME NEW pl, NEW bl, Ready(pl, bl), NEW p \in DOMAIN bl, NEW size \in Int, size > 0,
         bl[p] = RoundUp(size), NEW other, other = FreePool(pl, p, size)
  PROVE  /\ Stays(pl, other, bl, DropKey(bl, p))
         /\ DOMAIN other.head \subseteq DOMAIN pl.head
<1>1. CASE Growing(pl, bl)
  <2>1. other = Release(pl, p, size)
    BY <1>1 DEF FreePool, Growing, IsFixed
  <2>2. Growing(other, DropKey(bl, p)) /\ Released(pl, other, bl, p)
    BY <1>1, <2>1, ReleaseReady
  <2>3. DOMAIN other.head \subseteq DOMAIN pl.head
    BY <2>2 DEF Released
  <2>4. ~ Fixed(pl, bl)
    BY <1>1, OneKind
  <2>5. QED
    BY <1>1, <2>2, <2>3, <2>4 DEF Stays, Released
<1>2. CASE Fixed(pl, bl)
  <2>1. PICK r : r = Head(pl.list)
    OBVIOUS
  <2>2. IsFixed(pl) /\ r \in DOMAIN pl.head /\ DOMAIN pl.head = {r} /\ ~ Growing(pl, bl)
    BY <1>2, <2>1, FixedHead, OneKind
  <2>3. PICK mh : mh = StaticFree(pl.head[r], p, size)
    OBVIOUS
  <2>4. other = SetHead(pl, r, mh)
    BY <2>1, <2>2, <2>3 DEF FreePool
  <2>5. Tiled(pl.head, bl) /\ Shaped(pl)
    BY <1>2 DEF Fixed
  <2>6. Inside(pl.head[r], p, bl[p])
    BY <2>2, <2>5 DEF Tiled, Blocks
  <2>7. Given(pl.head[r], mh, p, bl[p])
    <3>1. Occupied(pl.head[r], p, RoundUp(size))
      BY <2>2, <2>5, <2>6, BlockOccupied
    <3>2. Sound(pl.head[r])
      BY <2>2, <2>5 DEF Tiled, Heads
    <3>3. QED
      BY <2>3, <3>1, <3>2, FreeHead
  <2>8. SameMemory(pl.head[r], mh)
    BY <2>7 DEF Given
  <2>9. OneChanged(pl.head, r, other.head) /\ other.head[r] = mh
    <3>1. /\ DOMAIN other.head = DOMAIN pl.head \cup {r} /\ other.head[r] = mh
          /\ \A t \in DOMAIN pl.head : t # r => other.head[t] = pl.head[t]
      BY <2>4, <2>5, SetHeadIs
    <3>2. DOMAIN pl.head \cup {r} = DOMAIN pl.head
      BY <2>2
    <3>3. QED
      BY <3>1, <3>2 DEF OneChanged
  <2>10. Tiled(other.head, DropKey(bl, p))
    BY <2>2, <2>5, <2>6, <2>7, <2>9, GivenTiled
  <2>11. Fixed(pl, bl) => Fixed(other, DropKey(bl, p))
    BY <2>2, <2>4, <2>8, <2>10, HeadChanged
  <2>12. SameKind(pl, other)
    BY <2>4, <2>5, SetHeadIs
  <2>13. QED
    BY <1>2, <2>2, <2>9, <2>11, <2>12 DEF Stays, OneChanged
<1>3. QED
  BY <1>1, <1>2 DEF Ready

(* A block of old bytes at p has become one of new bytes at a.at.          *)
Reallocated(pl, a, bl, p, new, room) ==
  \/ /\ a.at = TNULL /\ Stays(pl, a.pool, bl, bl) /\ DOMAIN a.pool.head = DOMAIN pl.head
     /\ a.asked = 0 \/ room = None
  \/ /\ a.at # TNULL /\ a.at \notin DOMAIN bl \ {p}
     /\ Stays(pl, a.pool, bl, With(DropKey(bl, p), a.at, RoundUp(new)))
     /\ Clear(a.via.head, p, bl[p])
     /\ \/ a.asked = 0 /\ DOMAIN a.pool.head \subseteq DOMAIN pl.head
        \/ /\ a.asked \in Int /\ a.asked > 0 /\ room # None
           /\ room \in DOMAIN a.pool.head
           /\ DOMAIN a.pool.head \subseteq DOMAIN pl.head \cup {room}

(* Two puddles that a block is in have the same memory.                    *)
LEMMA SamePlace ==
  ASSUME NEW h, Heads(h), NEW k, Heads(k), NEW p \in Int, NEW n \in Int, n > 0,
         NEW r \in DOMAIN h, Inside(h[r], p, n), NEW s \in DOMAIN k, Inside(k[s], p, n)
  PROVE  r = s
<1>1. /\ r \in Nat \ {0} /\ s \in Nat \ {0} /\ h[r].end \in Int /\ k[s].end \in Int
      /\ h[r].mem = Memory(r) /\ h[r].end <= Memory(r) + Span
      /\ k[s].mem = Memory(s) /\ k[s].end <= Memory(s) + Span
  BY SoundParts DEF Heads
<1>2. Span \in Int /\ Memory(r) \in Int /\ Memory(s) \in Int
  BY <1>1, MemoryIs, SpanAssumption
<1>3. Memory(r) <= p /\ p < Memory(r) + Span /\ Memory(s) <= p /\ p < Memory(s) + Span
  BY <1>1, <1>2 DEF Inside
<1>4. QED
  BY <1>1, <1>3, MemoryApart

(* A block that cannot be resized in its puddle is allocated anew.         *)
LEMMA AnotherBlock ==
  ASSUME NEW pl, NEW bl, Growing(pl, bl), NEW p \in DOMAIN bl, NEW old \in Int, old > 0,
         bl[p] = RoundUp(old), NEW new \in Int, new > 0, RoundUp(new) <= Span,
         NEW room, IsRoom(room, pl.head), NEW c, c = AllocPool(pl, new, room),
         SmallEnough(c.pool),
         NEW a, a = [at |-> c.at, pool |-> IF c.at = TNULL THEN c.pool ELSE Release(c.pool, p, old),
                     via |-> c.pool, asked |-> c.asked]
  PROVE  Reallocated(pl, a, bl, p, new, room)
<1>1. Allocated(pl, c, new, bl, room) /\ ~ Fixed(pl, bl)
  <2>1. Ready(pl, bl)
    BY DEF Ready
  <2>2. QED
    BY <2>1, AllocPoolIs, OneKind
<1>2. CASE c.at = TNULL
  BY <1>1, <1>2 DEF Allocated, Reallocated
<1>3. CASE c.at # TNULL
  <2>1. PICK n, at, bm : n = RoundUp(new) /\ at = c.at /\ bm = With(bl, at, n)
    OBVIOUS
  <2>2. at \notin DOMAIN bl /\ SameKind(pl, c.pool) /\ Growing(c.pool, bm)
    BY <1>1, <1>3, <2>1 DEF Allocated, Stays
  <2>3. DOMAIN bm = DOMAIN bl \cup {at} /\ bm[at] = n /\ \A q \in DOMAIN bl : bm[q] = bl[q]
    BY <2>1, <2>2 DEF With
  <2>4. PICK o : o = Release(c.pool, p, old)
    OBVIOUS
  <2>5. Growing(o, DropKey(bm, p)) /\ Released(c.pool, o, bm, p)
    BY <2>2, <2>3, <2>4, ReleaseReady
  <2>6. DropKey(bm, p) = With(DropKey(bl, p), at, n)
    BY <2>2, <2>3 DEF DropKey, With
  <2>7. Clear(c.pool.head, p, bl[p])
    <3>1. Tiled(c.pool.head, bm) /\ p \in DOMAIN bm /\ bm[p] = bl[p]
      BY <2>2, <2>3 DEF Growing
    <3>2. QED
      BY <3>1, BlockClear
  <2>8. PICK r \in DOMAIN c.pool.head :
          /\ Inside(c.pool.head[r], p, bl[p])
          /\ \/ DOMAIN o.head = DOMAIN c.pool.head
             \/ DOMAIN o.head = DOMAIN c.pool.head \ {r}
    BY <2>3, <2>5 DEF Released
  <2>9. r \in DOMAIN pl.head
    <3>1. Heads(pl.head) /\ Blocks(pl.head, bl) /\ Heads(c.pool.head)
      BY <2>2 DEF Growing, Tiled
    <3>2. PICK s \in DOMAIN pl.head : Inside(pl.head[s], p, bl[p])
      BY <3>1 DEF Blocks
    <3>3. p \in Int /\ bl[p] \in Int /\ bl[p] > 0
      BY <3>1, BlockIs
    <3>4. QED
      BY <2>8, <3>1, <3>2, <3>3, SamePlace
  <2>10. a.at = at /\ a.pool = o /\ a.via = c.pool /\ a.asked = c.asked
    BY <1>3, <2>1, <2>4
  <2>11. Stays(pl, o, bl, With(DropKey(bl, p), at, n))
    BY <1>1, <2>2, <2>5, <2>6 DEF Stays, SameKind, Released
  <2>12. \/ a.asked = 0 /\ DOMAIN a.pool.head \subseteq DOMAIN pl.head
         \/ /\ a.asked \in Int /\ a.asked > 0 /\ room # None
            /\ room \in DOMAIN a.pool.head
            /\ DOMAIN a.pool.head \subseteq DOMAIN pl.head \cup {room}
    <3>1. CASE c.asked = 0 /\ DOMAIN c.pool.head = DOMAIN pl.head
      BY <2>8, <2>10, <3>1
    <3>2. CASE /\ c.asked \in Int /\ c.asked > 0 /\ room # None
               /\ DOMAIN c.pool.head = DOMAIN pl.head \cup {room}
      <4>1. room \notin DOMAIN pl.head
        BY <3>2 DEF IsRoom
      <4>2. QED
        BY <2>8, <2>9, <2>10, <3>2, <4>1
    <3>3. QED
      BY <1>1, <1>3, <3>1, <3>2 DEF Allocated
  <2>13. QED
    BY <1>3, <2>1, <2>2, <2>7, <2>10, <2>11, <2>12 DEF Reallocated
<1>4. QED
  BY <1>2, <1>3

(* What was copied was still there.                                        *)
LEMMA ResizeClear ==
  ASSUME NEW pl, NEW bl, Shaped(pl), Tiled(pl.head, bl), NEW r \in DOMAIN pl.head,
         NEW p \in DOMAIN bl, NEW s, NEW n, Resized(pl.head[r], s, p, bl[p], n),
         NEW via, via = SetHead(pl, r, s.via)
  PROVE  Clear(via.head, p, bl[p])
<1>1. Clear(pl.head, p, bl[p])
  BY BlockClear
<1>2. /\ DOMAIN via.head = DOMAIN pl.head \cup {r} /\ via.head[r] = s.via
      /\ \A t \in DOMAIN pl.head : t # r => via.head[t] = pl.head[t]
  BY SetHeadIs
<1>3. Sound(s.via) /\ \A b \in Int : Covers(s.via.list, b) => Covers(pl.head[r].list, b)
  BY DEF Resized
<1>4. QED
  BY <1>1, <1>2, <1>3 DEF Clear

(* Another list is still one of a pool, ...                                *)
LEMMA ListShaped ==
  ASSUME NEW pl, Shaped(pl), NEW l PROVE Shaped([pl EXCEPT !.list = l])
<1>1. PICK o : o = [pl EXCEPT !.list = l]
  OBVIOUS
<1>2. o = [flags |-> pl.flags, list |-> l, pudsize |-> pl.pudsize,
           thressize |-> pl.thressize, mm |-> pl.mm, head |-> pl.head]
  BY <1>1 DEF Shaped
<1>3. Shaped(o)
  BY <1>2 DEF Shaped
<1>4. QED
  BY <1>1, <1>3

(* ... and so is what an allocation leaves.                                *)
LEMMA AllocShaped ==
  ASSUME NEW pl, NEW bl, Growing(pl, bl), NEW size \in Int, NEW room, NEW c,
         c = AllocPool(pl, size, room)
  PROVE  Shaped(c.pool)
<1>1. ASSUME NEW q, Shaped(q), NEW n, NEW large, NEW m PROVE Shaped(NewPuddle(q, room, n, large, m).pool)
  <2>1. PICK l, mh : /\ l = IF large THEN Append(q.list, room) ELSE <<room>> \o q.list
                     /\ mh = StaticAlloc(InitMemHead(Memory(room), n,
                                       "lowfrag" \in q.flags, large), m).mh
    OBVIOUS
  <2>2. PICK o : o = [q EXCEPT !.list = l]
    OBVIOUS
  <2>3. PICK e : e = SetHead(o, room, mh)
    OBVIOUS
  <2>4. Shaped(e)
    BY <1>1, <2>2, <2>3, ListShaped, SetHeadIs
  <2>5. NewPuddle(q, room, n, large, m).pool = IF room = None THEN q ELSE e
    BY <2>1, <2>2, <2>3 DEF NewPuddle, Result
  <2>6. QED
    BY <1>1, <2>4, <2>5
<1>2. ASSUME NEW q, Shaped(q), NEW r, NEW m PROVE Shaped(AllocFrom(q, r, m).pool)
  <2>1. PICK mh : mh = StaticAlloc(q.head[r], m).mh
    OBVIOUS
  <2>2. PICK e : e = SetHead(q, r, mh)
    OBVIOUS
  <2>3. Shaped(e)
    BY <1>2, <2>2, SetHeadIs
  <2>4. AllocFrom(q, r, m).pool = e
    BY <2>1, <2>2 DEF AllocFrom, Result
  <2>5. QED
    BY <2>3, <2>4
<1>3. PICK q : q = IF "auto" \in pl.flags THEN Adapt(pl, size) ELSE pl
  OBVIOUS
<1>4. Shaped(q)
  BY <1>3, Adapted DEF Growing
<1>5. c = IF size > RoundUp(q.thressize) THEN NewPuddle(q, room, RoundUp(size), TRUE, RoundUp(size))
          ELSE IF Serving(q, size) # {} THEN AllocFrom(q, q.list[Min(Serving(q, size))], size)
          ELSE NewPuddle(q, room, RoundUp(q.pudsize), FALSE, size)
  BY <1>3 DEF AllocPool, Growing, IsFixed
<1>6. QED
  BY <1>1, <1>2, <1>4, <1>5

(* A block that is freed does not change tpl_PudSize.                      *)
LEMMA ReleaseSize ==
  ASSUME NEW pl, Shaped(pl), NEW p, NEW size PROVE Release(pl, p, size).pudsize = pl.pudsize
<1>1. PICK i, r, mh : /\ i = Holder(pl, p, size) /\ r = pl.list[i]
                      /\ mh = StaticFree(pl.head[r], p, size)
  OBVIOUS
<1>2. PICK k, l, m : k = DropKey(pl.head, r) /\ l = RemoveAt(pl.list, i) /\ m = NodeUp(pl.list, i)
  OBVIOUS
<1>3. PICK o : o = SetHead(pl, r, mh)
  OBVIOUS
<1>4. Shaped(o) /\ o.list = pl.list /\ o.pudsize = pl.pudsize
  BY <1>3, SetHeadIs DEF SameSizes
<1>5. [o EXCEPT !.list = m].pudsize = pl.pudsize
  BY <1>4 DEF Shaped
<1>6. [pl EXCEPT !.list = l, !.head = k].pudsize = pl.pudsize
  BY DEF Shaped
<1>7. Release(pl, p, size) = IF mh.free = mh.end - mh.mem THEN [pl EXCEPT !.list = l, !.head = k]
                             ELSE [o EXCEPT !.list = m]
  BY <1>1, <1>2, <1>3, <1>4 DEF Release
<1>8. QED
  BY <1>5, <1>6, <1>7

(* exec_ReallocPool                                                        *)
LEMMA ReallocPoolIs ==
  ASSUME NEW pl, NEW bl, Ready(pl, bl), NEW p \in DOMAIN bl, NEW old \in Int, old > 0,
         bl[p] = RoundUp(old), NEW new \in Int, new > 0, RoundUp(new) <= Span,
         NEW room, IsRoom(room, pl.head), NEW a, a = ReallocPool(pl, p, old, new, room),
         Growing(pl, bl) => SmallEnough(a.pool)
  PROVE  Reallocated(pl, a, bl, p, new, room)
<1>1. PICK n : n = RoundUp(new)
  OBVIOUS
<1>2. Multiple(n) /\ n > 0
  BY <1>1, Rounded DEF Multiple
<1>3. /\ Shaped(pl) /\ Tiled(pl.head, bl) /\ Heads(pl.head)
  BY DEF Ready, Growing, Fixed, Tiled
<1>4. PICK i, r : i = (IF IsFixed(pl) THEN 1 ELSE Holder(pl, p, old)) /\ r = pl.list[i]
  OBVIOUS
<1>5. r \in DOMAIN pl.head /\ Inside(pl.head[r], p, bl[p])
      /\ (Growing(pl, bl) => i \in 1..Len(pl.list))
  <2>1. CASE Growing(pl, bl)
    BY <1>4, <2>1, HolderIs DEF Growing, IsFixed
  <2>2. CASE Fixed(pl, bl)
    <3>1. i = 1 /\ r = pl.list[1] /\ r \in DOMAIN pl.head /\ DOMAIN pl.head = {r}
      BY <1>4, <2>2, FixedHead
    <3>2. QED
      BY <1>3, <2>2, <3>1, OneKind DEF Tiled, Blocks
  <2>3. QED
    BY <2>1, <2>2 DEF Ready
<1>6. PICK s : s = StaticRealloc(pl.head[r], p, old, new)
  OBVIOUS
<1>7. (s.at = TNULL /\ s.mh = pl.head[r]) \/ Resized(pl.head[r], s, p, bl[p], n)
  <2>1. Occupied(pl.head[r], p, RoundUp(old))
    BY <1>3, <1>5, BlockOccupied
  <2>2. Sound(pl.head[r])
    BY <1>3, <1>5 DEF Heads
  <2>3. QED
    BY <1>1, <1>6, <2>1, <2>2, ReallocHead
<1>8. CASE Resized(pl.head[r], s, p, bl[p], n)
  <2>1. s.at # TNULL
    BY <1>8 DEF Resized
  <2>2. PICK o, via : /\ o = NoLongerLarge(SetHead(pl, r, s.mh), i)
                      /\ via = SetHead(pl, r, s.via)
    OBVIOUS
  <2>3. a = [at |-> s.at, pool |-> o, via |-> via, asked |-> 0]
    BY <1>4, <1>6, <2>1, <2>2 DEF ReallocPool, Result
  <2>4. Clear(via.head, p, bl[p])
    BY <1>3, <1>5, <1>8, <2>2, ResizeClear
  <2>5. /\ s.at \notin DOMAIN bl \ {p} /\ Stays(pl, o, bl, With(DropKey(bl, p), s.at, n))
        /\ DOMAIN o.head = DOMAIN pl.head
    <3>1. CASE Growing(pl, bl)
      <4>1. /\ s.at \notin DOMAIN bl \ {p}
            /\ Growing(o, With(DropKey(bl, p), s.at, n))
            /\ SameKind(pl, o) /\ SameSizes(pl, o) /\ DOMAIN o.head = DOMAIN pl.head
        BY <1>2, <1>4, <1>5, <1>8, <2>2, <3>1, ResizeReady, SMTT(20)
      <4>2. QED
        BY <3>1, <4>1, OneKind DEF Stays
    <3>2. CASE Fixed(pl, bl)
      <4>1. i = 1 /\ r = pl.list[1]
        BY <1>4, <3>2, FixedHead
      <4>2. /\ s.at \notin DOMAIN bl \ {p}
            /\ Fixed(o, With(DropKey(bl, p), s.at, n))
            /\ SameKind(pl, o) /\ DOMAIN o.head = DOMAIN pl.head
        BY <1>2, <1>8, <2>2, <3>2, <4>1, ResizeFixed
      <4>3. QED
        BY <3>2, <4>2, OneKind DEF Stays
    <3>3. QED
      BY <3>1, <3>2 DEF Ready
  <2>6. QED
    BY <1>1, <2>1, <2>3, <2>4, <2>5 DEF Reallocated
<1>9. CASE s.at = TNULL /\ s.mh = pl.head[r]
  <2>1. CASE Growing(pl, bl)
    <3>1. ~ IsFixed(pl)
      BY <2>1 DEF Growing, IsFixed
    <3>2. PICK c : c = AllocPool(pl, new, room)
      OBVIOUS
    <3>3. a = [at |-> c.at, pool |-> IF c.at = TNULL THEN c.pool ELSE Release(c.pool, p, old),
               via |-> c.pool, asked |-> c.asked]
      BY <1>4, <1>6, <1>9, <3>1, <3>2 DEF ReallocPool
    <3>4. c.pool.pudsize = a.pool.pudsize
      <4>1. CASE c.at = TNULL
        BY <3>3, <4>1
      <4>2. CASE c.at # TNULL
        BY <2>1, <3>2, <3>3, <4>2, AllocShaped, ReleaseSize
      <4>3. QED
        BY <4>1, <4>2
    <3>5. QED
      BY <2>1, <3>2, <3>3, <3>4, AnotherBlock DEF SmallEnough
  <2>2. CASE Fixed(pl, bl)
    <3>1. i = 1 /\ r = pl.list[1] /\ IsFixed(pl) /\ r = Head(pl.list) /\ DOMAIN pl.head = {r}
          /\ Large(pl.head) = {} /\ pl.list = <<r>>
      BY <1>4, <2>2, FixedHead DEF Fixed
    <3>2. PICK o, via : o = SetHead(pl, r, s.mh) /\ via = SetHead(pl, r, s.via)
      OBVIOUS
    <3>3. o = SetHead(pl, r, pl.head[r])
      BY <1>9, <3>2
    <3>4. SameKind(pl, o) /\ DOMAIN o.head = DOMAIN pl.head /\ \A bm : Fixed(pl, bm) => Fixed(o, bm)
      BY <1>3, <1>5, <3>3, SetSame
    <3>5. NoLongerLarge(o, 1) = o
      <4>1. Fixed(o, bl)
        BY <2>2, <3>4
      <4>2. o.list[1] \in DOMAIN o.head
        BY <4>1, FixedHead
      <4>3. ~ o.head[o.list[1]].large
        BY <4>1, <4>2, SMTT(20) DEF Fixed, Large
      <4>4. QED
        BY <4>3 DEF NoLongerLarge
    <3>6. a = [at |-> s.at, pool |-> NoLongerLarge(o, 1), via |-> via, asked |-> 0]
      BY <1>4, <1>6, <3>1, <3>2 DEF ReallocPool, Result
    <3>7. QED
      BY <1>9, <2>2, <3>4, <3>5, <3>6, OneKind DEF Reallocated, Stays
  <2>3. QED
    BY <2>1, <2>2 DEF Ready
<1>10. QED
  BY <1>7, <1>8, <1>9

-----------------------------------------------------------------------------
(***************************************************************************)
(* The host's memory, the managers and tasks that have it, and the steps   *)
(* of Next.                                                                *)
(***************************************************************************)

(* Type and Managers, with the managers ms.                                *)
TypeIn(ms, m) == IF m = Base THEN "kernel" ELSE IF m = Msg THEN "message" ELSE ms[m]

(* The managers there are.                                                 *)
ManagersIn(ms) == {Base, Msg} \cup DOMAIN ms

(* They are those of the model.                                            *)
LEMMA TypeIs == /\ \A m : Type(m) = TypeIn(mms, m)
                /\ Managers = ManagersIn(mms)
  BY DEF Type, TypeIn, Managers, ManagersIn

(* The memory that managers account for: every piece has as many bytes as  *)
(* its manager asked the host for, and message managers know their own.    *)
Books(f, ms) ==
  /\ f = [hal |-> f.hal, info |-> f.info, track |-> f.track]
  /\ DOMAIN ms \subseteq Room /\ \A m \in DOMAIN ms : ms[m] \in {"kernel", "message", "void"}
  /\ DOMAIN f.info \subseteq Room /\ DOMAIN f.hal = DOMAIN f.info
  /\ \A r \in DOMAIN f.info :
       /\ f.info[r] = [mm |-> f.info[r].mm, size |-> f.info[r].size] /\ f.info[r].size \in Int
       /\ f.info[r].mm # None =>
            /\ f.info[r].mm \in ManagersIn(ms)
            /\ f.hal[r] = HalSize(TypeIn(ms, f.info[r].mm), f.info[r].size)
  /\ DOMAIN f.track = {m \in ManagersIn(ms) : TypeIn(ms, m) = "message"}
  /\ \A m \in DOMAIN f.track : f.track[m] = {r \in DOMAIN f.info : f.info[r].mm = m}

(* The host hands out what it has not.                                     *)
LEMMA NextRoomIs ==
  ASSUME NEW m, NEW f, NEW r, r = NextRoom(m, f)
  PROVE  r = None \/ (r # None /\ r \in Room /\ r \notin DOMAIN f.hal)
<1>1. CASE Type(m) = "void" \/ Room \subseteq DOMAIN f.hal
  BY <1>1 DEF NextRoom
<1>2. CASE ~ (Type(m) = "void" \/ Room \subseteq DOMAIN f.hal)
  <2>1. PICK S : S = Room \ DOMAIN f.hal
    OBVIOUS
  <2>2. S \in SUBSET Nat /\ S # {}
    BY <1>2, <2>1, RoomAssumption
  <2>3. Min(S) \in S
    BY <2>2, MinIs
  <2>4. r = Min(S)
    BY <1>2, <2>1 DEF NextRoom
  <2>5. r \in Room /\ r \notin DOMAIN f.hal
    BY <2>1, <2>3, <2>4
  <2>6. r # None
    BY <2>5, NamesAssumption
  <2>7. QED
    BY <2>5, <2>6
<1>3. QED
  BY <1>1, <1>2

(* TAlloc                                                                  *)
LEMMA AllocBooks ==
  ASSUME NEW f, Books(f, mms), NEW m \in Managers, NEW n \in Int, NEW r \in Room,
         r \notin DOMAIN f.info, NEW g, g = Alloc(f, m, n, r)
  PROVE  /\ Books(g, mms)
         /\ DOMAIN g.info = DOMAIN f.info \cup {r} /\ g.info[r].mm = m
         /\ \A x \in DOMAIN f.info : g.info[x] = f.info[x]
<1>1. /\ DOMAIN f.info \subseteq Room /\ DOMAIN f.hal = DOMAIN f.info
      /\ DOMAIN f.track = {x \in ManagersIn(mms) : TypeIn(mms, x) = "message"}
      /\ \A x \in DOMAIN f.track : f.track[x] = {y \in DOMAIN f.info : f.info[y].mm = x}
      /\ m \in ManagersIn(mms) /\ m # None
  <2>1. DOMAIN mms \subseteq Room /\ m \in ManagersIn(mms)
    BY TypeIs DEF Books
  <2>2. m # None
    BY <2>1, NamesAssumption DEF ManagersIn
  <2>3. QED
    BY <2>1, <2>2 DEF Books
<1>2. PICK i, h, t : /\ i = With(f.info, r, [mm |-> m, size |-> n])
                     /\ h = With(f.hal, r, HalSize(TypeIn(mms, m), n))
                     /\ t = IF TypeIn(mms, m) = "message" THEN [f.track EXCEPT ![m] = @ \cup {r}]
                            ELSE f.track
  OBVIOUS
<1>3. g = [hal |-> h, info |-> i, track |-> t]
  BY <1>2, TypeIs DEF Alloc
<1>4. /\ DOMAIN i = DOMAIN f.info \cup {r} /\ i[r].mm = m /\ i[r].size = n
      /\ i[r] = [mm |-> i[r].mm, size |-> i[r].size]
      /\ \A x \in DOMAIN f.info : i[x] = f.info[x]
      /\ DOMAIN h = DOMAIN i /\ h[r] = HalSize(TypeIn(mms, m), n)
      /\ \A x \in DOMAIN f.info : h[x] = f.hal[x]
  BY <1>1, <1>2 DEF With
<1>5. /\ DOMAIN t = DOMAIN f.track
      /\ \A x \in DOMAIN t : t[x] = {y \in DOMAIN i : i[y].mm = x}
  <2>1. CASE TypeIn(mms, m) = "message"
    <3>1. m \in DOMAIN f.track
      BY <1>1, <2>1
    <3>2. /\ DOMAIN t = DOMAIN f.track /\ t[m] = f.track[m] \cup {r}
          /\ \A x \in DOMAIN t : x # m => t[x] = f.track[x]
      BY <1>2, <2>1, <3>1
    <3>3. QED
      BY <1>1, <1>4, <3>1, <3>2
  <2>2. CASE TypeIn(mms, m) # "message"
    <3>1. m \notin DOMAIN f.track
      BY <1>1, <2>2
    <3>2. t = f.track
      BY <1>2, <2>2
    <3>3. QED
      BY <1>1, <1>4, <3>1, <3>2
  <2>3. QED
    BY <2>1, <2>2
<1>6. \A x \in DOMAIN i :
        /\ i[x] = [mm |-> i[x].mm, size |-> i[x].size] /\ i[x].size \in Int
        /\ i[x].mm # None => /\ i[x].mm \in ManagersIn(mms)
                             /\ h[x] = HalSize(TypeIn(mms, i[x].mm), i[x].size)
  BY <1>1, <1>4 DEF Books
<1>7. DOMAIN mms \subseteq Room /\ \A x \in DOMAIN mms : mms[x] \in {"kernel", "message", "void"}
  BY DEF Books
<1>8. g.hal = h /\ g.info = i /\ g.track = t /\ g = [hal |-> g.hal, info |-> g.info, track |-> g.track]
  BY <1>3
<1>9. Books(g, mms)
  BY <1>1, <1>4, <1>5, <1>6, <1>7, <1>8 DEF Books
<1>10. QED
  BY <1>4, <1>8, <1>9

(* TFree                                                                   *)
LEMMA FreeBooks ==
  ASSUME NEW f, Books(f, mms), NEW R, R \subseteq DOMAIN f.info,
         \A r \in R : f.info[r].mm # None, NEW g, g = FreeAll(f, R)
  PROVE  /\ Books(g, mms) /\ DOMAIN g.info = DOMAIN f.info \ R
         /\ \A x \in DOMAIN g.info : g.info[x] = f.info[x]
<1>1. /\ DOMAIN f.info \subseteq Room /\ DOMAIN f.hal = DOMAIN f.info
      /\ \A r \in DOMAIN f.info :
           /\ f.info[r] = [mm |-> f.info[r].mm, size |-> f.info[r].size] /\ f.info[r].size \in Int
           /\ f.info[r].mm # None =>
                /\ f.info[r].mm \in ManagersIn(mms)
                /\ f.hal[r] = HalSize(TypeIn(mms, f.info[r].mm), f.info[r].size)
      /\ DOMAIN f.track = {x \in ManagersIn(mms) : TypeIn(mms, x) = "message"}
      /\ \A x \in DOMAIN f.track : f.track[x] = {y \in DOMAIN f.info : f.info[y].mm = x}
      /\ DOMAIN mms \subseteq Room /\ \A m \in DOMAIN mms : mms[m] \in {"kernel", "message", "void"}
  BY DEF Books
<1>2. PICK whole : whole = {r \in R : f.hal[r] = Returned(f, r)}
  OBVIOUS
<1>3. whole = R
  <2>1. \A r \in R : f.hal[r] = Returned(f, r)
    BY <1>1, TypeIs DEF Returned
  <2>2. QED
    BY <1>2, <2>1
<1>4. PICK i, h, t :
        /\ i = [r \in DOMAIN f.info \ R |-> f.info[r]]
        /\ h = [r \in DOMAIN f.hal \ R |-> IF r \in R THEN f.hal[r] - Returned(f, r) ELSE f.hal[r]]
        /\ t = [m \in DOMAIN f.track |-> f.track[m] \ {r \in R : f.info[r].mm = m}]
  OBVIOUS
<1>5. g = [hal |-> h, info |-> i, track |-> t]
  BY <1>2, <1>3, <1>4 DEF FreeAll
<1>6. /\ DOMAIN i = DOMAIN f.info \ R /\ \A x \in DOMAIN i : i[x] = f.info[x]
      /\ DOMAIN h = DOMAIN i /\ \A x \in DOMAIN i : h[x] = f.hal[x]
  BY <1>1, <1>4
<1>7. /\ DOMAIN t = DOMAIN f.track
      /\ \A x \in DOMAIN t : t[x] = {y \in DOMAIN i : i[y].mm = x}
  <2>1. DOMAIN t = DOMAIN f.track
    BY <1>4
  <2>2. ASSUME NEW x \in DOMAIN t PROVE t[x] = {y \in DOMAIN i : i[y].mm = x}
    <3>1. t[x] = f.track[x] \ {r \in R : f.info[r].mm = x}
      BY <1>4, <2>1, <2>2
    <3>2. f.track[x] = {y \in DOMAIN f.info : f.info[y].mm = x}
      BY <1>1, <2>1, <2>2
    <3>3. QED
      BY <1>6, <3>1, <3>2
  <2>3. QED
    BY <2>1, <2>2
<1>8. \A x \in DOMAIN i :
        /\ i[x] = [mm |-> i[x].mm, size |-> i[x].size] /\ i[x].size \in Int
        /\ i[x].mm # None => /\ i[x].mm \in ManagersIn(mms)
                             /\ h[x] = HalSize(TypeIn(mms, i[x].mm), i[x].size)
  BY <1>1, <1>6
<1>9. g.hal = h /\ g.info = i /\ g.track = t /\ g = [hal |-> g.hal, info |-> g.info, track |-> g.track]
  BY <1>5
<1>10. Books(g, mms)
  BY <1>1, <1>6, <1>7, <1>8, <1>9 DEF Books
<1>11. QED
  BY <1>6, <1>9, <1>10

(* Who has what: a piece of memory is a manager, or a task has it, or it   *)
(* is the pool, or one of its puddles, or lost.                            *)
Separate(a, b, c, d, e) ==
  /\ a \cap b = {} /\ a \cap c = {} /\ a \cap d = {} /\ a \cap e = {} /\ b \cap c = {}
  /\ b \cap d = {} /\ b \cap e = {} /\ c \cap d = {} /\ c \cap e = {} /\ d \cap e = {}

(* Managers and pools have been allocated from the base manager.           *)
Owned(f, ms, hd, at, pd, lo) ==
  /\ DOMAIN f.info = ms \cup hd \cup at \cup pd \cup lo
  /\ Separate(ms, hd, at, pd, lo)
  /\ \A r \in ms \cup at : f.info[r].mm = Base
  /\ \A r \in lo : f.info[r].mm \in {Base, None}

(* A piece more, ...                                                       *)
More(f, g, r, m) ==
  /\ r \in Room /\ r \notin DOMAIN f.info /\ DOMAIN g.info = DOMAIN f.info \cup {r}
  /\ g.info[r].mm = m /\ \A x \in DOMAIN f.info : g.info[x] = f.info[x]

(* A piece more has a new owner.                                           *)
LEMMA OwnedMore ==
  ASSUME NEW f, NEW ms, NEW hd, NEW at, NEW pd, NEW lo, Owned(f, ms, hd, at, pd, lo),
         NEW g, NEW r, NEW m, More(f, g, r, m)
  PROVE  /\ Owned(g, ms, hd \cup {r}, at, pd, lo) /\ Owned(g, ms, hd, at, pd \cup {r}, lo)
         /\ m = Base => /\ Owned(g, ms \cup {r}, hd, at, pd, lo)
                        /\ Owned(g, ms, hd, at \cup {r}, pd, lo)
                        /\ Owned(g, ms, hd, at, pd, lo \cup {r})
<1>1. /\ DOMAIN f.info = ms \cup hd \cup at \cup pd \cup lo
      /\ Separate(ms, hd, at, pd, lo)
      /\ \A x \in ms \cup at : f.info[x].mm = Base
      /\ \A x \in lo : f.info[x].mm \in {Base, None}
      /\ r \notin DOMAIN f.info /\ DOMAIN g.info = DOMAIN f.info \cup {r}
      /\ g.info[r].mm = m
  BY DEF Owned, More
<1>2. \A x \in DOMAIN f.info : g.info[x].mm = f.info[x].mm
  BY DEF More
<1>3. Owned(g, ms, hd \cup {r}, at, pd, lo)
  BY <1>1, <1>2 DEF Owned, Separate
<1>4. Owned(g, ms, hd, at, pd \cup {r}, lo)
  BY <1>1, <1>2 DEF Owned, Separate
<1>5. ASSUME m = Base PROVE Owned(g, ms \cup {r}, hd, at, pd, lo)
  BY <1>1, <1>2, <1>5 DEF Owned, Separate
<1>6. ASSUME m = Base PROVE Owned(g, ms, hd, at \cup {r}, pd, lo)
  BY <1>1, <1>2, <1>6 DEF Owned, Separate
<1>7. ASSUME m = Base PROVE Owned(g, ms, hd, at, pd, lo \cup {r})
  BY <1>1, <1>2, <1>7 DEF Owned, Separate
<1>8. QED
  BY <1>3, <1>4, <1>5, <1>6, <1>7

(* ... and some less.                                                      *)
Less(f, g, R) ==
  /\ R \subseteq DOMAIN f.info /\ DOMAIN g.info = DOMAIN f.info \ R
  /\ \A x \in DOMAIN g.info : g.info[x] = f.info[x]

(* Those who had some less still have what is left.                        *)
LEMMA OwnedLess ==
  ASSUME NEW f, NEW ms, NEW hd, NEW at, NEW pd, NEW lo, Owned(f, ms, hd, at, pd, lo),
         NEW g, NEW R, Less(f, g, R)
  PROVE  Owned(g, ms \ R, hd \ R, at \ R, pd \ R, lo \ R)
<1>1. /\ DOMAIN f.info = ms \cup hd \cup at \cup pd \cup lo
      /\ Separate(ms, hd, at, pd, lo)
      /\ \A x \in ms \cup at : f.info[x].mm = Base
      /\ \A x \in lo : f.info[x].mm \in {Base, None}
      /\ DOMAIN g.info = DOMAIN f.info \ R
      /\ \A x \in DOMAIN g.info : g.info[x] = f.info[x]
  BY DEF Owned, Less
<1>2. DOMAIN g.info = (ms \ R) \cup (hd \ R) \cup (at \ R) \cup (pd \ R) \cup (lo \ R)
  BY <1>1
<1>3. Separate(ms \ R, hd \ R, at \ R, pd \ R, lo \ R)
  BY <1>1 DEF Separate
<1>4. QED
  BY <1>1, <1>2, <1>3 DEF Owned

(* The puddles that are the host's.                                        *)
Pud == IF HasPool THEN DOMAIN pool.head \ {Static} ELSE {}

(* The pool itself.                                                        *)
PoolAt == {poolat} \ {None}

(* The state of the host's memory.                                         *)
HostIInv ==
  /\ Books(mem, mms) /\ Owned(mem, DOMAIN mms, held, PoolAt, Pud, lost)
  /\ \A r \in Pud : mem.info[r].mm = pool.mm

(* The blocks as the pool sees them.                                       *)
Sizes(hp) == [p \in DOMAIN hp |-> RoundUp(Len(hp[p]))]

(* The state of the pool; only one that may free its puddles has them from *)
(* a manager.                                                              *)
PoolIs(pl, ms, hp) ==
  /\ Ready(pl, Sizes(hp))
  /\ Growing(pl, Sizes(hp)) => "free" \in pl.flags
  /\ "free" \in pl.flags => pl.mm \in ManagersIn(ms) /\ Static \notin DOMAIN pl.head
  /\ "free" \notin pl.flags => DOMAIN pl.head = {Static}

(* A block has some contents.                                              *)
Filled(hp) == \A p \in DOMAIN hp : hp[p] \in Seq(Nat) /\ Len(hp[p]) > 0

(* The inductive invariant.                                                *)
MemIInv ==
  /\ HostIInv /\ Filled(heap)
  /\ HasPool => PoolIs(pool, mms, heap)
  /\ ~ HasPool => heap = <<>>

(* One piece is allocated.                                                 *)
LEMMA AllocMore ==
  ASSUME NEW f, Books(f, mms), NEW m \in Managers, NEW n \in Int, NEW r, r = NextRoom(m, f),
         r # None, NEW g, g = Alloc(f, m, n, r)
  PROVE  Books(g, mms) /\ More(f, g, r, m)
<1>1. r \in Room /\ r \notin DOMAIN f.info
  BY NextRoomIs DEF Books
<1>2. QED
  BY <1>1, AllocBooks DEF More

(* Some pieces are freed.                                                  *)
LEMMA FreeLess ==
  ASSUME NEW f, Books(f, mms), NEW R, R \subseteq DOMAIN f.info,
         \A r \in R : f.info[r].mm # None, NEW g, g = FreeAll(f, R)
  PROVE  Books(g, mms) /\ Less(f, g, R)
  BY FreeBooks DEF Less

(* What is allocated and freed again leaves nothing behind.                *)
LEMMA MoreLess ==
  ASSUME NEW f, NEW g, NEW k, NEW r, NEW m, More(f, g, r, m), Less(g, k, {r}),
         NEW ms, NEW hd, NEW at, NEW pd, NEW lo, Owned(f, ms, hd, at, pd, lo)
  PROVE  /\ Owned(k, ms, hd, at, pd, lo) /\ DOMAIN k.info = DOMAIN f.info
         /\ \A x \in DOMAIN f.info : k.info[x] = f.info[x]
<1>1. /\ r \notin DOMAIN f.info /\ DOMAIN g.info = DOMAIN f.info \cup {r}
      /\ \A x \in DOMAIN f.info : g.info[x] = f.info[x]
      /\ DOMAIN k.info = DOMAIN g.info \ {r}
      /\ \A x \in DOMAIN k.info : k.info[x] = g.info[x]
  BY DEF More, Less
<1>2. DOMAIN k.info = DOMAIN f.info /\ \A x \in DOMAIN f.info : k.info[x] = f.info[x]
  BY <1>1
<1>3. QED
  BY <1>2 DEF Owned

(* Nobody is a piece of memory and a name.                                 *)
LEMMA Names ==
  /\ Base # None /\ Msg # None /\ Base # Msg /\ None \notin Room /\ Static \notin Room
  /\ Base \notin Room /\ Msg \notin Room /\ Base \in Managers /\ Static # None
  BY NamesAssumption, RoomAssumption DEF Managers

(* TAlloc of some task.                                                    *)
LEMMA MemAllocStep ==
  ASSUME MemIInv, NEW n \in MemSize, NEW m \in Managers, MemAlloc(m, n) PROVE MemIInv'
<1>1. PICK r : r = NextRoom(m, mem)
  OBVIOUS
<1>2. /\ r # None /\ mem' = Alloc(mem, m, n, r) /\ held' = held \cup {r}
      /\ UNCHANGED <<mms, pool, poolat, heap, lost>>
  BY <1>1 DEF MemAlloc, poolvars
<1>3. n \in Int
  BY PoolSizeAssumption
<1>4. Books(mem, mms) /\ Owned(mem, DOMAIN mms, held, PoolAt, Pud, lost)
      /\ \A x \in Pud : mem.info[x].mm = pool.mm
  BY DEF MemIInv, HostIInv
<1>5. Books(mem', mms) /\ More(mem, mem', r, m)
  BY <1>1, <1>2, <1>3, <1>4, AllocMore
<1>6. Owned(mem', DOMAIN mms, held \cup {r}, PoolAt, Pud, lost)
  BY <1>4, <1>5, OwnedMore
<1>7. \A x \in Pud : mem'.info[x].mm = pool.mm
  BY <1>4, <1>5 DEF More, Owned
<1>8. HostIInv'
  BY <1>2, <1>5, <1>6, <1>7 DEF HostIInv, PoolAt, Pud, HasPool
<1>9. QED
  BY <1>2, <1>8 DEF MemIInv, HasPool

(* TFree                                                                   *)
LEMMA MemFreeStep ==
  ASSUME MemIInv, NEW r \in held, MemFree(r) PROVE MemIInv'
<1>1. /\ mem.info[r].mm # None /\ mem' = FreeAll(mem, {r}) /\ held' = held \ {r}
      /\ UNCHANGED <<mms, pool, poolat, heap, lost>>
  BY DEF MemFree, poolvars, Free
<1>2. Books(mem, mms) /\ Owned(mem, DOMAIN mms, held, PoolAt, Pud, lost)
      /\ \A x \in Pud : mem.info[x].mm = pool.mm
  BY DEF MemIInv, HostIInv
<1>3. {r} \subseteq DOMAIN mem.info
  BY <1>2 DEF Owned
<1>4. Books(mem', mms) /\ Less(mem, mem', {r})
  BY <1>1, <1>2, <1>3, FreeLess
<1>5. Owned(mem', DOMAIN mms \ {r}, held \ {r}, PoolAt \ {r}, Pud \ {r}, lost \ {r})
  BY <1>2, <1>4, OwnedLess
<1>6. DOMAIN mms \ {r} = DOMAIN mms /\ PoolAt \ {r} = PoolAt /\ Pud \ {r} = Pud /\ lost \ {r} = lost
  BY <1>2, SMTT(20) DEF Owned, Separate
<1>7. Owned(mem', DOMAIN mms, held \ {r}, PoolAt, Pud, lost)
  BY <1>5, <1>6
<1>8. \A x \in Pud : mem'.info[x].mm = pool.mm
  BY <1>2, <1>4, <1>7 DEF Less, Owned
<1>9. HostIInv'
  BY <1>1, <1>4, <1>7, <1>8 DEF HostIInv, PoolAt, Pud, HasPool
<1>10. QED
  BY <1>1, <1>9 DEF MemIInv, HasPool

(* TRealloc                                                                *)
LEMMA MemReallocStep ==
  ASSUME MemIInv, NEW r \in held, NEW n \in MemSize, MemRealloc(r, n) PROVE MemIInv'
<1>1. /\ mem.info[r].mm # None /\ Type(mem.info[r].mm) # "message"
      /\ mem' = [mem EXCEPT
            !.hal[r] = @ - HalSize("kernel", mem.info[r].size) + HalSize("kernel", n),
            !.info[r].size = n]
      /\ UNCHANGED <<mms, held, pool, poolat, heap, lost>>
  BY DEF MemRealloc, poolvars
<1>2. Books(mem, mms) /\ Owned(mem, DOMAIN mms, held, PoolAt, Pud, lost)
      /\ \A x \in Pud : mem.info[x].mm = pool.mm
  BY DEF MemIInv, HostIInv
<1>3. r \in DOMAIN mem.info
  BY <1>2 DEF Owned
<1>4. PICK m, s, t : m = mem.info[r].mm /\ s = mem.info[r].size /\ t = TypeIn(mms, m)
  OBVIOUS
<1>5. /\ t # "message" /\ m # None /\ s \in Int /\ mem.info[r] = [mm |-> m, size |-> s]
      /\ mem.hal[r] = HalSize(t, s) /\ r \in DOMAIN mem.hal
      /\ mem = [hal |-> mem.hal, info |-> mem.info, track |-> mem.track]
  BY <1>1, <1>2, <1>3, <1>4, TypeIs DEF Books
<1>6. n \in Int
  BY PoolSizeAssumption
<1>7. mem.hal[r] - HalSize("kernel", s) + HalSize("kernel", n) = HalSize(t, n)
  BY <1>5, <1>6 DEF HalSize, InfoSize
<1>8. PICK h, i : /\ h = [mem.hal EXCEPT ![r] = HalSize(t, n)]
                  /\ i = [mem.info EXCEPT ![r] = [mm |-> m, size |-> n]]
  OBVIOUS
<1>9. mem' = [hal |-> h, info |-> i, track |-> mem.track]
  <2>1. PICK v : v = HalSize(t, n)
    OBVIOUS
  <2>2. mem.hal[r] - HalSize("kernel", mem.info[r].size) + HalSize("kernel", n) = v
    BY <1>4, <1>7, <2>1
  <2>3. mem' = [mem EXCEPT !.hal[r] = v, !.info[r].size = n]
    BY <1>1, <2>2
  <2>4. [mem.info EXCEPT ![r].size = n] = i
    BY <1>5, <1>8
  <2>5. [mem.hal EXCEPT ![r] = v] = h
    BY <1>8, <2>1
  <2>6. QED
    BY <1>5, <2>3, <2>4, <2>5
<1>10. /\ mem'.hal = h /\ mem'.info = i /\ mem'.track = mem.track
       /\ mem' = [hal |-> mem'.hal, info |-> mem'.info, track |-> mem'.track]
  BY <1>9
<1>11. /\ DOMAIN i = DOMAIN mem.info /\ DOMAIN h = DOMAIN mem.hal
       /\ i[r].mm = m /\ i[r].size = n /\ h[r] = HalSize(t, n)
       /\ i[r] = [mm |-> i[r].mm, size |-> i[r].size]
       /\ \A x \in DOMAIN i : x # r => i[x] = mem.info[x] /\ h[x] = mem.hal[x]
       /\ \A x \in DOMAIN i : i[x].mm = mem.info[x].mm
  BY <1>3, <1>4, <1>5, <1>8 DEF Books
<1>12. \A x \in DOMAIN i :
         /\ i[x] = [mm |-> i[x].mm, size |-> i[x].size] /\ i[x].size \in Int
         /\ i[x].mm # None => /\ i[x].mm \in ManagersIn(mms)
                              /\ h[x] = HalSize(TypeIn(mms, i[x].mm), i[x].size)
  BY <1>2, <1>3, <1>4, <1>6, <1>11 DEF Books
<1>13. Books(mem', mms)
  BY <1>2, <1>10, <1>11, <1>12 DEF Books
<1>14. Owned(mem', DOMAIN mms, held, PoolAt, Pud, lost)
  BY <1>2, <1>10, <1>11 DEF Owned
<1>15. \A x \in Pud : mem'.info[x].mm = pool.mm
  BY <1>2, <1>10, <1>11 DEF Owned
<1>16. HostIInv'
  BY <1>1, <1>13, <1>14, <1>15 DEF HostIInv, PoolAt, Pud, HasPool
<1>17. QED
  BY <1>1, <1>16 DEF MemIInv, HasPool

(* The books know a new manager.                                           *)
LEMMA NewManager ==
  ASSUME NEW f, Books(f, mms), NEW r \in Room, r \notin DOMAIN mms,
         \A x \in DOMAIN f.info : f.info[x].mm # r, NEW type \in {"kernel", "message", "void"},
         NEW ms, ms = With(mms, r, type),
         NEW g, g = IF type = "message" THEN [f EXCEPT !.track = With(@, r, {})] ELSE f
  PROVE  Books(g, ms) /\ g.info = f.info /\ DOMAIN ms = DOMAIN mms \cup {r}
<1>1. DOMAIN ms = DOMAIN mms \cup {r} /\ ms[r] = type /\ \A m \in DOMAIN mms : ms[m] = mms[m]
  BY DEF With
<1>2. r # Base /\ r # Msg /\ r \notin ManagersIn(mms)
  BY Names DEF ManagersIn
<1>3. /\ ManagersIn(ms) = ManagersIn(mms) \cup {r} /\ TypeIn(ms, r) = type
      /\ \A m \in ManagersIn(mms) : TypeIn(ms, m) = TypeIn(mms, m)
  BY <1>1, <1>2 DEF ManagersIn, TypeIn
<1>4. PICK t : t = IF type = "message" THEN With(f.track, r, {}) ELSE f.track
  OBVIOUS
<1>5. /\ f = [hal |-> f.hal, info |-> f.info, track |-> f.track]
      /\ DOMAIN f.track = {m \in ManagersIn(mms) : TypeIn(mms, m) = "message"}
      /\ \A m \in DOMAIN f.track : f.track[m] = {y \in DOMAIN f.info : f.info[y].mm = m}
  BY DEF Books
<1>6. g = [hal |-> f.hal, info |-> f.info, track |-> t]
  BY <1>4, <1>5
<1>7. g.hal = f.hal /\ g.info = f.info /\ g.track = t
      /\ g = [hal |-> g.hal, info |-> g.info, track |-> g.track]
  BY <1>6
<1>8. /\ DOMAIN t = {m \in ManagersIn(ms) : TypeIn(ms, m) = "message"}
      /\ \A m \in DOMAIN t : t[m] = {y \in DOMAIN f.info : f.info[y].mm = m}
  <2>1. CASE type = "message"
    <3>1. /\ DOMAIN t = DOMAIN f.track \cup {r} /\ t[r] = {}
          /\ \A m \in DOMAIN f.track : m # r => t[m] = f.track[m]
      BY <1>4, <2>1 DEF With
    <3>2. DOMAIN t = {m \in ManagersIn(ms) : TypeIn(ms, m) = "message"}
      BY <1>3, <1>5, <2>1, <3>1
    <3>3. {y \in DOMAIN f.info : f.info[y].mm = r} = {}
      OBVIOUS
    <3>4. QED
      BY <1>5, <3>1, <3>2, <3>3
  <2>2. CASE type # "message"
    BY <1>3, <1>4, <1>5, <2>2
  <2>3. QED
    BY <2>1, <2>2
<1>9. DOMAIN ms \subseteq Room /\ \A m \in DOMAIN ms : ms[m] \in {"kernel", "message", "void"}
  BY <1>1 DEF Books
<1>10. /\ DOMAIN f.info \subseteq Room /\ DOMAIN f.hal = DOMAIN f.info
       /\ \A x \in DOMAIN f.info :
            /\ f.info[x] = [mm |-> f.info[x].mm, size |-> f.info[x].size] /\ f.info[x].size \in Int
            /\ f.info[x].mm # None =>
                 /\ f.info[x].mm \in ManagersIn(ms)
                 /\ f.hal[x] = HalSize(TypeIn(ms, f.info[x].mm), f.info[x].size)
  BY <1>3 DEF Books
<1>11. Books(g, ms)
  BY <1>7, <1>8, <1>9, <1>10 DEF Books
<1>12. QED
  BY <1>1, <1>7, <1>11

(* More managers do not matter to a pool.                                  *)
LEMMA PoolKnows ==
  ASSUME NEW pl, NEW ms, NEW hp, PoolIs(pl, ms, hp), NEW ns,
         "free" \in pl.flags => pl.mm \in ManagersIn(ns)
  PROVE  PoolIs(pl, ns, hp)
  BY DEF PoolIs

(* A piece that is no manager is nobody's manager.                         *)
LEMMA BooksName ==
  ASSUME NEW f, Books(f, mms), NEW r \in Room, r \notin DOMAIN mms
  PROVE  \A x \in DOMAIN f.info : f.info[x].mm # r
<1>1. r # None /\ r \notin ManagersIn(mms)
  BY Names DEF ManagersIn
<1>2. QED
  BY <1>1 DEF Books

(* TCreateMemManager                                                       *)
LEMMA CreateStep ==
  ASSUME MemIInv, NEW type \in Types, CreateMemManager(type) PROVE MemIInv'
<1>1. PICK r, m1, r2, m2 :
        /\ r = NextRoom(Base, mem) /\ m1 = Alloc(mem, Base, StructSize, r)
        /\ r2 = NextRoom(Base, m1)
        /\ m2 = IF r2 = None THEN m1 ELSE Alloc(m1, Base, StructSize, r2)
  OBVIOUS
<1>2. /\ r # None /\ UNCHANGED <<held, pool, poolat, heap>>
      /\ \/ /\ type \in {"kernel", "message", "void"}
            /\ mem' = IF type = "message" THEN [m1 EXCEPT !.track = With(@, r, {})] ELSE m1
            /\ mms' = With(mms, r, type)
            /\ UNCHANGED lost
         \/ /\ type = "pooled"
            /\ mem' = FreeAll(m2, {r})
            /\ lost' = IF r2 = None THEN lost ELSE lost \cup {r2}
            /\ UNCHANGED mms
         \/ /\ type = "static"
            /\ mem' = FreeAll(IF r2 = None THEN m2 ELSE FreeAll(m2, {r2}), {r})
            /\ UNCHANGED <<mms, lost>>
         \/ /\ type = "tracking"
            /\ mem' = FreeAll(m1, {r})
            /\ UNCHANGED <<mms, lost>>
  BY <1>1 DEF CreateMemManager, poolvars, Free
<1>3. Books(mem, mms) /\ Owned(mem, DOMAIN mms, held, PoolAt, Pud, lost)
      /\ \A x \in Pud : mem.info[x].mm = pool.mm
  BY DEF MemIInv, HostIInv
<1>4. StructSize \in Int /\ Base \in Managers /\ Base # None
  BY Names DEF StructSize
<1>5. Books(m1, mms) /\ More(mem, m1, r, Base)
  BY <1>1, <1>2, <1>3, <1>4, AllocMore
<1>6. ASSUME r2 # None PROVE Books(m2, mms) /\ More(m1, m2, r2, Base)
  <2>1. m2 = Alloc(m1, Base, StructSize, r2)
    BY <1>1, <1>6
  <2>2. QED
    BY <1>1, <1>4, <1>5, <1>6, <2>1, AllocMore
<1>7. UNCHANGED <<PoolAt, Pud>>
  BY <1>2 DEF PoolAt, Pud, HasPool
<1>8. ASSUME UNCHANGED mms, Books(mem', mms), Owned(mem', DOMAIN mms, held, PoolAt, Pud, lost'),
             \A x \in DOMAIN mem.info : mem'.info[x] = mem.info[x]
      PROVE  MemIInv'
  <2>1. \A x \in Pud : mem'.info[x].mm = pool.mm
    BY <1>3, <1>8 DEF Owned
  <2>2. HostIInv'
    BY <1>2, <1>7, <1>8, <2>1 DEF HostIInv
  <2>3. QED
    BY <1>2, <1>8, <2>2 DEF MemIInv, HasPool
<1>9. ASSUME NEW f, Books(f, mms), r \in DOMAIN f.info, f.info[r].mm = Base, NEW g, g = FreeAll(f, {r})
      PROVE  Books(g, mms) /\ Less(f, g, {r})
  BY <1>4, <1>9, FreeLess
<1>10. CASE /\ type \in {"kernel", "message", "void"}
            /\ mem' = IF type = "message" THEN [m1 EXCEPT !.track = With(@, r, {})] ELSE m1
            /\ mms' = With(mms, r, type)
            /\ UNCHANGED lost
  <2>1. r \in Room /\ r \notin DOMAIN mms
    BY <1>3, <1>5 DEF More, Owned
  <2>2. \A x \in DOMAIN m1.info : m1.info[x].mm # r
    BY <1>5, <2>1, BooksName
  <2>3. Books(mem', mms') /\ mem'.info = m1.info /\ DOMAIN mms' = DOMAIN mms \cup {r}
    BY <1>5, <1>10, <2>1, <2>2, NewManager
  <2>4. Owned(m1, DOMAIN mms \cup {r}, held, PoolAt, Pud, lost)
    BY <1>3, <1>5, OwnedMore
  <2>5. Owned(mem', DOMAIN mms', held, PoolAt, Pud, lost)
    BY <2>3, <2>4 DEF Owned
  <2>6. \A x \in Pud : mem'.info[x].mm = pool.mm
    BY <1>3, <1>5, <2>3 DEF More, Owned
  <2>7. HostIInv'
    BY <1>2, <1>7, <1>10, <2>3, <2>5, <2>6 DEF HostIInv
  <2>8. HasPool => PoolIs(pool, mms', heap)
    <3>1. ManagersIn(mms) \subseteq ManagersIn(mms')
      BY <2>3 DEF ManagersIn
    <3>2. HasPool => PoolIs(pool, mms, heap)
      BY DEF MemIInv
    <3>3. QED
      BY <3>1, <3>2 DEF PoolIs
  <2>9. QED
    BY <1>2, <2>7, <2>8 DEF MemIInv, HasPool
<1>11. CASE /\ type = "pooled"
            /\ mem' = FreeAll(m2, {r})
            /\ lost' = IF r2 = None THEN lost ELSE lost \cup {r2}
            /\ UNCHANGED mms
  <2>1. CASE r2 = None
    <3>1. m2 = m1 /\ r \in DOMAIN m1.info /\ m1.info[r].mm = Base
      BY <1>1, <1>5, <2>1 DEF More
    <3>2. Books(mem', mms) /\ Less(m1, mem', {r})
      BY <1>5, <1>9, <1>11, <3>1
    <3>3. /\ Owned(mem', DOMAIN mms, held, PoolAt, Pud, lost)
          /\ \A x \in DOMAIN mem.info : mem'.info[x] = mem.info[x]
      BY <1>3, <1>5, <3>2, MoreLess
    <3>4. QED
      BY <1>8, <1>11, <2>1, <3>2, <3>3
  <2>2. CASE r2 # None
    <3>1. Books(m2, mms) /\ More(m1, m2, r2, Base)
      BY <1>6, <2>2
    <3>2. r \in DOMAIN m2.info /\ m2.info[r].mm = Base /\ r2 # r
      BY <1>5, <3>1 DEF More
    <3>3. Books(mem', mms) /\ Less(m2, mem', {r})
      BY <1>9, <1>11, <3>1, <3>2
    <3>4. More(mem, mem', r2, Base)
      BY <1>5, <3>1, <3>2, <3>3 DEF More, Less
    <3>5. Owned(mem', DOMAIN mms, held, PoolAt, Pud, lost \cup {r2})
      BY <1>3, <3>4, OwnedMore
    <3>6. \A x \in DOMAIN mem.info : mem'.info[x] = mem.info[x]
      BY <3>4 DEF More
    <3>7. QED
      BY <1>8, <1>11, <2>2, <3>3, <3>5, <3>6
  <2>3. QED
    BY <2>1, <2>2
<1>12. CASE /\ type = "static"
            /\ mem' = FreeAll(IF r2 = None THEN m2 ELSE FreeAll(m2, {r2}), {r})
            /\ UNCHANGED <<mms, lost>>
  <2>1. PICK m3 : m3 = IF r2 = None THEN m2 ELSE FreeAll(m2, {r2})
    OBVIOUS
  <2>2. Books(m3, mms) /\ More(mem, m3, r, Base)
    <3>1. CASE r2 = None
      BY <1>1, <1>5, <2>1, <3>1
    <3>2. CASE r2 # None
      <4>1. Books(m2, mms) /\ More(m1, m2, r2, Base)
        BY <1>6, <3>2
      <4>2. {r2} \subseteq DOMAIN m2.info /\ m2.info[r2].mm = Base
        BY <4>1 DEF More
      <4>3. m3 = FreeAll(m2, {r2})
        BY <2>1, <3>2
      <4>4. Books(m3, mms) /\ Less(m2, m3, {r2})
        BY <1>4, <4>1, <4>2, <4>3, FreeLess
      <4>5. More(mem, m3, r, Base)
        BY <1>5, <4>1, <4>4 DEF More, Less
      <4>6. QED
        BY <4>4, <4>5
    <3>3. QED
      BY <3>1, <3>2
  <2>3. r \in DOMAIN m3.info /\ m3.info[r].mm = Base
    BY <2>2 DEF More
  <2>4. Books(mem', mms) /\ Less(m3, mem', {r})
    BY <1>9, <1>12, <2>1, <2>2, <2>3
  <2>5. /\ Owned(mem', DOMAIN mms, held, PoolAt, Pud, lost)
        /\ \A x \in DOMAIN mem.info : mem'.info[x] = mem.info[x]
    BY <1>3, <2>2, <2>4, MoreLess
  <2>6. QED
    BY <1>8, <1>12, <2>4, <2>5
<1>13. CASE type = "tracking" /\ mem' = FreeAll(m1, {r}) /\ UNCHANGED <<mms, lost>>
  <2>1. r \in DOMAIN m1.info /\ m1.info[r].mm = Base
    BY <1>5 DEF More
  <2>2. Books(mem', mms) /\ Less(m1, mem', {r})
    BY <1>5, <1>9, <1>13, <2>1
  <2>3. /\ Owned(mem', DOMAIN mms, held, PoolAt, Pud, lost)
        /\ \A x \in DOMAIN mem.info : mem'.info[x] = mem.info[x]
    BY <1>3, <1>5, <2>2, MoreLess
  <2>4. QED
    BY <1>8, <1>13, <2>2, <2>3
<1>14. QED
  BY <1>2, <1>10, <1>11, <1>12, <1>13

(* TDESTROY of a manager                                                   *)
LEMMA DestroyManagerStep ==
  ASSUME MemIInv, NEW m \in DOMAIN mms, DestroyMemManager(m) PROVE MemIInv'
<1>1. PICK messages, left, orphans, freed :
        /\ messages = IF mms[m] = "message" THEN mem.track[m] ELSE {}
        /\ left = FreeAll(mem, messages)
        /\ orphans = {r \in DOMAIN left.info : left.info[r].mm = m}
        /\ freed = FreeAll(left, {m})
  OBVIOUS
<1>2. /\ HasPool => pool.mm # m
      /\ mem' = [freed EXCEPT
           !.info = [r \in DOMAIN @ |->
                       IF r \in orphans THEN [@[r] EXCEPT !.mm = None] ELSE @[r]],
           !.track = DropKey(@, m)]
      /\ mms' = DropKey(mms, m)
      /\ held' = held \ (messages \cup orphans)
      /\ lost' = lost \cup orphans
      /\ UNCHANGED <<pool, poolat, heap>>
  BY <1>1 DEF DestroyMemManager, poolvars, Free
<1>3. Books(mem, mms) /\ Owned(mem, DOMAIN mms, held, PoolAt, Pud, lost)
      /\ \A x \in Pud : mem.info[x].mm = pool.mm
  BY DEF MemIInv, HostIInv
<1>4. /\ m \in Room /\ m # Base /\ m # Msg /\ m # None /\ TypeIn(mms, m) = mms[m]
      /\ m \in ManagersIn(mms) /\ m \in DOMAIN mem.info /\ mem.info[m].mm = Base /\ Base # None
  BY <1>3, Names DEF Books, TypeIn, ManagersIn, Owned
<1>5. /\ \A r \in messages : r \in DOMAIN mem.info /\ mem.info[r].mm = m
      /\ mms[m] = "message" => \A r \in DOMAIN mem.info : mem.info[r].mm = m => r \in messages
  <2>1. mms[m] = "message" => m \in DOMAIN mem.track
    BY <1>3, <1>4 DEF Books
  <2>2. mms[m] = "message" => messages = {r \in DOMAIN mem.info : mem.info[r].mm = m}
    BY <1>1, <1>3, <2>1 DEF Books
  <2>3. QED
    BY <1>1, <2>2
<1>6. Books(left, mms) /\ Less(mem, left, messages)
  <2>1. messages \subseteq DOMAIN mem.info /\ \A r \in messages : mem.info[r].mm # None
    BY <1>4, <1>5
  <2>2. QED
    BY <1>1, <1>3, <2>1, FreeLess
<1>7. m \notin messages /\ m \in DOMAIN left.info /\ left.info[m].mm = Base
  BY <1>4, <1>5, <1>6 DEF Less
<1>8. Books(freed, mms) /\ Less(left, freed, {m})
  BY <1>1, <1>4, <1>6, <1>7, FreeLess
<1>9. /\ \A r \in messages \cup orphans : r \in DOMAIN mem.info /\ mem.info[r].mm = m
      /\ \A r \in DOMAIN mem.info : mem.info[r].mm = m => r \in messages \cup orphans
      /\ orphans \cap messages = {} /\ m \notin orphans
      /\ DOMAIN freed.info = DOMAIN mem.info \ (messages \cup {m})
      /\ \A r \in DOMAIN freed.info : freed.info[r] = mem.info[r]
      /\ orphans \subseteq DOMAIN freed.info
      /\ mms[m] = "message" => orphans = {}
  <2>1. /\ DOMAIN left.info = DOMAIN mem.info \ messages
        /\ \A r \in DOMAIN left.info : left.info[r] = mem.info[r]
        /\ DOMAIN freed.info = DOMAIN left.info \ {m}
        /\ \A r \in DOMAIN freed.info : freed.info[r] = left.info[r]
    BY <1>6, <1>8 DEF Less
  <2>2. \A r : r \in orphans <=> r \in DOMAIN left.info /\ left.info[r].mm = m
    BY <1>1
  <2>3. m \notin orphans
    BY <1>4, <1>7, <2>2
  <2>4. QED
    BY <1>5, <2>1, <2>2, <2>3
<1>10. \A r \in messages \cup orphans : r \in held
  <2>1. \A r \in messages \cup orphans :
          /\ r \in DOMAIN mem.info /\ mem.info[r].mm # Base /\ mem.info[r].mm # None
          /\ r \notin Pud
    <3>1. \A r \in Pud : mem.info[r].mm # m
      BY <1>2, <1>3 DEF Pud
    <3>2. QED
      BY <1>4, <1>9, <3>1
  <2>2. QED
    BY <1>3, <2>1 DEF Owned
<1>11. PICK i, t : /\ i = [r \in DOMAIN freed.info |->
                             IF r \in orphans THEN [freed.info[r] EXCEPT !.mm = None] ELSE freed.info[r]]
                   /\ t = DropKey(freed.track, m)
  OBVIOUS
<1>12. freed = [hal |-> freed.hal, info |-> freed.info, track |-> freed.track]
  BY <1>8 DEF Books
<1>13. mem' = [hal |-> freed.hal, info |-> i, track |-> t]
  BY <1>2, <1>11, <1>12
<1>14. /\ mem'.hal = freed.hal /\ mem'.info = i /\ mem'.track = t
       /\ mem' = [hal |-> mem'.hal, info |-> mem'.info, track |-> mem'.track]
  BY <1>13
<1>15. /\ DOMAIN i = DOMAIN freed.info
       /\ \A r \in DOMAIN i : r \notin orphans => i[r] = freed.info[r]
       /\ \A r \in orphans : /\ i[r].mm = None /\ i[r].size \in Int
                             /\ i[r] = [mm |-> i[r].mm, size |-> i[r].size]
  <2>1. \A r \in orphans : /\ r \in DOMAIN freed.info /\ freed.info[r].size \in Int
                           /\ freed.info[r] = [mm |-> freed.info[r].mm, size |-> freed.info[r].size]
    BY <1>8, <1>9 DEF Books
  <2>2. ASSUME NEW r \in orphans PROVE i[r] = [mm |-> None, size |-> freed.info[r].size]
    <3>1. PICK q : q = freed.info[r]
      OBVIOUS
    <3>2. PICK u, v : q = [mm |-> u, size |-> v] /\ v = freed.info[r].size
      BY <2>1, <3>1
    <3>3. [q EXCEPT !.mm = None] = [mm |-> None, size |-> v]
      BY <3>2
    <3>4. i[r] = [q EXCEPT !.mm = None]
      BY <1>11, <2>1, <3>1
    <3>5. QED
      BY <3>2, <3>3, <3>4
  <2>3. QED
    BY <1>11, <2>1, <2>2
<1>16. /\ DOMAIN mms' = DOMAIN mms \ {m} /\ \A x \in DOMAIN mms' : mms'[x] = mms[x]
       /\ ManagersIn(mms') = ManagersIn(mms) \ {m}
       /\ \A x \in ManagersIn(mms') : TypeIn(mms', x) = TypeIn(mms, x)
  <2>1. DOMAIN mms' = DOMAIN mms \ {m} /\ \A x \in DOMAIN mms' : mms'[x] = mms[x]
    BY <1>2 DEF DropKey
  <2>2. QED
    BY <1>4, <2>1 DEF ManagersIn, TypeIn
<1>17. Books(mem', mms')
  <2>1. /\ DOMAIN freed.info \subseteq Room /\ DOMAIN freed.hal = DOMAIN freed.info
        /\ DOMAIN freed.track = {x \in ManagersIn(mms) : TypeIn(mms, x) = "message"}
        /\ \A x \in DOMAIN freed.track : freed.track[x] = {y \in DOMAIN freed.info : freed.info[y].mm = x}
        /\ DOMAIN mms \subseteq Room /\ \A x \in DOMAIN mms : mms[x] \in {"kernel", "message", "void"}
    BY <1>8 DEF Books
  <2>2. ASSUME NEW x \in DOMAIN i
        PROVE  /\ i[x] = [mm |-> i[x].mm, size |-> i[x].size] /\ i[x].size \in Int
               /\ i[x].mm # None =>
                    /\ i[x].mm \in ManagersIn(mms')
                    /\ freed.hal[x] = HalSize(TypeIn(mms', i[x].mm), i[x].size)
    <3>1. CASE x \in orphans
      BY <1>15, <3>1
    <3>2. CASE x \notin orphans
      <4>1. i[x] = freed.info[x] /\ x \in DOMAIN freed.info
        BY <1>15, <2>2, <3>2
      <4>2. freed.info[x].mm # m
        BY <1>9, <3>2, <4>1
      <4>3. QED
        BY <1>8, <1>16, <4>1, <4>2 DEF Books
    <3>3. QED
      BY <3>1, <3>2
  <2>3. /\ DOMAIN t = DOMAIN freed.track \ {m}
        /\ \A x \in DOMAIN t : t[x] = freed.track[x]
    BY <1>11 DEF DropKey
  <2>4. DOMAIN t = {x \in ManagersIn(mms') : TypeIn(mms', x) = "message"}
    BY <1>16, <2>1, <2>3
  <2>5. ASSUME NEW x \in DOMAIN t PROVE t[x] = {y \in DOMAIN i : i[y].mm = x}
    <3>1. x # m /\ x # None
      BY <1>16, <2>3, <2>4, <2>5, <1>4, <2>1, Names DEF ManagersIn
    <3>2. \A y \in DOMAIN i : i[y].mm = x <=> freed.info[y].mm = x
      BY <1>9, <1>15, <3>1
    <3>3. t[x] = {y \in DOMAIN freed.info : freed.info[y].mm = x}
      BY <2>1, <2>3, <2>5
    <3>4. QED
      BY <1>15, <3>2, <3>3
  <2>6. QED
    BY <1>14, <1>15, <1>16, <2>1, <2>2, <2>4, <2>5 DEF Books
<1>18. Owned(mem', DOMAIN mms', held', PoolAt, Pud, lost')
  <2>1. PICK ms, hd, lo : /\ ms = DOMAIN mms \ {m} /\ hd = held \ (messages \cup orphans)
                          /\ lo = lost \cup orphans
    OBVIOUS
  <2>2. /\ DOMAIN mem.info = DOMAIN mms \cup held \cup PoolAt \cup Pud \cup lost
        /\ Separate(DOMAIN mms, held, PoolAt, Pud, lost)
        /\ \A r \in DOMAIN mms \cup PoolAt : mem.info[r].mm = Base
        /\ \A r \in lost : mem.info[r].mm \in {Base, None}
    BY <1>3 DEF Owned
  <2>3. Separate(ms, hd, PoolAt, Pud, lo)
    BY <1>10, <2>1, <2>2 DEF Separate
  <2>4. DOMAIN i = ms \cup hd \cup PoolAt \cup Pud \cup lo
    <3>1. DOMAIN i = DOMAIN mem.info \ (messages \cup {m})
      BY <1>9, <1>15
    <3>2. m \notin held /\ m \notin PoolAt /\ m \notin Pud /\ m \notin lost
      BY <2>2 DEF Separate
    <3>3. messages \cap (DOMAIN mms \cup PoolAt \cup Pud \cup lost) = {}
      BY <1>10, <2>2 DEF Separate
    <3>4. \A r \in orphans : r \in DOMAIN mem.info /\ r \notin messages /\ r # m
      BY <1>9
    <3>5. QED
      BY <2>1, <2>2, <3>1, <3>2, <3>3, <3>4
  <2>5. \A r \in ms \cup PoolAt : i[r].mm = Base
    <3>1. \A r \in ms \cup PoolAt : r \notin orphans /\ r \in DOMAIN i
      BY <1>10, <2>1, <2>2, <2>4 DEF Separate
    <3>2. QED
      BY <1>9, <1>15, <2>1, <2>2, <3>1
  <2>6. \A r \in lo : i[r].mm \in {Base, None}
    <3>1. \A r \in lost : r \notin orphans /\ r \in DOMAIN i
      BY <1>10, <2>1, <2>2, <2>4 DEF Separate
    <3>2. QED
      BY <1>9, <1>15, <2>1, <2>2, <3>1
  <2>7. QED
    BY <1>2, <1>14, <1>16, <2>1, <2>3, <2>4, <2>5, <2>6 DEF Owned
<1>19. \A r \in Pud : mem'.info[r].mm = pool.mm
  <2>1. \A r \in Pud : r \notin orphans /\ r \in DOMAIN i
    BY <1>3, <1>10, <1>14, <1>18 DEF Owned, Separate
  <2>2. QED
    BY <1>3, <1>9, <1>14, <1>15, <2>1
<1>20. UNCHANGED <<PoolAt, Pud>>
  BY <1>2 DEF PoolAt, Pud, HasPool
<1>21. HostIInv'
  BY <1>2, <1>17, <1>18, <1>19, <1>20 DEF HostIInv
<1>22. HasPool => PoolIs(pool, mms', heap)
  BY <1>2, <1>16 DEF MemIInv, PoolIs
<1>23. QED
  BY <1>2, <1>21, <1>22 DEF MemIInv, HasPool

(* A free node is written to its own memory.                               *)
LEMMA NotInNode ==
  ASSUME NEW pl, NEW p, NEW n, Clear(pl.head, p, n), NEW b \in Int, Within(b, p, n)
  PROVE  ~ InNode(b, pl)
<1>1. SUFFICES ASSUME InNode(b, pl) PROVE FALSE
  OBVIOUS
<1>2. PICK r \in DOMAIN pl.head : \E node \in Range(pl.head[r].list) :
        node.at <= b /\ b < node.at + Align
  BY <1>1 DEF InNode
<1>3. Sound(pl.head[r]) /\ ~ Covers(pl.head[r].list, b)
  BY DEF Clear
<1>4. PICK q : q = pl.head[r].list
  OBVIOUS
<1>5. /\ DOMAIN q = 1..Len(q)
      /\ \A i \in 1..Len(q) : q[i].at \in Int /\ Multiple(q[i].size) /\ q[i].size > 0
  BY <1>3, <1>4, SoundParts, ListIs
<1>6. PICK i \in 1..Len(q) : q[i].at <= b /\ b < q[i].at + Align
  BY <1>2, <1>4, <1>5 DEF Range
<1>7. q[i].size >= Align /\ q[i].at \in Int /\ q[i].size \in Int /\ Align \in Int
  BY <1>5, MultipleLeast, AlignAssumption DEF Multiple
<1>8. q[i].at <= b /\ b < q[i].at + q[i].size
  BY <1>6, <1>7
<1>9. QED
  BY <1>3, <1>4, <1>8 DEF Covers

(* Lengths are those of sequences.                                         *)
LEMMA LenIs ==
  ASSUME NEW n \in Nat, NEW s, s = [k \in 1..n |-> s[k]], \A k \in 1..n : s[k] \in Nat
  PROVE  s \in Seq(Nat) /\ Len(s) = n
  OBVIOUS

(* The contents of a block, byte by byte.                                  *)
LEMMA SeqIs ==
  ASSUME NEW s \in Seq(Nat)
  PROVE  /\ Len(s) \in Nat /\ DOMAIN s = 1..Len(s) /\ s = [k \in 1..Len(s) |-> s[k]]
         /\ \A k \in 1..Len(s) : s[k] \in Nat
  OBVIOUS

(* What the owners of blocks find is what they have written.               *)
LEMMA SeenBlock ==
  ASSUME NEW hp, Filled(hp), NEW p \in DOMAIN hp, p \in Int, NEW pl,
         Clear(pl.head, p, Sizes(hp)[p])
  PROVE  Seen(hp, pl)[p] = hp[p]
<1>1. PICK s : s = hp[p]
  OBVIOUS
<1>2. /\ Len(s) \in Nat /\ DOMAIN s = 1..Len(s) /\ s = [k \in 1..Len(s) |-> s[k]]
  BY <1>1, SeqIs DEF Filled
<1>3. ASSUME NEW k \in 1..Len(s) PROVE ~ InNode(p + k - 1, pl)
  <2>1. PICK n : n = RoundUp(Len(s))
    OBVIOUS
  <2>2. n \in Int /\ Len(s) <= n
    BY <1>2, <2>1, Rounded DEF Multiple
  <2>3. Within(p + k - 1, p, n) /\ p + k - 1 \in Int
    BY <1>2, <2>2 DEF Within
  <2>4. Clear(pl.head, p, n)
    BY <1>1, <2>1 DEF Sizes
  <2>5. QED
    BY <2>3, <2>4, NotInNode
<1>4. Seen(hp, pl)[p] = [k \in 1..Len(s) |-> s[k]]
  BY <1>1, <1>2, <1>3 DEF Seen
<1>5. QED
  BY <1>1, <1>2, <1>4

(* So all of them do.                                                      *)
LEMMA SeenSame ==
  ASSUME NEW hp, Filled(hp), hp = [p \in DOMAIN hp |-> hp[p]], NEW pl, Tiled(pl.head, Sizes(hp))
  PROVE  Seen(hp, pl) = hp
<1>1. ASSUME NEW p \in DOMAIN hp PROVE Seen(hp, pl)[p] = hp[p]
  <2>1. p \in DOMAIN Sizes(hp)
    BY DEF Sizes
  <2>2. Clear(pl.head, p, Sizes(hp)[p])
    BY <2>1, BlockClear
  <2>3. p \in Int
    BY <2>1, BlockIs DEF Tiled
  <2>4. QED
    BY <2>2, <2>3, SeenBlock
<1>2. Seen(hp, pl) = [p \in DOMAIN hp |-> Seen(hp, pl)[p]]
  BY DEF Seen
<1>3. QED
  BY <1>1, <1>2

(* One block more, or one less.                                            *)
LEMMA SizesWith ==
  ASSUME NEW hp, Filled(hp), NEW p, NEW s \in Seq(Nat), NEW n, Len(s) = n, n > 0,
         NEW hq, hq = With(hp, p, s)
  PROVE  /\ Filled(hq) /\ Sizes(hq) = With(Sizes(hp), p, RoundUp(n))
         /\ hq = [q \in DOMAIN hq |-> hq[q]]
<1>1. /\ DOMAIN hq = DOMAIN hp \cup {p} /\ hq[p] = s /\ \A q \in DOMAIN hp : q # p => hq[q] = hp[q]
      /\ hq = [q \in DOMAIN hq |-> hq[q]]
  BY DEF With
<1>2. Filled(hq)
  BY <1>1 DEF Filled
<1>3. Sizes(hq) = With(Sizes(hp), p, RoundUp(n))
  BY <1>1 DEF Sizes, With
<1>4. QED
  BY <1>1, <1>2, <1>3

(* A block less.                                                           *)
LEMMA SizesDrop ==
  ASSUME NEW hp, Filled(hp), NEW p, NEW hq, hq = DropKey(hp, p)
  PROVE  /\ Filled(hq) /\ Sizes(hq) = DropKey(Sizes(hp), p) /\ hq = [q \in DOMAIN hq |-> hq[q]]
  BY DEF DropKey, Filled, Sizes

(* A new block is apart from the others, ...                               *)
LEMMA UnusedIs ==
  ASSUME NEW hp, Filled(hp), NEW p, p \notin DOMAIN hp, NEW n \in Nat, n > 0, NEW h,
         Tiled(h, With(Sizes(hp), p, RoundUp(n)))
  PROVE  Abstract!IsUnused(p, n, hp)
<1>1. PICK bm : bm = With(Sizes(hp), p, RoundUp(n))
  OBVIOUS
<1>2. /\ DOMAIN bm = DOMAIN hp \cup {p} /\ bm[p] = RoundUp(n)
      /\ \A q \in DOMAIN hp : bm[q] = RoundUp(Len(hp[q]))
  BY <1>1 DEF With, Sizes
<1>3. Heads(h) /\ Blocks(h, bm)
  BY <1>1 DEF Tiled
<1>4. ASSUME NEW q \in DOMAIN hp PROVE p + n <= q \/ q + Len(hp[q]) <= p
  <2>1. AreApart(bm, p, q)
    BY <1>2, <1>3 DEF Blocks
  <2>2. p \in Int /\ q \in Int
    BY <1>2, <1>3, BlockIs
  <2>3. PICK m : m = Len(hp[q])
    OBVIOUS
  <2>4. m \in Nat /\ m <= RoundUp(m) /\ n <= RoundUp(n) /\ RoundUp(m) \in Int /\ RoundUp(n) \in Int
    BY <2>3, Rounded DEF Filled, Multiple
  <2>5. QED
    BY <1>2, <2>1, <2>2, <2>3, <2>4 DEF AreApart
<1>5. QED
  BY <1>4 DEF Abstract!IsUnused

(* ... and where one can be.                                               *)
LEMMA AddressIs ==
  ASSUME NEW h, NEW bl, Tiled(h, bl), DOMAIN h \subseteq Room \cup {Static}, NEW p \in DOMAIN bl
  PROVE  p \in Addresses
<1>1. Heads(h) /\ Blocks(h, bl)
  BY DEF Tiled
<1>2. PICK r \in DOMAIN h : Inside(h[r], p, bl[p])
  BY <1>1 DEF Blocks
<1>3. /\ Multiple(p) /\ p \in Int /\ bl[p] \in Int /\ bl[p] > 0
  BY <1>1, BlockIs DEF Blocks
<1>4. /\ r \in Nat \ {0} /\ h[r].end \in Int
      /\ h[r].mem = Memory(r) /\ h[r].end <= Memory(r) + Span
  BY <1>1, SoundParts DEF Heads
<1>5. Memory(r) \in Nat /\ Multiple(Memory(r)) /\ Span \in Nat
  BY <1>4, MemoryIs, SpanAssumption
<1>6. PICK a : a = p - Memory(r)
  OBVIOUS
<1>7. Multiple(a)
  BY <1>3, <1>5, <1>6, MultipleSum
<1>8. a \in 0..(Span - 1)
  BY <1>2, <1>3, <1>4, <1>5, <1>6 DEF Inside
<1>9. a \in {k \in 0..(Span - 1) : k % Align = 0}
  BY <1>7, <1>8 DEF Multiple
<1>10. p = Memory(r) + a
  BY <1>3, <1>5, <1>6
<1>11. QED
  BY <1>9, <1>10 DEF Addresses

(* exec_AllocPool gives the pool what it has asked for, as long as its     *)
(* memory manager has it.                                                  *)
Serves(a, room, D) ==
  \/ (a.asked = 0 \/ room = None) /\ D = DOMAIN pool.head
  \/ /\ Static \notin DOMAIN pool.head /\ pool.mm \in Managers
     /\ \/ a.asked = 0 /\ D \subseteq DOMAIN pool.head
        \/ /\ a.asked \in Int /\ a.asked > 0 /\ room # None /\ room = NextRoom(pool.mm, mem)
           /\ room \in D /\ D \subseteq DOMAIN pool.head \cup {room}

(* g is the host's memory after that, and what the pool has not kept is    *)
(* given back.                                                             *)
IsServed(a, room, D, g) == Serves(a, room, D) /\ g = Served(a, room, DOMAIN pool.head \ D)

(* The books are right, and the pool owns the puddles D.                   *)
KeepsBooks(g, D) ==
  /\ Books(g, mms) /\ Owned(g, DOMAIN mms, held, PoolAt, D \ {Static}, lost)
  /\ \A r \in D \ {Static} : g.info[r].mm = pool.mm

(* So they are.                                                            *)
LEMMA ServedIs ==
  ASSUME MemIInv, HasPool, NEW room, NEW a, NEW D, NEW g, IsServed(a, room, D, g)
  PROVE  KeepsBooks(g, D)
<1>0. PICK freed : freed = DOMAIN pool.head \ D
  OBVIOUS
<1>a. Serves(a, room, D) /\ g = Served(a, room, freed)
  BY <1>0 DEF IsServed
<1>1. Books(mem, mms) /\ Owned(mem, DOMAIN mms, held, PoolAt, DOMAIN pool.head \ {Static}, lost)
      /\ \A x \in DOMAIN pool.head \ {Static} : mem.info[x].mm = pool.mm
  BY DEF MemIInv, HostIInv, Pud
<1>2. PICK f : f = IF a.asked = 0 \/ room = None THEN mem
                   ELSE Alloc(mem, pool.mm, a.asked + StructSize, room)
  OBVIOUS
<1>3. g = FreeAll(f, freed)
  BY <1>a, <1>2 DEF Served
<1>4. CASE (a.asked = 0 \/ room = None) /\ D = DOMAIN pool.head
  <2>1. f = mem /\ freed = {}
    BY <1>0, <1>2, <1>4
  <2>2. Books(g, mms) /\ Less(mem, g, {})
    BY <1>1, <1>3, <2>1, FreeLess
  <2>3. Owned(g, DOMAIN mms \ {}, held \ {}, PoolAt \ {}, (D \ {Static}) \ {}, lost \ {})
    BY <1>1, <1>4, <2>2, OwnedLess
  <2>4. \A r \in D \ {Static} : g.info[r].mm = pool.mm
    BY <1>1, <1>4, <2>2 DEF Less, Owned
  <2>5. QED
    BY <2>2, <2>3, <2>4 DEF KeepsBooks
<1>5. CASE /\ Static \notin DOMAIN pool.head /\ pool.mm \in Managers
           /\ \/ a.asked = 0 /\ D \subseteq DOMAIN pool.head
              \/ /\ a.asked \in Int /\ a.asked > 0 /\ room # None /\ room = NextRoom(pool.mm, mem)
                 /\ room \in D /\ D \subseteq DOMAIN pool.head \cup {room}
  <2>1. PICK P : P = IF a.asked = 0 THEN DOMAIN pool.head ELSE DOMAIN pool.head \cup {room}
    OBVIOUS
  <2>2. DOMAIN pool.head \ {Static} = DOMAIN pool.head
    BY <1>5
  <2>3. /\ Books(f, mms) /\ Owned(f, DOMAIN mms, held, PoolAt, P, lost)
        /\ \A x \in P : f.info[x].mm = pool.mm
        /\ D \subseteq P /\ Static \notin P /\ freed = P \ D
    <3>1. CASE a.asked = 0 /\ D \subseteq DOMAIN pool.head
      BY <1>0, <1>1, <1>2, <1>5, <2>1, <2>2, <3>1
    <3>2. CASE /\ a.asked \in Int /\ a.asked > 0 /\ room # None /\ room = NextRoom(pool.mm, mem)
               /\ room \in D /\ D \subseteq DOMAIN pool.head \cup {room}
      <4>1. f = Alloc(mem, pool.mm, a.asked + StructSize, room) /\ a.asked + StructSize \in Int
        BY <1>2, <3>2 DEF StructSize
      <4>2. Books(f, mms) /\ More(mem, f, room, pool.mm)
        BY <1>1, <1>5, <3>2, <4>1, AllocMore
      <4>3. P = DOMAIN pool.head \cup {room}
        BY <2>1, <3>2
      <4>4. Owned(f, DOMAIN mms, held, PoolAt, P, lost)
        BY <1>1, <2>2, <4>2, <4>3, OwnedMore
      <4>5. \A x \in P : f.info[x].mm = pool.mm
        BY <1>1, <2>2, <4>2, <4>3 DEF More, Owned
      <4>6. room \in Room
        BY <4>2 DEF More
      <4>7. QED
        BY <1>0, <1>5, <3>2, <4>2, <4>3, <4>4, <4>5, <4>6, Names
    <3>3. QED
      BY <1>5, <3>1, <3>2
  <2>4. freed \subseteq DOMAIN f.info /\ \A r \in freed : f.info[r].mm # None
    <3>1. pool.mm # None
      BY <1>1, <1>5, Names DEF Books, Managers
    <3>2. QED
      BY <2>3, <3>1 DEF Owned
  <2>5. Books(g, mms) /\ Less(f, g, freed)
    BY <1>3, <2>3, <2>4, FreeLess
  <2>6. Owned(g, DOMAIN mms \ freed, held \ freed, PoolAt \ freed, P \ freed, lost \ freed)
    BY <2>3, <2>5, OwnedLess
  <2>7. /\ DOMAIN mms \ freed = DOMAIN mms /\ held \ freed = held /\ PoolAt \ freed = PoolAt
        /\ P \ freed = D \ {Static} /\ lost \ freed = lost
    <3>1. /\ DOMAIN mms \cap P = {} /\ held \cap P = {} /\ PoolAt \cap P = {} /\ P \cap lost = {}
          /\ D \subseteq P /\ Static \notin P /\ freed = P \ D
      BY <2>3 DEF Owned, Separate
    <3>2. DOMAIN mms \ freed = DOMAIN mms /\ held \ freed = held
      BY <3>1
    <3>3. PoolAt \ freed = PoolAt /\ lost \ freed = lost
      BY <3>1
    <3>4. P \ freed = D \ {Static}
      BY <3>1
    <3>5. QED
      BY <3>2, <3>3, <3>4
  <2>8. Owned(g, DOMAIN mms, held, PoolAt, D \ {Static}, lost)
    BY <2>6, <2>7
  <2>9. \A r \in D \ {Static} : g.info[r].mm = pool.mm
    BY <2>3, <2>5, <2>8 DEF Less, Owned
  <2>10. QED
    BY <2>5, <2>8, <2>9 DEF KeepsBooks
<1>6. QED
  BY <1>a, <1>4, <1>5 DEF Serves

(* What a pool asks for is free.                                           *)
LEMMA PoolRoomIs ==
  ASSUME MemIInv, HasPool, NEW room, room = PoolRoom
  PROVE  /\ IsRoom(room, pool.head)
         /\ room # None => room = NextRoom(pool.mm, mem) /\ ~ IsFixed(pool)
<1>1. CASE IsFixed(pool)
  BY <1>1 DEF PoolRoom, IsRoom
<1>2. CASE ~ IsFixed(pool)
  <2>1. room = NextRoom(pool.mm, mem)
    BY <1>2 DEF PoolRoom
  <2>2. room = None \/ (room # None /\ room \in Room /\ room \notin DOMAIN mem.hal)
    BY <2>1, NextRoomIs
  <2>3. DOMAIN pool.head \ {Static} \subseteq DOMAIN mem.info /\ DOMAIN mem.hal = DOMAIN mem.info
    BY DEF MemIInv, HostIInv, Owned, Pud, Books
  <2>4. room # None => room \in Nat \ {0} /\ room # Static
    BY <2>2, RoomAssumption, Names
  <2>5. QED
    BY <1>2, <2>1, <2>2, <2>3, <2>4 DEF IsRoom
<1>3. QED
  BY <1>1, <1>2

(* The bound on tpl_PudSize.                                               *)
LEMMA BoundedSize ==
  ASSUME NEW pl, pl.pudsize <= MaxPudSize PROVE SmallEnough(pl)
<1>1. PICK s : s = pl.pudsize
  OBVIOUS
<1>2. ASSUME s \in Int PROVE RoundUp(s) <= Span
  <2>1. MaxPudSize \in Int /\ s <= MaxPudSize /\ RoundUp(MaxPudSize) <= Span /\ Span \in Int
    BY <1>1, PoolSizeAssumption, SpanAssumption
  <2>2. PICK m : m = RoundUp(MaxPudSize)
    OBVIOUS
  <2>3. Multiple(m) /\ MaxPudSize <= m /\ m \in Int
    BY <2>1, <2>2, Rounded DEF Multiple
  <2>4. s <= m
    BY <1>2, <2>1, <2>3
  <2>5. RoundUp(s) <= m /\ RoundUp(s) \in Int
    BY <1>2, <2>3, <2>4, Rounded DEF Multiple
  <2>6. QED
    BY <2>1, <2>2, <2>3, <2>5
<1>3. QED
  BY <1>1, <1>2 DEF SmallEnough

(* A block fits into a piece of memory.                                    *)
LEMMA SizeIs ==
  ASSUME NEW n \in Size PROVE n \in Nat /\ n \in Int /\ n > 0 /\ RoundUp(n) <= Span
  BY PoolSizeAssumption

(* The pool after an operation.                                            *)
LEMMA PoolStays ==
  ASSUME NEW pl, NEW hp, PoolIs(pl, mms, hp), NEW other, NEW hq,
         Stays(pl, other, Sizes(hp), Sizes(hq)),
         "free" \in pl.flags => Static \notin DOMAIN other.head,
         "free" \notin pl.flags => DOMAIN other.head = DOMAIN pl.head
  PROVE  PoolIs(other, mms, hq)
<1>1. Ready(other, Sizes(hq)) /\ SameKind(pl, other)
  BY DEF PoolIs, Stays, Ready
<1>2. Growing(other, Sizes(hq)) => "free" \in other.flags
  <2>1. Growing(other, Sizes(hq)) => ~ Fixed(pl, Sizes(hp))
    BY OneKind DEF Stays
  <2>2. ~ Fixed(pl, Sizes(hp)) => "free" \in pl.flags
    BY DEF PoolIs, Ready
  <2>3. QED
    BY <1>1, <2>1, <2>2 DEF SameKind
<1>3. QED
  BY <1>1, <1>2 DEF PoolIs, SameKind

(* TAllocPool                                                              *)
LEMMA PoolAllocStep ==
  ASSUME MemIInv, HasPool, NEW n \in Size, PoolAlloc(n), pool'.pudsize <= MaxPudSize
  PROVE  MemIInv' /\ (UNCHANGED heap \/ \E q \in Addresses : Abstract!Alloc(q, n))
<1>1. PICK room, a : room = PoolRoom /\ a = AllocPool(pool, n, room)
  OBVIOUS
<1>2. /\ pool' = a.pool /\ mem' = Served(a, room, {})
      /\ heap' = IF a.at = TNULL THEN heap ELSE Own(a.at, <<>>, n, heap, a.pool)
      /\ UNCHANGED <<mms, held, poolat, lost>>
  BY <1>1 DEF PoolAlloc
<1>3. PICK bl : bl = Sizes(heap)
  OBVIOUS
<1>4. PoolIs(pool, mms, heap) /\ Ready(pool, bl) /\ Filled(heap)
  BY <1>3 DEF MemIInv, PoolIs
<1>5. /\ IsRoom(room, pool.head)
      /\ room # None => room = NextRoom(pool.mm, mem) /\ ~ IsFixed(pool)
  BY <1>1, PoolRoomIs
<1>6. n \in Nat /\ n \in Int /\ n > 0 /\ RoundUp(n) <= Span
  BY SizeIs
<1>7. Allocated(pool, a, n, bl, room)
  <2>1. SmallEnough(a.pool)
    BY <1>2, BoundedSize
  <2>2. QED
    BY <1>1, <1>4, <1>5, <1>6, <2>1, AllocPoolIs
<1>8. PICK D : D = DOMAIN a.pool.head
  OBVIOUS
<1>9. /\ DOMAIN pool.head \subseteq D
      /\ \/ (a.asked = 0 \/ room = None) /\ D = DOMAIN pool.head
         \/ /\ Static \notin DOMAIN pool.head /\ pool.mm \in Managers
            /\ a.asked \in Int /\ a.asked > 0 /\ room # None /\ room = NextRoom(pool.mm, mem)
            /\ room \in D /\ D \subseteq DOMAIN pool.head \cup {room}
  <2>1. \/ (a.asked = 0 \/ room = None) /\ D = DOMAIN pool.head
        \/ /\ a.asked \in Int /\ a.asked > 0 /\ room # None
           /\ D = DOMAIN pool.head \cup {room}
    BY <1>7, <1>8 DEF Allocated
  <2>2. room # None => "free" \in pool.flags
    BY <1>3, <1>4, <1>5 DEF PoolIs, Ready, Fixed, IsFixed
  <2>3. "free" \in pool.flags => Static \notin DOMAIN pool.head /\ pool.mm \in Managers
    BY <1>4, TypeIs DEF PoolIs
  <2>4. QED
    BY <1>5, <2>1, <2>2, <2>3
<1>10. /\ Books(mem', mms) /\ Owned(mem', DOMAIN mms, held, PoolAt, D \ {Static}, lost)
       /\ \A r \in D \ {Static} : mem'.info[r].mm = pool.mm
  <2>1. DOMAIN pool.head \ D = {}
    BY <1>9
  <2>2. Serves(a, room, D)
    BY <1>9 DEF Serves
  <2>3. mem' = Served(a, room, DOMAIN pool.head \ D)
    BY <1>2, <2>1
  <2>4. IsServed(a, room, D, mem')
    BY <2>2, <2>3 DEF IsServed
  <2>5. KeepsBooks(mem', D)
    BY <2>4, ServedIs
  <2>6. QED
    BY <2>5 DEF KeepsBooks
<1>11. SameKind(pool, a.pool)
  BY <1>7 DEF Allocated, Stays
<1>12. UNCHANGED <<PoolAt, HasPool>> /\ Pud' = D \ {Static}
  BY <1>2, <1>8 DEF PoolAt, HasPool, Pud
<1>13. HostIInv'
  BY <1>2, <1>10, <1>11, <1>12 DEF HostIInv, SameKind
<1>14. /\ "free" \in pool.flags => Static \notin D
       /\ "free" \notin pool.flags => D = DOMAIN pool.head
  <2>1. "free" \in pool.flags => Static \notin DOMAIN pool.head
    BY <1>4 DEF PoolIs
  <2>2. room # None => room # Static
    BY <1>5, Names, NextRoomIs
  <2>3. room # None => "free" \in pool.flags
    BY <1>3, <1>4, <1>5 DEF PoolIs, Ready, Fixed, IsFixed
  <2>4. QED
    BY <1>9, <2>1, <2>2, <2>3
<1>15. CASE a.at = TNULL
  <2>1. heap' = heap /\ Stays(pool, a.pool, bl, bl)
    BY <1>2, <1>7, <1>15 DEF Allocated
  <2>2. PoolIs(pool', mms', heap')
    BY <1>2, <1>3, <1>4, <1>8, <1>14, <2>1, PoolStays
  <2>3. QED
    BY <1>4, <1>12, <1>13, <2>1, <2>2 DEF MemIInv
<1>16. CASE a.at # TNULL
  <2>1. PICK p, s, hq : p = a.at /\ s = [k \in 1..n |-> k] /\ hq = With(heap, p, s)
    OBVIOUS
  <2>2. p \notin DOMAIN bl /\ Stays(pool, a.pool, bl, With(bl, p, RoundUp(n)))
    BY <1>7, <1>16, <2>1 DEF Allocated
  <2>3. s \in Seq(Nat) /\ Len(s) = n
    BY <1>6, <2>1
  <2>4. /\ Filled(hq) /\ Sizes(hq) = With(bl, p, RoundUp(n)) /\ hq = [q \in DOMAIN hq |-> hq[q]]
    <3>1. hq = With(heap, p, s)
      BY <2>1
    <3>2. /\ Filled(hq) /\ Sizes(hq) = With(Sizes(heap), p, RoundUp(n))
          /\ hq = [q \in DOMAIN hq |-> hq[q]]
      BY <1>4, <1>6, <2>3, <3>1, SizesWith
    <3>3. QED
      BY <1>3, <3>2
  <2>5. Ready(a.pool, Sizes(hq))
    BY <1>4, <2>2, <2>4 DEF Stays, Ready
  <2>6. Tiled(a.pool.head, Sizes(hq))
    BY <2>5 DEF Ready, Growing, Fixed
  <2>7. heap' = hq
    <3>1. [k \in 1..n |-> IF k <= Len(<<>>) THEN <<>>[k] ELSE k] = s
      BY <1>6, <2>1
    <3>2. heap' = Seen(hq, a.pool)
      BY <1>2, <1>16, <2>1, <3>1 DEF Own
    <3>3. QED
      BY <2>4, <2>6, <3>2, SeenSame
  <2>8. PoolIs(pool', mms', heap')
    <3>1. Stays(pool, a.pool, Sizes(heap), Sizes(hq))
      BY <1>3, <2>2, <2>4
    <3>2. PoolIs(a.pool, mms, hq)
      BY <1>4, <1>8, <1>14, <3>1, PoolStays
    <3>3. QED
      BY <1>2, <2>7, <3>2
  <2>9. MemIInv'
    BY <1>12, <1>13, <2>4, <2>7, <2>8 DEF MemIInv
  <2>10. p \in Addresses
    <3>1. D \subseteq Room \cup {Static}
      <4>1. D \ {Static} \subseteq DOMAIN mem'.info /\ DOMAIN mem'.info \subseteq Room
        BY <1>10 DEF Owned, Books
      <4>2. QED
        BY <4>1
    <3>2. p \in DOMAIN Sizes(hq)
      BY <2>4 DEF With
    <3>3. QED
      BY <1>8, <2>6, <3>1, <3>2, AddressIs
  <2>11. Abstract!Alloc(p, n)
    <3>1. p \notin DOMAIN heap
      BY <1>3, <2>2 DEF Sizes
    <3>2. Tiled(a.pool.head, With(Sizes(heap), p, RoundUp(n)))
      BY <1>3, <2>4, <2>6
    <3>3. Abstract!IsUnused(p, n, heap)
      BY <1>4, <1>6, <3>1, <3>2, UnusedIs
    <3>4. heap' = Abstract!Put(p, Abstract!Fill(n), heap)
      BY <2>1, <2>7 DEF Abstract!Put, Abstract!Fill, With
    <3>5. QED
      BY <3>3, <3>4 DEF Abstract!Alloc
  <2>12. QED
    BY <2>9, <2>10, <2>11
<1>17. QED
  BY <1>15, <1>16

(* A fixed pool keeps its puddle.                                          *)
LEMMA FixedKeeps ==
  ASSUME NEW pl, NEW bl, Fixed(pl, bl), NEW other, NEW bm, Stays(pl, other, bl, bm),
         DOMAIN other.head \subseteq DOMAIN pl.head
  PROVE  DOMAIN other.head = DOMAIN pl.head
  BY DEF Stays, Fixed

(* What the books say after an operation of the pool.                      *)
LEMMA HostServes ==
  ASSUME MemIInv, HasPool, NEW a, NEW room, NEW pl, SameKind(pool, pl),
         Serves(a, room, DOMAIN pl.head), pool' = pl,
         mem' = Served(a, room, DOMAIN pool.head \ DOMAIN pl.head),
         UNCHANGED <<mms, held, poolat, lost>>
  PROVE  HostIInv' /\ DOMAIN pl.head \subseteq Room \cup {Static}
<1>1. PICK D : D = DOMAIN pl.head
  OBVIOUS
<1>2. KeepsBooks(mem', D)
  <2>1. IsServed(a, room, D, mem')
    BY <1>1 DEF IsServed
  <2>2. QED
    BY <2>1, ServedIs
<1>3. /\ Books(mem', mms) /\ Owned(mem', DOMAIN mms, held, PoolAt, D \ {Static}, lost)
      /\ \A r \in D \ {Static} : mem'.info[r].mm = pool.mm
  BY <1>2 DEF KeepsBooks
<1>4. UNCHANGED <<PoolAt, HasPool>> /\ Pud' = D \ {Static}
  BY <1>1 DEF PoolAt, HasPool, Pud
<1>5. HostIInv'
  BY <1>3, <1>4 DEF HostIInv, SameKind
<1>6. D \subseteq Room \cup {Static}
  <2>1. D \ {Static} \subseteq DOMAIN mem'.info /\ DOMAIN mem'.info \subseteq Room
    BY <1>3 DEF Owned, Books
  <2>2. QED
    BY <2>1
<1>7. QED
  BY <1>1, <1>5, <1>6

(* TFreePool                                                               *)
LEMMA PoolFreeStep ==
  ASSUME MemIInv, NEW p \in DOMAIN heap, PoolFree(p) PROVE MemIInv' /\ Abstract!Free(p)
<1>0. HasPool
  <2>1. DOMAIN heap # {} /\ DOMAIN <<>> = {}
    OBVIOUS
  <2>2. QED
    BY <2>1 DEF MemIInv
<1>1. PICK size, pl, bl : size = Len(heap[p]) /\ pl = FreePool(pool, p, size) /\ bl = Sizes(heap)
  OBVIOUS
<1>2. /\ pool' = pl /\ mem' = FreeAll(mem, DOMAIN pool.head \ DOMAIN pl.head)
      /\ heap' = Seen(DropKey(heap, p), pl)
      /\ UNCHANGED <<mms, held, poolat, lost>>
  BY <1>1 DEF PoolFree
<1>3. PoolIs(pool, mms, heap) /\ Ready(pool, bl) /\ Filled(heap)
  BY <1>0, <1>1 DEF MemIInv, PoolIs
<1>4. p \in DOMAIN bl /\ bl[p] = RoundUp(size) /\ size \in Int /\ size > 0
  BY <1>1, <1>3 DEF Sizes, Filled
<1>5. Stays(pool, pl, bl, DropKey(bl, p)) /\ DOMAIN pl.head \subseteq DOMAIN pool.head
  BY <1>1, <1>3, <1>4, FreePoolIs
<1>6. /\ "free" \in pool.flags => Static \notin DOMAIN pool.head /\ pool.mm \in Managers
      /\ "free" \notin pool.flags => DOMAIN pl.head = DOMAIN pool.head
  <2>1. "free" \notin pool.flags => Fixed(pool, bl)
    BY <1>1, <1>3 DEF PoolIs, Ready
  <2>2. Fixed(pool, bl) => DOMAIN pl.head = DOMAIN pool.head
    BY <1>5, FixedKeeps
  <2>3. QED
    BY <1>3, <2>1, <2>2, TypeIs DEF PoolIs
<1>7. HostIInv'
  <2>1. PICK a : a = [asked |-> 0]
    OBVIOUS
  <2>2. a.asked = 0
    BY <2>1
  <2>3. Serves(a, None, DOMAIN pl.head)
    BY <1>5, <1>6, <2>2 DEF Serves
  <2>4. mem' = Served(a, None, DOMAIN pool.head \ DOMAIN pl.head)
    BY <1>2, <2>2 DEF Served
  <2>5. SameKind(pool, pl)
    BY <1>5 DEF Stays
  <2>6. QED
    BY <1>0, <1>2, <2>3, <2>4, <2>5, HostServes
<1>8. PICK hq : hq = DropKey(heap, p)
  OBVIOUS
<1>9. Filled(hq) /\ Sizes(hq) = DropKey(bl, p) /\ hq = [q \in DOMAIN hq |-> hq[q]]
  BY <1>1, <1>3, <1>8, SizesDrop
<1>10. Stays(pool, pl, Sizes(heap), Sizes(hq))
  BY <1>1, <1>5, <1>9
<1>11. PoolIs(pl, mms, hq)
  <2>1. "free" \in pool.flags => Static \notin DOMAIN pl.head
    BY <1>5, <1>6
  <2>2. QED
    BY <1>3, <1>6, <1>10, <2>1, PoolStays
<1>12. heap' = hq
  <2>1. Tiled(pl.head, Sizes(hq))
    BY <1>11 DEF PoolIs, Ready, Growing, Fixed
  <2>2. QED
    BY <1>2, <1>8, <1>9, <2>1, SeenSame
<1>13. HasPool'
  BY <1>0, <1>2 DEF HasPool
<1>14. MemIInv'
  BY <1>2, <1>7, <1>9, <1>11, <1>12, <1>13 DEF MemIInv
<1>15. Abstract!Free(p)
  BY <1>8, <1>12 DEF Abstract!Free, Abstract!Without, DropKey
<1>16. QED
  BY <1>14, <1>15

(* TReallocPool                                                            *)
LEMMA PoolReallocStep ==
  ASSUME MemIInv, HasPool, NEW p \in DOMAIN heap, NEW n \in Size, PoolRealloc(p, n),
         pool'.pudsize <= MaxPudSize
  PROVE  MemIInv' /\ (UNCHANGED heap \/ \E q \in Addresses : Abstract!Realloc(p, q, n))
<1>1. PICK size, room, a, bl :
        /\ size = Len(heap[p]) /\ room = PoolRoom /\ a = ReallocPool(pool, p, size, n, room)
        /\ bl = Sizes(heap)
  OBVIOUS
<1>2. /\ pool' = a.pool /\ mem' = Served(a, room, DOMAIN pool.head \ DOMAIN a.pool.head)
      /\ heap' = IF a.at = TNULL THEN heap
                 ELSE Own(a.at, IF a.at = p THEN heap[p] ELSE Seen(heap, a.via)[p],
                          n, DropKey(heap, p), a.pool)
      /\ UNCHANGED <<mms, held, poolat, lost>>
  BY <1>1 DEF PoolRealloc
<1>3. PoolIs(pool, mms, heap) /\ Ready(pool, bl) /\ Filled(heap)
  BY <1>1 DEF MemIInv, PoolIs
<1>4. p \in DOMAIN bl /\ bl[p] = RoundUp(size) /\ size \in Int /\ size > 0
  BY <1>1, <1>3 DEF Sizes, Filled
<1>5. /\ IsRoom(room, pool.head)
      /\ room # None => room = NextRoom(pool.mm, mem) /\ ~ IsFixed(pool)
  BY <1>1, PoolRoomIs
<1>6. n \in Nat /\ n \in Int /\ n > 0 /\ RoundUp(n) <= Span
  BY SizeIs
<1>7. Reallocated(pool, a, bl, p, n, room)
  <2>1. SmallEnough(a.pool)
    BY <1>2, BoundedSize
  <2>2. QED
    BY <1>1, <1>3, <1>4, <1>5, <1>6, <2>1, ReallocPoolIs
<1>8. SameKind(pool, a.pool)
  BY <1>7 DEF Reallocated, Stays
<1>9. /\ room # None => "free" \in pool.flags
      /\ "free" \in pool.flags => Static \notin DOMAIN pool.head /\ pool.mm \in Managers
      /\ "free" \notin pool.flags => Fixed(pool, bl)
  BY <1>1, <1>3, <1>5, TypeIs DEF PoolIs, Ready, Fixed, IsFixed
<1>10. CASE a.at = TNULL
  <2>1. /\ heap' = heap /\ Stays(pool, a.pool, bl, bl) /\ DOMAIN a.pool.head = DOMAIN pool.head
        /\ a.asked = 0 \/ room = None
    BY <1>2, <1>7, <1>10 DEF Reallocated
  <2>2. Serves(a, room, DOMAIN a.pool.head)
    BY <2>1 DEF Serves
  <2>3. HostIInv'
    BY <1>2, <1>8, <2>2, HostServes
  <2>4. PoolIs(a.pool, mms, heap)
    BY <1>1, <1>3, <1>9, <2>1, PoolStays
  <2>5. HasPool'
    BY <1>2 DEF HasPool
  <2>6. QED
    BY <1>2, <1>3, <2>1, <2>3, <2>4, <2>5 DEF MemIInv
<1>11. CASE a.at # TNULL
  <2>1. PICK at, drop, s, hq :
          /\ at = a.at /\ drop = DropKey(heap, p)
          /\ s = [k \in 1..n |-> IF k <= size THEN heap[p][k] ELSE k]
          /\ hq = With(drop, at, s)
    OBVIOUS
  <2>2. /\ at \notin DOMAIN bl \ {p} /\ Stays(pool, a.pool, bl, With(DropKey(bl, p), at, RoundUp(n)))
        /\ Clear(a.via.head, p, bl[p])
        /\ \/ a.asked = 0 /\ DOMAIN a.pool.head \subseteq DOMAIN pool.head
           \/ /\ a.asked \in Int /\ a.asked > 0 /\ room # None
              /\ room \in DOMAIN a.pool.head
              /\ DOMAIN a.pool.head \subseteq DOMAIN pool.head \cup {room}
    BY <1>7, <1>11, <2>1 DEF Reallocated
  <2>3. "free" \notin pool.flags => DOMAIN a.pool.head = DOMAIN pool.head
    <3>1. "free" \notin pool.flags => DOMAIN a.pool.head \subseteq DOMAIN pool.head
      BY <1>9, <2>2
    <3>2. QED
      BY <1>9, <2>2, <3>1, FixedKeeps
  <2>4. Serves(a, room, DOMAIN a.pool.head)
    BY <1>5, <1>9, <2>2, <2>3 DEF Serves
  <2>5. HostIInv' /\ DOMAIN a.pool.head \subseteq Room \cup {Static}
    BY <1>2, <1>8, <2>4, HostServes
  <2>6. "free" \in pool.flags => Static \notin DOMAIN a.pool.head
    <3>1. room # None => room # Static
      BY <1>5, Names, NextRoomIs
    <3>2. QED
      BY <1>9, <2>2, <3>1
  <2>7. /\ heap[p] \in Seq(Nat) /\ size \in Nat /\ DOMAIN heap[p] = 1..size
        /\ \A k \in 1..size : heap[p][k] \in Nat
    BY <1>1, <1>3, SeqIs DEF Filled
  <2>8. s \in Seq(Nat) /\ Len(s) = n
    <3>1. s = [k \in 1..n |-> s[k]] /\ \A k \in 1..n : s[k] \in Nat
      BY <1>6, <2>1, <2>7
    <3>2. QED
      BY <1>6, <3>1, LenIs
  <2>9. Filled(drop) /\ Sizes(drop) = DropKey(bl, p)
    BY <1>1, <1>3, <2>1, SizesDrop
  <2>10. /\ Filled(hq) /\ Sizes(hq) = With(DropKey(bl, p), at, RoundUp(n))
         /\ hq = [q \in DOMAIN hq |-> hq[q]]
    <3>1. hq = With(drop, at, s)
      BY <2>1
    <3>2. /\ Filled(hq) /\ Sizes(hq) = With(Sizes(drop), at, RoundUp(n))
          /\ hq = [q \in DOMAIN hq |-> hq[q]]
      BY <1>6, <2>8, <2>9, <3>1, SizesWith
    <3>3. QED
      BY <2>9, <3>2
  <2>11. PoolIs(a.pool, mms, hq)
    <3>1. Stays(pool, a.pool, Sizes(heap), Sizes(hq))
      BY <1>1, <2>2, <2>10
    <3>2. QED
      BY <1>3, <2>3, <2>6, <3>1, PoolStays
  <2>12. Tiled(a.pool.head, Sizes(hq))
    BY <2>11 DEF PoolIs, Ready, Growing, Fixed
  <2>13. heap' = hq
    <3>1. Seen(heap, a.via)[p] = heap[p]
      <4>1. p \in Int
        <5>1. Tiled(pool.head, bl)
          BY <1>3 DEF Ready, Growing, Fixed
        <5>2. QED
          BY <1>4, <5>1, BlockIs DEF Tiled
      <4>2. QED
        BY <1>1, <1>3, <2>2, <4>1, SeenBlock
    <3>2. PICK old : old = IF at = p THEN heap[p] ELSE Seen(heap, a.via)[p]
      OBVIOUS
    <3>3. old = heap[p] /\ Len(old) = size
      BY <1>1, <3>1, <3>2
    <3>4. heap' = Own(at, old, n, drop, a.pool)
      BY <1>2, <1>11, <2>1, <3>2
    <3>5. [k \in 1..n |-> IF k <= Len(old) THEN old[k] ELSE k] = s
      BY <2>1, <3>3
    <3>6. heap' = Seen(hq, a.pool)
      BY <2>1, <3>4, <3>5 DEF Own
    <3>7. QED
      BY <2>10, <2>12, <3>6, SeenSame
  <2>14. HasPool'
    BY <1>2 DEF HasPool
  <2>15. MemIInv'
    BY <1>2, <2>5, <2>10, <2>11, <2>13, <2>14 DEF MemIInv
  <2>16. at \in Addresses
    <3>1. at \in DOMAIN Sizes(hq)
      BY <2>10 DEF With
    <3>2. QED
      BY <2>5, <2>12, <3>1, AddressIs
  <2>17. Abstract!Realloc(p, at, n)
    <3>1. at \notin DOMAIN drop
      BY <1>1, <2>1, <2>2 DEF Sizes, DropKey
    <3>2. Tiled(a.pool.head, With(Sizes(drop), at, RoundUp(n)))
      BY <2>9, <2>10, <2>12
    <3>3. Abstract!IsUnused(at, n, drop)
      BY <1>6, <2>9, <3>1, <3>2, UnusedIs
    <3>4. drop = Abstract!Without(p)
      BY <2>1 DEF Abstract!Without, DropKey
    <3>5. heap' = Abstract!Put(at, s, drop)
      BY <2>1, <2>13 DEF Abstract!Put, With
    <3>6. s = [k \in 1..n |-> IF k <= Len(heap[p]) THEN heap[p][k] ELSE k]
      BY <1>1, <2>1
    <3>7. QED
      BY <3>3, <3>4, <3>5, <3>6 DEF Abstract!Realloc
  <2>18. QED
    BY <2>15, <2>16, <2>17
<1>12. QED
  BY <1>10, <1>11

(* No blocks tile no puddles.                                              *)
LEMMA NoBlocks ==
  /\ DOMAIN Sizes(<<>>) = {} /\ Filled(<<>>) /\ Tiled(<<>>, Sizes(<<>>)) /\ Used(<<>>, Sizes(<<>>))
  /\ Ordered(<<>>, {}, {}) /\ Large(<<>>) = {} /\ DOMAIN <<>> = {}
<1>1. PICK e : e = <<>>
  OBVIOUS
<1>2. DOMAIN e = {} /\ e \in Seq(Nat) /\ Len(e) = 0
  BY <1>1
<1>3. DOMAIN Sizes(e) = {} /\ Filled(e)
  BY <1>2 DEF Sizes, Filled
<1>4. Tiled(e, Sizes(e)) /\ Used(e, Sizes(e)) /\ Large(e) = {}
  BY <1>2, <1>3 DEF Tiled, Heads, Blocks, Used, Large
<1>5. Ordered(e, {}, {})
  BY <1>2 DEF Ordered
<1>6. QED
  BY <1>1, <1>2, <1>3, <1>4, <1>5

(* A pool that has no puddle yet.                                          *)
LEMMA GrowingPoolIs ==
  ASSUME NEW flags, "fixed" \notin flags, NEW p \in Int, NEW t \in Int, t <= p, NEW m,
         NEW pl, pl = GrowingPool(flags, p, t, m)
  PROVE  Growing(pl, Sizes(<<>>)) /\ pl.flags = flags /\ pl.mm = m /\ pl.head = <<>>
<1>1. pl = [flags |-> flags, list |-> <<>>, pudsize |-> p, thressize |-> t, mm |-> m,
            head |-> <<>>]
  BY DEF GrowingPool
<1>2. Shaped(pl)
  BY <1>1 DEF Shaped
<1>3. /\ pl.flags = flags /\ pl.mm = m /\ pl.head = <<>> /\ pl.list = <<>>
      /\ pl.pudsize = p /\ pl.thressize = t
  BY <1>1
<1>4. QED
  BY <1>2, <1>3, NoBlocks DEF Growing

(* The only puddle of a fixed pool is free when the pool is new.           *)
LEMMA FixedPoolIs ==
  ASSUME NEW flags, "fixed" \in flags, NEW r \in Nat \ {0},
         NEW pl, pl = FixedPool(flags, r, FixedSize)
  PROVE  Shaped(pl) /\ Fixed(pl, Sizes(<<>>)) /\ pl.flags = flags /\ DOMAIN pl.head = {r}
<1>1. PICK lf, mh, h : /\ lf = ("lowfrag" \in flags)
                       /\ mh = InitMemHead(Memory(r), FixedSize, lf, FALSE)
                       /\ h = [x \in {r} |-> mh]
  OBVIOUS
<1>2. pl = [flags |-> flags, list |-> <<r>>, pudsize |-> 0, thressize |-> 0, mm |-> None,
            head |-> h]
  BY <1>1 DEF FixedPool
<1>3. Shaped(pl)
  BY <1>2 DEF Shaped
<1>4. pl.flags = flags /\ pl.list = <<r>> /\ pl.head = h /\ DOMAIN h = {r} /\ h[r] = mh
  BY <1>1, <1>2
<1>5. Memory(r) \in Nat /\ Memory(r) > 0 /\ Multiple(Memory(r))
  BY MemoryIs
<1>6. FixedSize \in Int /\ FixedSize >= Align /\ FixedSize <= Span /\ Span \in Int
  BY PoolSizeAssumption, SpanAssumption, AlignAssumption
<1>7. /\ Sound(mh) /\ mh.mem = Memory(r) /\ mh.large = FALSE
      /\ mh.end = Memory(r) + (FixedSize \div Align) * Align
      /\ \A b \in Int : Covers(mh.list, b) <=> Memory(r) <= b /\ b < mh.end
  <2>1. PICK p, large : p = Memory(r) /\ large = FALSE
    OBVIOUS
  <2>2. Multiple(p) /\ p > 0
    BY <1>5, <2>1
  <2>a. lf \in BOOLEAN
    BY <1>1
  <2>b. large \in BOOLEAN
    BY <2>1
  <2>3. mh = InitMemHead(p, FixedSize, lf, large)
    BY <1>1, <2>1
  <2>4. /\ Sound(mh) /\ mh.mem = p /\ mh.end = p + (FixedSize \div Align) * Align
        /\ mh.large = large
        /\ \A b \in Int : Covers(mh.list, b) <=> p <= b /\ b < mh.end
    BY ONLY <1>6, <2>2, <2>3, <2>a, <2>b, InitHead
  <2>5. QED
    BY <2>1, <2>4
<1>8. mh.end <= Memory(r) + Span
  <2>1. PICK n : n = (FixedSize \div Align) * Align
    OBVIOUS
  <2>2. n \in Int /\ n <= FixedSize
    BY <1>6, <2>1, RoundedDown DEF Multiple
  <2>3. QED
    BY <1>5, <1>6, <1>7, <2>1, <2>2
<1>9. Tiled(h, Sizes(<<>>))
  <2>1. /\ DOMAIN h = DOMAIN <<>> \cup {r} /\ r \notin DOMAIN <<>>
        /\ \A s \in DOMAIN <<>> : h[s] = <<>>[s]
    BY <1>4, NoBlocks
  <2>2. Sound(h[r]) /\ h[r].mem = Memory(r) /\ h[r].end <= Memory(r) + Span
    BY <1>4, <1>7, <1>8
  <2>3. \A b \in Int : InMemory(h[r], b) => Covers(h[r].list, b)
    BY <1>4, <1>7 DEF InMemory
  <2>4. QED
    BY <2>1, <2>2, <2>3, NoBlocks, PuddleAdded
<1>10. Large(pl.head) = {}
  BY <1>4, <1>7 DEF Large
<1>11. QED
  BY <1>3, <1>4, <1>9, <1>10 DEF Fixed

(* Without a pool there is nothing of one.                                 *)
LEMMA NoPoolIs ==
  ASSUME MemIInv, ~ HasPool
  PROVE  /\ heap = <<>> /\ Books(mem, mms) /\ Owned(mem, DOMAIN mms, held, {}, {}, lost)
<1>1. PoolAt = {} /\ Pud = {}
  BY DEF PoolAt, Pud, HasPool
<1>2. QED
  BY <1>1 DEF MemIInv, HostIInv

(* A pool has been created at r, and its puddles are the pieces D.         *)
LEMMA PoolMade ==
  ASSUME MemIInv, ~ HasPool, NEW r \in Room, NEW pl, NEW D, D = DOMAIN pl.head \ {Static},
         pool' = pl, poolat' = r, UNCHANGED <<mms, held, heap, lost>>,
         Books(mem', mms), Owned(mem', DOMAIN mms, held, {r}, D, lost),
         \A x \in D : mem'.info[x].mm = pl.mm, PoolIs(pl, mms, <<>>)
  PROVE  MemIInv'
<1>1. heap = <<>>
  BY NoPoolIs
<1>2. HasPool' /\ PoolAt' = {r} /\ Pud' = D
  BY Names DEF HasPool, PoolAt, Pud
<1>3. HostIInv'
  BY <1>2 DEF HostIInv
<1>4. Filled(<<>>)
  BY NoBlocks
<1>5. QED
  BY <1>1, <1>2, <1>3, <1>4 DEF MemIInv

(* exec_CreatePool                                                         *)
LEMMA CreatePoolStep ==
  ASSUME MemIInv, NEW flags \in PoolFlags, NEW m \in Managers, NEW p \in PudSize,
         NEW t \in ThresSize, CreatePool(flags, m, p, t)
  PROVE  MemIInv' /\ UNCHANGED heap
<1>1. PICK r, fl, pl : /\ r = NextRoom(Base, mem) /\ fl = flags \cup {"free"}
                       /\ pl = GrowingPool(flags \cup {"free"}, p, t, m)
  OBVIOUS
<1>2. /\ ~ HasPool /\ r # None /\ p >= t /\ mem' = Alloc(mem, Base, StructSize, r)
      /\ pool' = pl /\ poolat' = r /\ UNCHANGED <<mms, held, heap, lost>>
  BY <1>1 DEF CreatePool
<1>3. p \in Int /\ t \in Int /\ "fixed" \notin fl /\ "free" \in fl
  BY <1>1, PoolSizeAssumption, FlagsAssumption
<1>4. Growing(pl, Sizes(<<>>)) /\ pl.flags = fl /\ pl.mm = m /\ pl.head = <<>>
  <2>1. pl = GrowingPool(fl, p, t, m) /\ t <= p
    BY <1>1, <1>2, <1>3
  <2>2. QED
    BY ONLY <1>3, <2>1, GrowingPoolIs
<1>5. PoolIs(pl, mms, <<>>)
  BY <1>3, <1>4, NoBlocks, TypeIs DEF PoolIs, Ready
<1>6. Books(mem, mms) /\ Owned(mem, DOMAIN mms, held, {}, {}, lost)
  BY <1>2, NoPoolIs
<1>7. Books(mem', mms) /\ More(mem, mem', r, Base)
  BY <1>1, <1>2, <1>6, Names, AllocMore DEF StructSize
<1>8. Owned(mem', DOMAIN mms, held, {} \cup {r}, {}, lost)
  BY <1>6, <1>7, OwnedMore
<1>9. r \in Room
  BY <1>7 DEF More
<1>10. {} \cup {r} = {r} /\ DOMAIN pl.head \ {Static} = {}
  BY <1>4, NoBlocks
<1>11. QED
  BY <1>2, <1>5, <1>7, <1>8, <1>9, <1>10, PoolMade

(* The same, for a task's own memory.                                      *)
LEMMA CreateFixedPoolStep ==
  ASSUME MemIInv, NEW flags \in PoolFlags, CreateFixedPool(flags)
  PROVE  MemIInv' /\ UNCHANGED heap
<1>1. PICK r, fl, pl : /\ r = NextRoom(Base, mem) /\ fl = flags \cup {"fixed"}
                       /\ pl = FixedPool(flags \cup {"fixed"}, Static, FixedSize)
  OBVIOUS
<1>2. /\ ~ HasPool /\ r # None /\ mem' = Alloc(mem, Base, StructSize, r)
      /\ pool' = pl /\ poolat' = r /\ UNCHANGED <<mms, held, heap, lost>>
  BY <1>1 DEF CreateFixedPool
<1>3. "free" \notin fl /\ "fixed" \in fl
  BY <1>1, FlagsAssumption
<1>4. Static \in Nat \ {0}
  BY RoomAssumption
<1>5. Fixed(pl, Sizes(<<>>)) /\ pl.flags = fl /\ DOMAIN pl.head = {Static}
  BY <1>1, <1>3, <1>4, FixedPoolIs
<1>6. PoolIs(pl, mms, <<>>)
  BY <1>3, <1>5, OneKind DEF PoolIs, Ready
<1>7. Books(mem, mms) /\ Owned(mem, DOMAIN mms, held, {}, {}, lost)
  BY <1>2, NoPoolIs
<1>8. Books(mem', mms) /\ More(mem, mem', r, Base)
  BY <1>1, <1>2, <1>7, Names, AllocMore DEF StructSize
<1>9. Owned(mem', DOMAIN mms, held, {} \cup {r}, {}, lost)
  BY <1>7, <1>8, OwnedMore
<1>10. r \in Room
  BY <1>8 DEF More
<1>11. {} \cup {r} = {r} /\ DOMAIN pl.head \ {Static} = {}
  BY <1>5
<1>12. QED
  BY <1>2, <1>6, <1>8, <1>9, <1>10, <1>11, PoolMade

(* The same, for memory of a manager.                                      *)
LEMMA CreateFixedPoolFromStep ==
  ASSUME MemIInv, NEW flags \in PoolFlags, NEW m \in Managers, CreateFixedPoolFrom(flags, m)
  PROVE  MemIInv' /\ UNCHANGED heap
<1>1. PICK r, m1, r2, fl, q :
        /\ r = NextRoom(Base, mem) /\ m1 = Alloc(mem, Base, StructSize, r)
        /\ r2 = NextRoom(m, m1) /\ fl = flags \cup {"fixed", "free"}
        /\ q = FixedPool(flags \cup {"fixed", "free"}, r2, FixedSize)
  OBVIOUS
<1>2. /\ ~ HasPool /\ r # None /\ UNCHANGED <<mms, held, heap, lost>>
      /\ \/ r2 = None /\ mem' = FreeAll(m1, {r}) /\ UNCHANGED <<pool, poolat>>
         \/ /\ r2 # None /\ mem' = Alloc(m1, m, FixedSize + StructSize, r2)
            /\ pool' = [q EXCEPT !.mm = m] /\ poolat' = r
  BY <1>1 DEF CreateFixedPoolFrom, Free
<1>3. Books(mem, mms) /\ Owned(mem, DOMAIN mms, held, {}, {}, lost)
  BY <1>2, NoPoolIs
<1>4. Books(m1, mms) /\ More(mem, m1, r, Base)
  BY <1>1, <1>2, <1>3, Names, AllocMore DEF StructSize
<1>5. CASE r2 = None
  <2>1. mem' = FreeAll(m1, {r}) /\ UNCHANGED <<pool, poolat>>
    BY <1>2, <1>5
  <2>2. {r} \subseteq DOMAIN m1.info /\ \A x \in {r} : m1.info[x].mm # None
    BY <1>4, Names DEF More
  <2>3. Books(mem', mms) /\ Less(m1, mem', {r})
    BY <1>4, <2>1, <2>2, FreeLess
  <2>4. Owned(mem', DOMAIN mms, held, {}, {}, lost)
    BY <1>3, <1>4, <2>3, MoreLess
  <2>5. ~ HasPool' /\ PoolAt' = {} /\ Pud' = {}
    BY <1>2, <2>1 DEF HasPool, PoolAt, Pud
  <2>6. HostIInv'
    BY <1>2, <2>3, <2>4, <2>5 DEF HostIInv
  <2>7. heap = <<>> /\ Filled(<<>>)
    BY <1>2, NoPoolIs, NoBlocks
  <2>8. QED
    BY <1>2, <2>5, <2>6, <2>7 DEF MemIInv
<1>6. CASE r2 # None
  <2>1. PICK pl : pl = [q EXCEPT !.mm = m]
    OBVIOUS
  <2>2. mem' = Alloc(m1, m, FixedSize + StructSize, r2) /\ pool' = pl /\ poolat' = r
    BY <1>2, <1>6, <2>1
  <2>3. FixedSize + StructSize \in Int
    BY PoolSizeAssumption, AlignAssumption, SpanAssumption DEF StructSize
  <2>4. Books(mem', mms) /\ More(m1, mem', r2, m)
    BY <1>1, <1>4, <1>6, <2>2, <2>3, AllocMore
  <2>5. r \in Room /\ r2 \in Room
    BY <1>4, <2>4 DEF More
  <2>6. Owned(m1, DOMAIN mms, held, {} \cup {r}, {}, lost)
    BY <1>3, <1>4, OwnedMore
  <2>7. Owned(mem', DOMAIN mms, held, {} \cup {r}, {} \cup {r2}, lost)
    BY <2>4, <2>6, OwnedMore
  <2>8. "fixed" \in fl /\ "free" \in fl /\ r2 \in Nat \ {0} /\ r2 # Static
    BY <1>1, <2>5, RoomAssumption, Names
  <2>9. Shaped(q) /\ Fixed(q, Sizes(<<>>)) /\ q.flags = fl /\ DOMAIN q.head = {r2}
    BY <1>1, <2>8, FixedPoolIs
  <2>10. pl = [flags |-> q.flags, list |-> q.list, pudsize |-> q.pudsize,
               thressize |-> q.thressize, mm |-> m, head |-> q.head]
    BY <2>1, <2>9 DEF Shaped
  <2>11. pl.flags = q.flags /\ pl.list = q.list /\ pl.head = q.head /\ pl.mm = m /\ Shaped(pl)
    BY <2>10 DEF Shaped
  <2>12. Fixed(pl, Sizes(<<>>))
    BY <2>9, <2>11 DEF Fixed
  <2>13. PoolIs(pl, mms, <<>>)
    BY <2>8, <2>9, <2>11, <2>12, OneKind, TypeIs DEF PoolIs, Ready
  <2>14. {} \cup {r} = {r} /\ {} \cup {r2} = {r2} /\ DOMAIN pl.head \ {Static} = {r2}
    BY <2>8, <2>9, <2>11
  <2>15. \A x \in {r2} : mem'.info[x].mm = pl.mm
    BY <2>4, <2>11 DEF More
  <2>16. Owned(mem', DOMAIN mms, held, {r}, {r2}, lost)
    BY <2>7, <2>14
  <2>17. QED
    BY <1>2, <2>2, <2>4, <2>5, <2>13, <2>14, <2>15, <2>16, PoolMade
<1>7. QED
  BY <1>5, <1>6

(* exec_destroypool returns the puddles, if they are not a task's.         *)
LEMMA DestroyPoolStep ==
  ASSUME MemIInv, DestroyPool PROVE MemIInv' /\ Abstract!Destroy
<1>1. PICK R, m1 : /\ R = (IF "free" \in pool.flags THEN Range(pool.list) ELSE {})
                   /\ m1 = FreeAll(mem, R)
  OBVIOUS
<1>2. /\ HasPool /\ mem' = FreeAll(m1, {poolat})
      /\ pool' = None /\ poolat' = None /\ heap' = <<>> /\ UNCHANGED <<mms, held, lost>>
  BY <1>1 DEF DestroyPool, Free
<1>3. /\ Books(mem, mms) /\ Owned(mem, DOMAIN mms, held, PoolAt, Pud, lost)
      /\ \A x \in Pud : mem.info[x].mm = pool.mm
      /\ PoolIs(pool, mms, heap)
  BY <1>2 DEF MemIInv, HostIInv
<1>4. Range(pool.list) = DOMAIN pool.head
  <2>1. CASE Growing(pool, Sizes(heap))
    BY <2>1, OrderedIs DEF Growing
  <2>2. CASE Fixed(pool, Sizes(heap))
    <3>1. PICK r : pool.list = <<r>> /\ DOMAIN pool.head = {r}
      BY <2>2 DEF Fixed
    <3>2. Range(<<r>>) = {r}
      BY DEF Range
    <3>3. QED
      BY <3>1, <3>2
  <2>3. QED
    BY <1>3, <2>1, <2>2 DEF PoolIs, Ready
<1>5. R = Pud
  BY <1>1, <1>2, <1>3, <1>4 DEF PoolIs, Pud
<1>6. Pud \subseteq DOMAIN mem.info /\ \A x \in Pud : mem.info[x].mm # None
  <2>1. Pud # {} => "free" \in pool.flags
    BY <1>2, <1>3 DEF PoolIs, Pud
  <2>2. "free" \in pool.flags => pool.mm # None
    BY <1>3, Names DEF PoolIs, ManagersIn, Books
  <2>3. QED
    BY <1>3, <2>1, <2>2 DEF Owned
<1>7. Books(m1, mms) /\ Less(mem, m1, Pud)
  BY <1>1, <1>3, <1>5, <1>6, FreeLess
<1>8. Owned(m1, DOMAIN mms \ Pud, held \ Pud, PoolAt \ Pud, Pud \ Pud, lost \ Pud)
  BY <1>3, <1>7, OwnedLess
<1>9. /\ DOMAIN mms \ Pud = DOMAIN mms /\ held \ Pud = held /\ PoolAt \ Pud = PoolAt /\ Pud \ Pud = {}
      /\ lost \ Pud = lost
  BY <1>3 DEF Owned, Separate
<1>10. Owned(m1, DOMAIN mms, held, PoolAt, {}, lost)
  BY <1>8, <1>9
<1>11. PoolAt = {poolat}
  BY <1>2 DEF PoolAt, HasPool
<1>12. {poolat} \subseteq DOMAIN m1.info /\ \A x \in {poolat} : m1.info[x].mm # None
  BY <1>10, <1>11, Names DEF Owned
<1>13. Books(mem', mms) /\ Less(m1, mem', {poolat})
  BY <1>2, <1>7, <1>12, FreeLess
<1>14. Owned(mem', DOMAIN mms \ {poolat}, held \ {poolat}, PoolAt \ {poolat}, {} \ {poolat},
             lost \ {poolat})
  BY <1>10, <1>13, OwnedLess
<1>15. /\ DOMAIN mms \ {poolat} = DOMAIN mms /\ held \ {poolat} = held /\ PoolAt \ {poolat} = {}
       /\ {} \ {poolat} = {} /\ lost \ {poolat} = lost
  BY <1>10, <1>11 DEF Owned, Separate
<1>16. Owned(mem', DOMAIN mms, held, {}, {}, lost)
  BY <1>14, <1>15
<1>17. ~ HasPool' /\ PoolAt' = {} /\ Pud' = {}
  BY <1>2 DEF HasPool, PoolAt, Pud
<1>18. HostIInv'
  BY <1>2, <1>13, <1>16, <1>17 DEF HostIInv
<1>19. MemIInv'
  BY <1>2, <1>17, <1>18, NoBlocks DEF MemIInv
<1>20. QED
  BY <1>2, <1>19 DEF Abstract!Destroy

-----------------------------------------------------------------------------
(***************************************************************************)
(* What this shows.                                                        *)
(***************************************************************************)

(* Nothing has been allocated.                                             *)
LEMMA MemInit == ASSUME Init PROVE MemIInv
<1>1. PICK e : e = <<>>
  OBVIOUS
<1>2. DOMAIN e = {}
  BY <1>1
<1>3. PICK t : t = [m \in {Msg} |-> {}]
  OBVIOUS
<1>4. /\ mem = [hal |-> e, info |-> e, track |-> t] /\ mms = e /\ held = {} /\ lost = {}
      /\ poolat = None /\ heap = e
  BY <1>1, <1>3 DEF Init
<1>5. DOMAIN t = {Msg} /\ t[Msg] = {}
  BY <1>3
<1>6. /\ mem = [hal |-> mem.hal, info |-> mem.info, track |-> mem.track]
      /\ mem.hal = e /\ mem.info = e /\ mem.track = t
  BY <1>4
<1>7. {Msg} = {m \in ManagersIn(mms) : TypeIn(mms, m) = "message"}
  BY <1>2, <1>4, Names DEF ManagersIn, TypeIn
<1>8. Books(mem, mms)
  BY <1>2, <1>4, <1>5, <1>6, <1>7 DEF Books
<1>9. PoolAt = {} /\ Pud = {} /\ ~ HasPool
  BY <1>4 DEF PoolAt, Pud, HasPool
<1>10. Owned(mem, DOMAIN mms, held, PoolAt, Pud, lost)
  BY <1>2, <1>4, <1>6, <1>9 DEF Owned, Separate
<1>11. Filled(heap)
  BY <1>2, <1>4 DEF Filled
<1>12. QED
  BY <1>1, <1>4, <1>8, <1>9, <1>10, <1>11 DEF MemIInv, HostIInv

(* Every step.                                                             *)
LEMMA MemNextStep == ASSUME MemIInv, Next PROVE MemIInv' /\ [Abstract!Next]_heap
<1>1. CASE MemNext
  <2>1. UNCHANGED heap
    BY <1>1 DEF MemNext, MemAlloc, MemFree, MemRealloc, CreateMemManager, DestroyMemManager, poolvars
  <2>2. CASE \E n \in MemSize : \E m \in Managers : MemAlloc(m, n)
    BY <2>1, <2>2, MemAllocStep
  <2>3. CASE \E r \in held : MemFree(r)
    BY <2>1, <2>3, MemFreeStep
  <2>4. CASE \E r \in held : \E n \in MemSize : MemRealloc(r, n)
    BY <2>1, <2>4, MemReallocStep
  <2>5. CASE \E type \in Types : CreateMemManager(type)
    BY <2>1, <2>5, CreateStep
  <2>6. CASE \E m \in DOMAIN mms : DestroyMemManager(m)
    BY <2>1, <2>6, DestroyManagerStep
  <2>7. QED
    BY <1>1, <2>2, <2>3, <2>4, <2>5, <2>6 DEF MemNext
<1>2. CASE PoolNext
  <2>1. CASE \E flags \in PoolFlags : \E m \in Managers : \E p \in PudSize, t \in ThresSize :
               CreatePool(flags, m, p, t)
    BY <2>1, CreatePoolStep
  <2>2. CASE \E flags \in PoolFlags : \E m \in Managers : CreateFixedPoolFrom(flags, m)
    BY <2>2, CreateFixedPoolFromStep
  <2>3. CASE \E flags \in PoolFlags : CreateFixedPool(flags)
    BY <2>3, CreateFixedPoolStep
  <2>4. CASE DestroyPool
    BY <2>4, DestroyPoolStep DEF Abstract!Next
  <2>5. CASE \E p \in DOMAIN heap : PoolFree(p)
    BY <2>5, PoolFreeStep DEF Abstract!Next
  <2>6. CASE HasPool /\ (\E n \in Size : PoolAlloc(n)) /\ pool'.pudsize <= MaxPudSize
    <3>1. PICK n \in Size : PoolAlloc(n)
      BY <2>6
    <3>2. MemIInv' /\ (UNCHANGED heap \/ \E q \in Addresses : Abstract!Alloc(q, n))
      BY <2>6, <3>1, PoolAllocStep
    <3>3. QED
      BY <3>2 DEF Abstract!Next
  <2>7. CASE /\ HasPool /\ pool'.pudsize <= MaxPudSize
             /\ \E n \in Size : \E p \in DOMAIN heap : PoolRealloc(p, n)
    <3>1. PICK n \in Size, p \in DOMAIN heap : PoolRealloc(p, n)
      BY <2>7
    <3>2. MemIInv' /\ (UNCHANGED heap \/ \E q \in Addresses : Abstract!Realloc(p, q, n))
      BY <2>7, <3>1, PoolReallocStep
    <3>3. QED
      BY <3>2 DEF Abstract!Next
  <2>8. QED
    BY <1>2, <2>1, <2>2, <2>3, <2>4, <2>5, <2>6, <2>7 DEF PoolNext
<1>3. QED
  BY <1>1, <1>2 DEF Next

(* A step that is none.                                                    *)
LEMMA MemSameStep == ASSUME MemIInv, UNCHANGED vars PROVE MemIInv' /\ UNCHANGED heap
<1>1. UNCHANGED <<mem, mms, held, pool, poolat, heap, lost>>
  BY DEF vars
<1>2. UNCHANGED <<HasPool, PoolAt, Pud>>
  BY <1>1 DEF HasPool, PoolAt, Pud
<1>3. QED
  BY <1>1, <1>2 DEF MemIInv, HostIInv

(* Every piece has one owner.                                              *)
LEMMA HostIsOwned == ASSUME MemIInv PROVE HostMemoryIsOwned
<1>1. Books(mem, mms) /\ Owned(mem, DOMAIN mms, held, PoolAt, Pud, lost)
  BY DEF MemIInv, HostIInv
<1>2. PICK owners : owners = <<DOMAIN mms, held, {poolat} \ {None}, Puddles \ {Static}, lost>>
  OBVIOUS
<1>3. Pud = Puddles \ {Static} /\ PoolAt = {poolat} \ {None}
  BY DEF Pud, Puddles, PoolAt
<1>4. /\ DOMAIN owners = 1..5
      /\ owners[1] = DOMAIN mms /\ owners[2] = held /\ owners[3] = PoolAt /\ owners[4] = Pud
      /\ owners[5] = lost
  BY <1>2, <1>3
<1>5. UNION Range(owners) = DOMAIN mms \cup held \cup PoolAt \cup Pud \cup lost
  <2>1. Range(owners) = {DOMAIN mms, held, PoolAt, Pud, lost}
    <3>1. 1..5 = {1, 2, 3, 4, 5}
      OBVIOUS
    <3>2. Range(owners) = {owners[i] : i \in 1..5}
      BY <1>4 DEF Range
    <3>3. QED
      BY <1>4, <3>1, <3>2
  <2>2. QED
    BY <2>1
<1>6. DOMAIN mem.hal = UNION Range(owners)
  BY <1>1, <1>5 DEF Books, Owned
<1>7. \A i, j \in DOMAIN owners : i # j => owners[i] \cap owners[j] = {}
  <2>1. Separate(DOMAIN mms, held, PoolAt, Pud, lost)
    BY <1>1 DEF Owned
  <2>2. ASSUME NEW i \in 1..5, NEW j \in 1..5, i # j PROVE owners[i] \cap owners[j] = {}
    <3>1. i \in {1, 2, 3, 4, 5} /\ j \in {1, 2, 3, 4, 5}
      OBVIOUS
    <3>2. QED
      BY <1>4, <2>1, <2>2, <3>1 DEF Separate
  <2>3. QED
    BY <1>4, <2>2
<1>8. ASSUME NEW r \in DOMAIN mem.info, mem.info[r].mm # None
      PROVE  /\ mem.info[r].mm \in Managers
             /\ mem.hal[r] = HalSize(Type(mem.info[r].mm), mem.info[r].size)
             /\ Type(mem.info[r].mm) = "message" => r \in mem.track[mem.info[r].mm]
  BY <1>1, <1>8, TypeIs DEF Books
<1>9. \A m \in DOMAIN mem.track : \A r \in mem.track[m] : r \in DOMAIN mem.info /\ mem.info[r].mm = m
  BY <1>1 DEF Books
<1>10. QED
  BY <1>2, <1>6, <1>7, <1>8, <1>9 DEF HostMemoryIsOwned

(* The bytes of a puddle are those of its free nodes and blocks.           *)
LEMMA TiledIs ==
  ASSUME NEW h, Tiled(h, Sizes(heap)), NEW r \in DOMAIN h
  PROVE  FreeBytes(h[r]) = (h[r].mem..(h[r].end - 1)) \ UNION {Bytes(p) : p \in DOMAIN heap}
<1>1. PICK bl : bl = Sizes(heap)
  OBVIOUS
<1>2. /\ Heads(h) /\ Blocks(h, bl) /\ Sound(h[r])
      /\ \A b \in Int : InMemory(h[r], b) =>
           (Covers(h[r].list, b) <=> ~ InBlock(DOMAIN bl, bl, b))
  BY <1>1 DEF Tiled, Heads
<1>3. FreeBytes(h[r]) = FreeSet(h[r]) /\ h[r].mem \in Int /\ h[r].end \in Int
  BY <1>2, SoundIs, SoundParts
<1>4. DOMAIN bl = DOMAIN heap /\ \A p \in DOMAIN heap : bl[p] = RoundUp(Len(heap[p]))
  BY <1>1 DEF Sizes
<1>5. ASSUME NEW b \in Int
      PROVE  b \in UNION {Bytes(p) : p \in DOMAIN heap} <=> InBlock(DOMAIN bl, bl, b)
  <2>1. ASSUME NEW p \in DOMAIN heap PROVE b \in Bytes(p) <=> Within(b, p, bl[p])
    <3>1. p \in Int /\ bl[p] \in Int
      BY <1>2, <1>4, BlockIs
    <3>2. Bytes(p) = p..(p + bl[p] - 1)
      BY <1>4 DEF Bytes
    <3>3. QED
      BY <3>1, <3>2 DEF Within
  <2>2. QED
    BY <1>4, <2>1 DEF InBlock
<1>6. ASSUME NEW b \in Int PROVE b \in h[r].mem..(h[r].end - 1) <=> InMemory(h[r], b)
  BY <1>3 DEF InMemory
<1>7. \A b \in Int : b \in FreeSet(h[r]) <=> InMemory(h[r], b) /\ Covers(h[r].list, b)
  BY <1>6 DEF FreeSet
<1>8. PICK A, U : A = h[r].mem..(h[r].end - 1) /\ U = UNION {Bytes(p) : p \in DOMAIN heap}
  OBVIOUS
<1>9. FreeSet(h[r]) = A \ U
  <2>1. A \subseteq Int /\ FreeSet(h[r]) \subseteq Int
    BY <1>3, <1>8 DEF FreeSet
  <2>2. \A b \in Int : b \in FreeSet(h[r]) <=> b \in A \ U
    BY <1>2, <1>5, <1>6, <1>7, <1>8
  <2>3. QED
    BY <2>1, <2>2
<1>10. QED
  BY <1>3, <1>8, <1>9

(* All of it is so in every state.                                         *)
LEMMA PuddlesTiled == ASSUME MemIInv PROVE PuddlesAreTiled
<1>1. CASE HasPool
  <2>1. Tiled(pool.head, Sizes(heap))
    BY <1>1 DEF MemIInv, PoolIs, Ready, Growing, Fixed
  <2>2. ASSUME NEW r \in DOMAIN pool.head
        PROVE  /\ IsSound(pool.head[r])
               /\ FreeBytes(pool.head[r]) =
                    (pool.head[r].mem..(pool.head[r].end - 1)) \ UNION {Bytes(p) : p \in DOMAIN heap}
    <3>1. IsSound(pool.head[r])
      BY <2>1, SoundIs DEF Tiled, Heads
    <3>2. QED
      BY <2>1, <3>1, TiledIs
  <2>3. ASSUME NEW p \in DOMAIN heap, NEW q \in DOMAIN heap, p # q PROVE Bytes(p) \cap Bytes(q) = {}
    <3>1. PICK bl : bl = Sizes(heap)
      OBVIOUS
    <3>2. Heads(pool.head) /\ Blocks(pool.head, bl)
      BY <2>1, <3>1 DEF Tiled
    <3>3. /\ p \in DOMAIN bl /\ q \in DOMAIN bl
          /\ bl[p] = RoundUp(Len(heap[p])) /\ bl[q] = RoundUp(Len(heap[q]))
      BY <3>1 DEF Sizes
    <3>4. p \in Int /\ bl[p] \in Int /\ q \in Int /\ bl[q] \in Int
      BY <3>2, <3>3, BlockIs
    <3>5. p + bl[p] <= q \/ q + bl[q] <= p
      BY <2>3, <3>2, <3>3 DEF Blocks, AreApart
    <3>6. Bytes(p) = p..(p + bl[p] - 1) /\ Bytes(q) = q..(q + bl[q] - 1)
      BY <3>3 DEF Bytes
    <3>7. QED
      BY <3>4, <3>5, <3>6
  <2>4. QED
    BY <1>1, <2>2, <2>3 DEF PuddlesAreTiled, Puddles
<1>2. CASE ~ HasPool
  <2>1. DOMAIN heap = {}
    BY <1>2, NoBlocks DEF MemIInv
  <2>2. QED
    BY <1>2, <2>1 DEF PuddlesAreTiled, Puddles
<1>3. QED
  BY <1>1, <1>2

(* Every puddle has a block; a large one has no room beside it.            *)
LEMMA UsedIs ==
  ASSUME NEW h, Tiled(h, Sizes(heap)), Used(h, Sizes(heap)), NEW r \in DOMAIN h
  PROVE  /\ \E p \in DOMAIN heap : h[r].mem <= p /\ p < h[r].end
         /\ h[r].large => h[r].free = 0
<1>1. PICK bl : bl = Sizes(heap)
  OBVIOUS
<1>2. /\ Heads(h) /\ Blocks(h, bl) /\ Sound(h[r])
      /\ \A b \in Int : InMemory(h[r], b) =>
           (Covers(h[r].list, b) <=> ~ InBlock(DOMAIN bl, bl, b))
  BY <1>1 DEF Tiled, Heads
<1>3. PICK q \in DOMAIN bl : Uses(h[r], q, bl[q])
  BY <1>1 DEF Used
<1>4. /\ q \in Int /\ bl[q] \in Int /\ bl[q] > 0 /\ h[r].mem \in Int /\ h[r].end \in Int
      /\ h[r].free = Cardinality(FreeSet(h[r]))
  BY <1>2, BlockIs, SoundParts
<1>5. /\ h[r].mem <= q /\ q + bl[q] <= h[r].end
      /\ h[r].large => bl[q] = h[r].end - h[r].mem
  BY <1>3 DEF Uses, Inside
<1>6. h[r].mem <= q /\ q < h[r].end
  BY <1>4, <1>5
<1>7. q \in DOMAIN heap
  BY <1>1 DEF Sizes
<1>8. ASSUME h[r].large PROVE h[r].free = 0
  <2>1. PICK F : F = FreeSet(h[r])
    OBVIOUS
  <2>2. ASSUME NEW b \in F PROVE FALSE
    <3>1. b \in h[r].mem..(h[r].end - 1) /\ Covers(h[r].list, b)
      BY <2>1 DEF FreeSet
    <3>2. b \in Int /\ h[r].mem <= b /\ b < h[r].end
      BY <1>4, <3>1
    <3>3. Within(b, q, bl[q])
      BY <1>4, <1>5, <1>8, <3>2 DEF Within
    <3>4. InBlock(DOMAIN bl, bl, b)
      BY <3>3 DEF InBlock
    <3>5. QED
      BY <1>2, <3>1, <3>2, <3>4 DEF InMemory
  <2>3. F = {}
    BY <2>2
  <2>4. QED
    BY <1>4, <2>1, <2>3, FS_EmptySet
<1>9. QED
  BY <1>6, <1>7, <1>8

(* Large puddles are at the end of the list.                               *)
LEMMA LargeAreLast == ASSUME MemIInv PROVE LargePuddlesAreLast
<1>1. ASSUME HasPool, ~ IsFixed(pool) PROVE Growing(pool, Sizes(heap))
  BY <1>1 DEF MemIInv, PoolIs, Ready, Fixed, IsFixed
<1>2. ASSUME Growing(pool, Sizes(heap))
      PROVE  /\ Range(pool.list) = DOMAIN pool.head
             /\ \A i \in DOMAIN pool.list :
                  /\ BlocksIn(pool.list[i]) # {}
                  /\ pool.head[pool.list[i]].large =>
                       /\ pool.head[pool.list[i]].free = 0
                       /\ \A j \in i..Len(pool.list) : pool.head[pool.list[j]].large
  <2>1. PICK q, h : q = pool.list /\ h = pool.head
    OBVIOUS
  <2>2. Ordered(q, DOMAIN h, Large(h)) /\ Tiled(h, Sizes(heap)) /\ Used(h, Sizes(heap))
    BY <1>2, <2>1 DEF Growing
  <2>3. Len(q) \in Nat /\ DOMAIN q = 1..Len(q) /\ Range(q) = DOMAIN h
    BY <2>2, OrderedIs
  <2>4. ASSUME NEW i \in 1..Len(q)
        PROVE  /\ BlocksIn(q[i]) # {}
               /\ h[q[i]].large => h[q[i]].free = 0 /\ \A j \in i..Len(q) : h[q[j]].large
    <3>1. q[i] \in DOMAIN h
      BY <2>2 DEF Ordered
    <3>2. PICK r : r = q[i]
      OBVIOUS
    <3>3. /\ \E p \in DOMAIN heap : h[r].mem <= p /\ p < h[r].end
          /\ h[r].large => h[r].free = 0
      BY <2>2, <3>1, <3>2, UsedIs
    <3>4. BlocksIn(r) # {}
      BY <2>1, <3>3 DEF BlocksIn
    <3>5. ASSUME h[r].large, NEW j \in i..Len(q) PROVE h[q[j]].large
      <4>1. j \in 1..Len(q) /\ (i = j \/ i < j)
        BY <2>3
      <4>2. r \in Large(h)
        BY <3>1, <3>2, <3>5 DEF Large
      <4>3. q[j] \in Large(h)
        BY <2>2, <3>2, <4>1, <4>2 DEF Ordered
      <4>4. QED
        BY <4>3 DEF Large
    <3>6. QED
      BY <3>2, <3>3, <3>4, <3>5
  <2>5. QED
    BY <2>1, <2>3, <2>4
<1>3. QED
  BY <1>1, <1>2 DEF LargePuddlesAreLast

(* A pool that is given a puddle serves the block.                         *)
LEMMA NewPuddleServes ==
  ASSUME NEW pl, NEW n, Multiple(n), NEW large \in BOOLEAN, NEW size \in Int, size > 0,
         RoundUp(size) <= n
  PROVE  NewPuddle(pl, Static, n, large, size).at # TNULL
<1>1. PICK p, lf, mh : /\ p = Memory(Static) /\ lf = ("lowfrag" \in pl.flags)
                       /\ mh = InitMemHead(Memory(Static), n, "lowfrag" \in pl.flags, large)
  OBVIOUS
<1>2. Multiple(p) /\ p > 0
  BY <1>1, RoomAssumption, MemoryIs
<1>3. lf \in BOOLEAN
  BY <1>1
<1>4. mh = InitMemHead(p, n, lf, large)
  BY <1>1
<1>5. StaticAlloc(mh, size).at # TNULL
  BY <1>2, <1>3, <1>4, InitAlloc
<1>6. QED
  BY <1>1, <1>5, Names DEF NewPuddle, Result

(* Whichever way AllocPool takes.                                          *)
LEMMA GrowingPoolServes ==
  ASSUME NEW pl, NEW bl, Growing(pl, bl), NEW size \in Int, size > 0
  PROVE  AllocPool(pl, size, Static).at # TNULL
<1>1. PICK q, a : /\ q = IF "auto" \in pl.flags THEN Adapt(pl, size) ELSE pl
                  /\ a = AllocPool(pl, size, Static)
  OBVIOUS
<1>2. Growing(q, bl)
  <2>1. CASE "auto" \in pl.flags
    BY <1>1, <2>1, Adapted
  <2>2. CASE "auto" \notin pl.flags
    BY <1>1, <2>2
  <2>3. QED
    BY <2>1, <2>2
<1>3. /\ q.thressize \in Int /\ q.pudsize \in Int /\ q.thressize <= q.pudsize
      /\ Ordered(q.list, DOMAIN q.head, Large(q.head)) /\ ~ IsFixed(pl)
  BY <1>2 DEF Growing, IsFixed
<1>4. PICK n, m : n = RoundUp(size) /\ m = RoundUp(q.pudsize)
  OBVIOUS
<1>5. Multiple(n) /\ n \in Int /\ n > 0 /\ RoundUp(n) = n /\ n <= n /\ Multiple(m) /\ m \in Int
  BY <1>3, <1>4, Rounded, RoundedMultiple DEF Multiple
<1>6. a = IF size > RoundUp(q.thressize) THEN NewPuddle(q, Static, n, TRUE, n)
          ELSE IF Serving(q, size) # {} THEN AllocFrom(q, q.list[Min(Serving(q, size))], size)
          ELSE NewPuddle(q, Static, m, FALSE, size)
  BY <1>1, <1>3, <1>4 DEF AllocPool
<1>7. CASE size > RoundUp(q.thressize)
  <2>1. NewPuddle(q, Static, n, TRUE, n).at # TNULL
    BY <1>5, NewPuddleServes
  <2>2. QED
    BY <1>1, <1>6, <1>7, <2>1
<1>8. CASE ~ (size > RoundUp(q.thressize)) /\ Serving(q, size) # {}
  <2>1. PICK S, i : S = Serving(q, size) /\ i = Min(S)
    OBVIOUS
  <2>2. S \in SUBSET Nat
    BY <1>3, <2>1, OrderedIs DEF Serving
  <2>3. i \in S
    BY <1>8, <2>1, <2>2, MinIs
  <2>4. StaticAlloc(q.head[q.list[i]], size).at # TNULL
    BY <2>1, <2>3 DEF Serving
  <2>5. a = AllocFrom(q, q.list[i], size)
    BY <1>6, <1>8, <2>1
  <2>6. QED
    BY <1>1, <2>4, <2>5 DEF AllocFrom, Result
<1>9. CASE ~ (size > RoundUp(q.thressize)) /\ Serving(q, size) = {}
  <2>1. n <= m
    <3>1. PICK t : t = RoundUp(q.thressize)
      OBVIOUS
    <3>2. Multiple(t) /\ t \in Int /\ size <= t
      BY <1>3, <1>9, <3>1, Rounded DEF Multiple
    <3>3. n <= t
      BY <1>4, <3>2, Rounded
    <3>4. q.pudsize <= m
      BY <1>3, <1>4, Rounded
    <3>5. q.thressize <= m
      BY <1>3, <1>5, <3>4
    <3>6. t <= m
      BY <1>3, <1>5, <3>1, <3>5, Rounded
    <3>7. QED
      BY <1>5, <3>2, <3>3, <3>6
  <2>2. NewPuddle(q, Static, m, FALSE, size).at # TNULL
    <3>1. PICK large : large = FALSE
      OBVIOUS
    <3>2. NewPuddle(q, Static, m, large, size).at # TNULL
      BY <1>4, <1>5, <2>1, <3>1, NewPuddleServes
    <3>3. QED
      BY <3>1, <3>2
  <2>3. QED
    BY <1>1, <1>6, <1>9, <2>2
<1>10. QED
  BY <1>7, <1>8, <1>9

(* So it is for the pool there is.                                         *)
LEMMA PoolServesIs == ASSUME MemIInv PROVE PoolServes
<1>1. ASSUME HasPool, ~ IsFixed(pool) PROVE Growing(pool, Sizes(heap))
  BY <1>1 DEF MemIInv, PoolIs, Ready, Fixed, IsFixed
<1>2. \A n \in Size : n \in Int /\ n > 0
  BY SizeIs
<1>3. ASSUME Growing(pool, Sizes(heap)), NEW n \in Size PROVE AllocPool(pool, n, Static).at # TNULL
  BY <1>2, <1>3, GrowingPoolServes
<1>4. QED
  BY <1>1, <1>3 DEF PoolServes

(* What memory managers and pools keep, whatever is allocated, resized and *)
(* freed, and whatever fails: the books of the managers add up, every      *)
(* piece of the host's memory has one owner, the puddles of the pool are   *)
(* tiled by its blocks and free nodes, and they are in order in its list.  *)
THEOREM MemoryInvariant == Spec => []MemIInv
<1>1. Init => MemIInv
  BY MemInit
<1>2. MemIInv /\ [Next]_vars => MemIInv'
  <2> SUFFICES ASSUME MemIInv, [Next]_vars PROVE MemIInv'
    OBVIOUS
  <2>1. QED
    BY MemNextStep, MemSameStep
<1>3. QED
  BY <1>1, <1>2, PTL DEF Spec

(* However many pieces of memory there are, and whatever fails: each has   *)
(* one owner, and the host gets back what it has given.                    *)
THEOREM MemoryIsOwned == Spec => []HostMemoryIsOwned
<1>1. MemIInv => HostMemoryIsOwned
  BY HostIsOwned
<1>2. QED
  BY <1>1, MemoryInvariant, PTL

(* For blocks of any size, any alignment and any number of puddles: the    *)
(* nodes and blocks of a pool make up its puddles, no byte is lost or in   *)
(* two of them, free nodes do not touch, and the puddles that              *)
(* exec_AllocPool does not look at have no room.                           *)
THEOREM PoolMemoryIsSound == Spec => []PuddlesAreSound
<1>1. MemIInv => PuddlesAreSound
  BY PuddlesTiled, LargeAreLast DEF PuddlesAreSound
<1>2. QED
  BY <1>1, MemoryInvariant, PTL

(* However a pool has adapted its parameters, a puddle that it gets has    *)
(* room for the block it was asked for.                                    *)
THEOREM PoolAlwaysServes == Spec => []PoolServes
<1>1. MemIInv => PoolServes
  BY PoolServesIs
<1>2. QED
  BY <1>1, MemoryInvariant, PTL

(* Pools implement a heap: blocks do not overlap, and they keep their      *)
(* contents while others are allocated, resized, moved and freed.          *)
THEOREM PoolsAreHeaps == Spec => ImplementsHeap
<1>1. Init => Abstract!Init
  BY DEF Init, Abstract!Init
<1>2. MemIInv /\ [Next]_vars => [Abstract!Next]_heap
  <2> SUFFICES ASSUME MemIInv, [Next]_vars PROVE [Abstract!Next]_heap
    OBVIOUS
  <2>1. QED
    BY MemNextStep, MemSameStep
<1>3. QED
  BY <1>1, <1>2, MemoryInvariant, PTL DEF Spec, ImplementsHeap, Abstract!Spec
=============================================================================
