--------------------------- MODULE RunQueueProofs ---------------------------
(***************************************************************************)
(* The shreduler implements RunQueue: for any shreds, events and delays,   *)
(* each step of ShredVM is a step of the abstract queue or none of it.     *)
(*                                                                         *)
(* ShredVMProofs knows the list by the set of ticks that follow each.      *)
(* Here it is a sequence, which the pointers spell; the invariant is that  *)
(* there is one.                                                           *)
(***************************************************************************)
EXTENDS ShredVMProofs, FiniteSums

-----------------------------------------------------------------------------
(* Lists as sequences.                                                     *)

(* The pointers of r, in both directions, spell s, in order of wake time.  *)
Spells(r, s) ==
  /\ s \in Seq(Shreds)
  /\ r.head = IF s = <<>> THEN Null ELSE s[1]
  /\ Linked(r) = {s[i] : i \in 1 .. Len(s)}
  /\ \A i \in 1 .. Len(s) :
       /\ r.next[s[i]] = IF i = Len(s) THEN Null ELSE s[i + 1]
       /\ r.prev[s[i]] = IF i = 1 THEN Null ELSE s[i - 1]
       /\ \A j \in 1 .. Len(s) : i < j => s[i] # s[j] /\ r.wake[s[i]] <= r.wake[s[j]]

(* A sequence is a function of its places.                                 *)
LEMMA SeqFact ==
  ASSUME NEW S
  PROVE  /\ \A s \in Seq(S) : /\ Len(s) \in Nat /\ DOMAIN s = 1 .. Len(s)
                              /\ s \in [1 .. Len(s) -> S]
                              /\ s = <<>> <=> Len(s) = 0
         /\ \A n \in Nat : \A s \in [1 .. n -> S] :
              s \in Seq(S) /\ Len(s) = n /\ (s = <<>> <=> n = 0)
  OBVIOUS

(* What the pointers spell is what QueueOf follows them to.                *)
LEMMA QueueFact ==
  ASSUME NEW r, NEW s, Spells(r, s)
  PROVE  QueueOf(r) = s /\ Cardinality(Linked(r)) = Len(s)
<1>1. PICK n \in Nat : n = Len(s) /\ s \in [1 .. n -> Shreds] /\ (s = <<>> <=> n = 0)
  BY SeqFact DEF Spells
<1>2. Cardinality(Linked(r)) = n
  <2>1. s \in Bijection(1 .. n, Linked(r))
    BY <1>1 DEF Spells, Bijection, Injection, Surjection, IsInjective
  <2>2. ExistsBijection(1 .. n, Linked(r))
    BY <2>1 DEF ExistsBijection
  <2> QED  BY <2>2, FS_CountingElements
<1> DEFINE t(b) == IF b = <<>> THEN r.head ELSE r.next[b[Len(b)]]
           On(b) == IF t(b) = Null THEN b ELSE Append(b, t(b))
           F(g, i) == IF i = 0 THEN <<>> ELSE On(g[i - 1])
           Good(g) == g = [i \in 0 .. n |-> F(g, i)]
           h == [i \in 0 .. n |-> [j \in 1 .. i |-> s[j]]]
<1>3. QueueOf(r) = (CHOOSE g : Good(g))[n]
  BY <1>2 DEF QueueOf
<1>4. ASSUME NEW i \in 1 .. n PROVE On(h[i - 1]) = h[i]
  <2>1. PICK b : b = [j \in 1 .. i - 1 |-> s[j]]
    OBVIOUS
  <2>2. h[i - 1] = b /\ h[i] = [j \in 1 .. i |-> s[j]] /\ i - 1 \in Nat
    BY <1>1, <2>1
  <2>3. \A j \in 1 .. i - 1 : s[j] \in Shreds
    BY <1>1
  <2>4. b \in [1 .. i - 1 -> Shreds]
    BY <2>1, <2>3
  <2>5. b \in Seq(Shreds) /\ Len(b) = i - 1 /\ (b = <<>> <=> i - 1 = 0)
    BY <2>2, <2>4, SeqFact
  <2>6. t(b) = s[i]
    <3>1. CASE i = 1
      <4>1. s # <<>>
        BY <1>1
      <4>2. r.head = s[1]
        BY <4>1 DEF Spells
      <4> QED  BY <2>5, <3>1, <4>2
    <3>2. CASE i # 1
      <4>1. b[Len(b)] = s[i - 1] /\ i - 1 \in 1 .. n /\ i - 1 # n /\ (i - 1) + 1 = i
        BY <1>1, <2>1, <2>5, <3>2
      <4>2. r.next[s[i - 1]] = s[(i - 1) + 1]
        BY <1>1, <4>1 DEF Spells
      <4> QED  BY <2>5, <3>2, <4>1, <4>2
    <3> QED  BY <3>1, <3>2
  <2>7. s[i] \in Shreds /\ s[i] # Null
    BY <1>1, PointerAssumption
  <2>8. On(b) = Append(b, s[i])
    <3> HIDE DEF t
    <3> QED  BY <2>6, <2>7
  <2>9. Append(b, s[i]) = [j \in 1 .. i |-> s[j]]
    BY <2>1, <2>5, <2>7
  <2> HIDE DEF On, h
  <2> QED  BY <2>2, <2>8, <2>9
<1>5. Good(h)
  <2>1. h[0] = <<>>
    <3>1. [j \in 1 .. 0 |-> s[j]] \in [1 .. 0 -> Shreds]
      OBVIOUS
    <3>2. [j \in 1 .. 0 |-> s[j]] = <<>>
      BY <3>1, SeqFact
    <3> QED  BY <1>1, <3>2
  <2>2. \A i \in 0 .. n : h[i] = F(h, i)
    <3> HIDE DEF On, h
    <3> QED  BY <1>1, <1>4, <2>1
  <2>3. h = [i \in 0 .. n |-> h[i]]
    OBVIOUS
  <2> HIDE DEF F, h
  <2> QED  BY <2>2, <2>3
<1>6. ASSUME NEW g, Good(g) PROVE g[n] = h[n]
  <2> DEFINE D == {i \in 0 .. n : g[i] # h[i]}
  <2>1. SUFFICES ASSUME D # {} PROVE FALSE
    <3>1. n \in 0 .. n
      BY <1>1
    <3> HIDE DEF h
    <3> QED  BY <3>1
  <2>2. PICK i \in D : \A j \in D : i <= j
    <3>1. D \in SUBSET Nat
      OBVIOUS
    <3> HIDE DEF D
    <3> QED  BY <2>1, <3>1, LeastNumber
  <2>3. g[i] = F(g, i) /\ h[i] = F(h, i)
    <3> HIDE DEF F, h
    <3> QED  BY <1>5, <1>6
  <2>4. CASE i = 0
    BY <2>2, <2>3, <2>4
  <2>5. CASE i # 0
    <3>1. i - 1 \in 0 .. n /\ i - 1 \notin D
      BY <2>2, <2>5
    <3>2. g[i - 1] = h[i - 1]
      BY <3>1
    <3> HIDE DEF On, h
    <3> QED  BY <2>2, <2>3, <2>5, <3>2
  <2> QED  BY <2>4, <2>5
<1>7. h[n] = s
  <2>1. h[n] = [j \in 1 .. n |-> s[j]]
    BY <1>1
  <2> QED  BY <1>1, <2>1
<1>8. Good(CHOOSE g : Good(g))
  <2> HIDE DEF Good, h
  <2> QED  BY <1>5
<1>9. (CHOOSE g : Good(g))[n] = h[n]
  <2> HIDE DEF Good, h
  <2> QED  BY <1>6, <1>8
<1> QED  BY <1>1, <1>2, <1>3, <1>7, <1>9

(* s without its k-th element, and s with t as its k-th.                   *)
Less(s, k) == [i \in 1 .. Len(s) - 1 |-> IF i < k THEN s[i] ELSE s[i + 1]]
More(s, k, t) ==
  [i \in 1 .. Len(s) + 1 |-> IF i < k THEN s[i] ELSE IF i = k THEN t ELSE s[i - 1]]

(* Two sequences in a row, by places. *)
LEMMA ConcatFact ==
  ASSUME NEW S, NEW a \in Seq(S), NEW b \in Seq(S), NEW m \in Nat, m = Len(a)
  PROVE  /\ a \o b \in Seq(S) /\ Len(a \o b) = m + Len(b)
         /\ \A i \in 1 .. m + Len(b) : (a \o b)[i] = IF i <= m THEN a[i] ELSE b[i - m]
         /\ a \o b = [i \in 1 .. m + Len(b) |-> IF i <= m THEN a[i] ELSE b[i - m]]
<1>1. /\ a \o b \in Seq(S) /\ Len(a \o b) = m + Len(b) /\ Len(b) \in Nat
      /\ \A i \in 1 .. m : (a \o b)[i] = a[i]
      /\ \A i \in 1 .. Len(b) : (a \o b)[m + i] = b[i]
  OBVIOUS
<1>2. ASSUME NEW i \in 1 .. m + Len(b)
      PROVE  (a \o b)[i] = IF i <= m THEN a[i] ELSE b[i - m]
  <2>1. CASE i <= m
    BY <1>1, <2>1
  <2>2. CASE ~(i <= m)
    <3>1. i - m \in 1 .. Len(b) /\ i = m + (i - m)
      BY <1>1, <2>2
    <3> QED  BY <1>1, <2>2, <3>1
  <2> QED  BY <2>1, <2>2
<1>3. a \o b = [i \in 1 .. m + Len(b) |-> (a \o b)[i]]
  BY <1>1, SeqFact
<1> QED  BY <1>1, <1>2, <1>3

(* A part of a sequence. *)
LEMMA PartFact ==
  ASSUME NEW S, NEW s \in Seq(S), NEW j \in 1 .. Len(s) + 1, NEW k \in 0 .. Len(s), j <= k + 1
  PROVE  /\ SubSeq(s, j, k) \in Seq(S) /\ Len(SubSeq(s, j, k)) = k - j + 1
         /\ \A i \in 1 .. k - j + 1 : SubSeq(s, j, k)[i] = s[i + j - 1]
  OBVIOUS

(* Less is RemoveAt. *)
LEMMA LessFact ==
  ASSUME NEW S, NEW s \in Seq(S), NEW k \in 1 .. Len(s)
  PROVE  /\ Less(s, k) \in Seq(S) /\ Len(Less(s, k)) = Len(s) - 1 /\ Len(s) \in Nat
         /\ Less(s, k) = <<>> <=> Len(s) = 1
         /\ \A i \in 1 .. Len(s) - 1 : Less(s, k)[i] = IF i < k THEN s[i] ELSE s[i + 1]
         /\ SubSeq(s, 1, k - 1) \o SubSeq(s, k + 1, Len(s)) = Less(s, k)
<1>1. PICK n \in Nat : n = Len(s) /\ s \in [1 .. n -> S] /\ n - 1 \in Nat
  BY SeqFact
<1>2. Less(s, k) \in [1 .. n - 1 -> S]
  BY <1>1 DEF Less
<1>3. Less(s, k) \in Seq(S) /\ Len(Less(s, k)) = n - 1 /\ (Less(s, k) = <<>> <=> n - 1 = 0)
  BY <1>1, <1>2, SeqFact
<1>4. \A i \in 1 .. n - 1 : Less(s, k)[i] = IF i < k THEN s[i] ELSE s[i + 1]
  BY <1>1 DEF Less
<1>5. SubSeq(s, 1, k - 1) \o SubSeq(s, k + 1, n) = Less(s, k)
  <2>1. PICK a : a = SubSeq(s, 1, k - 1)
    OBVIOUS
  <2>2. PICK b : b = SubSeq(s, k + 1, n)
    OBVIOUS
  <2>3. k \in 1 .. n /\ k - 1 \in Nat /\ n - k \in Nat
    BY <1>1
  <2>4. a \in Seq(S) /\ Len(a) = k - 1 /\ \A i \in 1 .. k - 1 : a[i] = s[i]
    BY <1>1, <2>1, <2>3, PartFact
  <2>5. b \in Seq(S) /\ Len(b) = n - k /\ \A i \in 1 .. n - k : b[i] = s[i + k]
    <3>1. n - (k + 1) + 1 = n - k /\ \A i \in 1 .. n - k : i + (k + 1) - 1 = i + k
      BY <2>3
    <3>2. k + 1 \in 1 .. n + 1 /\ n \in 0 .. n /\ k + 1 <= n + 1
      BY <1>1, <2>3
    <3>3. /\ b \in Seq(S) /\ Len(b) = n - (k + 1) + 1
          /\ \A i \in 1 .. n - (k + 1) + 1 : b[i] = s[i + (k + 1) - 1]
      <4>1. PICK l : l = k + 1
        OBVIOUS
      <4>2. l \in 1 .. Len(s) + 1 /\ n \in 0 .. Len(s) /\ l <= n + 1
        BY <1>1, <3>2, <4>1
      <4>3. /\ SubSeq(s, l, n) \in Seq(S) /\ Len(SubSeq(s, l, n)) = n - l + 1
            /\ \A i \in 1 .. n - l + 1 : SubSeq(s, l, n)[i] = s[i + l - 1]
        BY <4>2, PartFact
      <4> QED  BY <2>2, <4>1, <4>3
    <3> QED  BY <3>1, <3>3
  <2>6. a \o b = [i \in 1 .. (k - 1) + (n - k) |-> IF i <= k - 1 THEN a[i] ELSE b[i - (k - 1)]]
    <3>1. PICK m \in Nat : m = k - 1
      BY <2>3
    <3>2. a \o b = [i \in 1 .. m + Len(b) |-> IF i <= m THEN a[i] ELSE b[i - m]]
      <4>1. a \in Seq(S) /\ b \in Seq(S) /\ m \in Nat /\ m = Len(a)
        BY <2>4, <2>5, <3>1
      <4> QED  BY <4>1, ConcatFact
    <3> QED  BY <2>5, <3>1, <3>2
  <2>7. (k - 1) + (n - k) = n - 1
    BY <2>3
  <2>8. \A i \in 1 .. n - 1 : (IF i <= k - 1 THEN a[i] ELSE b[i - (k - 1)])
                              = (IF i < k THEN s[i] ELSE s[i + 1])
    <3>1. ASSUME NEW i \in 1 .. n - 1, i <= k - 1 PROVE i \in 1 .. k - 1 /\ i < k
      BY <2>3, <3>1
    <3>2. ASSUME NEW i \in 1 .. n - 1, ~(i <= k - 1)
          PROVE  i - (k - 1) \in 1 .. n - k /\ (i - (k - 1)) + k = i + 1 /\ ~(i < k)
      BY <2>3, <3>2
    <3> QED  BY <2>4, <2>5, <3>1, <3>2
  <2> QED  BY <1>1, <2>1, <2>2, <2>6, <2>7, <2>8 DEF Less
<1>6. Len(s) = n /\ (n - 1 = 0 <=> n = 1)
  BY <1>1
<1> QED  BY <1>3, <1>4, <1>5, <1>6

(* More is InsertAt. *)
LEMMA MoreFact ==
  ASSUME NEW s \in Seq(Shreds), NEW k \in 1 .. Len(s) + 1, NEW t \in Shreds
  PROVE  /\ More(s, k, t) \in Seq(Shreds) /\ Len(More(s, k, t)) = Len(s) + 1 /\ Len(s) \in Nat
         /\ More(s, k, t) # <<>>
         /\ \A i \in 1 .. Len(s) + 1 :
              More(s, k, t)[i] = IF i < k THEN s[i] ELSE IF i = k THEN t ELSE s[i - 1]
         /\ SubSeq(s, 1, k - 1) \o <<t>> \o SubSeq(s, k, Len(s)) = More(s, k, t)
<1>1. PICK n \in Nat : n = Len(s) /\ s \in [1 .. n -> Shreds] /\ n + 1 \in Nat
  BY SeqFact
<1>2. More(s, k, t) \in [1 .. n + 1 -> Shreds]
  BY <1>1 DEF More
<1>3. /\ More(s, k, t) \in Seq(Shreds) /\ Len(More(s, k, t)) = n + 1
      /\ (More(s, k, t) = <<>> <=> n + 1 = 0)
  BY <1>1, <1>2, SeqFact
<1>4. \A i \in 1 .. n + 1 :
        More(s, k, t)[i] = IF i < k THEN s[i] ELSE IF i = k THEN t ELSE s[i - 1]
  BY <1>1 DEF More
<1>5. SubSeq(s, 1, k - 1) \o <<t>> \o SubSeq(s, k, n) = More(s, k, t)
  <2>1. PICK a : a = SubSeq(s, 1, k - 1)
    OBVIOUS
  <2>2. PICK b : b = SubSeq(s, k, n)
    OBVIOUS
  <2>3. k \in 1 .. n + 1 /\ k \in Nat /\ k - 1 \in Nat /\ n - k + 1 \in Nat
    BY <1>1
  <2>4. a \in Seq(Shreds) /\ Len(a) = k - 1 /\ \A i \in 1 .. k - 1 : a[i] = s[i]
    <3>1. 1 \in 1 .. n + 1 /\ k - 1 \in 0 .. n /\ 1 <= (k - 1) + 1
          /\ (k - 1) - 1 + 1 = k - 1 /\ \A i \in 1 .. k - 1 : i + 1 - 1 = i
      BY <1>1, <2>3
    <3> QED  BY <1>1, <2>1, <3>1, PartFact
  <2>5. b \in Seq(Shreds) /\ Len(b) = n - k + 1 /\ \A i \in 1 .. n - k + 1 : b[i] = s[i + k - 1]
    <3>1. n \in 0 .. n /\ k <= n + 1
      BY <1>1, <2>3
    <3> QED  BY <1>1, <2>2, <2>3, <3>1, PartFact
  <2>6. PICK c : c = a \o <<t>>
    OBVIOUS
  <2>7. /\ c \in Seq(Shreds) /\ Len(c) = k
        /\ \A i \in 1 .. k : c[i] = IF i < k THEN s[i] ELSE t
    BY <2>3, <2>4, <2>6
  <2>8. c \o b = [i \in 1 .. k + (n - k + 1) |-> IF i <= k THEN c[i] ELSE b[i - k]]
    BY <2>3, <2>5, <2>7, ConcatFact
  <2>9. k + (n - k + 1) = n + 1
    BY <2>3
  <2>10. \A i \in 1 .. n + 1 : (IF i <= k THEN c[i] ELSE b[i - k])
                               = (IF i < k THEN s[i] ELSE IF i = k THEN t ELSE s[i - 1])
    <3>1. ASSUME NEW i \in 1 .. n + 1, i <= k PROVE i \in 1 .. k /\ (i < k \/ i = k)
      BY <2>3, <3>1
    <3>2. ASSUME NEW i \in 1 .. n + 1, ~(i <= k)
          PROVE  i - k \in 1 .. n - k + 1 /\ (i - k) + k - 1 = i - 1 /\ ~(i < k) /\ i # k
      BY <2>3, <3>2
    <3>3. \A i \in 1 .. n + 1 : i < k => i <= k
      BY <2>3
    <3> QED  BY <2>5, <2>7, <3>1, <3>2, <3>3
  <2> QED  BY <1>1, <2>1, <2>2, <2>6, <2>8, <2>9, <2>10 DEF More
<1>6. Len(s) = n /\ n + 1 # 0
  BY <1>1
<1> QED  BY <1>3, <1>4, <1>5, <1>6

-----------------------------------------------------------------------------
(* What the operations on lists do to what they spell.                     *)

(* A list with the same ticks, pointers and order. *)
LEMMA SpellsSame ==
  ASSUME NEW p, NEW r, NEW s, Spells(p, s), Linked(r) = Linked(p), r.head = p.head,
         \A x \in Linked(p) : r.next[x] = p.next[x] /\ r.prev[x] = p.prev[x],
         \A x, y \in Linked(p) : p.wake[x] <= p.wake[y] => r.wake[x] <= r.wake[y]
  PROVE  Spells(r, s)
<1>1. \A i \in 1 .. Len(s) : s[i] \in Linked(p)
  BY DEF Spells
<1> QED  BY <1>1 DEF Spells

(* A tick leaves, and its neighbours are joined.                           *)
Leaves(p, r, t) ==
  /\ Linked(r) = Linked(p) \ {t}
  /\ r.head = IF p.head = t THEN p.next[t] ELSE p.head
  /\ \A x \in Linked(r) :
       /\ r.next[x] = IF p.next[x] = t THEN p.next[t] ELSE p.next[x]
       /\ r.prev[x] = IF p.prev[x] = t THEN p.prev[t] ELSE p.prev[x]
       /\ r.wake[x] = p.wake[x]

(* When the k-th of n places goes, the i-th of those left was the j-th.     *)
Placed(n, k, i, j) ==
  /\ j \in 1 .. n /\ j # k
  /\ i # n - 1 => /\ i + 1 \in 1 .. n - 1 /\ (i + 1) + 1 = i + 2
                  /\ i + 2 \in 1 .. n
  /\ i # 1 => i - 1 \in 1 .. n - 1 /\ (i - 1) + 1 = i
  /\ j # n => j + 1 \in 1 .. n
  /\ j # 1 => j - 1 \in 1 .. n
  /\ i < k - 1 => j = i /\ j + 1 # k /\ j # n /\ i # n - 1 /\ i + 1 < k
  /\ i = k - 1 => /\ j = i /\ j + 1 = k /\ j # n /\ (k = n <=> i = n - 1)
                  /\ k + 1 = i + 2 /\ ~(i + 1 < k)
  /\ i >= k => /\ j = i + 1 /\ j + 1 # k /\ j + 1 = i + 2
               /\ (j = n <=> i = n - 1) /\ ~(i + 1 < k)
  /\ i < k => j = i /\ j - 1 # k /\ i - 1 < k
  /\ i = k => j = i + 1 /\ j - 1 = k /\ j # 1 /\ i - 1 < k
  /\ i > k => /\ j = i + 1 /\ j - 1 = i /\ j - 1 # k /\ j # 1
              /\ i # 1 /\ ~(i - 1 < k)
  /\ i < k - 1 \/ i = k - 1 \/ i >= k
  /\ i < k \/ i = k \/ i > k

(* Placed, place by place. *)
LEMMA PlaceFact ==
  ASSUME NEW n \in Nat, NEW k \in 1 .. n, NEW i \in 1 .. n - 1
  PROVE  Placed(n, k, i, IF i < k THEN i ELSE i + 1)
  BY DEF Placed

(* When a tick leaves, its sequence is spelt without it. *)
LEMMA SpellsLess ==
  ASSUME NEW p, NEW r, NEW s, Spells(p, s), NEW k \in 1 .. Len(s), Leaves(p, r, s[k])
  PROVE  Spells(r, Less(s, k))
<1>1. PICK n \in Nat : /\ n = Len(s) /\ s \in [1 .. n -> Shreds] /\ s \in Seq(Shreds)
                        /\ k \in 1 .. n /\ k \in Nat /\ n >= 1
  BY SeqFact DEF Spells
<1>2. PICK u : u = Less(s, k)
  OBVIOUS
<1>3. /\ u \in Seq(Shreds) /\ Len(u) = n - 1 /\ (u = <<>> <=> n = 1)
      /\ \A i \in 1 .. n - 1 : u[i] = IF i < k THEN s[i] ELSE s[i + 1]
  BY <1>1, <1>2, LessFact
<1>4. \A i, j \in 1 .. n : i < j => s[i] # s[j] /\ p.wake[s[i]] <= p.wake[s[j]]
  BY <1>1 DEF Spells
<1>5. \A i, j \in 1 .. n : s[i] = s[j] => i = j
  BY <1>4
<1>6. \A i \in 1 .. n : /\ s[i] \in Linked(p) /\ s[i] \in Shreds
                        /\ p.next[s[i]] = IF i = n THEN Null ELSE s[i + 1]
                        /\ p.prev[s[i]] = IF i = 1 THEN Null ELSE s[i - 1]
  BY <1>1 DEF Spells
<1>7. Linked(r) = {u[i] : i \in 1 .. n - 1}
  <2>1. Linked(p) = {s[i] : i \in 1 .. n} /\ Linked(r) = Linked(p) \ {s[k]}
    BY <1>1 DEF Spells, Leaves
  <2>2. ASSUME NEW x \in Linked(r) PROVE x \in {u[i] : i \in 1 .. n - 1}
    <3>1. PICK i \in 1 .. n : x = s[i] /\ i # k
      BY <2>1
    <3>2. CASE i < k
      BY <3>1, <3>2, <1>1, <1>3
    <3>3. CASE i > k
      <4>1. i - 1 \in 1 .. n - 1 /\ u[i - 1] = s[(i - 1) + 1] /\ (i - 1) + 1 = i
        BY <3>1, <3>3, <1>1, <1>3
      <4> QED  BY <3>1, <4>1
    <3> QED  BY <3>1, <3>2, <3>3
  <2>3. ASSUME NEW i \in 1 .. n - 1 PROVE u[i] \in Linked(r)
    BY <2>1, <1>1, <1>3, <1>5
  <2> QED  BY <2>2, <2>3
<1>8. r.head = IF u = <<>> THEN Null ELSE u[1]
  <2>1. p.head = s[1]
    <3>1. s # <<>>
      BY <1>1
    <3> QED  BY <3>1 DEF Spells
  <2>2. s[1] = s[k] <=> k = 1
    BY <1>1, <1>5
  <2>3. r.head = IF k = 1 THEN p.next[s[k]] ELSE s[1]
    BY <2>1, <2>2 DEF Leaves
  <2>4. CASE n = 1
    BY <2>3, <2>4, <1>1, <1>3, <1>6
  <2>5. CASE n # 1
    <3>1. 1 \in 1 .. n - 1
      BY <1>1, <2>5
    <3>2. u # <<>> /\ u[1] = IF 1 < k THEN s[1] ELSE s[1 + 1]
      BY <2>5, <3>1, <1>3
    <3>3. k = 1 => p.next[s[k]] = s[1 + 1]
      BY <2>5, <1>1, <1>6
    <3>4. k # 1 => 1 < k
      BY <1>1
    <3> QED  BY <2>3, <3>2, <3>3, <3>4
  <2> QED  BY <2>4, <2>5
<1>9. ASSUME NEW i \in 1 .. n - 1
      PROVE  /\ r.next[u[i]] = IF i = n - 1 THEN Null ELSE u[i + 1]
             /\ r.prev[u[i]] = IF i = 1 THEN Null ELSE u[i - 1]
  <2>1. u[i] \in Linked(r)
    BY <1>7
  <2>2. /\ r.next[u[i]] = IF p.next[u[i]] = s[k] THEN p.next[s[k]] ELSE p.next[u[i]]
        /\ r.prev[u[i]] = IF p.prev[u[i]] = s[k] THEN p.prev[s[k]] ELSE p.prev[u[i]]
    BY <2>1 DEF Leaves
  <2>3. PICK j : j = IF i < k THEN i ELSE i + 1
    OBVIOUS
  <2>4. Placed(n, k, i, j)
    BY <1>1, <2>3, PlaceFact
  <2>5. u[i] = s[j]
    BY <1>3, <2>3
  <2>6. /\ j # n => (s[j + 1] = s[k] <=> j + 1 = k)
        /\ j # 1 => (s[j - 1] = s[k] <=> j - 1 = k)
        /\ Null # s[k]
    <3>1. k \in 1 .. n
      BY <1>1
    <3>2. j # n => (s[j + 1] = s[k] <=> j + 1 = k)
      BY <3>1, <1>5, <2>4 DEF Placed
    <3>3. j # 1 => (s[j - 1] = s[k] <=> j - 1 = k)
      BY <3>1, <1>5, <2>4 DEF Placed
    <3>4. Null # s[k]
      BY <3>1, <1>6, PointerAssumption
    <3> QED  BY <3>2, <3>3, <3>4
  <2>7. /\ i # n - 1 => u[i + 1] = IF i + 1 < k THEN s[i + 1] ELSE s[i + 2]
        /\ i # 1 => u[i - 1] = IF i - 1 < k THEN s[i - 1] ELSE s[i]
    <3>1. i # n - 1 => u[i + 1] = IF i + 1 < k THEN s[i + 1] ELSE s[(i + 1) + 1]
      BY <1>3, <2>4 DEF Placed
    <3>2. i # 1 => u[i - 1] = IF i - 1 < k THEN s[i - 1] ELSE s[(i - 1) + 1]
      BY <1>3, <2>4 DEF Placed
    <3> QED  BY <2>4, <3>1, <3>2 DEF Placed
  <2>8. /\ p.next[s[j]] = IF j = n THEN Null ELSE s[j + 1]
        /\ p.prev[s[j]] = IF j = 1 THEN Null ELSE s[j - 1]
        /\ p.next[s[k]] = IF k = n THEN Null ELSE s[k + 1]
        /\ p.prev[s[k]] = IF k = 1 THEN Null ELSE s[k - 1]
    BY <1>1, <1>6, <2>4 DEF Placed
  <2>9. r.next[u[i]] = IF i = n - 1 THEN Null ELSE u[i + 1]
    <3>1. CASE i < k - 1
      BY <3>1, <2>2, <2>4, <2>5, <2>6, <2>7, <2>8 DEF Placed
    <3>2. CASE i = k - 1
      <4>1. r.next[u[i]] = p.next[s[k]]
        BY <3>2, <2>2, <2>4, <2>5, <2>8 DEF Placed
      <4> QED  BY <3>2, <4>1, <2>4, <2>7, <2>8 DEF Placed
    <3>3. CASE i >= k
      <4>1. r.next[u[i]] = IF j = n THEN Null ELSE s[j + 1]
        BY <3>3, <2>2, <2>4, <2>5, <2>6, <2>8 DEF Placed
      <4> QED  BY <3>3, <4>1, <2>4, <2>7 DEF Placed
    <3> QED  BY <3>1, <3>2, <3>3, <2>4 DEF Placed
  <2>10. r.prev[u[i]] = IF i = 1 THEN Null ELSE u[i - 1]
    <3>1. CASE i < k
      <4>1. r.prev[u[i]] = IF j = 1 THEN Null ELSE s[j - 1]
        BY <3>1, <2>2, <2>4, <2>5, <2>6, <2>8 DEF Placed
      <4> QED  BY <3>1, <4>1, <2>4, <2>7 DEF Placed
    <3>2. CASE i = k
      <4>1. r.prev[u[i]] = p.prev[s[k]]
        BY <3>2, <2>2, <2>4, <2>5, <2>8 DEF Placed
      <4> QED  BY <3>2, <4>1, <2>4, <2>7, <2>8 DEF Placed
    <3>3. CASE i > k
      <4>1. r.prev[u[i]] = s[j - 1]
        BY <3>3, <2>2, <2>4, <2>5, <2>6, <2>8 DEF Placed
      <4> QED  BY <3>3, <4>1, <2>4, <2>7 DEF Placed
    <3> QED  BY <3>1, <3>2, <3>3, <2>4 DEF Placed
  <2> QED  BY <2>9, <2>10
<1>10. ASSUME NEW i \in 1 .. n - 1, NEW j \in 1 .. n - 1, i < j
       PROVE  u[i] # u[j] /\ r.wake[u[i]] <= r.wake[u[j]]
  <2>1. PICK a \in 1 .. n, b \in 1 .. n : a < b /\ u[i] = s[a] /\ u[j] = s[b]
    BY <1>10, <1>1, <1>3
  <2>2. u[i] # u[j] /\ p.wake[u[i]] <= p.wake[u[j]]
    BY <2>1, <1>4
  <2>3. u[i] \in Linked(r) /\ u[j] \in Linked(r)
    BY <1>7
  <2> QED  BY <2>2, <2>3 DEF Leaves
<1>11. Spells(r, u)
  BY <1>3, <1>7, <1>8, <1>9, <1>10 DEF Spells
<1> QED  BY <1>2, <1>11

(* A tick's neighbours know it, and only they. *)
LEMMA NeighboursFact ==
  ASSUME NEW p \in Lists, WellFormed(p), NEW t \in Shreds, t \in Linked(p) \/ Loose(p, t)
  PROVE  /\ \A x \in Linked(p) : /\ x = p.prev[t] <=> p.next[x] = t
                                 /\ x = p.next[t] <=> p.prev[x] = t
         /\ p.head = t => t \in Linked(p) /\ t # p.curr
<1>1. PICK after \in [Linked(p) -> SUBSET Linked(p)] : Threads(p, after)
  BY DEF WellFormed
<1>2. p.curr \notin Linked(p) /\ Null \notin Linked(p)
  BY PointerAssumption, LinkedFact DEF WellFormed
<1>3. ASSUME NEW x \in Linked(p)
      PROVE  (x = p.prev[t] <=> p.next[x] = t) /\ (x = p.next[t] <=> p.prev[x] = t)
  <2>1. CASE t \in Linked(p)
    BY <2>1, <1>1, <1>2, ThreadsFact
  <2>2. CASE t \notin Linked(p)
    <3>1. p.prev[t] = Null /\ p.next[t] = Null
      BY <2>2 DEF Loose
    <3>2. p.next[x] # t /\ p.prev[x] # t
      BY <2>2, <1>1, PointerAssumption, ThreadsFact
    <3> QED  BY <3>1, <3>2, <1>2
  <2> QED  BY <2>1, <2>2
<1>4. p.head = t => t \in Linked(p)
  BY LinkedFact
<1> QED  BY <1>2, <1>3, <1>4

(* What tk_remove, shreduler_remove and shreduler_get do is that a tick    *)
(* leaves.                                                                 *)
LEMMA TkRemoveLeaves ==
  ASSUME NEW p \in Lists, WellFormed(p), NEW t \in Shreds, t \in Linked(p) \/ Loose(p, t)
  PROVE  Leaves(p, TkRemove(p, t), t)
<1>1. PICK r : r = TkRemove(p, t)
  OBVIOUS
<1>2. Linked(r) = Linked(p) \ {t} /\ Linked(p) \subseteq Shreds
  BY <1>1, TkRemoveSound, LinkedFact
<1>3. /\ r.head = IF t # p.curr /\ t = p.head THEN p.next[t] ELSE p.head
      /\ r.next = [s \in Shreds |-> IF s = p.prev[t] THEN p.next[t] ELSE p.next[s]]
      /\ r.prev = [s \in Shreds |-> IF s = p.next[t] THEN p.prev[t] ELSE p.prev[s]]
      /\ r.wake = p.wake
  BY <1>1 DEF TkRemove, Lists
<1>4. r.head = IF p.head = t THEN p.next[t] ELSE p.head
  BY <1>3, NeighboursFact
<1>5. \A x \in Linked(r) :
        /\ r.next[x] = IF p.next[x] = t THEN p.next[t] ELSE p.next[x]
        /\ r.prev[x] = IF p.prev[x] = t THEN p.prev[t] ELSE p.prev[x]
  BY <1>2, <1>3, NeighboursFact
<1>6. Leaves(p, r, t)
  BY <1>2, <1>3, <1>4, <1>5 DEF Leaves
<1> QED  BY <1>1, <1>6

(* shreduler_remove, of a shred that lives on. *)
LEMMA DetachLeaves ==
  ASSUME NEW p \in Lists, WellFormed(p), NEW t \in Shreds, t \in Linked(p) \/ Loose(p, t)
  PROVE  Leaves(p, Detach(p, t), t)
<1>1. PICK r : r = TkRemove(p, t)
  OBVIOUS
<1>2. PICK u : u = Detach(p, t)
  OBVIOUS
<1>3. r \in Lists /\ Linked(r) = Linked(p) \ {t} /\ Linked(u) = Linked(p) \ {t}
  BY <1>1, <1>2, TkRemoveSound, DetachSound
<1>4. /\ u.head = r.head /\ u.wake = r.wake
      /\ \A x \in Shreds \ {t} : u.next[x] = r.next[x] /\ u.prev[x] = r.prev[x]
  BY <1>1, <1>2, <1>3 DEF Detach, Lists
<1>5. Leaves(p, r, t) /\ Linked(p) \subseteq Shreds
  BY <1>1, TkRemoveLeaves, LinkedFact
<1>6. Leaves(p, u, t)
  BY <1>3, <1>4, <1>5 DEF Leaves
<1> QED  BY <1>2, <1>6

(* shreduler_get *)
LEMMA PopLeaves ==
  ASSUME NEW p \in Lists, WellFormed(p), p.head # Null
  PROVE  Leaves(p, Pop(p), p.head)
<1>1. PICK r : r = Pop(p)
  OBVIOUS
<1>2. PICK t \in Shreds : t = p.head /\ t \in Linked(p)
  BY PopSound, LinkedFact, ListFact
<1>3. Linked(r) = Linked(p) \ {t} /\ Linked(p) \subseteq Shreds
  BY <1>1, <1>2, PopSound, LinkedFact
<1>4. /\ r.head = p.next[t] /\ r.wake = p.wake
      /\ r.next = [p.next EXCEPT ![t] = Null]
      /\ r.prev = [s \in Shreds |-> IF s \in {p.next[t], t} THEN Null ELSE p.prev[s]]
  BY <1>1, <1>2 DEF Pop, Lists
<1>5. p.prev[t] = Null /\ Null \notin Linked(p)
  <2>1. PICK after \in [Linked(p) -> SUBSET Linked(p)] : Threads(p, after)
    BY DEF WellFormed
  <2> QED  BY <2>1, <1>2, PointerAssumption, LinkedFact, ThreadsFact
<1>6. \A x \in Linked(r) :
        /\ r.next[x] = IF p.next[x] = t THEN p.next[t] ELSE p.next[x]
        /\ r.prev[x] = IF p.prev[x] = t THEN p.prev[t] ELSE p.prev[x]
  <2>1. \A x \in Linked(p) : p.next[x] # t /\ (x = p.next[t] <=> p.prev[x] = t)
    BY <1>2, <1>5, NeighboursFact
  <2>2. p.next \in [Shreds -> Shreds \cup {Null}]
    BY ListFact
  <2> QED  BY <1>3, <1>4, <1>5, <2>1, <2>2
<1>7. Leaves(p, r, t)
  BY <1>2, <1>3, <1>4, <1>6 DEF Leaves
<1> QED  BY <1>1, <1>2, <1>7

(* Nothing is done to a tick that is not there. *)
LEMMA StayLeaves ==
  ASSUME NEW p \in Lists, WellFormed(p), NEW t \in Shreds, Loose(p, t)
  PROVE  Leaves(p, p, t)
<1>1. t \notin Linked(p) /\ p.prev[t] = Null /\ p.next[t] = Null /\ Null \notin Linked(p)
  BY PointerAssumption, LinkedFact DEF Loose
<1>2. p.head # t /\ \A x \in Linked(p) : p.next[x] # t /\ p.prev[x] # t
  BY <1>1, NeighboursFact
<1> QED  BY <1>1, <1>2 DEF Leaves

(* s without t, if t is in it. *)
Dropped(s, t) ==
  IF t \in {s[i] : i \in DOMAIN s} THEN Less(s, CHOOSE i \in DOMAIN s : s[i] = t) ELSE s

(* When a tick leaves that is not there, nothing is spelt differently. *)
LEMMA SpellsDropped ==
  ASSUME NEW p, NEW r, NEW s, NEW t \in Shreds, Spells(p, s), Leaves(p, r, t)
  PROVE  Spells(r, Dropped(s, t))
<1>1. PICK n \in Nat : n = Len(s) /\ DOMAIN s = 1 .. n /\ s \in Seq(Shreds)
  BY SeqFact DEF Spells
<1>2. CASE t \in {s[i] : i \in DOMAIN s}
  <2>1. PICK k : k = CHOOSE i \in DOMAIN s : s[i] = t
    OBVIOUS
  <2>2. k \in 1 .. Len(s) /\ s[k] = t
    BY <1>1, <1>2, <2>1
  <2>3. Spells(r, Less(s, k))
    BY <2>2, SpellsLess
  <2> QED  BY <1>2, <2>1, <2>3 DEF Dropped
<1>3. CASE t \notin {s[i] : i \in DOMAIN s}
  <2>1. Dropped(s, t) = s
    BY <1>3 DEF Dropped
  <2>2. t \notin Linked(p) /\ t # Null
    BY <1>1, <1>3, PointerAssumption DEF Spells
  <2>3. /\ p.head \in Linked(p) \cup {Null}
        /\ \A x \in Linked(p) : p.next[x] \in Linked(p) \cup {Null}
                                /\ p.prev[x] \in Linked(p) \cup {Null}
    <3>1. p.head \in Linked(p) \cup {Null}
      <4>1. s # <<>> => 1 \in 1 .. Len(s)
        BY <1>1, SeqFact
      <4> QED  BY <4>1 DEF Spells
    <3>2. ASSUME NEW i \in 1 .. n
          PROVE  p.next[s[i]] \in Linked(p) \cup {Null} /\ p.prev[s[i]] \in Linked(p) \cup {Null}
      <4>1. (i # n => i + 1 \in 1 .. n) /\ (i # 1 => i - 1 \in 1 .. n)
        BY <1>1
      <4> QED  BY <4>1, <1>1 DEF Spells
    <3> QED  BY <3>1, <3>2, <1>1 DEF Spells
  <2>4. /\ Linked(r) = Linked(p) /\ r.head = p.head
        /\ \A x \in Linked(p) : /\ r.next[x] = p.next[x] /\ r.prev[x] = p.prev[x]
                                /\ r.wake[x] = p.wake[x]
    BY <2>2, <2>3 DEF Leaves
  <2> QED  BY <2>1, <2>4, SpellsSame
<1> QED  BY <1>2, <1>3

(* A tick of wake time w joins after the m-th.                             *)
Joins(p, r, s, t, w, m) ==
  /\ m \in 0 .. Len(s) /\ t \notin Linked(p)
  /\ Linked(r) = Linked(p) \cup {t}
  /\ r.head = IF m = 0 THEN t ELSE p.head
  /\ r.next[t] = IF m = Len(s) THEN Null ELSE s[m + 1]
  /\ r.prev[t] = IF m = 0 THEN Null ELSE s[m]
  /\ r.wake[t] = w /\ w \in Int
  /\ \A i \in 1 .. Len(s) :
       /\ r.next[s[i]] = IF i = m THEN t ELSE p.next[s[i]]
       /\ r.prev[s[i]] = IF i = m + 1 THEN t ELSE p.prev[s[i]]
       /\ r.wake[s[i]] = p.wake[s[i]]
       /\ p.wake[s[i]] \in Int
       /\ p.wake[s[i]] <= w <=> i <= m

(* The i-th of the places, after one was added after the m-th, was the     *)
(* j-th, unless it is the new one.                                         *)
Pushed(n, m, i, j) ==
  /\ i # m + 1 => j \in 1 .. n
  /\ i < m => j = i /\ j # m /\ j # n /\ i + 1 <= m /\ i # n + 1 /\ i + 1 \in 1 .. n + 1
  /\ i = m => j = i /\ j = m /\ i # n + 1 /\ i + 1 = m + 1 /\ i + 1 \in 1 .. n + 1
  /\ i = m + 1 => /\ i = n + 1 <=> m = n
                  /\ m # n => /\ i + 1 \in 1 .. n + 1 /\ ~(i + 1 <= m) /\ i + 1 # m + 1
                              /\ (i + 1) - 1 = m + 1
                  /\ i = 1 <=> m = 0
                  /\ m # 0 => i - 1 \in 1 .. n + 1 /\ i - 1 = m /\ i - 1 <= m
  /\ i > m + 1 => /\ j = i - 1 /\ j # m /\ (i = n + 1 <=> j = n)
                  /\ i # n + 1 => /\ i + 1 \in 1 .. n + 1 /\ ~(i + 1 <= m) /\ i + 1 # m + 1
                                  /\ (i + 1) - 1 = j + 1
  /\ i <= m => /\ j = i /\ j # m + 1
               /\ i # 1 => i - 1 \in 1 .. n + 1 /\ i - 1 = j - 1 /\ i - 1 <= m
  /\ i = m + 2 => /\ j = m + 1 /\ i # 1 /\ i - 1 \in 1 .. n + 1 /\ i - 1 = m + 1
  /\ i > m + 2 => /\ j = i - 1 /\ j # m + 1 /\ j # 1 /\ i # 1 /\ i - 1 \in 1 .. n + 1
                  /\ ~(i - 1 <= m) /\ i - 1 # m + 1 /\ (i - 1) - 1 = j - 1
  /\ i < m \/ i = m \/ i = m + 1 \/ i > m + 1
  /\ i <= m \/ i = m + 1 \/ i = m + 2 \/ i > m + 2

(* Pushed, place by place. *)
LEMMA PushFact ==
  ASSUME NEW n \in Nat, NEW m \in 0 .. n, NEW i \in 1 .. n + 1
  PROVE  Pushed(n, m, i, IF i <= m THEN i ELSE i - 1)
  BY DEF Pushed

(* When a tick joins, its sequence is spelt with it in its place. *)
LEMMA SpellsMore ==
  ASSUME NEW p, NEW r, NEW s, NEW t \in Shreds, NEW w, NEW m,
         Spells(p, s), Joins(p, r, s, t, w, m)
  PROVE  Spells(r, More(s, m + 1, t))
<1>1. PICK n \in Nat : /\ n = Len(s) /\ s \in Seq(Shreds) /\ (s = <<>> <=> n = 0)
                       /\ m \in 0 .. n
  BY SeqFact DEF Spells, Joins
<1>2. PICK u : u = More(s, m + 1, t)
  OBVIOUS
<1>3. /\ u \in Seq(Shreds) /\ Len(u) = n + 1 /\ u # <<>>
      /\ \A i \in 1 .. n + 1 : u[i] = IF i <= m THEN s[i] ELSE IF i = m + 1 THEN t ELSE s[i - 1]
  <2>1. PICK k : k = m + 1
    OBVIOUS
  <2>2. k \in 1 .. Len(s) + 1 /\ \A i \in 1 .. n + 1 : i < k <=> i <= m
    BY <1>1, <2>1
  <2>3. /\ More(s, k, t) \in Seq(Shreds) /\ Len(More(s, k, t)) = Len(s) + 1
        /\ More(s, k, t) # <<>>
        /\ \A i \in 1 .. Len(s) + 1 :
              More(s, k, t)[i] = IF i < k THEN s[i] ELSE IF i = k THEN t ELSE s[i - 1]
    <3>1. s \in Seq(Shreds) /\ k \in 1 .. Len(s) + 1
      BY <1>1, <2>2
    <3> QED  BY <3>1, MoreFact
  <2> QED  BY <1>1, <1>2, <2>1, <2>2, <2>3
<1>4. \A i, j \in 1 .. n : i < j => s[i] # s[j] /\ p.wake[s[i]] <= p.wake[s[j]]
  BY <1>1 DEF Spells
<1>5. \A i \in 1 .. n : /\ s[i] \in Linked(p)
                        /\ p.next[s[i]] = IF i = n THEN Null ELSE s[i + 1]
                        /\ p.prev[s[i]] = IF i = 1 THEN Null ELSE s[i - 1]
                        /\ r.next[s[i]] = IF i = m THEN t ELSE p.next[s[i]]
                        /\ r.prev[s[i]] = IF i = m + 1 THEN t ELSE p.prev[s[i]]
                        /\ r.wake[s[i]] = p.wake[s[i]]
                        /\ p.wake[s[i]] \in Int
                        /\ p.wake[s[i]] <= w <=> i <= m
  BY <1>1 DEF Spells, Joins
<1>6. /\ r.next[t] = IF m = n THEN Null ELSE s[m + 1]
      /\ r.prev[t] = IF m = 0 THEN Null ELSE s[m]
      /\ r.wake[t] = w /\ w \in Int
      /\ t \notin Linked(p) /\ Linked(r) = Linked(p) \cup {t}
  BY <1>1 DEF Joins
<1>7. \A i \in 1 .. n + 1 : \A j : j = (IF i <= m THEN i ELSE i - 1) =>
        /\ Pushed(n, m, i, j)
        /\ u[i] = IF i = m + 1 THEN t ELSE s[j]
  <2>1. \A i \in 1 .. n + 1 : Pushed(n, m, i, IF i <= m THEN i ELSE i - 1)
    BY <1>1, PushFact
  <2>2. ASSUME NEW i \in 1 .. n + 1
        PROVE  u[i] = IF i = m + 1 THEN t ELSE s[IF i <= m THEN i ELSE i - 1]
    <3>1. i <= m => i # m + 1
      BY <1>1
    <3> QED  BY <3>1, <1>3
  <2> QED  BY <2>1, <2>2
<1>8. Linked(r) = {u[i] : i \in 1 .. n + 1}
  <2>1. Linked(p) = {s[i] : i \in 1 .. n}
    BY <1>1 DEF Spells
  <2>2. ASSUME NEW i \in 1 .. n + 1 PROVE u[i] \in Linked(r)
    <3>1. PICK j : j = IF i <= m THEN i ELSE i - 1
      OBVIOUS
    <3>2. (i # m + 1 => j \in 1 .. n) /\ u[i] = IF i = m + 1 THEN t ELSE s[j]
      BY <3>1, <1>7 DEF Pushed
    <3> QED  BY <2>1, <3>2, <1>6
  <2>3. ASSUME NEW i \in 1 .. n PROVE s[i] \in {u[k] : k \in 1 .. n + 1}
    <3>1. CASE i <= m
      BY <3>1, <1>1, <1>3
    <3>2. CASE ~(i <= m)
      <4>1. i + 1 \in 1 .. n + 1 /\ ~(i + 1 <= m) /\ i + 1 # m + 1 /\ (i + 1) - 1 = i
        BY <3>2, <1>1
      <4>2. u[i + 1] = s[(i + 1) - 1]
        BY <4>1, <1>3
      <4> QED  BY <4>1, <4>2
    <3> QED  BY <3>1, <3>2
  <2>4. t \in {u[k] : k \in 1 .. n + 1}
    <3>1. m + 1 \in 1 .. n + 1 /\ ~(m + 1 <= m)
      BY <1>1
    <3>2. u[m + 1] = t
      BY <3>1, <1>3
    <3> QED  BY <3>1, <3>2
  <2> QED  BY <2>1, <2>2, <2>3, <2>4, <1>6
<1>9. r.head = u[1]
  <2>1. r.head = IF m = 0 THEN t ELSE p.head
    BY DEF Joins
  <2>2. m # 0 => p.head = s[1]
    <3>1. m # 0 => s # <<>>
      BY <1>1
    <3> QED  BY <3>1 DEF Spells
  <2>3. 1 \in 1 .. n + 1 /\ (m = 0 => ~(1 <= m) /\ 1 = m + 1) /\ (m # 0 => 1 <= m)
    BY <1>1
  <2> QED  BY <2>1, <2>2, <2>3, <1>3
<1>10. ASSUME NEW i \in 1 .. n + 1
       PROVE  /\ r.next[u[i]] = IF i = n + 1 THEN Null ELSE u[i + 1]
              /\ r.prev[u[i]] = IF i = 1 THEN Null ELSE u[i - 1]
  <2>1. PICK j : j = IF i <= m THEN i ELSE i - 1
    OBVIOUS
  <2>2. Pushed(n, m, i, j) /\ u[i] = IF i = m + 1 THEN t ELSE s[j]
    BY <2>1, <1>7
  <2>3. \A k \in 1 .. n + 1 : u[k] = IF k <= m THEN s[k] ELSE IF k = m + 1 THEN t ELSE s[k - 1]
    BY <1>3
  <2>4. i # m + 1 =>
          /\ r.next[s[j]] = IF j = m THEN t ELSE IF j = n THEN Null ELSE s[j + 1]
          /\ r.prev[s[j]] = IF j = m + 1 THEN t ELSE IF j = 1 THEN Null ELSE s[j - 1]
    BY <2>2, <1>5 DEF Pushed
  <2>5. r.next[u[i]] = IF i = n + 1 THEN Null ELSE u[i + 1]
    <3>1. CASE i < m
      <4>1. i + 1 \in 1 .. n + 1 /\ i + 1 <= m /\ i # n + 1 /\ j = i /\ j # m /\ j # n /\ i # m + 1
        BY <3>1, <2>2, <1>1 DEF Pushed
      <4>2. u[i + 1] = s[i + 1]
        BY <4>1, <2>3
      <4> QED  BY <4>1, <4>2, <2>2, <2>4
    <3>2. CASE i = m
      <4>1. i # m + 1 /\ j = m /\ i # n + 1 /\ i + 1 = m + 1 /\ i + 1 \in 1 .. n + 1 /\ ~(i + 1 <= m)
        BY <3>2, <2>2, <1>1 DEF Pushed
      <4>2. u[i + 1] = t
        BY <4>1, <2>3
      <4> QED  BY <4>1, <4>2, <2>2, <2>4
    <3>3. CASE i = m + 1
      <4>1. u[i] = t /\ (i = n + 1 <=> m = n)
        BY <3>3, <2>2 DEF Pushed
      <4>2. m # n => u[i + 1] = s[m + 1]
        <5>1. m # n => /\ i + 1 \in 1 .. n + 1 /\ ~(i + 1 <= m) /\ i + 1 # m + 1
                       /\ (i + 1) - 1 = m + 1
          BY <3>3, <2>2 DEF Pushed
        <5>2. m # n => u[i + 1] = s[(i + 1) - 1]
          BY <5>1, <2>3
        <5> QED  BY <5>1, <5>2
      <4> QED  BY <4>1, <4>2, <1>6
    <3>4. CASE i > m + 1
      <4>1. i # m + 1 /\ j # m /\ (i = n + 1 <=> j = n)
        BY <3>4, <2>2, <1>1 DEF Pushed
      <4>2. i # n + 1 => u[i + 1] = s[j + 1]
        <5>1. i # n + 1 => /\ i + 1 \in 1 .. n + 1 /\ ~(i + 1 <= m) /\ i + 1 # m + 1
                           /\ (i + 1) - 1 = j + 1
          BY <3>4, <2>2 DEF Pushed
        <5>2. i # n + 1 => u[i + 1] = s[(i + 1) - 1]
          BY <5>1, <2>3
        <5> QED  BY <5>1, <5>2
      <4> QED  BY <4>1, <4>2, <2>2, <2>4
    <3> QED  BY <3>1, <3>2, <3>3, <3>4, <2>2 DEF Pushed
  <2>6. r.prev[u[i]] = IF i = 1 THEN Null ELSE u[i - 1]
    <3>1. CASE i <= m
      <4>1. i # m + 1 /\ j = i /\ j # m + 1
        BY <3>1, <2>2, <1>1 DEF Pushed
      <4>2. i # 1 => u[i - 1] = s[j - 1]
        <5>1. i # 1 => i - 1 \in 1 .. n + 1 /\ i - 1 = j - 1 /\ i - 1 <= m
          BY <3>1, <2>2 DEF Pushed
        <5>2. i # 1 => u[i - 1] = s[i - 1]
          BY <5>1, <2>3
        <5> QED  BY <5>1, <5>2
      <4> QED  BY <4>1, <4>2, <2>2, <2>4
    <3>2. CASE i = m + 1
      <4>1. u[i] = t /\ (i = 1 <=> m = 0)
        BY <3>2, <2>2 DEF Pushed
      <4>2. m # 0 => u[i - 1] = s[m]
        <5>1. m # 0 => i - 1 \in 1 .. n + 1 /\ i - 1 = m /\ i - 1 <= m
          BY <3>2, <2>2 DEF Pushed
        <5>2. m # 0 => u[i - 1] = s[i - 1]
          BY <5>1, <2>3
        <5> QED  BY <5>1, <5>2
      <4> QED  BY <4>1, <4>2, <1>6
    <3>3. CASE i = m + 2
      <4>1. i # m + 1 /\ j = m + 1 /\ i # 1 /\ i - 1 \in 1 .. n + 1 /\ i - 1 = m + 1 /\ ~(i - 1 <= m)
        BY <3>3, <2>2, <1>1 DEF Pushed
      <4>2. u[i - 1] = t
        BY <4>1, <2>3
      <4> QED  BY <4>1, <4>2, <2>2, <2>4
    <3>4. CASE i > m + 2
      <4>1. /\ i # m + 1 /\ j # m + 1 /\ j # 1 /\ i # 1 /\ i - 1 \in 1 .. n + 1
            /\ ~(i - 1 <= m) /\ i - 1 # m + 1 /\ (i - 1) - 1 = j - 1
        BY <3>4, <2>2, <1>1 DEF Pushed
      <4>2. u[i - 1] = s[(i - 1) - 1]
        BY <4>1, <2>3
      <4> QED  BY <4>1, <4>2, <2>2, <2>4
    <3> QED  BY <3>1, <3>2, <3>3, <3>4, <2>2 DEF Pushed
  <2> QED  BY <2>5, <2>6
<1>11. ASSUME NEW i \in 1 .. n + 1, NEW j \in 1 .. n + 1, i < j
       PROVE  u[i] # u[j] /\ r.wake[u[i]] <= r.wake[u[j]]
  <2>1. CASE i = m + 1
    <3>1. j - 1 \in 1 .. n /\ ~(j - 1 <= m) /\ ~(j <= m) /\ j # m + 1
      BY <2>1, <1>1, <1>11
    <3>2. u[j] = s[j - 1] /\ u[i] = t
      BY <2>1, <3>1, <1>1, <1>3
    <3> QED  BY <3>1, <3>2, <1>5, <1>6
  <2>2. CASE j = m + 1
    <3>1. i \in 1 .. n /\ i <= m /\ ~(j <= m)
      BY <2>2, <1>1, <1>11
    <3>2. u[i] = s[i] /\ u[j] = t
      BY <2>2, <3>1, <1>3
    <3> QED  BY <3>1, <3>2, <1>5, <1>6
  <2>3. CASE i # m + 1 /\ j # m + 1
    <3>1. PICK a, b : /\ a = (IF i <= m THEN i ELSE i - 1)
                      /\ b = (IF j <= m THEN j ELSE j - 1)
      OBVIOUS
    <3>2. a \in 1 .. n /\ b \in 1 .. n /\ a < b
      BY <2>3, <3>1, <1>1, <1>11
    <3>3. u[i] = s[a] /\ u[j] = s[b]
      BY <2>3, <3>1, <1>7
    <3> QED  BY <3>2, <3>3, <1>4, <1>5
  <2> QED  BY <2>1, <2>2, <2>3
<1>12. Spells(r, u)
  BY <1>3, <1>8, <1>9, <1>10, <1>11 DEF Spells
<1> QED  BY <1>2, <1>12

(* _shredule's walk stops where the tick joins. *)
LEMMA InsertJoins ==
  ASSUME NEW p \in Lists, WellFormed(p), NEW s, Spells(p, s), NEW t \in Shreds,
         Loose(p, t), NEW w \in Int, NEW x \in Spots(p, w)
  PROVE  \E m : Joins(p, InsertAfter(p, t, w, x), s, t, w, m)
<1>1. PICK n \in Nat : /\ n = Len(s) /\ s \in [1 .. n -> Shreds] /\ s \in Seq(Shreds)
                       /\ (s = <<>> <=> n = 0)
  BY SeqFact DEF Spells
<1>a. n \in Nat
  BY <1>1
<1>2. PICK r : r = InsertAfter(p, t, w, x)
  OBVIOUS
<1>3. /\ p.head = IF n = 0 THEN Null ELSE s[1]
      /\ Linked(p) = {s[i] : i \in 1 .. n}
      /\ \A i \in 1 .. n : p.next[s[i]] = IF i = n THEN Null ELSE s[i + 1]
      /\ \A i \in 1 .. n : p.prev[s[i]] = IF i = 1 THEN Null ELSE s[i - 1]
      /\ \A i, j \in 1 .. n : i < j => s[i] # s[j] /\ p.wake[s[i]] <= p.wake[s[j]]
  BY <1>1 DEF Spells
<1>4. /\ Null \notin Shreds /\ t \notin Linked(p) /\ p.next[t] = Null /\ p.prev[t] = Null
      /\ \A i \in 1 .. n : s[i] \in Shreds /\ s[i] # t /\ p.wake[s[i]] \in Int
      /\ p.next \in [Shreds -> Shreds \cup {Null}]
      /\ p.wake \in [Shreds -> Int]
  BY <1>1, <1>3, PointerAssumption, ListFact DEF Loose
<1>5. PICK m \in 0 .. n : /\ x = IF m = 0 THEN Null ELSE s[m]
                          /\ \A i \in 1 .. n : p.wake[s[i]] <= w <=> i <= m
  <2>1. CASE p.head = Null \/ p.wake[p.head] > w
    <3>1. x = Null
      BY <2>1 DEF Spots
    <3>2. ASSUME NEW i \in 1 .. n PROVE ~(p.wake[s[i]] <= w) /\ ~(i <= 0)
      <4>a. n # 0 /\ 1 \in 1 .. n /\ (i = 1 \/ 1 < i) /\ ~(i <= 0)
        BY <1>a
      <4>1. 1 \in 1 .. n /\ p.head = s[1] /\ (i = 1 \/ 1 < i) /\ ~(i <= 0)
        BY <4>a, <1>3
      <4>2. p.wake[s[1]] > w /\ p.wake[s[1]] \in Int /\ p.wake[s[i]] \in Int
        BY <4>1, <2>1, <1>4
      <4>3. i = 1 \/ p.wake[s[1]] <= p.wake[s[i]]
        BY <4>1, <1>3
      <4> QED  BY <4>1, <4>2, <4>3
    <3>3. 0 \in 0 .. n
      BY <1>1
    <3> QED  BY <3>1, <3>2, <3>3
  <2>2. CASE ~(p.head = Null \/ p.wake[p.head] > w)
    <3>1. /\ x \in Linked(p) /\ p.wake[x] <= w
          /\ p.next[x] = Null \/ p.wake[p.next[x]] > w
      BY <2>2 DEF Spots
    <3>2. PICK m \in 1 .. n : x = s[m]
      BY <3>1, <1>3
    <3>3. ASSUME NEW i \in 1 .. n, i <= m PROVE p.wake[s[i]] <= w
      <4>1. i = m \/ i < m
        BY <3>3
      <4>2. i = m \/ p.wake[s[i]] <= p.wake[s[m]]
        BY <4>1, <1>3
      <4> QED  BY <4>2, <3>1, <3>2, <1>4
    <3>4. ASSUME NEW i \in 1 .. n, ~(i <= m) PROVE ~(p.wake[s[i]] <= w)
      <4>1. m # n /\ m + 1 \in 1 .. n /\ (i = m + 1 \/ m + 1 < i)
        BY <3>4, <1>a
      <4>2. p.next[x] = s[m + 1] /\ p.wake[s[m + 1]] > w
        BY <4>1, <3>1, <3>2, <1>3, <1>4
      <4>3. i = m + 1 \/ p.wake[s[m + 1]] <= p.wake[s[i]]
        BY <4>1, <1>3
      <4> QED  BY <4>1, <4>2, <4>3, <1>4
    <3>5. m \in 0 .. n /\ m # 0
      BY <1>1
    <3> QED  BY <3>2, <3>3, <3>4, <3>5
  <2> QED  BY <2>1, <2>2
<1>6. PICK y : y = IF x = Null THEN p.head ELSE p.next[x]
  OBVIOUS
<1>7. /\ y = IF m = n THEN Null ELSE s[m + 1]
      /\ y # t
  <2>1. CASE m = 0
    <3>1. m + 1 = 1 /\ (m # n => 1 \in 1 .. n)
      BY <2>1, <1>1
    <3> QED  BY <2>1, <3>1, <1>3, <1>4, <1>5, <1>6
  <2>2. CASE m # 0
    <3>1. m \in 1 .. n /\ (m # n => m + 1 \in 1 .. n)
      BY <2>2, <1>a
    <3> QED  BY <2>2, <3>1, <1>3, <1>4, <1>5, <1>6
  <2> QED  BY <2>1, <2>2
<1>8. /\ r.head = IF x = Null THEN t ELSE p.head
      /\ r.next = [z \in Shreds |-> IF z = x THEN t
                                    ELSE IF z = t /\ ~(x = Null /\ y = Null) THEN y
                                    ELSE p.next[z]]
      /\ r.prev = [z \in Shreds |-> IF z = t /\ x # Null THEN x
                                    ELSE IF z = y THEN t ELSE p.prev[z]]
      /\ r.wake = [p.wake EXCEPT ![t] = w]
  BY <1>2, <1>6 DEF InsertAfter
<1>9. m # 0 => m \in 1 .. n
  BY <1>1
<1>10. x # t /\ (m = 0 <=> x = Null)
  BY <1>4, <1>5, <1>9, PointerAssumption
<1>11. Linked(r) = Linked(p) \cup {t}
  BY <1>2, InsertSound
<1>12. r.head = IF m = 0 THEN t ELSE p.head
  BY <1>8, <1>10
<1>13. r.next[t] = y /\ r.prev[t] = x /\ r.wake[t] = w
  BY <1>4, <1>7, <1>8, <1>10
<1>14. ASSUME NEW i \in 1 .. n
       PROVE  /\ r.next[s[i]] = IF i = m THEN t ELSE p.next[s[i]]
              /\ r.prev[s[i]] = IF i = m + 1 THEN t ELSE p.prev[s[i]]
              /\ r.wake[s[i]] = p.wake[s[i]]
  <2>1. s[i] \in Shreds /\ s[i] # t /\ s[i] # Null
    BY <1>4
  <2>2. s[i] = x <=> i = m
    <3>1. m \in 1 .. n => (s[i] = s[m] <=> i = m)
      BY <1>3
    <3> QED  BY <3>1, <2>1, <1>5, <1>9
  <2>3. s[i] = y <=> i = m + 1
    <3>1. m # n => m + 1 \in 1 .. n
      BY <1>a
    <3>2. m + 1 \in 1 .. n => (s[i] = s[m + 1] <=> i = m + 1)
      BY <1>3
    <3>3. m = n => i # m + 1
      BY <1>1
    <3> QED  BY <3>1, <3>2, <3>3, <2>1, <1>7
  <2> QED  BY <2>1, <2>2, <2>3, <1>4, <1>8
<1>15. Joins(p, r, s, t, w, m)
  BY <1>1, <1>4, <1>5, <1>7, <1>11, <1>12, <1>13, <1>14 DEF Joins
<1> QED  BY <1>2, <1>15

-----------------------------------------------------------------------------
(* The promise, step by step.                                              *)

(* The delays of the promise. *)
DelayOf == [s \in Shreds |-> IF s \in Linked(q) THEN q.wake[s] - Now ELSE 0]

(* Without and Inserted of the promise, on the sequence that is spelt. *)
LEMMA WithoutFact ==
  ASSUME NEW s, Spells(q, s), NEW t
  PROVE  Promise!Without(t) = Dropped(s, t)
<1>1. QueueOf(q) = s /\ s \in Seq(Shreds) /\ DOMAIN s = 1 .. Len(s)
  BY QueueFact, SeqFact DEF Spells
<1>2. \A k \in 1 .. Len(s) : Promise!RemoveAt(s, k) = Less(s, k)
  <2>1. \A k : Promise!RemoveAt(s, k) = SubSeq(s, 1, k - 1) \o SubSeq(s, k + 1, Len(s))
    BY DEF Promise!RemoveAt
  <2>2. ASSUME NEW k \in 1 .. Len(s)
        PROVE  SubSeq(s, 1, k - 1) \o SubSeq(s, k + 1, Len(s)) = Less(s, k)
    BY <1>1, LessFact
  <2> QED  BY <2>1, <2>2
<1>3. Promise!ToSet(s) = {s[i] : i \in DOMAIN s}
  BY DEF Promise!ToSet
<1>4. Promise!Without(t) = IF t \in {s[i] : i \in DOMAIN s}
                             THEN Promise!RemoveAt(s, CHOOSE i \in DOMAIN s : s[i] = t)
                             ELSE s
  BY <1>1, <1>3 DEF Promise!Without
<1>5. CASE t \in {s[i] : i \in DOMAIN s}
  <2>1. PICK k : k = CHOOSE i \in DOMAIN s : s[i] = t
    OBVIOUS
  <2>2. k \in 1 .. Len(s)
    BY <1>1, <1>5, <2>1
  <2> QED  BY <1>2, <1>4, <1>5, <2>1, <2>2 DEF Dropped
<1>6. CASE t \notin {s[i] : i \in DOMAIN s}
  BY <1>4, <1>6 DEF Dropped
<1> QED  BY <1>5, <1>6

(* The count of those due no later is the place before the new one. *)
LEMMA InsertedFact ==
  ASSUME NEW u \in Seq(Shreds), NEW t \in Shreds, NEW d, NEW m \in 0 .. Len(u),
         \A i \in 1 .. Len(u) : DelayOf[u[i]] <= d <=> i <= m
  PROVE  Promise!Inserted(u, t, d) = More(u, m + 1, t)
<1>1. Len(u) \in Nat /\ DOMAIN u = 1 .. Len(u)
  BY SeqFact
<1>2. {i \in DOMAIN u : DelayOf[u[i]] <= d} = 1 .. m
  BY <1>1
<1>3. Cardinality(1 .. m) = m
  BY <1>1, FS_Interval
<1>4. \A S : Promise!Cardinality(S) = Cardinality(S)
  BY DEF Promise!Cardinality, Cardinality
<1>5. Promise!Inserted(u, t, d) = Promise!InsertAt(u, m + 1, t)
  BY <1>2, <1>3, <1>4 DEF Promise!Inserted, DelayOf
<1>6. PICK k : k = m + 1
  OBVIOUS
<1>7. k \in 1 .. Len(u) + 1
  BY <1>1, <1>6
<1>8. Promise!InsertAt(u, k, t) = SubSeq(u, 1, k - 1) \o <<t>> \o SubSeq(u, k, Len(u))
  BY DEF Promise!InsertAt
<1>9. SubSeq(u, 1, k - 1) \o <<t>> \o SubSeq(u, k, Len(u)) = More(u, k, t)
  BY <1>7, MoreFact
<1> QED  BY <1>5, <1>6, <1>8, <1>9

(* The list is one that a sequence spells.                                 *)
Spelt == \E s : Spells(q, s)

(* A step the promise allows, after which the list is spelt again.         *)
Promised == Spelt' /\ [Promise!Next]_(Promise!vars)

(* What the promise sees of a list that spells s.                          *)
LEMMA SeenFact ==
  ASSUME NEW s, Spells(q, s)
  PROVE  /\ QueueOf(q) = s
         /\ Promise!ToSet(QueueOf(q)) = Linked(q)
         /\ \A x \in Shreds : DelayOf[x] = IF x \in Linked(q) THEN q.wake[x] - Now ELSE 0
<1>1. QueueOf(q) = s /\ s \in Seq(Shreds) /\ DOMAIN s = 1 .. Len(s)
  BY QueueFact, SeqFact DEF Spells
<1>2. Promise!ToSet(s) = {s[i] : i \in DOMAIN s}
  BY DEF Promise!ToSet
<1>3. Promise!ToSet(s) = Linked(q)
  BY <1>1, <1>2 DEF Spells
<1> QED  BY <1>1, <1>3 DEF DelayOf

(* Nothing that the promise sees changes. *)
LEMMA StutterPromised ==
  ASSUME NEW s, Spells(q, s), Spells(q', s), Now' = Now, q'.curr = q.curr,
         \A x \in Linked(q) : q'.wake[x] = q.wake[x],
         \A x \in Shreds : Done(x)' <=> Done(x)
  PROVE  Promised
<1>1. QueueOf(q) = s /\ QueueOf(q') = s
  BY QueueFact
<1>2. Linked(q') = Linked(q)
  BY DEF Spells
<1>3. DelayOf' = DelayOf
  BY <1>2, LinkedFact DEF DelayOf
<1>4. {x \in Shreds : Done(x)}' = {x \in Shreds : Done(x)}
  OBVIOUS
<1>5. UNCHANGED Promise!vars
  BY <1>1, <1>3, <1>4 DEF Promise!vars, DelayOf
<1> QED  BY <1>5 DEF Promised, Spelt

(* A tick leaves the list, or stops running. *)
LEMMA RemovalPromised ==
  ASSUME NEW s, Spells(q, s), NEW t \in Shreds, Spells(q', Dropped(s, t)),
         Linked(q') = Linked(q) \ {t}, q.curr \notin Linked(q),
         \A x \in Linked(q') : q'.wake[x] = q.wake[x],
         q'.curr = IF t = q.curr THEN Null ELSE q.curr,
         Now' = Now, \A x \in Shreds : Done(x)' <=> Done(x)
  PROVE  Promised
<1>1. QueueOf(q') = Dropped(s, t)
  BY QueueFact
<1>2. {x \in Shreds : Done(x)}' = {x \in Shreds : Done(x)}
  OBVIOUS
<1>3. DelayOf' = [DelayOf EXCEPT ![t] = 0]
  <2>1. DelayOf' = [x \in Shreds |-> IF x \in Linked(q') THEN q'.wake[x] - Now ELSE 0]
    BY DEF DelayOf
  <2>2. ASSUME NEW x \in Shreds
        PROVE  (IF x \in Linked(q') THEN q'.wake[x] - Now ELSE 0)
               = IF x = t THEN 0 ELSE IF x \in Linked(q) THEN q.wake[x] - Now ELSE 0
    OBVIOUS
  <2>3. [DelayOf EXCEPT ![t] = 0]
        = [x \in Shreds |-> IF x = t THEN 0
                            ELSE IF x \in Linked(q) THEN q.wake[x] - Now ELSE 0]
    BY DEF DelayOf
  <2> QED  BY <2>1, <2>2, <2>3
<1>4. CASE t \in Linked(q)
  <2>1. q'.curr = q.curr
    BY <1>4
  <2>2. Promise!Withdraw(t)
    BY <1>1, <1>2, <1>3, <1>4, <2>1, SeenFact, WithoutFact
       DEF Promise!Withdraw, Promise!Leaves, DelayOf
  <2> QED  BY <2>2 DEF Promised, Spelt, Promise!Next
<1>5. CASE t \notin Linked(q)
  <2>1. Dropped(s, t) = s
    <3>1. t \notin {s[i] : i \in DOMAIN s}
      BY <1>5, SeqFact DEF Spells
    <3> QED  BY <3>1 DEF Dropped
  <2>2. CASE t = q.curr
    <3>1. DelayOf' = DelayOf
      BY <1>3, <1>5 DEF DelayOf
    <3>2. Promise!Stop
      <4>1. q.curr # Null /\ q'.curr = Null
        BY <2>2, PointerAssumption
      <4>2. QueueOf(q') = QueueOf(q)
        BY <1>1, <2>1, QueueFact
      <4> QED  BY <4>1, <4>2, <3>1, <1>2 DEF Promise!Stop, DelayOf
    <3> QED  BY <3>2 DEF Promised, Spelt, Promise!Next
  <2>3. CASE t # q.curr
    <3>1. Linked(q') = Linked(q) /\ q'.curr = q.curr
      BY <2>3, <1>5
    <3> QED  BY <2>1, <3>1, StutterPromised
  <2> QED  BY <2>2, <2>3
<1> QED  BY <1>4, <1>5

(* A tick joins the list p, which is q without it.                         *)
LEMMA AdmitPromised ==
  ASSUME NEW s, Spells(q, s), NEW t \in Shreds, ~Done(t),
         NEW p \in Lists, WellFormed(p), Leaves(q, p, t), Loose(p, t), SameApart(q, p, t),
         p.curr \in {q.curr, IF t = q.curr THEN Null ELSE q.curr},
         NEW w \in Int, q' \in Shredule(p, t, w), Now \in Int, Now' = Now
  PROVE  Promised
<1>1. PICK a \in Spots(p, w) : q' = InsertAfter(p, t, w, a)
  <2>1. p.prev[t] # Erased
    BY PointerAssumption DEF Loose
  <2> QED  BY <2>1 DEF Shredule
<1>2. PICK u : u = Dropped(s, t)
  OBVIOUS
<1>3. Spells(p, u) /\ u \in Seq(Shreds) /\ DOMAIN u = 1 .. Len(u)
  <2>1. Spells(p, u)
    BY <1>2, SpellsDropped
  <2>2. u \in Seq(Shreds)
    BY <2>1 DEF Spells
  <2> QED  BY <2>1, <2>2, SeqFact
<1>4. PICK m : Joins(p, q', u, t, w, m)
  BY <1>1, <1>3, InsertJoins
<1>5. PICK v : v = More(u, m + 1, t)
  OBVIOUS
<1>6. Spells(q', v) /\ QueueOf(q') = v
  BY <1>3, <1>4, <1>5, SpellsMore, QueueFact
<1>7. /\ q'.curr = IF t = q.curr THEN Null ELSE q.curr
      /\ SameApart(p, q', t) /\ q'.prev[t] # Erased
  BY <1>1, InsertSound, PointerAssumption
<1>8. {x \in Shreds : Done(x)}' = {x \in Shreds : Done(x)}
  BY <1>7 DEF Done, SameApart
<1>9. /\ Linked(p) = Linked(q) \ {t} /\ Linked(q') = Linked(p) \cup {t}
      /\ \A y \in Linked(p) : q'.wake[y] = p.wake[y] /\ p.wake[y] = q.wake[y]
                              /\ p.wake[y] \in Int
      /\ \A i \in 1 .. Len(u) : u[i] \in Linked(p) /\ (p.wake[u[i]] <= w <=> i <= m)
      /\ q'.wake[t] = w /\ m \in 0 .. Len(u)
  <2>1. Linked(p) = Linked(q) \ {t} /\ \A y \in Linked(p) : p.wake[y] = q.wake[y]
    BY DEF Leaves
  <2>2. /\ Linked(q') = Linked(p) \cup {t} /\ q'.wake[t] = w /\ m \in 0 .. Len(u)
        /\ \A i \in 1 .. Len(u) : /\ q'.wake[u[i]] = p.wake[u[i]]
                                  /\ p.wake[u[i]] \in Int
                                  /\ p.wake[u[i]] <= w <=> i <= m
    BY <1>4 DEF Joins
  <2>3. Linked(p) = {u[i] : i \in 1 .. Len(u)}
    BY <1>3 DEF Spells
  <2> QED  BY <2>1, <2>2, <2>3
<1>10. DelayOf' = [DelayOf EXCEPT ![t] = w - Now]
  <2>1. DelayOf' = [y \in Shreds |-> IF y \in Linked(q') THEN q'.wake[y] - Now ELSE 0]
    BY DEF DelayOf
  <2>2. ASSUME NEW y \in Shreds
        PROVE  (IF y \in Linked(q') THEN q'.wake[y] - Now ELSE 0)
               = IF y = t THEN w - Now ELSE IF y \in Linked(q) THEN q.wake[y] - Now ELSE 0
    BY <1>9
  <2>3. [DelayOf EXCEPT ![t] = w - Now]
        = [y \in Shreds |-> IF y = t THEN w - Now
                            ELSE IF y \in Linked(q) THEN q.wake[y] - Now ELSE 0]
    BY DEF DelayOf
  <2> QED  BY <2>1, <2>2, <2>3
<1>11. \A i \in 1 .. Len(u) : DelayOf[u[i]] <= w - Now <=> i <= m
  <2> SUFFICES ASSUME NEW i \in 1 .. Len(u) PROVE DelayOf[u[i]] <= w - Now <=> i <= m
    OBVIOUS
  <2>1. PICK y \in Linked(p) : y = u[i] /\ (p.wake[y] <= w <=> i <= m)
    BY <1>9
  <2>2. y \in Linked(q) /\ y \in Shreds /\ p.wake[y] = q.wake[y] /\ q.wake[y] \in Int
    BY <1>9, LinkedFact
  <2>3. DelayOf[y] = q.wake[y] - Now
    BY <2>2 DEF DelayOf
  <2>4. q.wake[y] - Now <= w - Now <=> q.wake[y] <= w
    BY <2>2
  <2> QED  BY <2>1, <2>2, <2>3, <2>4
<1>12. Promise!Without(t) = u
  BY <1>2, WithoutFact
<1>13. \A d : d = w - Now => Promise!Inserted(u, t, d) = v
  BY <1>3, <1>5, <1>9, <1>11, InsertedFact
<1>14. DelayOf'[t] = w - Now
  BY <1>10 DEF DelayOf
<1>15. PICK d : d = w - Now
  OBVIOUS
<1>16. Promise!Admit(t, d)
  <2>1. t \notin {x \in Shreds : Done(x)}
    OBVIOUS
  <2> QED  BY <2>1, <1>6, <1>7, <1>8, <1>10, <1>12, <1>13, <1>15 DEF Promise!Admit, DelayOf
<1>17. Promise!Next
  <2>1. d \in {DelayOf'[t]}
    BY <1>14, <1>15
  <2> QED  BY <2>1, <1>16 DEF Promise!Next, DelayOf
<1> QED  BY <1>6, <1>17 DEF Promised, Spelt

(* Steps that leave the list and the position alone. *)
LEMMA QuietPromised ==
  ASSUME Spelt, UNCHANGED <<q, pos>>
  PROVE  Promised
<1>1. PICK s : Spells(q, s)
  BY DEF Spelt
<1>2. Now' = Now /\ q'.curr = q.curr /\ \A x \in Shreds : Done(x)' <=> Done(x)
  BY DEF Now, Done
<1> QED  BY <1>1, <1>2, StutterPromised

(* tk_remove, shreduler_remove or both, on a shred that is not done. *)
LEMMA RemovePromised ==
  ASSUME IInv, Spelt, NEW t \in Shreds, t \in Linked(q) \/ Loose(q, t), ~Done(t),
         q' \in {TkRemove(q, t), TkRemove(Detach(q, t), t), Detach(q, t)}, pos' = pos
  PROVE  Promised
<1>1. PICK s : Spells(q, s)
  BY DEF Spelt
<1>2. q \in Lists /\ WellFormed(q) /\ q.curr \notin Linked(q) /\ q.curr \in Shreds \cup {Null}
  BY ListFact DEF IInv, TypeOK, ListSound, WellFormed
<1>3. /\ Spells(q', Dropped(s, t)) /\ Linked(q') = Linked(q) \ {t}
      /\ \A x \in Linked(q') : q'.wake[x] = q.wake[x]
      /\ Moved(q, q', t)
  <2>1. CASE q' = TkRemove(q, t)
    <3>1. Leaves(q, q', t) /\ Moved(q, q', t)
      BY <2>1, <1>2, TkRemoveLeaves, TkRemoveMoves
    <3>2. Spells(q', Dropped(s, t))
      BY <3>1, <1>1, SpellsDropped
    <3> QED  BY <3>1, <3>2 DEF Leaves
  <2>2. CASE q' = Detach(q, t)
    <3>1. Leaves(q, q', t) /\ Moved(q, q', t)
      BY <2>2, <1>2, DetachLeaves, DetachMoves
    <3>2. Spells(q', Dropped(s, t))
      BY <3>1, <1>1, SpellsDropped
    <3> QED  BY <3>1, <3>2 DEF Leaves
  <2>3. CASE q' = TkRemove(Detach(q, t), t)
    <3>1. PICK r : r = Detach(q, t)
      OBVIOUS
    <3>2. /\ Leaves(q, r, t) /\ Moved(q, r, t) /\ Loose(r, t)
          /\ r \in Lists /\ WellFormed(r)
      BY <3>1, <1>2, DetachLeaves, DetachMoves DEF Moved
    <3>3. Leaves(r, q', t) /\ Moved(r, q', t)
      BY <2>3, <3>1, <3>2, TkRemoveLeaves, TkRemoveMoves
    <3>4. PICK u : u = Dropped(s, t)
      OBVIOUS
    <3>5. Spells(r, u)
      BY <3>2, <3>4, <1>1, SpellsDropped
    <3>6. Spells(q', Dropped(u, t))
      BY <3>3, <3>5, SpellsDropped
    <3>7. Dropped(u, t) = u
      <4>1. t \notin {u[i] : i \in DOMAIN u}
        <5>1. t \notin Linked(r)
          BY <3>2 DEF Loose
        <5> QED  BY <5>1, <3>5, SeqFact DEF Spells
      <4> QED  BY <4>1 DEF Dropped
    <3>8. Moved(q, q', t)
      BY <3>2, <3>3, <1>2, MovedTwice
    <3>9. Linked(q') = Linked(q) \ {t} /\ \A x \in Linked(q') : q'.wake[x] = q.wake[x]
      BY <3>2, <3>3 DEF Leaves
    <3> QED  BY <3>4, <3>6, <3>7, <3>8, <3>9
  <2> QED  BY <2>1, <2>2, <2>3
<1>4. q'.curr = IF t = q.curr THEN Null ELSE q.curr
  BY <1>3 DEF Moved
<1>5. \A x \in Shreds : Done(x)' <=> Done(x)
  BY <1>3 DEF Moved, SameApart, Done
<1>6. Now' = Now
  BY DEF Now
<1> QED  BY <1>1, <1>2, <1>3, <1>4, <1>5, <1>6, RemovalPromised

(* _shredule of a shred that is not done, after it was taken off the list  *)
(* or when it is on none.                                                  *)
LEMMA ShredulePromised ==
  ASSUME IInv, Spelt, NEW t \in Shreds, t \in Linked(q) \/ Loose(q, t), ~Done(t),
         NEW p \in {q, Detach(q, t)}, Loose(q, t) \/ p # q,
         NEW w \in Int, q' \in Shredule(p, t, w), pos' = pos
  PROVE  Promised
<1>1. PICK s : Spells(q, s)
  BY DEF Spelt
<1>2. q \in Lists /\ WellFormed(q) /\ Now \in Int /\ Now' = Now
  BY NowIsInt DEF IInv, TypeOK, ListSound, Now
<1>3. /\ p \in Lists /\ WellFormed(p) /\ Leaves(q, p, t) /\ Loose(p, t)
      /\ SameApart(q, p, t)
      /\ p.curr \in {q.curr, IF t = q.curr THEN Null ELSE q.curr}
  <2>1. CASE p = q
    BY <2>1, <1>2, StayLeaves DEF SameApart
  <2>2. CASE p = Detach(q, t)
    BY <2>2, <1>2, DetachLeaves, DetachSound
  <2> QED  BY <2>1, <2>2
<1> QED  BY <1>1, <1>2, <1>3, AdmitPromised

-----------------------------------------------------------------------------
(* Every step of the VM.                                                   *)

LEMMA GetPromised ==
  ASSUME IInv, Spelt, Get
  PROVE  Promised
<1>1. /\ q.head # Null /\ q.wake[q.head] <= Now + Eps /\ q.curr = Null
      /\ q' = Pop(q) /\ pos' = pos
  BY DEF Get, Idle, Calm, Due
<1>2. q \in Lists /\ WellFormed(q) /\ Now \in Int /\ Now' = Now /\ Eps \in Int
  BY <1>1, NowIsInt, VMAssumption DEF IInv, TypeOK, ListSound, Now
<1>3. PICK t \in Shreds : t = q.head
  BY <1>1, <1>2, ListFact
<1>4. /\ t \in Linked(q) /\ q.wake[t] \in Int
      /\ q' \in Lists /\ Linked(q') = Linked(q) \ {t}
      /\ SameApart(q, q', t) /\ Loose(q', t) /\ q'.curr = t
  BY <1>1, <1>2, <1>3, PopSound, ListFact
<1>5. Leaves(q, q', t)
  BY <1>1, <1>2, <1>3, PopLeaves
<1>6. PICK s : Spells(q, s)
  BY DEF Spelt
<1>7. Spells(q', Dropped(s, t))
  BY <1>5, <1>6, SpellsDropped
<1>8. s # <<>> /\ s[1] = t
  BY <1>1, <1>3, <1>6 DEF Spells
<1>9. ~Done(t) /\ \A x \in Shreds : Done(x)' <=> Done(x)
  <2>1. ~Done(t)
    BY <1>4 DEF IInv, Places
  <2>2. ~Done(t)'
    BY <1>4, PointerAssumption DEF Loose, Done
  <2> QED  BY <2>1, <2>2, <1>4 DEF SameApart, Done
<1>10. {x \in Shreds : Done(x)}' = {x \in Shreds : Done(x)}
  BY <1>9
<1>11. DelayOf' = [DelayOf EXCEPT ![t] = 0]
  <2>1. DelayOf' = [x \in Shreds |-> IF x \in Linked(q') THEN q'.wake[x] - Now ELSE 0]
    BY <1>2 DEF DelayOf
  <2>2. ASSUME NEW x \in Shreds
        PROVE  (IF x \in Linked(q') THEN q'.wake[x] - Now ELSE 0)
               = IF x = t THEN 0 ELSE IF x \in Linked(q) THEN q.wake[x] - Now ELSE 0
    BY <1>4, <1>5 DEF Leaves
  <2>3. [DelayOf EXCEPT ![t] = 0]
        = [x \in Shreds |-> IF x = t THEN 0
                            ELSE IF x \in Linked(q) THEN q.wake[x] - Now ELSE 0]
    BY DEF DelayOf
  <2> QED  BY <2>1, <2>2, <2>3
<1>12. DelayOf[t] <= Eps
  <2>1. DelayOf[t] = q.wake[t] - Now
    BY <1>4 DEF DelayOf
  <2> QED  BY <2>1, <1>1, <1>2, <1>3, <1>4
<1>13. QueueOf(q) = s /\ QueueOf(q') = Dropped(s, t) /\ Promise!Without(t) = Dropped(s, t)
  BY <1>6, <1>7, QueueFact, WithoutFact
<1>14. Promise!Serve
  <2>1. QueueOf(q) # <<>> /\ QueueOf(q)[1] = t
    BY <1>8, <1>13
  <2>2. QueueOf(q') = Promise!Without(QueueOf(q)[1])
    BY <2>1, <1>13
  <2> QED  BY <2>1, <2>2, <1>1, <1>4, <1>10, <1>11, <1>12
           DEF Promise!Serve, Promise!Leaves, DelayOf
<1> QED  BY <1>7, <1>14 DEF Promised, Spelt, Promise!Next

(* A sample goes by: Tick, of two samples when the position wraps. *)
LEMMA EndSamplePromised ==
  ASSUME IInv, Spelt, EndSample
  PROVE  Promised
<1>1. q.curr = Null /\ ~Due /\ NextPos
  BY DEF EndSample, Idle
<1>2. /\ q \in Lists /\ WellFormed(q) /\ Now \in Int /\ pos \in Int /\ PosMax \in Int
      /\ Sample \in Int /\ Eps \in Int /\ PosMax * Sample \in Int
      /\ Linked(q) \subseteq Shreds
  BY NowIsInt, VMAssumption, LinkedFact DEF IInv, TypeOK, ListSound
<1>3. PICK s : Spells(q, s)
  BY DEF Spelt
<1>4. /\ Linked(q') = Linked(q) /\ q'.head = q.head /\ q'.curr = q.curr
      /\ q'.next = q.next /\ q'.prev = q.prev
  <2>1. CASE pos + 1 = PosMax - 1
    BY <2>1, <1>1, <1>2, ShiftSound DEF NextPos
  <2>2. CASE pos + 1 # PosMax - 1
    BY <2>2, <1>1 DEF NextPos
  <2> QED  BY <2>1, <2>2
<1>5. PICK n \in {1, 2}, k \in Int :
        /\ \A x \in Linked(q) : q'.wake[x] = q.wake[x] - k
        /\ Now' \in Int /\ k + Now' = Now + n * Sample
  <2>1. CASE pos + 1 = PosMax - 1
    <3>1. pos' = 0 /\ q' = Shift(q, PosMax * Sample)
      BY <2>1, <1>1 DEF NextPos
    <3>2. \A x \in Linked(q) : q'.wake[x] = q.wake[x] - PosMax * Sample
      BY <3>1, <1>2 DEF Shift, Lists
    <3>3. PosMax = pos + 2 /\ (pos + 2) * Sample = pos * Sample + 2 * Sample
          /\ 0 * Sample = 0
      BY <2>1, <1>2
    <3>4. Now' = 0 /\ PosMax * Sample + 0 = Now + 2 * Sample
      BY <3>1, <3>3, <1>2 DEF Now
    <3> QED  BY <3>2, <3>4, <1>2
  <2>2. CASE pos + 1 # PosMax - 1
    <3>1. pos' = pos + 1 /\ q' = q
      BY <2>2, <1>1 DEF NextPos
    <3>2. (pos + 1) * Sample = pos * Sample + Sample
      BY <1>2
    <3>3. Now' = Now + Sample
      BY <3>1, <3>2 DEF Now
    <3>4. \A x \in Linked(q) : q'.wake[x] = q.wake[x] - 0
      BY <3>1, <1>2, ListFact
    <3>5. 0 + Now' = Now + 1 * Sample /\ Now' \in Int
      BY <3>3, <1>2
    <3> QED  BY <3>4, <3>5
  <2> QED  BY <2>1, <2>2
<1>6. \A x \in Linked(q) : q.wake[x] \in Int
  BY <1>2, ListFact
<1>7. Spells(q', s)
  <2>1. \A x, y \in Linked(q) : q.wake[x] <= q.wake[y] => q'.wake[x] <= q'.wake[y]
    BY <1>5, <1>6
  <2> QED  BY <2>1, <1>3, <1>4, SpellsSame
<1>8. \A x \in Linked(q) : q.wake[x] - Now > Eps
  <2>1. PICK after \in [Linked(q) -> SUBSET Linked(q)] : Threads(q, after)
    BY <1>2 DEF WellFormed
  <2> SUFFICES ASSUME NEW x \in Linked(q) PROVE q.wake[x] - Now > Eps
    OBVIOUS
  <2>2. q.head # Null /\ q.head \in Linked(q) /\ (x = q.head \/ x \in after[q.head])
    BY <2>1, <1>2, ThreadsFact
  <2>3. q.wake[q.head] <= q.wake[x]
    BY <2>1, <2>2, <1>2, <1>6, ThreadsFact
  <2>4. ~(q.wake[q.head] <= Now + Eps)
    BY <2>2, <1>1 DEF Due
  <2> QED  BY <2>2, <2>3, <2>4, <1>2, <1>6
<1>9. QueueOf(q) = s /\ QueueOf(q') = s /\ Promise!ToSet(QueueOf(q)) = Linked(q)
  BY <1>3, <1>7, QueueFact, SeenFact
<1>10. {x \in Shreds : Done(x)}' = {x \in Shreds : Done(x)}
  BY <1>4 DEF Done
<1>11. DelayOf' = [x \in Shreds |-> IF x \in Linked(q) THEN DelayOf[x] - n * Sample ELSE 0]
  <2>1. DelayOf' = [x \in Shreds |-> IF x \in Linked(q) THEN q'.wake[x] - Now' ELSE 0]
    BY <1>4 DEF DelayOf
  <2>2. ASSUME NEW x \in Linked(q)
        PROVE  q'.wake[x] - Now' = DelayOf[x] - n * Sample
    <3>1. DelayOf[x] = q.wake[x] - Now
      BY <1>2 DEF DelayOf
    <3>2. PICK l \in Int : l = n * Sample
      BY <1>2
    <3>3. q'.wake[x] = q.wake[x] - k /\ k + Now' = Now + l
      BY <3>2, <1>5
    <3>4. q.wake[x] \in Int /\ Now \in Int /\ Now' \in Int /\ k \in Int
      BY <1>2, <1>5, <1>6
    <3>5. q'.wake[x] - Now' = (q.wake[x] - Now) - l
      BY <3>2, <3>3, <3>4
    <3> QED  BY <3>1, <3>2, <3>5
  <2> QED  BY <2>1, <2>2
<1>12. \A x \in Linked(q) : DelayOf[x] > Eps
  BY <1>2, <1>8 DEF DelayOf
<1>13. Promise!Tick
  BY <1>1, <1>4, <1>9, <1>10, <1>11, <1>12 DEF Promise!Tick, DelayOf
<1> QED  BY <1>7, <1>13 DEF Promised, Spelt, Promise!Next

(* A child that is erased is withdrawn, or stops. *)
LEMMA EraseChildPromised ==
  ASSUME IInv, Spelt, NEW t \in Shreds, EraseChild(t)
  PROVE  Promised
<1>1. PICK c \in children[t] : /\ ~Done(c) /\ q' = TkRemove(q, c) /\ pos' = pos
                               /\ \A d \in erasing : parent[d] # t
  BY DEF EraseChild, Innermost
<1>2. t \in active /\ c \in Shreds /\ t # Null
  BY PointerAssumption DEF EraseChild, Innermost, IInv, Places, TypeOK
<1>3. parent[c] = t
  BY <1>2 DEF IInv, NoOrphans
<1>4. c \notin erasing /\ c \in active
  BY <1>1, <1>2, <1>3 DEF IInv, Places
<1> QED  BY <1>1, <1>4, CanMove, RemovePromised DEF IInv

(* The sentinel retires the shred. *)
LEMMA EraseSelfPromised ==
  ASSUME IInv, Spelt, NEW t \in Shreds, EraseSelf(t)
  PROVE  Promised
<1>1. t \in erasing /\ t \notin Linked(q) \cup {q.curr} /\ pos' = pos
  BY DEF EraseSelf, Innermost, IInv, Places
<1>2. q \in Lists /\ WellFormed(q)
  BY DEF IInv, TypeOK, ListSound
<1>3. q' = Mark(q, t)
  <2>1. Mark(q, t).prev[t] = Erased
    BY <1>1, <1>2, MarkSound
  <2> QED  BY <2>1 DEF EraseSelf, Shredule
<1>4. /\ Linked(q') = Linked(q) /\ q'.prev[t] = Erased /\ q'.curr = q.curr
      /\ SameApart(q, q', t)
  BY <1>1, <1>2, <1>3, MarkSound
<1>5. /\ q'.head = q.head /\ q'.next = q.next /\ q'.wake = q.wake
      /\ \A x \in Linked(q) : q'.prev[x] = q.prev[x]
  BY <1>1, <1>2, <1>3, LinkedFact DEF Mark, Lists
<1>6. PICK s : Spells(q, s)
  BY DEF Spelt
<1>7. Spells(q', s)
  BY <1>4, <1>5, <1>6, SpellsSame
<1>8. QueueOf(q) = s /\ QueueOf(q') = s /\ Promise!ToSet(QueueOf(q)) = Linked(q)
  BY <1>6, <1>7, QueueFact, SeenFact
<1>9. DelayOf' = DelayOf
  BY <1>1, <1>4, <1>5 DEF DelayOf, Now
<1>10. {x \in Shreds : Done(x)}' = {x \in Shreds : Done(x)} \cup {t}
  BY <1>4 DEF Done, SameApart
<1>11. Promise!Retire(t)
  BY <1>1, <1>4, <1>8, <1>9, <1>10 DEF Promise!Retire, DelayOf
<1> QED  BY <1>7, <1>11 DEF Promised, Spelt, Promise!Next

(* shreduler_remove of a shred that dies. *)
LEMMA ErasePromised ==
  ASSUME IInv, Spelt, Calm, NEW t \in active, NEW r \in {q, Detach(q, t)}, StartErase(r, t)
  PROVE  Promised
<1>1. t \in Shreds /\ (t \in Linked(q) \/ Loose(q, t)) /\ ~Done(t)
  BY CanMove DEF IInv, Calm
<1>2. q' = TkRemove(r, t) /\ pos' = pos
  BY DEF StartErase
<1>3. q' \in {TkRemove(q, t), TkRemove(Detach(q, t), t), Detach(q, t)}
  BY <1>2
<1> QED  BY <1>1, <1>2, <1>3, RemovePromised

(* An effect ends the shred, or queues it for the handler. *)
LEMMA RaisePromised ==
  ASSUME IInv, Spelt, Calm, NEW t \in active, Raise(t)
  PROVE  Promised
<1> DEFINE r == Detach(q, t)
<1>1. CASE StartErase(r, t)
  BY <1>1, ErasePromised
<1>2. CASE q' \in Shredule(r, t, Now) /\ pos' = pos
  <2>1. t \in Shreds /\ (t \in Linked(q) \/ Loose(q, t)) /\ ~Done(t)
    BY CanMove DEF IInv, Calm
  <2>2. Now \in Int /\ (Loose(q, t) \/ r # q)
    <3>1. q \in Lists /\ WellFormed(q)
      BY DEF IInv, TypeOK, ListSound
    <3>2. Loose(r, t)
      BY <2>1, <3>1, DetachSound
    <3>3. t \in Linked(q) => ~Loose(q, t)
      BY DEF Loose
    <3> HIDE DEF r
    <3> QED  BY <3>2, NowIsInt DEF IInv
  <2> QED  BY <2>1, <2>2, <1>2, ShredulePromised
<1> QED  BY <1>1, <1>2 DEF Raise

(* A shred that is born. *)
LEMMA AddPromised ==
  ASSUME IInv, Spelt, NEW u \in Shreds, Add(u), pos' = pos
  PROVE  Promised
<1>1. Loose(q, u) /\ ~Done(u)
  BY UnbornFact DEF Add
<1>2. q' \in Shredule(q, u, Eps) /\ Eps \in Int
  BY VMAssumption DEF Add
<1> QED  BY <1>1, <1>2, ShredulePromised

(* s.yield() *)
LEMMA YieldPromised ==
  ASSUME IInv, Spelt, NEW t \in Shreds, NEW s \in Shreds, Yield(t, s), s \notin Waiting
  PROVE  Promised
<1>1. s \in active /\ s \notin erasing
  <2>1. Busy(t) /\ Named(s) /\ ~Done(s)
    BY DEF Yield
  <2> QED  BY <2>1, RunningFact DEF Named, IInv, Places
<1>2. (s \in Linked(q) \/ Loose(q, s)) /\ ~Done(s)
  BY <1>1, CanMove DEF IInv
<1>3. Now + Eps \in Int
  BY NowIsInt DEF IInv
<1>4. pos' = pos /\ q' \in Shredule(IF s = t THEN q ELSE Detach(q, s), s, Now + Eps)
  BY DEF Yield
<1>5. CASE s = t
  <2>1. Loose(q, s)
    BY <1>5, RunningFact DEF Yield
  <2> QED  BY <2>1, <1>2, <1>3, <1>4, <1>5, ShredulePromised
<1>6. CASE s # t
  <2>1. PICK r : r = Detach(q, s)
    OBVIOUS
  <2>2. Loose(r, s)
    BY <2>1, <1>2, DetachSound DEF IInv, TypeOK, ListSound
  <2>3. Loose(q, s) \/ r # q
    BY <2>2, <1>2
  <2> QED  BY <2>1, <2>3, <1>2, <1>3, <1>4, <1>6, ShredulePromised
<1> QED  BY <1>5, <1>6

(* A wake-up of a shred that is done changes nothing. *)
LEMMA WakeFirstPromised ==
  ASSUME IInv, Spelt, NEW e \in Events, waiters[e] # <<>>, WakeFirst(e), erasing = {}
  PROVE  Promised
<1>1. PICK t \in Shreds : t = Head(waiters[e]) /\ t \in Waiting
  BY WaiterLeaves DEF WakeFirst, IInv, Placement
<1>2. q' \in Shredule(q, t, Now + Eps) /\ pos' = pos
  BY <1>1 DEF WakeFirst
<1>3. CASE Done(t)
  BY <1>2, <1>3, QuietPromised DEF Shredule, Done
<1>4. CASE ~Done(t)
  <2>1. Loose(q, t)
    BY <1>1, <1>4 DEF IInv, Placement, Places
  <2>2. Now + Eps \in Int
    BY NowIsInt DEF IInv
  <2> QED  BY <2>1, <2>2, <1>2, <1>4, ShredulePromised
<1> QED  BY <1>3, <1>4

(* The instructions, one by one. *)
LEMMA InstrPromised ==
  ASSUME Disciplined, IInv, Spelt, NEW t \in Shreds, Instr(t)
  PROVE  Promised
<1> USE RunningFact
<1>1. ASSUME NEW d \in Delays, TimeAdv(t, d) PROVE Promised
  <2>1. Busy(t)
    BY <1>1 DEF TimeAdv
  <2>2. CASE d < 0
    BY <2>1, <2>2, <1>1, RaisePromised DEF TimeAdv
  <2>3. CASE ~(d < 0)
    <3>1. q' \in Shredule(q, t, Now + d) /\ pos' = pos
      BY <2>3, <1>1 DEF TimeAdv
    <3>2. Now + d \in Int /\ Loose(q, t) /\ ~Done(t)
      BY <2>1, NowIsInt DEF IInv, Places
    <3> QED  BY <3>1, <3>2, ShredulePromised
  <2> QED  BY <2>2, <2>3
<1>2. CASE Perform(t)
  BY <1>2, RaisePromised DEF Perform
<1>3. CASE TryIni(t) \/ TryEnd(t)
  BY <1>3, QuietPromised DEF TryIni, TryEnd
<1>4. CASE Eoc(t)
  BY <1>4, ErasePromised DEF Eoc
<1>5. ASSUME NEW s \in Shreds, Spork(t, s) PROVE Promised
  BY <1>5, AddPromised DEF Spork
<1>6. ASSUME NEW s \in Shreds, Exit(t, s) \/ TestCancel(t, s) PROVE Promised
  <2>1. Busy(t) /\ Named(s) /\ ~Done(s) /\ StartErase(q, s)
    BY <1>6 DEF Exit, TestCancel
  <2>2. s \in active
    BY <2>1 DEF Named, IInv, Places
  <2> QED  BY <2>1, <2>2, ErasePromised
<1>7. ASSUME NEW s \in Shreds, Yield(t, s) PROVE Promised
  BY <1>7, YieldPromised DEF Yield
<1>8. ASSUME NEW s \in Shreds,
             \/ \E n \in BOOLEAN : SetCancel(t, s, n)
             \/ TakeHandle(t, s) \/ DropHandle(t, s)
      PROVE  Promised
  BY <1>8, QuietPromised DEF SetCancel, TakeHandle, DropHandle
<1>9. ASSUME NEW e \in Events, EventWait(t, e) PROVE Promised
  <2>1. q' = Detach(q, t) /\ pos' = pos /\ Busy(t)
    BY <1>9 DEF EventWait
  <2>2. Loose(q, t) /\ ~Done(t)
    BY <2>1 DEF IInv, Places
  <2> QED  BY <2>1, <2>2, RemovePromised
<1>10. ASSUME NEW e \in Events, Signal(t, e) PROVE Promised
  BY <1>10, WakeFirstPromised DEF Signal
<1>11. ASSUME NEW e \in Events, Broadcast(t, e) \/ EventDtor(t, e) PROVE Promised
  BY <1>11, QuietPromised DEF Broadcast, EventDtor
<1> QED  BY <1>1, <1>2, <1>3, <1>4, <1>5, <1>6, <1>7, <1>8, <1>9, <1>10, <1>11 DEF Instr

(* And every step. *)
LEMMA NextPromised ==
  ASSUME Disciplined, IInv, Spelt, Next
  PROVE  Promised
<1>1. CASE Get
  BY <1>1, GetPromised
<1>2. CASE EndSample
  BY <1>2, EndSamplePromised
<1>3. CASE WakeNext
  <2>1. waking \in Events /\ waiters[waking] # <<>> /\ erasing = {} /\ WakeFirst(waking)
    BY <1>3 DEF WakeNext, IInv, WakingSound
  <2> QED  BY <2>1, WakeFirstPromised
<1>4. ASSUME NEW t \in Shreds, EraseChild(t) \/ EraseSelf(t) PROVE Promised
  BY <1>4, EraseChildPromised, EraseSelfPromised
<1>5. ASSUME NEW s \in Shreds, AddShred(s) PROVE Promised
  BY <1>5, AddPromised DEF AddShred
<1>6. ASSUME NEW s \in Shreds, VMRemove(s) PROVE Promised
  BY <1>6, RaisePromised DEF VMRemove
<1>7. ASSUME NEW t \in Shreds, Instr(t) PROVE Promised
  BY <1>7, InstrPromised
<1> QED  BY <1>1, <1>2, <1>3, <1>4, <1>5, <1>6, <1>7 DEF Next, Machine, Host

(* The first state. *)
LEMMA InitPromised ==
  ASSUME Init
  PROVE  Spelt /\ Promise!Init
<1>1. PICK s : s = <<Root>>
  OBVIOUS
<1>2. /\ q.head = Root /\ q.curr = Null /\ pos = 0
      /\ q.prev = [x \in Shreds |-> Null] /\ q.next = [x \in Shreds |-> Null]
      /\ q.wake = [x \in Shreds |-> IF x = Root THEN Eps ELSE 0]
      /\ Root \in Shreds /\ Null \notin Shreds /\ Null # Erased
  BY VMAssumption, PointerAssumption DEF Init
<1>3. Linked(q) = {Root}
  BY <1>2 DEF Linked
<1>4. /\ s \in Seq(Shreds) /\ Len(s) = 1 /\ s[1] = Root /\ s # <<>>
  BY <1>1, <1>2
<1>5. Spells(q, s)
  <2>1. \A i \in 1 .. Len(s) : i = 1
    BY <1>4
  <2>2. {s[i] : i \in 1 .. Len(s)} = {Root}
    BY <1>4, <2>1
  <2>3. q.next[Root] = Null /\ q.prev[Root] = Null
    BY <1>2
  <2> QED  BY <1>2, <1>3, <1>4, <2>1, <2>2, <2>3 DEF Spells
<1>6. QueueOf(q) = <<Root>>
  BY <1>1, <1>5, QueueFact
<1>7. DelayOf = [x \in Shreds |-> IF x = Root THEN Eps ELSE 0]
  <2>1. Now = 0 /\ Eps \in Int
    BY <1>2, VMAssumption DEF Now
  <2> QED  BY <2>1, <1>2, <1>3 DEF DelayOf
<1>8. {x \in Shreds : Done(x)} = {}
  BY <1>2 DEF Done
<1>9. Promise!Init
  BY <1>2, <1>6, <1>7, <1>8 DEF Promise!Init, DelayOf
<1> QED  BY <1>5, <1>9 DEF Spelt

-----------------------------------------------------------------------------
(* The shreduler keeps the promise of RunQueue, however shreds and the     *)
(* host create, suspend, wake, yield and kill one another, for any shreds, *)
(* events and delays and any period of the position: shreds are served in  *)
(* the order of their wake times, first come first served among equals,    *)
(* never early, and no sample ends while one is due.                       *)
THEOREM PromiseKept == ASSUME Disciplined PROVE Spec => KeepsPromise
<1>1. Init => Spelt /\ Promise!Init
  BY InitPromised
<1>2. IInv /\ Spelt /\ [Next]_vars => Spelt' /\ [Promise!Next]_(Promise!vars)
  <2>1. ASSUME IInv, Spelt, Next PROVE Promised
    BY <2>1, NextPromised
  <2>2. ASSUME Spelt, UNCHANGED vars PROVE Promised
    BY <2>2, QuietPromised DEF vars
  <2> QED  BY <2>1, <2>2 DEF Promised
<1> QED  BY <1>1, <1>2, Inductive, PTL DEF Spec, KeepsPromise, Promise!Spec
=============================================================================
