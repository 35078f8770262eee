----------------------------- MODULE HMapProofs -----------------------------
(***************************************************************************)
(* The dictionary is a map: for tables of any size and any hash, but for   *)
(* those that meet a fault of the code (Spread).                           *)
(***************************************************************************)
EXTENDS HMap, FiniteSums

-----------------------------------------------------------------------------
(* Which programs the theorems are about.                                  *)

(* The capacity a dictionary begins with, and those it may grow to.        *)
FirstCap(s) == IF s.keys = <<>> THEN MinCap ELSE int2pow2(Len(s.keys))
FirstCaps(h) == {FirstCap(s) : s \in {r \in Starts : r.hash = h}}
GrownCaps(h) ==
  {n \in 0 .. MaxCap : h \in Grows /\ \E c \in FirstCaps(h), m \in 2 .. MaxCap : n = m * c}
Caps(h) == FirstCaps(h) \cup GrownCaps(h)

(* No two keys are sought in the same bucket first, and two are no key's.  *)
Perfect(h, n) ==
  /\ \A j, k \in DOMAIN h : j # k => h[j] % n # h[k] % n
  /\ \E x, y \in 0 .. n - 1 : x # y /\ \A k \in DOMAIN h : h[k] % n \notin {x, y}

(* However they collide, the keys stay away from the end.                  *)
Roomy(h, n) == \A k \in DOMAIN h : (h[k] % n) + Cardinality(DOMAIN h) <= n

(* Where keys are removed, hmap_iter looks at what follows a tombstone     *)
(* without asking what it is, hmap_iter_set takes a tombstone without      *)
(* looking further, and tombstones are not counted, so that they may fill  *)
(* a table: no key may be sought behind the tombstone of another, nor may  *)
(* 0 be a key, since that is what a bucket holds that was never used.      *)
(* hmap_find may write behind the end of a table that grows, unless keys   *)
(* stay away from it.                                                      *)
Spread ==
  \A h \in {s.hash : s \in Starts} :
    /\ h \in Removes => 0 \notin DOMAIN h /\ \A n \in Caps(h) : Perfect(h, n)
    /\ h \in Grows \ Removes => IsFiniteSet(DOMAIN h) /\ \A n \in GrownCaps(h) : Roomy(h, n)

-----------------------------------------------------------------------------
(* Circles of n buckets.                                                   *)

(* The bucket after b.                                                     *)
Round(b, n) == IF b + 1 = n THEN 0 ELSE b + 1

(* The buckets a search that begins at a has passed when it is at b.       *)
Run(a, b, n) == IF a <= b THEN a .. b - 1 ELSE (a .. n - 1) \cup (0 .. b - 1)

LEMMA ModFact ==
  ASSUME NEW n \in Nat \ {0}
  PROVE  /\ \A a \in Nat : a % n \in 0 .. n - 1
         /\ \A a \in 0 .. n - 1 : a % n = a
         /\ \A a \in n .. 2 * n - 1 : a % n = a - n
  OBVIOUS

LEMMA NextFact ==
  ASSUME NEW n \in Nat \ {0}, NEW a \in 0 .. n - 1
  PROVE  (a + 1) % n = Round(a, n)
<1>1. CASE a + 1 = n
  BY <1>1, ModFact DEF Round
<1>2. CASE a + 1 # n
  <2>1. a + 1 \in 0 .. n - 1
    BY <1>2
  <2> QED  BY <1>2, <2>1, ModFact DEF Round
<1> QED  BY <1>1, <1>2

LEMMA RunFact ==
  ASSUME NEW n \in Nat \ {0}, NEW a \in 0 .. n - 1, NEW b \in 0 .. n - 1
  PROVE  /\ Run(a, b, n) \subseteq 0 .. n - 1 /\ b \notin Run(a, b, n)
         /\ Run(a, a, n) = {}
         /\ \A c \in 0 .. n - 1 : c = b \/ c \in Run(a, b, n) \/ b \in Run(a, c, n)
         /\ Round(b, n) \in 0 .. n - 1
         /\ Run(a, Round(b, n), n) \subseteq Run(a, b, n) \cup {b}
BY DEF Run, Round

(* Whoever comes round to a has passed the rest.                           *)
LEMMA RingFact ==
  ASSUME NEW n \in Nat \ {0}, NEW a \in 0 .. n - 1, NEW b \in 0 .. n - 1, Round(b, n) = a
  PROVE  \A c \in 0 .. n - 1 : c = a \/ c = b \/ c \in Run(Round(a, n), b, n)
BY DEF Run, Round

(* The first bucket that is not set, if there is one.                      *)
LEMMA SpotFact ==
  ASSUME NEW n \in Nat \ {0}, NEW a \in 0 .. n - 1, NEW t,
         NEW e \in 0 .. n - 1, ~t[(a + e) % n].set
  PROVE  \E d \in 0 .. e : /\ Spot(t, a, n) = (a + d) % n
                          /\ ~t[(a + d) % n].set
                          /\ \A c \in 0 .. d - 1 : t[(a + c) % n].set
<1> DEFINE D == {d \in 0 .. n - 1 : ~t[(a + d) % n].set}
<1>1. D \in SUBSET Nat /\ e \in D
  OBVIOUS
<1>2. PICK d \in D : \A c \in D : d <= c
  <2> HIDE DEF D
  <2> QED  BY <1>1, LeastNumber
<1>3. Min(D) = d
  <2>1. \A c \in D : (\A x \in D : c <= x) => c = d
    BY <1>2
  <2> HIDE DEF D
  <2> QED  BY <1>2, <2>1 DEF Min
<1>4. Spot(t, a, n) = (a + d) % n
  BY <1>3 DEF Spot
<1>5. d \in 0 .. e /\ ~t[(a + d) % n].set
  BY <1>1, <1>2
<1>6. ASSUME NEW c \in 0 .. d - 1 PROVE t[(a + c) % n].set
  <2>1. c \in 0 .. n - 1 /\ ~(d <= c)
    BY <1>2
  <2>2. c \notin D
    BY <1>2, <2>1
  <2> QED  BY <2>1, <2>2
<1> QED  BY <1>4, <1>5, <1>6

(* A circle of n buckets is met from anywhere.                             *)
LEMMA CircleFact ==
  ASSUME NEW n \in Nat \ {0}, NEW a \in 0 .. n - 1
  PROVE  /\ \A c \in 0 .. n - 1 : \E d \in 0 .. n - 1 : c = (a + d) % n
         /\ \A d \in 0 .. n - 1 : /\ (a + d) % n \in 0 .. n - 1
                                  /\ \A c \in Run(a, (a + d) % n, n) : \E x \in 0 .. d - 1 : c = (a + x) % n
<1>1. \A d \in 0 .. n - 1 : (a + d) % n = IF a + d < n THEN a + d ELSE a + d - n
  <2> SUFFICES ASSUME NEW d \in 0 .. n - 1
               PROVE (a + d) % n = IF a + d < n THEN a + d ELSE a + d - n
    OBVIOUS
  <2>1. CASE a + d < n
    <3>1. a + d \in 0 .. n - 1
      BY <2>1
    <3> QED  BY <2>1, <3>1, ModFact
  <2>2. CASE ~(a + d < n)
    <3>1. PICK x : x = a + d
      OBVIOUS
    <3>2. x \in n .. 2 * n - 1
      BY <2>2, <3>1
    <3>3. x % n = x - n
      BY <3>2, ModFact
    <3> QED  BY <2>2, <3>1, <3>3
  <2> QED  BY <2>1, <2>2
<1>2. ASSUME NEW c \in 0 .. n - 1 PROVE \E d \in 0 .. n - 1 : c = (a + d) % n
  <2>1. CASE a <= c
    <3>1. c - a \in 0 .. n - 1 /\ a + (c - a) < n /\ a + (c - a) = c
      BY <2>1
    <3> QED  BY <3>1, <1>1
  <2>2. CASE ~(a <= c)
    <3>1. c - a + n \in 0 .. n - 1 /\ ~(a + (c - a + n) < n) /\ a + (c - a + n) - n = c
      BY <2>2
    <3> QED  BY <3>1, <1>1
  <2> QED  BY <2>1, <2>2
<1>3. ASSUME NEW d \in 0 .. n - 1
      PROVE  /\ (a + d) % n \in 0 .. n - 1
             /\ \A c \in Run(a, (a + d) % n, n) : \E x \in 0 .. d - 1 : c = (a + x) % n
  <2>1. PICK b : b = (a + d) % n /\ b = IF a + d < n THEN a + d ELSE a + d - n
    BY <1>1
  <2>2. b \in 0 .. n - 1
    BY <2>1
  <2>3. ASSUME NEW c \in Run(a, b, n) PROVE \E x \in 0 .. d - 1 : c = (a + x) % n
    <3>1. c \in 0 .. n - 1
      BY <2>2, RunFact
    <3>2. PICK x : x = IF a <= c THEN c - a ELSE c - a + n
      OBVIOUS
    <3>3. x \in 0 .. d - 1 /\ c = IF a + x < n THEN a + x ELSE a + x - n
      BY <2>1, <3>1, <3>2 DEF Run
    <3>4. x \in 0 .. n - 1
      BY <3>3
    <3> QED  BY <3>3, <3>4, <1>1
  <2> QED  BY <2>1, <2>2, <2>3
<1> QED  BY <1>2, <1>3

-----------------------------------------------------------------------------
(* Tables.                                                                 *)

Slots == [set : BOOLEAN, deleted : BOOLEAN, key : Nat \cup {Missing}, val : Vals \cup {Missing}]
LiveIn(t, n) == {b \in 0 .. n - 1 : Live(t[b])}
With(t, n, k) == {b \in LiveIn(t, n) : t[b].key = k}

(* A table of n buckets that a search for any key of h finds its way in:   *)
(* where an entry is, a search for its key has passed nothing but buckets  *)
(* that are set; keys that may be removed are nowhere but where they are   *)
(* sought first.                                                           *)
Good(h, t, n) ==
  /\ n \in Nat \ {0} /\ t \in [0 .. n -> Slots] /\ t[n] \in {Zero, Junk}
  /\ \A b \in 0 .. n - 1 : IF t[b].set THEN t[b].key \in DOMAIN h /\ t[b].val \in Vals
                                       ELSE t[b] = Zero
  /\ \A b \in LiveIn(t, n) : \A c \in Run(h[t[b].key] % n, b, n) : t[c].set
  /\ \A b, c \in LiveIn(t, n) : t[b].key = t[c].key => b = c
  /\ h \notin Removes => \A b \in 0 .. n - 1 : ~t[b].deleted
  /\ h \in Removes => \A b \in 0 .. n - 1 : t[b].set => b = h[t[b].key] % n

(* h is a hash of a program. *)
Hash(h) == h \in {s.hash : s \in Starts}

LEMMA HashFact ==
  ASSUME NEW h, Hash(h)
  PROVE  /\ DOMAIN h \subseteq Keys /\ DOMAIN h \subseteq Nat /\ Missing \notin Nat
         /\ \A k \in DOMAIN h : h[k] \in Nat
         /\ \A n \in Nat \ {0} : \A k \in DOMAIN h : h[k] % n \in 0 .. n - 1
<1>1. PICK s \in Starts : h = s.hash
  BY DEF Hash
<1>2. DOMAIN h \subseteq Keys /\ \A k \in DOMAIN h : h[k] \in Nat
  BY <1>1, HMapAssumption
<1>3. DOMAIN h \subseteq Nat /\ Missing \notin Nat
  BY <1>2, HMapAssumption
<1> QED  BY <1>2, <1>3, ModFact

Placed(t, b, k, v) == [t EXCEPT ![b] = Entry(k, v)]

(* An entry is put in a bucket without one, which a search for its key     *)
(* comes to.                                                               *)
LEMMA PlaceGood ==
  ASSUME NEW h, Hash(h), NEW t, NEW n, Good(h, t, n),
         NEW k \in DOMAIN h, NEW v \in Vals, With(t, n, k) = {},
         NEW b \in 0 .. n - 1, ~Live(t[b]),
         \A c \in Run(h[k] % n, b, n) : t[c].set,
         h \in Removes => b = h[k] % n,
         NEW u, u = Placed(t, b, k, v)
  PROVE  /\ Good(h, u, n) /\ LiveIn(u, n) = LiveIn(t, n) \cup {b}
         /\ With(u, n, k) = {b} /\ \A j : j # k => With(u, n, j) = With(t, n, j)
         /\ \A c \in 0 .. n : c # b => u[c] = t[c]
         /\ u[b] = Entry(k, v)
<1> DEFINE e == Entry(k, v)
<1>1. /\ n \in Nat \ {0} /\ t \in [0 .. n -> Slots] /\ t[n] \in {Zero, Junk} /\ b \in 0 .. n /\ b # n
      /\ k \in Nat
  BY HashFact DEF Good
<1>2. e \in Slots /\ e.set /\ ~e.deleted /\ e.key = k /\ e.val = v /\ Live(e)
  BY <1>1 DEF Entry, Slots, Live
<1> HIDE DEF e
<1>3. u = [t EXCEPT ![b] = e]
  BY DEF e, Placed
<1>4. /\ u \in [0 .. n -> Slots] /\ u[b] = e /\ u[n] = t[n]
      /\ \A c \in 0 .. n : c # b => u[c] = t[c]
  BY <1>1, <1>2, <1>3
<1>5. LiveIn(u, n) = LiveIn(t, n) \cup {b}
  BY <1>1, <1>2, <1>4 DEF LiveIn
<1>6. With(u, n, k) = {b} /\ \A j : j # k => With(u, n, j) = With(t, n, j)
  BY <1>1, <1>2, <1>4, <1>5 DEF With, LiveIn
<1>7. \A c \in 0 .. n - 1 : IF u[c].set THEN u[c].key \in DOMAIN h /\ u[c].val \in Vals
                                       ELSE u[c] = Zero
  BY <1>1, <1>2, <1>4 DEF Good
<1>8. ASSUME NEW c \in LiveIn(u, n) PROVE \A d \in Run(h[u[c].key] % n, c, n) : u[d].set
  <2>1. \A d \in 0 .. n - 1 : t[d].set => u[d].set
    BY <1>1, <1>2, <1>4
  <2>2. h[u[c].key] % n \in 0 .. n - 1 /\ c \in 0 .. n - 1
    BY <1>1, <1>7, <1>8, HashFact DEF LiveIn, Live
  <2>3. Run(h[u[c].key] % n, c, n) \subseteq 0 .. n - 1
    BY <1>1, <2>2, RunFact
  <2>4. CASE c = b
    BY <2>1, <2>3, <2>4, <1>2, <1>4
  <2>5. CASE c # b
    <3>1. c \in LiveIn(t, n) /\ u[c] = t[c]
      BY <2>5, <1>1, <1>4, <1>5 DEF LiveIn
    <3>2. \A d \in Run(h[u[c].key] % n, c, n) : t[d].set
      BY <3>1 DEF Good
    <3> QED  BY <3>2, <2>1, <2>3
  <2> QED  BY <2>4, <2>5
<1>9. \A c, d \in LiveIn(u, n) : u[c].key = u[d].key => c = d
  <2> SUFFICES ASSUME NEW c \in LiveIn(u, n), NEW d \in LiveIn(u, n), u[c].key = u[d].key
               PROVE  c = d
    OBVIOUS
  <2>1. CASE u[c].key = k
    <3>1. c \in With(u, n, k) /\ d \in With(u, n, k)
      BY <2>1 DEF With
    <3> QED  BY <3>1, <1>6
  <2>2. CASE u[c].key # k
    <3>1. c # b /\ d # b
      BY <2>2, <1>2, <1>4
    <3>2. c \in LiveIn(t, n) /\ d \in LiveIn(t, n) /\ u[c] = t[c] /\ u[d] = t[d]
      BY <3>1, <1>1, <1>4, <1>5 DEF LiveIn
    <3> QED  BY <3>2 DEF Good
  <2> QED  BY <2>1, <2>2
<1>10. h \notin Removes => \A c \in 0 .. n - 1 : ~u[c].deleted
  BY <1>1, <1>2, <1>4 DEF Good
<1>11. h \in Removes => \A c \in 0 .. n - 1 : u[c].set => c = h[u[c].key] % n
  BY <1>1, <1>2, <1>4 DEF Good
<1>12. Good(h, u, n)
  BY <1>1, <1>4, <1>7, <1>8, <1>9, <1>10, <1>11 DEF Good
<1> QED  BY <1>4, <1>5, <1>6, <1>12 DEF e

-----------------------------------------------------------------------------
(* Tables as they are made.                                                *)

Fresh(t, n) == \A b \in 0 .. n - 1 : ~t[b].deleted

LEMMA BlankFact ==
  ASSUME NEW h, Hash(h), NEW n \in Nat \ {0}, NEW past \in {Zero, Junk}
  PROVE  /\ Good(h, Blank(n, past), n) /\ Fresh(Blank(n, past), n) /\ LiveIn(Blank(n, past), n) = {}
<1> DEFINE t == Blank(n, past)
<1>1. Zero \in Slots /\ Junk \in Slots /\ ~Zero.set /\ ~Zero.deleted
  BY HMapAssumption DEF Zero, Junk, Slots
<1>2. n \in 0 .. n /\ \A b \in 0 .. n - 1 : b \in 0 .. n /\ b # n
  OBVIOUS
<1>3. t \in [0 .. n -> Slots] /\ t[n] = past /\ \A b \in 0 .. n - 1 : t[b] = Zero
  BY <1>1, <1>2 DEF Blank
<1> HIDE DEF t
<1>4. LiveIn(t, n) = {}
  BY <1>1, <1>3 DEF LiveIn, Live
<1>5. Good(h, t, n) /\ Fresh(t, n)
  BY <1>1, <1>3, <1>4 DEF Good, Fresh
<1> QED  BY <1>4, <1>5 DEF t

LEMMA LiveFinite ==
  ASSUME NEW n \in Nat, NEW t
  PROVE  IsFiniteSet(LiveIn(t, n)) /\ Cardinality(LiveIn(t, n)) \in Nat
         /\ Cardinality(LiveIn(t, n)) <= n
<1>1. LiveIn(t, n) \in SUBSET (0 .. n - 1) /\ n - 1 \in Int
  BY DEF LiveIn
<1>2. IsFiniteSet(0 .. n - 1) /\ Cardinality(0 .. n - 1) = n
  BY <1>1, FS_Interval
<1> QED  BY <1>1, <1>2, FS_Subset, FS_CardinalityType

(* dict_lit_ctor finds a bucket for a key that is not there yet.           *)
LEMMA SpotGood ==
  ASSUME NEW h, Hash(h), NEW t, NEW n, Good(h, t, n), Fresh(t, n),
         NEW k \in DOMAIN h, With(t, n, k) = {}, Cardinality(LiveIn(t, n)) < n,
         h \in Removes => Perfect(h, n)
  PROVE  LET s == Spot(t, h[k] % n, n)
         IN  /\ s \in 0 .. n - 1 /\ ~Live(t[s])
             /\ \A c \in Run(h[k] % n, s, n) : t[c].set
             /\ h \in Removes => s = h[k] % n
<1>1. PICK a : a = h[k] % n /\ a \in 0 .. n - 1 /\ n \in Nat \ {0}
  BY HashFact DEF Good
<1>10. (a + 0) % n = a
  BY <1>1, ModFact
<1>2. \E e \in 0 .. n - 1 : ~t[(a + e) % n].set /\ (h \in Removes => e = 0)
  <2>1. CASE h \in Removes
    <3>2. ASSUME t[a].set PROVE FALSE
      <4>1. Live(t[a]) /\ t[a].key \in DOMAIN h /\ h[t[a].key] % n = a
        BY <1>1, <2>1, <3>2 DEF Good, Fresh, Live
      <4>2. t[a].key = k
        BY <1>1, <2>1, <4>1 DEF Perfect
      <4> QED  BY <1>1, <4>1, <4>2 DEF With, LiveIn
    <3>3. 0 \in 0 .. n - 1 /\ ~t[(a + 0) % n].set
      BY <1>1, <1>10, <3>2
    <3> QED  BY <3>3
  <2>2. CASE h \notin Removes
    <3>1. ASSUME \A c \in 0 .. n - 1 : t[c].set PROVE FALSE
      <4>1. LiveIn(t, n) = 0 .. n - 1
        BY <3>1 DEF LiveIn, Live, Fresh
      <4>2. Cardinality(0 .. n - 1) = n
        BY <1>1, FS_Interval
      <4> QED  BY <4>1, <4>2, <1>1
    <3>2. PICK c \in 0 .. n - 1 : ~t[c].set
      BY <3>1
    <3>3. PICK e \in 0 .. n - 1 : c = (a + e) % n
      BY <1>1, CircleFact
    <3> QED  BY <2>2, <3>2, <3>3
  <2> QED  BY <2>1, <2>2
<1>3. PICK e \in 0 .. n - 1 : ~t[(a + e) % n].set /\ (h \in Removes => e = 0)
  BY <1>2
<1>4. PICK d \in 0 .. e : /\ Spot(t, a, n) = (a + d) % n
                        /\ ~t[(a + d) % n].set
                        /\ \A c \in 0 .. d - 1 : t[(a + c) % n].set
  BY <1>1, <1>3, SpotFact
<1>5. PICK s : s = Spot(t, a, n)
  OBVIOUS
<1>6. d \in 0 .. n - 1 /\ (h \in Removes => d = 0)
  <2>1. d \in Nat /\ d <= e /\ e <= n - 1 /\ n \in Nat
    BY <1>1, <1>3, <1>4
  <2>2. h \in Removes => e = 0
    BY <1>3
  <2> QED  BY <2>1, <2>2
<1>7. s \in 0 .. n - 1 /\ \A c \in Run(a, s, n) : \E x \in 0 .. d - 1 : c = (a + x) % n
  <2>1. \A y \in 0 .. n - 1 :
          /\ (a + y) % n \in 0 .. n - 1
          /\ \A c \in Run(a, (a + y) % n, n) : \E x \in 0 .. y - 1 : c = (a + x) % n
    BY <1>1, CircleFact
  <2>2. s = (a + d) % n
    BY <1>4, <1>5
  <2>3. /\ (a + d) % n \in 0 .. n - 1
        /\ \A c \in Run(a, (a + d) % n, n) : \E x \in 0 .. d - 1 : c = (a + x) % n
    BY <2>1, <1>6
  <2> QED  BY <2>2, <2>3
<1>8. \A c \in Run(a, s, n) : t[c].set
  BY <1>4, <1>7
<1>9. h \in Removes => s = a
  <2>3. s = (a + d) % n
    BY <1>4, <1>5
  <2> QED  BY <1>10, <2>3, <1>6
<1> QED  BY <1>1, <1>4, <1>5, <1>7, <1>8, <1>9 DEF Live

(* A literal's capacity leaves a bucket free.                              *)
LEMMA PowersFact ==
  ASSUME NEW x \in 1 .. 255
  PROVE  int2pow2(x) \in Nat \ {0} /\ x < int2pow2(x)
<1>1. \E p \in Powers : x < p /\ p <= 2 * x
  BY DEF Powers
<1>2. int2pow2(x) \in Powers /\ x < int2pow2(x)
  BY <1>1 DEF int2pow2
<1> QED  BY <1>2 DEF Powers

(* What a literal's table holds after its first i keys.                    *)
Made(h, ks, n, t, i) ==
  /\ Good(h, t, n) /\ Fresh(t, n) /\ Cardinality(LiveIn(t, n)) = i
  /\ \A k : With(t, n, k) # {} <=> \E j \in 1 .. i : k = ks[j]
  /\ \A b \in LiveIn(t, n) : t[b].val = 0
Added(h, ks, n, t, i) == Placed(t, Spot(t, h[ks[i]] % n, n), ks[i], 0)

LEMMA AddedFact ==
  ASSUME NEW h, Hash(h), NEW ks \in Seq(DOMAIN h), IsInjective(ks),
         NEW n \in Nat, Len(ks) < n, h \in Removes => Perfect(h, n),
         NEW i \in 1 .. Len(ks), NEW t, Made(h, ks, n, t, i - 1)
  PROVE  Made(h, ks, n, Added(h, ks, n, t, i), i)
<1>1. PICK k \in DOMAIN h : k = ks[i]
  OBVIOUS
<1>2. \A j \in 1 .. i - 1 : ks[j] # k
  BY <1>1 DEF IsInjective
<1>3. With(t, n, k) = {} /\ Good(h, t, n) /\ Fresh(t, n) /\ Cardinality(LiveIn(t, n)) < n
  BY <1>2 DEF Made
<1>4. PICK s : s = Spot(t, h[k] % n, n)
  OBVIOUS
<1>5. /\ s \in 0 .. n - 1 /\ ~Live(t[s])
      /\ \A c \in Run(h[k] % n, s, n) : t[c].set
      /\ h \in Removes => s = h[k] % n
  BY <1>3, <1>4, SpotGood
<1>6. PICK u : u = Placed(t, s, k, 0)
  OBVIOUS
<1>7. /\ Good(h, u, n) /\ LiveIn(u, n) = LiveIn(t, n) \cup {s}
      /\ With(u, n, k) = {s} /\ \A j : j # k => With(u, n, j) = With(t, n, j)
      /\ \A c \in 0 .. n : c # s => u[c] = t[c]
      /\ u[s] = Entry(k, 0)
  <2>1. PICK v \in Vals : v = 0
    BY HMapAssumption
  <2>2. u = Placed(t, s, k, v)
    BY <1>6, <2>1
  <2>3. /\ Good(h, u, n) /\ LiveIn(u, n) = LiveIn(t, n) \cup {s}
        /\ With(u, n, k) = {s} /\ \A j : j # k => With(u, n, j) = With(t, n, j)
        /\ \A c \in 0 .. n : c # s => u[c] = t[c]
        /\ u[s] = Entry(k, v)
    BY <1>3, <1>5, <2>2, PlaceGood
  <2> QED  BY <2>1, <2>3
<1>8. Added(h, ks, n, t, i) = u
  BY <1>1, <1>4, <1>6 DEF Added
<1>9. Cardinality(LiveIn(u, n)) = i
  <2>1. s \notin LiveIn(t, n) /\ Cardinality(LiveIn(t, n)) = i - 1
    BY <1>5 DEF LiveIn, Made
  <2>2. IsFiniteSet(LiveIn(t, n))
    BY LiveFinite
  <2>3. Cardinality(LiveIn(t, n) \cup {s}) = Cardinality(LiveIn(t, n)) + 1
    BY <2>1, <2>2, FS_AddElement
  <2> QED  BY <1>7, <2>1, <2>3
<1>10. Fresh(u, n)
  <2>1. \A c \in 0 .. n - 1 : c \in 0 .. n
    OBVIOUS
  <2> QED  BY <2>1, <1>3, <1>7 DEF Fresh, Entry
<1>11. \A j : With(u, n, j) # {} <=> \E x \in 1 .. i : j = ks[x]
  <2>1. \A j : (\E x \in 1 .. i : j = ks[x]) <=> (j = k \/ \E x \in 1 .. i - 1 : j = ks[x])
    BY <1>1
  <2> QED  BY <2>1, <1>7 DEF Made
<1>12. \A b \in LiveIn(u, n) : u[b].val = 0
  <2>1. \A b \in LiveIn(t, n) : b \in 0 .. n /\ t[b].val = 0
    BY DEF LiveIn, Made
  <2> QED  BY <2>1, <1>7 DEF Entry
<1> QED  BY <1>7, <1>8, <1>9, <1>10, <1>11, <1>12 DEF Made

(* The table of a literal, by induction on its keys.                       *)
LEMMA LiteralFact ==
  ASSUME NEW h, Hash(h), NEW ks \in Seq(DOMAIN h), IsInjective(ks),
         NEW n, n = int2pow2(Len(ks)), n \in Nat \ {0}, Len(ks) < n,
         h \in Removes => Perfect(h, n), NEW past \in {Zero, Junk}
  PROVE  Made(h, ks, n, dict_lit_ctor(h, ks, past), Len(ks))
<1>1. PICK L \in Nat : L = Len(ks)
  OBVIOUS
<1> DEFINE F(g, i) == IF i = 0 THEN Blank(n, past) ELSE Added(h, ks, n, g[i - 1], i)
           Is(g, m) == g = [i \in 0 .. m |-> F(g, i)]
           Bad == {m \in Nat : \A g : ~Is(g, m)}
<1>2. Bad = {}
  <2>1. SUFFICES ASSUME Bad # {} PROVE FALSE
    OBVIOUS
  <2>2. PICK m \in Bad : \A x \in Bad : m <= x
    <3>1. Bad \in SUBSET Nat
      OBVIOUS
    <3> HIDE DEF Bad
    <3> QED  BY <2>1, <3>1, LeastNumber
  <2>3. CASE m = 0
    <3> DEFINE g == [i \in 0 .. 0 |-> Blank(n, past)]
    <3>1. \A i \in 0 .. 0 : F(g, i) = Blank(n, past)
      OBVIOUS
    <3>2. Is(g, 0)
      <4> HIDE DEF F
      <4> QED  BY <3>1
    <3> QED  BY <3>2, <2>2, <2>3
  <2>4. CASE m # 0
    <3>1. m - 1 \in Nat /\ ~(m <= m - 1)
      BY <2>4
    <3>2. m - 1 \notin Bad
      <4> HIDE DEF Bad
      <4> QED  BY <3>1, <2>2
    <3>3. PICK g : Is(g, m - 1)
      BY <3>1, <3>2
    <3> DEFINE f == [i \in 0 .. m |-> F(g, i)]
    <3>4. \A i \in 0 .. m - 1 : f[i] = g[i]
      <4> HIDE DEF F
      <4> QED  BY <3>3
    <3>5. ASSUME NEW i \in 0 .. m PROVE F(f, i) = F(g, i)
      <4>1. i # 0 => i - 1 \in 0 .. m - 1
        OBVIOUS
      <4> HIDE DEF f
      <4> QED  BY <4>1, <3>4
    <3>6. Is(f, m)
      <4> HIDE DEF F
      <4> QED  BY <3>5
    <3> QED  BY <3>6, <2>2
  <2> QED  BY <2>3, <2>4
<1> DEFINE g == CHOOSE g : Is(g, L)
<1>3. Is(g, L)
  <2>1. \E f : Is(f, L)
    BY <1>1, <1>2
  <2> HIDE DEF Is
  <2> QED  BY <2>1
<1>4. dict_lit_ctor(h, ks, past) = g[L]
  BY <1>1 DEF dict_lit_ctor, Added, Placed
<1> HIDE DEF g, Bad
<1>5. g[0] = Blank(n, past) /\ \A i \in 1 .. L : g[i] = Added(h, ks, n, g[i - 1], i)
  <2>1. \A i \in 0 .. L : g[i] = F(g, i)
    <3> HIDE DEF F
    <3> QED  BY <1>3
  <2>2. 0 \in 0 .. L /\ \A i \in 1 .. L : i \in 0 .. L /\ i # 0
    BY <1>1
  <2> QED  BY <2>1, <2>2
<1> DEFINE D == {i \in 0 .. L : ~Made(h, ks, n, g[i], i)}
<1>6. D = {}
  <2>1. SUFFICES ASSUME D # {} PROVE FALSE
    OBVIOUS
  <2>2. PICK i \in D : \A j \in D : i <= j
    <3>1. D \in SUBSET Nat
      OBVIOUS
    <3> HIDE DEF D
    <3> QED  BY <2>1, <3>1, LeastNumber
  <2>3. CASE i = 0
    <3>1. Made(h, ks, n, Blank(n, past), 0)
      <4>1. 1 .. 0 = {}
        OBVIOUS
      <4> QED  BY <4>1, BlankFact, FS_EmptySet DEF Made, With
    <3> QED  BY <3>1, <2>2, <2>3, <1>5
  <2>4. CASE i # 0
    <3>1. i - 1 \in 0 .. L /\ ~(i <= i - 1) /\ i \in 1 .. L
      BY <2>4
    <3>2. i - 1 \notin D
      <4> HIDE DEF D
      <4> QED  BY <3>1, <2>2
    <3>3. Made(h, ks, n, g[i - 1], i - 1)
      BY <3>1, <3>2
    <3>4. Made(h, ks, n, Added(h, ks, n, g[i - 1], i), i)
      BY <3>1, <3>3, <1>1, AddedFact
    <3> QED  BY <3>1, <3>4, <2>2, <1>5
  <2> QED  BY <2>3, <2>4
<1> QED  BY <1>1, <1>4, <1>6
-----------------------------------------------------------------------------
(* Searches.                                                               *)

(* A search for k has passed entries of other keys only, up to b.          *)
Seeks(h, t, n, k, b) == \A c \in Run(h[k] % n, b, n) : Live(t[c]) /\ t[c].key # k

(* A bucket that is not set ends a search: there is no entry behind it.    *)
LEMMA SearchEnds ==
  ASSUME NEW h, Hash(h), NEW t, NEW n, Good(h, t, n),
         NEW k \in DOMAIN h, NEW b \in 0 .. n - 1, Seeks(h, t, n, k, b), ~t[b].set
  PROVE  With(t, n, k) = {}
<1>1. n \in Nat \ {0} /\ h[k] % n \in 0 .. n - 1
  BY HashFact DEF Good
<1>2. SUFFICES ASSUME NEW c \in With(t, n, k) PROVE FALSE
  OBVIOUS
<1>3. c \in LiveIn(t, n) /\ c \in 0 .. n - 1 /\ t[c].set /\ t[c].key = k
  BY DEF With, LiveIn, Live
<1>4. \A d \in Run(h[k] % n, c, n) : t[d].set
  BY <1>3 DEF Good
<1>5. c = b \/ c \in Run(h[k] % n, b, n) \/ b \in Run(h[k] % n, c, n)
  BY <1>1, <1>3, RunFact
<1> QED  BY <1>3, <1>4, <1>5 DEF Seeks

(* A search starts with nothing passed, and goes on by a bucket.           *)
LEMMA SeeksStart ==
  ASSUME NEW h, Hash(h), NEW t, NEW n \in Nat \ {0}, NEW k \in DOMAIN h
  PROVE  Seeks(h, t, n, k, h[k] % n)
<1>1. h[k] % n \in 0 .. n - 1
  BY HashFact
<1>2. Run(h[k] % n, h[k] % n, n) = {}
  BY <1>1, RunFact
<1> QED  BY <1>2 DEF Seeks

LEMMA SeeksNext ==
  ASSUME NEW h, Hash(h), NEW t, NEW n \in Nat \ {0}, NEW k \in DOMAIN h,
         NEW b \in 0 .. n - 1, Seeks(h, t, n, k, b), Live(t[b]), t[b].key # k
  PROVE  Seeks(h, t, n, k, (b + 1) % n)
<1>1. h[k] % n \in 0 .. n - 1 /\ (b + 1) % n = Round(b, n)
  BY HashFact, NextFact
<1>2. Run(h[k] % n, Round(b, n), n) \subseteq Run(h[k] % n, b, n) \cup {b}
  BY <1>1, RunFact
<1> QED  BY <1>1, <1>2 DEF Seeks

(* Where keys are removed, what is set is where its key is sought first,   *)
(* and a search does not come round to where it began.                     *)
LEMMA HomeFact ==
  ASSUME NEW h, Hash(h), NEW t, NEW n, Good(h, t, n), h \in Removes, Perfect(h, n),
         0 \notin DOMAIN h, NEW k \in DOMAIN h, NEW a, a = h[k] % n
  PROVE  /\ a \in 0 .. n - 1 /\ n > 2
         /\ \A b \in 0 .. n - 1 : t[b].set => (t[b].key = k <=> b = a)
         /\ a + 1 \in 0 .. n /\ t[a + 1].key # k
         /\ \A b \in 0 .. n - 1 :
              t[b].set /\ (\A c \in Run(Round(a, n), b, n) : c = Round(a, n) \/ t[c].set)
                => Round(b, n) # a
<1>1. a \in 0 .. n - 1 /\ n \in Nat \ {0} /\ k # 0 /\ k # Missing
  BY HashFact DEF Good
<1>2. \A b \in 0 .. n - 1 : t[b].set => t[b].key \in DOMAIN h /\ b = h[t[b].key] % n
  BY DEF Good
<1>3. PICK x, y \in 0 .. n - 1 : x # y /\ \A j \in DOMAIN h : h[j] % n \notin {x, y}
  BY DEF Perfect
<1>4. x # a /\ y # a /\ ~t[x].set /\ ~t[y].set
  BY <1>2, <1>3
<1>5. n > 2
  BY <1>1, <1>3, <1>4
<1>6. \A b \in 0 .. n - 1 : t[b].set => (t[b].key = k <=> b = a)
  BY <1>2 DEF Perfect
<1>7. a + 1 \in 0 .. n /\ t[a + 1].key # k
  <2>1. CASE a + 1 = n
    <3>1. t[a + 1] \in {Zero, Junk}
      BY <2>1 DEF Good
    <3> QED  BY <2>1, <3>1, <1>1 DEF Zero, Junk
  <2>2. CASE a + 1 # n
    <3>1. a + 1 \in 0 .. n - 1 /\ a + 1 \in 0 .. n /\ a + 1 # a
      BY <2>2, <1>1
    <3>2. ~t[a + 1].set => t[a + 1].key = 0
      BY <3>1 DEF Good, Zero
    <3> QED  BY <3>1, <3>2, <1>1, <1>6
  <2> QED  BY <2>1, <2>2
<1>8. ASSUME NEW b \in 0 .. n - 1, t[b].set,
             \A c \in Run(Round(a, n), b, n) : c = Round(a, n) \/ t[c].set
      PROVE  Round(b, n) # a
  <2>1. SUFFICES ASSUME Round(b, n) = a PROVE FALSE
    OBVIOUS
  <2>2. \A c \in 0 .. n - 1 : c = a \/ c = b \/ c \in Run(Round(a, n), b, n)
    BY <2>1, <1>1, RingFact
  <2>3. x = Round(a, n) /\ y = Round(a, n)
    BY <2>2, <1>3, <1>4, <1>8
  <2> QED  BY <2>3, <1>3
<1> QED  BY <1>1, <1>5, <1>6, <1>7, <1>8

-----------------------------------------------------------------------------
(* Changes of an entry.                                                    *)

Marked(t, b) == [t EXCEPT ![b].deleted = TRUE]
Valued(t, b, v) == [t EXCEPT ![b].val = v]

LEMMA DeleteGood ==
  ASSUME NEW h, Hash(h), NEW t, NEW n, Good(h, t, n), h \in Removes,
         NEW b \in LiveIn(t, n), NEW u, u = Marked(t, b)
  PROVE  /\ Good(h, u, n) /\ LiveIn(u, n) = LiveIn(t, n) \ {b}
         /\ \A c \in LiveIn(u, n) : u[c] = t[c]
<1>1. PICK e : e = [t[b] EXCEPT !.deleted = TRUE]
  OBVIOUS
<1>2. n \in Nat \ {0} /\ t \in [0 .. n -> Slots] /\ b \in 0 .. n /\ b \in 0 .. n - 1 /\ b # n
  BY DEF Good, LiveIn
<1>3. t[b] \in Slots /\ t[b].set
  BY <1>2 DEF LiveIn, Live
<1>4. e \in Slots /\ e.set = t[b].set /\ e.deleted /\ e.key = t[b].key /\ e.val = t[b].val
  BY <1>1, <1>3 DEF Slots
<1>5. u = [t EXCEPT ![b] = e]
  BY <1>1, <1>2 DEF Marked
<1>6. u \in [0 .. n -> Slots] /\ u[b] = e /\ u[n] = t[n] /\ \A c \in 0 .. n : c # b => u[c] = t[c]
  BY <1>2, <1>4, <1>5
<1>7. LiveIn(u, n) = LiveIn(t, n) \ {b}
  BY <1>2, <1>4, <1>6 DEF LiveIn, Live
<1>8. \A c \in 0 .. n - 1 : /\ u[c].set = t[c].set /\ u[c].key = t[c].key /\ u[c].val = t[c].val
                            /\ c \in 0 .. n /\ (~t[c].set => u[c] = t[c])
  <2>1. \A c \in 0 .. n - 1 : c \in 0 .. n
    BY <1>2
  <2>2. \A c \in 0 .. n - 1 : c # b => u[c] = t[c]
    BY <2>1, <1>6
  <2> QED  BY <1>3, <1>4, <1>6, <2>1, <2>2
<1>9. \A c \in 0 .. n - 1 : IF u[c].set THEN u[c].key \in DOMAIN h /\ u[c].val \in Vals
                                       ELSE u[c] = Zero
  BY <1>8 DEF Good
<1>10. \A c \in LiveIn(u, n) : u[c] = t[c] /\ c \in LiveIn(t, n)
  BY <1>2, <1>6, <1>7 DEF LiveIn
<1>11. ASSUME NEW c \in LiveIn(u, n) PROVE \A d \in Run(h[u[c].key] % n, c, n) : u[d].set
  <2>1. \A d \in Run(h[t[c].key] % n, c, n) : t[d].set
    BY <1>10 DEF Good
  <2>2. h[t[c].key] % n \in 0 .. n - 1 /\ c \in 0 .. n - 1
    BY <1>2, <1>10, HashFact DEF LiveIn, Live, Good
  <2>3. Run(h[t[c].key] % n, c, n) \subseteq 0 .. n - 1
    BY <1>2, <2>2, RunFact
  <2> QED  BY <2>1, <2>3, <1>8, <1>10
<1>12. \A c, d \in LiveIn(u, n) : u[c].key = u[d].key => c = d
  BY <1>10 DEF Good
<1>13. \A c \in 0 .. n - 1 : u[c].set => c = h[u[c].key] % n
  BY <1>8 DEF Good
<1> QED  BY <1>2, <1>6, <1>7, <1>9, <1>10, <1>11, <1>12, <1>13 DEF Good

LEMMA ValGood ==
  ASSUME NEW h, Hash(h), NEW t, NEW n, Good(h, t, n),
         NEW b \in LiveIn(t, n), NEW v \in Vals, NEW u, u = Valued(t, b, v)
  PROVE  /\ Good(h, u, n) /\ LiveIn(u, n) = LiveIn(t, n)
         /\ \A c \in 0 .. n : c # b => u[c] = t[c]
         /\ \A c \in 0 .. n : u[c].key = t[c].key
         /\ u[b].val = v
<1>1. PICK e : e = [t[b] EXCEPT !.val = v]
  OBVIOUS
<1>2. n \in Nat \ {0} /\ t \in [0 .. n -> Slots] /\ b \in 0 .. n /\ b \in 0 .. n - 1 /\ b # n
  BY DEF Good, LiveIn
<1>3. t[b] \in Slots /\ t[b].set
  BY <1>2 DEF LiveIn, Live
<1>4. e \in Slots /\ e.set = t[b].set /\ e.deleted = t[b].deleted /\ e.key = t[b].key /\ e.val = v
  BY <1>1, <1>3 DEF Slots
<1>5. u = [t EXCEPT ![b] = e]
  BY <1>1, <1>2 DEF Valued
<1>6. u \in [0 .. n -> Slots] /\ u[b] = e /\ u[n] = t[n] /\ \A c \in 0 .. n : c # b => u[c] = t[c]
  BY <1>2, <1>4, <1>5
<1>7. \A c \in 0 .. n : /\ u[c].set = t[c].set /\ u[c].key = t[c].key
                        /\ u[c].deleted = t[c].deleted /\ (~t[c].set => u[c] = t[c])
  BY <1>3, <1>4, <1>6
<1>8. \A c \in 0 .. n - 1 : c \in 0 .. n
  BY <1>2
<1>9. LiveIn(u, n) = LiveIn(t, n)
  BY <1>7, <1>8 DEF LiveIn, Live
<1>10. \A c \in 0 .. n - 1 : IF u[c].set THEN u[c].key \in DOMAIN h /\ u[c].val \in Vals
                                        ELSE u[c] = Zero
  BY <1>4, <1>6, <1>7, <1>8 DEF Good
<1>11. ASSUME NEW c \in LiveIn(u, n) PROVE \A d \in Run(h[u[c].key] % n, c, n) : u[d].set
  <2>1. c \in LiveIn(t, n) /\ c \in 0 .. n - 1 /\ u[c].key = t[c].key
    BY <1>7, <1>8, <1>9 DEF LiveIn
  <2>2. \A d \in Run(h[t[c].key] % n, c, n) : t[d].set
    BY <2>1 DEF Good
  <2>3. h[t[c].key] % n \in 0 .. n - 1
    BY <1>2, <2>1, HashFact DEF LiveIn, Live, Good
  <2>4. Run(h[t[c].key] % n, c, n) \subseteq 0 .. n - 1
    BY <1>2, <2>1, <2>3, RunFact
  <2> QED  BY <2>1, <2>2, <2>4, <1>7, <1>8
<1>12. \A c, d \in LiveIn(u, n) : u[c].key = u[d].key => c = d
  <2>1. \A c \in LiveIn(t, n) : c \in 0 .. n
    BY <1>8 DEF LiveIn
  <2> QED  BY <2>1, <1>7, <1>9 DEF Good
<1>13. /\ h \notin Removes => \A c \in 0 .. n - 1 : ~u[c].deleted
       /\ h \in Removes => \A c \in 0 .. n - 1 : u[c].set => c = h[u[c].key] % n
  BY <1>7, <1>8 DEF Good
<1> QED  BY <1>2, <1>4, <1>6, <1>7, <1>9, <1>10, <1>11, <1>12, <1>13 DEF Good
-----------------------------------------------------------------------------
(* Growth.                                                                 *)

LeftIn(o, i) == {b \in 0 .. i - 1 : Live(o[b])}

(* What a table that grows has still to move: entries of what is kept, of  *)
(* keys that the new table does not have.                                  *)
Waits(h, o, i, t, n, kp) ==
  /\ \A b \in LeftIn(o, i) : \E k \in DOMAIN h :
       o[b] = Entry(k, kp[k]) /\ kp[k] \in Vals /\ With(t, n, k) = {}
  /\ \A b, c \in LeftIn(o, i) : o[b].key = o[c].key => b = c

LEMMA MinFact ==
  ASSUME NEW S \in SUBSET Nat, S # {}
  PROVE  Min(S) \in S /\ \A x \in S : Min(S) <= x
<1>1. \E x \in S : \A y \in S : x <= y
  BY LeastNumber
<1> QED  BY <1>1 DEF Min

LEMMA MaxFact ==
  ASSUME NEW i \in Nat, NEW S \in SUBSET (0 .. i - 1), S # {}
  PROVE  Max(S) \in S /\ \A x \in S : x <= Max(S)
<1> DEFINE T == {i - x : x \in S}
<1>1. T \in SUBSET Nat /\ T # {}
  <2>1. \A x \in S : x \in 0 .. i - 1
    OBVIOUS
  <2>2. \A x \in S : i - x \in Nat
    BY <2>1
  <2> QED  BY <2>2
<1>2. PICK m \in T : \A y \in T : m <= y
  <2> HIDE DEF T
  <2> QED  BY <1>1, LeastNumber
<1>3. PICK x \in S : m = i - x
  BY <1>2
<1>4. \A y \in S : x >= y
  BY <1>2, <1>3
<1>5. Max(S) \in S /\ \A y \in S : Max(S) >= y
  BY <1>4 DEF Max
<1> QED  BY <1>5

LEMMA LenFact ==
  ASSUME NEW D, NEW q \in Seq(D), q # <<>>, Len(q) < 256
  PROVE  Len(q) \in 1 .. 255
<1>1. \A l \in Nat : l # 0 /\ l < 256 => l \in 1 .. 255
  OBVIOUS
<1>2. Len(q) \in Nat /\ Len(q) # 0
  OBVIOUS
<1> QED  BY <1>1, <1>2

LEMMA CapFact ==
  ASSUME NEW h, Hash(h)
  PROVE  /\ \A n \in Caps(h) : n \in Nat \ {0}
         /\ \A n \in Caps(h) : h \in Grows /\ 2 * n <= MaxCap => 2 * n \in GrownCaps(h)
<1>1. MaxCap \in Nat /\ MinCap \in Nat \ {0}
  BY HMapAssumption
<1>2. ASSUME NEW n \in FirstCaps(h) PROVE n \in Nat \ {0}
  <2>1. PICK s \in Starts : n = FirstCap(s)
    BY DEF FirstCaps
  <2>2. CASE s.keys = <<>>
    BY <2>1, <2>2, <1>1 DEF FirstCap
  <2>3. CASE s.keys # <<>>
    <3>1. Len(s.keys) \in 1 .. 255
      <4>1. PICK q \in Seq(DOMAIN s.hash) : q = s.keys /\ Len(q) < 256
        BY HMapAssumption
      <4>2. q # <<>>
        BY <4>1, <2>3
      <4>3. Len(q) \in 1 .. 255
        BY <4>1, <4>2, LenFact
      <4> QED  BY <4>1, <4>3
    <3>2. n = int2pow2(Len(s.keys))
      BY <2>1, <2>3 DEF FirstCap
    <3> QED  BY <3>1, <3>2, PowersFact
  <2> QED  BY <2>2, <2>3
<1>3. \A c, m \in Nat \ {0} : m <= m * c /\ m * c \in Nat \ {0}
  <2> SUFFICES ASSUME NEW c \in Nat \ {0}, NEW m \in Nat \ {0}
               PROVE  m <= m * c /\ m * c \in Nat \ {0}
    OBVIOUS
  <2>1. m * c = m * (c - 1) + m /\ m * (c - 1) \in Nat
    OBVIOUS
  <2> QED  BY <2>1
<1>4. ASSUME NEW n \in GrownCaps(h)
      PROVE  n \in Nat \ {0} /\ \E c \in FirstCaps(h), m \in 2 .. MaxCap : n = m * c
  <2>1. PICK c \in FirstCaps(h), m \in 2 .. MaxCap : n = m * c
    BY DEF GrownCaps
  <2>2. c \in Nat \ {0} /\ m \in Nat \ {0}
    BY <1>1, <1>2
  <2> QED  BY <2>1, <2>2, <1>3
<1>5. ASSUME NEW n \in Caps(h), h \in Grows, 2 * n <= MaxCap
      PROVE  2 * n \in GrownCaps(h)
  <2>1. PICK c \in FirstCaps(h), m \in Nat \ {0} : n = m * c /\ n \in Nat \ {0}
    <3>1. CASE n \in FirstCaps(h)
      <4>1. n = 1 * n /\ 1 \in Nat \ {0}
        BY <3>1, <1>2
      <4> QED  BY <3>1, <4>1, <1>2
    <3>2. CASE n \in GrownCaps(h)
      <4>1. PICK c \in FirstCaps(h), m \in 2 .. MaxCap : n = m * c
        BY <3>2, <1>4
      <4>2. m \in Nat \ {0}
        BY <1>1
      <4> QED  BY <3>2, <4>1, <4>2, <1>4
    <3> QED  BY <3>1, <3>2 DEF Caps
  <2>2. c \in Nat \ {0}
    BY <1>2
  <2>3. 2 * n = (2 * m) * c /\ m <= n
    BY <2>1, <2>2, <1>3
  <2>4. 2 * m \in 2 .. MaxCap /\ 2 * n \in 0 .. MaxCap
    BY <2>1, <2>3, <1>5, <1>1
  <2> QED  BY <2>3, <2>4, <1>5 DEF GrownCaps
<1> QED  BY <1>2, <1>4, <1>5 DEF Caps

(* hmap_find finds a bucket for an entry in a table that is roomy, and     *)
(* finds it before the end: fewer are taken than there are keys.           *)
LEMMA SpotRoom ==
  ASSUME NEW h, Hash(h), NEW t, NEW n, Good(h, t, n), h \notin Removes,
         IsFiniteSet(DOMAIN h), Roomy(h, n),
         NEW k \in DOMAIN h, With(t, n, k) = {}
  PROVE  LET s == Spot(t, h[k] % n, n + 1)
         IN  /\ s \in 0 .. n - 1 /\ ~Live(t[s])
             /\ \A c \in Run(h[k] % n, s, n) : t[c].set
<1>1. PICK a : a = h[k] % n /\ a \in 0 .. n - 1 /\ n \in Nat \ {0}
  BY HashFact DEF Good
<1>2. PICK m : m = Cardinality(DOMAIN h)
  OBVIOUS
<1>3. m \in Nat \ {0} /\ a + m <= n
  <2>1. a + m <= n
    BY <1>1, <1>2 DEF Roomy
  <2>2. m \in Nat /\ m # 0
    BY <1>2, FS_CardinalityType, FS_EmptySet
  <2> QED  BY <2>1, <2>2
<1>4. ASSUME \A c \in a .. a + m - 1 : t[c].set PROVE FALSE
  <2> DEFINE S == a .. a + m - 1
             T == DOMAIN h \ {k}
             f == [c \in S |-> t[c].key]
  <2>1. S \subseteq 0 .. n - 1 /\ S \subseteq LiveIn(t, n)
    <3>1. S \subseteq 0 .. n - 1
      BY <1>1, <1>3
    <3> QED  BY <3>1, <1>4 DEF LiveIn, Live, Good
  <2>2. IsFiniteSet(S) /\ Cardinality(S) = m
    <3>1. a \in Int /\ a + m - 1 \in Int /\ ~(a > a + m - 1) /\ (a + m - 1) - a + 1 = m
      BY <1>1, <1>3
    <3> QED  BY <3>1, FS_Interval
  <2>3. IsFiniteSet(T) /\ Cardinality(T) = m - 1
    BY <1>2, FS_RemoveElement
  <2>4. f \in [S -> T]
    <3>1. ASSUME NEW c \in S PROVE t[c].key \in T
      <4>1. c \in LiveIn(t, n) /\ c \in 0 .. n - 1 /\ t[c].set
        BY <2>1, <3>1 DEF LiveIn, Live
      <4>2. t[c].key \in DOMAIN h
        BY <4>1 DEF Good
      <4> QED  BY <4>1, <4>2 DEF With
    <3> QED  BY <3>1
  <2>5. Cardinality(T) < Cardinality(S)
    BY <2>2, <2>3, <1>3
  <2>6. PICK x, y \in S : x # y /\ f[x] = f[y]
    <3> HIDE DEF S, T, f
    <3> QED  BY <2>2, <2>3, <2>4, <2>5, FS_PigeonHole
  <2>7. t[x].key = t[y].key /\ x \in LiveIn(t, n) /\ y \in LiveIn(t, n)
    BY <2>1, <2>6
  <2> QED  BY <2>6, <2>7 DEF Good
<1>5. PICK c \in a .. a + m - 1 : ~t[c].set
  BY <1>4
<1>6. n + 1 \in Nat \ {0} /\ a \in 0 .. (n + 1) - 1
  BY <1>1
<1>7. \A e \in 0 .. m - 1 : (a + e) % (n + 1) = a + e /\ e \in 0 .. (n + 1) - 1
  <2> SUFFICES ASSUME NEW e \in 0 .. m - 1
               PROVE  (a + e) % (n + 1) = a + e /\ e \in 0 .. (n + 1) - 1
    OBVIOUS
  <2>1. a + e \in 0 .. (n + 1) - 1 /\ e \in 0 .. (n + 1) - 1
    BY <1>1, <1>3
  <2> QED  BY <2>1, <1>6, ModFact
<1>8. PICK e \in 0 .. m - 1 : c = a + e
  <2>1. c - a \in 0 .. m - 1 /\ c = a + (c - a)
    BY <1>1, <1>3
  <2> QED  BY <2>1
<1>9. e \in 0 .. (n + 1) - 1 /\ ~t[(a + e) % (n + 1)].set
  <2>1. (a + e) % (n + 1) = c /\ e \in 0 .. (n + 1) - 1
    BY <1>7, <1>8
  <2> QED  BY <2>1, <1>5
<1>10. PICK d \in 0 .. e : /\ Spot(t, a, n + 1) = (a + d) % (n + 1)
                           /\ ~t[(a + d) % (n + 1)].set
                           /\ \A x \in 0 .. d - 1 : t[(a + x) % (n + 1)].set
  BY <1>6, <1>9, SpotFact
<1>11. \A x \in 0 .. d : x \in 0 .. m - 1
  BY <1>3, <1>8, <1>10
<1>12. PICK s : s = a + d /\ s = Spot(t, a, n + 1) /\ ~t[s].set
  <2>1. (a + d) % (n + 1) = a + d
    BY <1>7, <1>11
  <2> QED  BY <1>10, <2>1
<1>13. s \in 0 .. n - 1
  <2>1. d \in 0 .. m - 1 /\ d \in Nat /\ m \in Nat
    BY <1>3, <1>11, <1>10
  <2> QED  BY <2>1, <1>1, <1>3, <1>12
<1>14. ASSUME NEW x \in Run(a, s, n) PROVE t[x].set
  <2>1. x - a \in 0 .. d - 1 /\ x = a + (x - a)
    BY <1>1, <1>12, <1>10, <1>13, <1>14 DEF Run
  <2>2. PICK y \in 0 .. d - 1 : x = a + y
    BY <2>1
  <2>3. y \in 0 .. d
    BY <2>2
  <2>4. (a + y) % (n + 1) = x
    BY <2>2, <2>3, <1>7, <1>11
  <2> QED  BY <2>2, <2>4, <1>10
<1> QED  BY <1>1, <1>12, <1>13, <1>14 DEF Live
(* With a perfect hash it is the first it looks at.                        *)
LEMMA SpotHome ==
  ASSUME NEW h, Hash(h), NEW t, NEW n, Good(h, t, n), h \in Removes, Fresh(t, n),
         Perfect(h, n), NEW k \in DOMAIN h, With(t, n, k) = {}
  PROVE  LET s == Spot(t, h[k] % n, n + 1)
         IN  /\ s \in 0 .. n - 1 /\ ~Live(t[s]) /\ s = h[k] % n
             /\ \A c \in Run(h[k] % n, s, n) : t[c].set
<1>1. PICK a : a = h[k] % n /\ a \in 0 .. n - 1 /\ n \in Nat \ {0}
  BY HashFact DEF Good
<1>2. ~t[a].set
  <2>1. SUFFICES ASSUME t[a].set PROVE FALSE
    OBVIOUS
  <2>2. Live(t[a]) /\ t[a].key \in DOMAIN h /\ h[t[a].key] % n = a
    BY <1>1, <2>1 DEF Good, Fresh, Live
  <2>3. t[a].key = k
    BY <1>1, <2>2 DEF Perfect
  <2> QED  BY <1>1, <2>2, <2>3 DEF With, LiveIn
<1>3. PICK m, e : m = n + 1 /\ m \in Nat \ {0} /\ a \in 0 .. m - 1 /\ e = 0 /\ e \in 0 .. m - 1
  BY <1>1
<1>4. (a + e) % m = a
  <2>1. a % m = a
    BY <1>3, ModFact
  <2>2. a + e = a
    BY <1>3
  <2> QED  BY <2>1, <2>2
<1>5. PICK d \in 0 .. e : /\ Spot(t, a, m) = (a + d) % m
                        /\ ~t[(a + d) % m].set
                        /\ \A c \in 0 .. d - 1 : t[(a + c) % m].set
  <2>1. ~t[(a + e) % m].set
    BY <1>2, <1>4
  <2> QED  BY <2>1, <1>3, SpotFact
<1>6. Spot(t, a, n + 1) = a
  <2>1. d = e
    BY <1>3, <1>5
  <2> QED  BY <2>1, <1>3, <1>4, <1>5
<1>7. Run(a, a, n) = {}
  BY <1>1, RunFact
<1> QED  BY <1>1, <1>2, <1>6, <1>7 DEF Live

-----------------------------------------------------------------------------
(* The invariant.                                                          *)

Home == hash[op.key] % cap
Here == bucket % cap

TypeOK ==
  /\ Hash(hash) /\ cap \in Caps(hash) /\ count \in Nat /\ idx \in Nat
  /\ pc \in {"idle", "lookup", "get", "remove", "grow", "rehash", "probe", "assign", "gone"}
  /\ op \in [kind : {"none", "get", "remove", "put"}, key : Nat, val : Vals]
  /\ bucket \in Nat /\ tomb \in Nat \cup {-1}
  /\ reply \in Vals \cup {Missing}
  /\ kept \in [Keys -> Vals \cup {Missing}]
  /\ cursor \in Nat \cup {-1} /\ due \subseteq Keys

Sound == Good(hash, table, cap)

(* A lookup has passed entries of other keys; or it began at a tombstone   *)
(* of its key, which it noted, and will not find another.                  *)
Looking ==
  pc = "lookup" =>
    /\ op.kind \in {"get", "remove"}
    /\ op.kind = "remove" => hash \in Removes /\ cursor = -1
    /\ IF hash \notin Removes THEN tomb = -1 /\ Seeks(hash, table, cap, op.key, Here)
       ELSE IF tomb = -1 THEN Here = Home
       ELSE /\ table[Home].set /\ table[Home].deleted /\ Here # Home
            /\ \A c \in Run(Round(Home, cap), Here, cap) : c = Round(Home, cap) \/ table[c].set

(* An operation is on a key of the program, and ends at its entry.         *)
Finding ==
  /\ pc # "idle" => op.key \in DOMAIN hash
  /\ pc \in {"get", "remove", "assign"} =>
       bucket \in LiveIn(table, cap) /\ table[bucket].key = op.key
  /\ pc = "get" => tomb = -1
  /\ pc = "remove" => hash \in Removes /\ cursor = -1

Storing ==
  pc = "probe" => IF hash \in Removes THEN Here = Home
                  ELSE Seeks(hash, table, cap, op.key, Here)

Growing ==
  /\ pc \in {"grow", "rehash"} => hash \in Grows /\ cursor = -1 /\ bucket = hash[op.key]
  /\ pc = "grow" => 2 * cap <= MaxCap
  /\ pc = "rehash" => /\ cap \in GrownCaps(hash) /\ Fresh(table, cap)
                      /\ Waits(hash, old, idx, table, cap, kept)

(* The entries are what is kept, with what growth has not moved yet and    *)
(* without what still waits for its value; they are counted.               *)
Contents ==
  /\ \A b \in LiveIn(table, cap) :
       kept[table[b].key] = table[b].val \/ (pc = "assign" /\ b = bucket)
  /\ \A k \in Keys : kept[k] # Missing =>
       \/ With(table, cap, k) # {}
       \/ pc = "rehash" /\ \E b \in LeftIn(old, idx) : old[b].key = k
  /\ count = Cardinality(LiveIn(table, cap))

(* What a foreach loop still has to meet is ahead of it.                   *)
Meeting ==
  IF cursor = -1 THEN due = {}
  ELSE \A k \in due : \E b \in LiveIn(table, cap) : cursor <= b /\ table[b].key = k

IInv ==
  /\ TypeOK
  /\ pc # "gone" =>
       Sound /\ Looking /\ Finding /\ Storing /\ Growing /\ Contents /\ Meeting

-----------------------------------------------------------------------------
(* What the hypothesis says of a hash.                                     *)
LEMMA SpreadFact ==
  ASSUME Spread, NEW h, Hash(h)
  PROVE  /\ h \in Removes => 0 \notin DOMAIN h /\ \A n \in Caps(h) : Perfect(h, n)
         /\ h \in Grows \ Removes => IsFiniteSet(DOMAIN h) /\ \A n \in GrownCaps(h) : Roomy(h, n)
<1>1. h \in {s.hash : s \in Starts}
  BY DEF Hash
<1> QED  BY <1>1 DEF Spread

(* A program starts with the table of a literal, or an empty one.          *)
LEMMA InitInv ==
  ASSUME Spread, Init
  PROVE  IInv
<1>1. PICK past \in {Zero, Junk}, s \in Starts :
        /\ hash = s.hash /\ count = Len(s.keys)
        /\ kept = [k \in Keys |-> IF k \in ToSet(s.keys) THEN 0 ELSE Missing]
        /\ IF s.keys = <<>>
             THEN cap = MinCap /\ table = Blank(MinCap, past)
             ELSE cap = int2pow2(Len(s.keys)) /\ table = dict_lit_ctor(hash, s.keys, past)
  BY DEF Init
<1>2. PICK h : h = hash /\ Hash(h)
  BY <1>1 DEF Hash
<1>3. PICK ks \in Seq(DOMAIN h) : ks = s.keys /\ IsInjective(ks) /\ Len(ks) < 256
  BY <1>1, <1>2, HMapAssumption
<1>4. PICK n : n = cap
  OBVIOUS
<1>5. PICK t : t = table
  OBVIOUS
<1>6. n \in FirstCaps(h) /\ n \in Caps(h) /\ n \in Nat \ {0}
  <2>1. n = FirstCap(s)
    BY <1>1, <1>4 DEF FirstCap
  <2>2. n \in FirstCaps(h)
    BY <1>1, <1>2, <2>1 DEF FirstCaps
  <2>3. n \in Caps(h)
    BY <2>2 DEF Caps
  <2> QED  BY <2>2, <2>3, <1>2, CapFact
<1>7. Made(h, ks, n, t, Len(ks))
  <2>1. h \in Removes => Perfect(h, n)
    BY <1>2, <1>6, SpreadFact
  <2>2. CASE ks = <<>>
    <3>1. t = Blank(n, past) /\ Len(ks) = 0 /\ 1 .. 0 = {}
      BY <1>1, <1>3, <1>4, <1>5, <2>2
    <3> QED  BY <3>1, <1>2, <1>6, BlankFact, FS_EmptySet DEF Made, With
  <2>3. CASE ks # <<>>
    <3>1. n = int2pow2(Len(ks)) /\ t = dict_lit_ctor(h, ks, past)
      BY <1>1, <1>2, <1>3, <1>4, <1>5, <2>3
    <3>2. Len(ks) < n
      <4>1. Len(ks) \in 1 .. 255
        BY <1>3, <2>3, LenFact
      <4> QED  BY <3>1, <4>1, PowersFact
    <3> QED  BY <3>1, <3>2, <2>1, <1>2, <1>3, <1>6, LiteralFact
  <2> QED  BY <2>2, <2>3
<1>8. /\ Good(h, t, n) /\ Cardinality(LiveIn(t, n)) = count
      /\ \A k : With(t, n, k) # {} <=> k \in ToSet(ks)
      /\ \A b \in LiveIn(t, n) : t[b].val = 0
  <2>1. \A k : k \in ToSet(ks) <=> \E j \in 1 .. Len(ks) : k = ks[j]
    BY DEF ToSet
  <2> QED  BY <1>7, <2>1, <1>1, <1>3 DEF Made
<1>9. /\ old = <<>> /\ idx = 0 /\ pc = "idle" /\ op = [kind |-> "none", key |-> 0, val |-> 0]
      /\ bucket = 0 /\ tomb = -1 /\ reply = Missing /\ cursor = -1 /\ due = {}
  BY DEF Init
<1>10. TypeOK
  <2>1. kept \in [Keys -> Vals \cup {Missing}] /\ count \in Nat
    BY <1>1, <1>3, HMapAssumption
  <2> QED  BY <2>1, <1>2, <1>4, <1>6, <1>9, HMapAssumption DEF TypeOK
<1>11. Contents
  <2>1. DOMAIN h \subseteq Keys
    BY <1>2, HashFact
  <2>2. ASSUME NEW b \in LiveIn(t, n) PROVE kept[t[b].key] = t[b].val
    <3>1. t[b].key \in DOMAIN h /\ t[b].val = 0
      BY <1>8 DEF Good, LiveIn, Live
    <3>2. b \in With(t, n, t[b].key)
      BY DEF With
    <3>3. t[b].key \in ToSet(ks)
      BY <3>2, <1>8
    <3> QED  BY <3>1, <3>3, <2>1, <1>1, <1>3
  <2>3. ASSUME NEW k \in Keys, kept[k] # Missing PROVE With(t, n, k) # {}
    BY <2>3, <1>1, <1>3, <1>8
  <2> QED  BY <2>2, <2>3, <1>4, <1>5, <1>8 DEF Contents
<1> QED  BY <1>2, <1>4, <1>5, <1>8, <1>9, <1>10, <1>11
         DEF IInv, Sound, Looking, Finding, Storing, Growing, Meeting

(* What the table shows is what is kept.                                   *)
LEMMA ShownFact ==
  ASSUME IInv
  PROVE  Shown = kept
<1>1. kept \in [Keys -> Vals \cup {Missing}] /\ Missing \notin Vals
  BY HMapAssumption DEF IInv, TypeOK
<1>2. CASE pc = "gone"
  <2>1. Shown = [k \in Keys |-> kept[k]]
    BY <1>2 DEF Shown
  <2> QED  BY <1>1, <2>1
<1>3. CASE pc # "gone"
  <2>1. /\ Good(hash, table, cap) /\ Contents /\ Finding
        /\ pc = "rehash" => Waits(hash, old, idx, table, cap, kept)
    BY <1>3 DEF IInv, Sound, Growing
  <2>2. ASSUME NEW k \in Keys, ~(pc = "assign" /\ op.key = k)
        PROVE  kept[k] = IF Holding(k) # {} THEN table[Min(Holding(k))].val
                         ELSE IF pc = "rehash" /\ {c \in Left : old[c].key = k} # {}
                              THEN old[Max({c \in Left : old[c].key = k})].val
                         ELSE Missing
    <3>1. Holding(k) = With(table, cap, k)
      BY DEF Holding, Buckets, With, LiveIn
    <3>2. CASE Holding(k) # {}
      <4>1. Holding(k) \in SUBSET Nat
        BY <2>1, <3>1 DEF With, LiveIn, Good
      <4>2. Min(Holding(k)) \in Holding(k)
        BY <4>1, <3>2, MinFact
      <4>3. PICK b : b = Min(Holding(k)) /\ b \in LiveIn(table, cap) /\ table[b].key = k
        BY <4>2, <3>1 DEF With
      <4>4. pc = "assign" => table[bucket].key # k
        BY <2>1, <2>2 DEF Finding
      <4>5. kept[k] = table[b].val
        BY <4>3, <4>4, <2>1 DEF Contents
      <4> QED  BY <3>2, <4>3, <4>5
    <3>3. CASE Holding(k) = {} /\ ~(pc = "rehash" /\ {c \in Left : old[c].key = k} # {})
      <4>1. Left = LeftIn(old, idx)
        BY DEF Left, LeftIn
      <4>2. kept[k] = Missing
        BY <4>1, <3>1, <3>3, <2>1 DEF Contents
      <4> QED  BY <4>2, <3>3
    <3>4. CASE Holding(k) = {} /\ pc = "rehash" /\ {c \in Left : old[c].key = k} # {}
      <4> DEFINE S == {c \in Left : old[c].key = k}
      <4>1. idx \in Nat /\ S \in SUBSET (0 .. idx - 1) /\ S # {}
        BY <3>4 DEF Left, IInv, TypeOK
      <4>2. Max(S) \in S
        <5> HIDE DEF S
        <5> QED  BY <4>1, MaxFact
      <4>3. PICK c : c = Max(S) /\ c \in LeftIn(old, idx) /\ old[c].key = k
        BY <4>2 DEF Left, LeftIn
      <4>4. PICK j \in DOMAIN hash : old[c] = Entry(j, kept[j])
        BY <4>3, <3>4, <2>1 DEF Waits
      <4>5. old[c].val = kept[k]
        BY <4>3, <4>4 DEF Entry
      <4> QED  BY <4>3, <4>5, <3>4
    <3> QED  BY <3>2, <3>3, <3>4
  <2>3. \A k \in Keys : Shown[k] = kept[k]
    <3>1. ASSUME NEW k \in Keys PROVE Shown[k] = kept[k]
      <4>1. CASE pc = "assign" /\ op.key = k
        BY <4>1 DEF Shown
      <4>2. CASE ~(pc = "assign" /\ op.key = k)
        <5>1. CASE pc = "rehash"
          BY <1>3, <2>2, <4>2, <5>1 DEF Shown
        <5>2. CASE pc # "rehash"
          BY <1>3, <2>2, <4>2, <5>2 DEF Shown
        <5> QED  BY <5>1, <5>2
      <4> QED  BY <4>1, <4>2
    <3> QED  BY <3>1
  <2>4. Shown = [k \in Keys |-> Shown[k]]
    BY DEF Shown
  <2> QED  BY <1>1, <2>3, <2>4
<1> QED  BY <1>2, <1>3
-----------------------------------------------------------------------------
(* The steps.                                                              *)

LEMMA StepGet ==
  ASSUME Spread, IInv, NEW k \in DOMAIN hash, Get(k)
  PROVE  IInv'
<1>1. /\ pc = "idle" /\ op' = [kind |-> "get", key |-> k, val |-> 0]
      /\ bucket' = hash[k] /\ tomb' = -1 /\ pc' = "lookup"
      /\ hash' = hash /\ cap' = cap /\ count' = count /\ table' = table
      /\ old' = old /\ idx' = idx /\ reply' = reply /\ kept' = kept
      /\ cursor' = cursor /\ due' = due
  BY DEF Get, Start, size, grow, each
<1>2. TypeOK /\ Good(hash, table, cap) /\ Contents /\ Meeting
  BY <1>1 DEF IInv, Sound
<1>3. Hash(hash) /\ hash[k] \in Nat /\ k \in Nat /\ 0 \in Vals /\ cap \in Nat \ {0}
  BY <1>2, HashFact, HMapAssumption DEF TypeOK, Good
<1>4. Home' = hash[k] % cap /\ Here' = hash[k] % cap
  BY <1>1 DEF Home, Here
<1>5. Looking'
  <2>1. Seeks(hash, table, cap, k, hash[k] % cap)
    BY <1>3, SeeksStart
  <2> QED  BY <2>1, <1>1, <1>4 DEF Looking
<1>6. TypeOK'
  BY <1>1, <1>2, <1>3 DEF TypeOK
<1>7. Finding' /\ Storing' /\ Growing'
  BY <1>1 DEF Finding, Storing, Growing
<1>8. Contents' /\ Meeting' /\ Sound'
  BY <1>1, <1>2 DEF Contents, Meeting, Sound
<1> QED  BY <1>5, <1>6, <1>7, <1>8 DEF IInv

LEMMA StepRemoveKey ==
  ASSUME Spread, IInv, NEW k \in DOMAIN hash, RemoveKey(k)
  PROVE  IInv'
<1>1. /\ pc = "idle" /\ op' = [kind |-> "remove", key |-> k, val |-> 0]
      /\ bucket' = hash[k] /\ tomb' = -1 /\ pc' = "lookup"
      /\ hash' = hash /\ cap' = cap /\ count' = count /\ table' = table
      /\ old' = old /\ idx' = idx /\ reply' = reply /\ kept' = kept
      /\ cursor' = cursor /\ due' = due /\ cursor = -1 /\ hash \in Removes
  BY DEF RemoveKey, Start, size, grow, each
<1>2. TypeOK /\ Good(hash, table, cap) /\ Contents /\ Meeting
  BY <1>1 DEF IInv, Sound
<1>3. Hash(hash) /\ hash[k] \in Nat /\ k \in Nat /\ 0 \in Vals /\ cap \in Nat \ {0}
  BY <1>2, HashFact, HMapAssumption DEF TypeOK, Good
<1>4. Home' = hash[k] % cap /\ Here' = hash[k] % cap
  BY <1>1 DEF Home, Here
<1>5. Looking'
  BY <1>1, <1>4 DEF Looking
<1>6. TypeOK'
  BY <1>1, <1>2, <1>3 DEF TypeOK
<1>7. Finding' /\ Storing' /\ Growing'
  BY <1>1 DEF Finding, Storing, Growing
<1>8. Contents' /\ Meeting' /\ Sound'
  BY <1>1, <1>2 DEF Contents, Meeting, Sound
<1> QED  BY <1>5, <1>6, <1>7, <1>8 DEF IInv

LEMMA StepPut ==
  ASSUME Spread, IInv, NEW k \in DOMAIN hash, NEW v \in Vals, Put(k, v)
  PROVE  IInv'
<1>1. /\ pc = "idle" /\ op' = [kind |-> "put", key |-> k, val |-> v]
      /\ bucket' = hash[k] /\ tomb' = -1 /\ pc' \in {"grow", "probe"}
      /\ pc' = "grow" => hash \in Grows /\ 2 * cap <= MaxCap /\ cursor = -1
      /\ hash' = hash /\ cap' = cap /\ count' = count /\ table' = table
      /\ old' = old /\ idx' = idx /\ reply' = reply /\ kept' = kept
      /\ cursor' = cursor /\ due' = due
  BY DEF Put, Start, size, grow, each
<1>2. TypeOK /\ Good(hash, table, cap) /\ Contents /\ Meeting
  BY <1>1 DEF IInv, Sound
<1>3. Hash(hash) /\ hash[k] \in Nat /\ k \in Nat /\ 0 \in Vals /\ cap \in Nat \ {0}
  BY <1>2, HashFact, HMapAssumption DEF TypeOK, Good
<1>4. Home' = hash[k] % cap /\ Here' = hash[k] % cap
  BY <1>1 DEF Home, Here
<1>5. Storing'
  <2>1. Seeks(hash, table, cap, k, hash[k] % cap)
    BY <1>3, SeeksStart
  <2> QED  BY <2>1, <1>1, <1>4 DEF Storing
<1>6. TypeOK'
  BY <1>1, <1>2, <1>3 DEF TypeOK
<1>7. Finding' /\ Looking' /\ Growing'
  BY <1>1 DEF Finding, Looking, Growing
<1>8. Contents' /\ Meeting' /\ Sound'
  BY <1>1, <1>2 DEF Contents, Meeting, Sound
<1> QED  BY <1>5, <1>6, <1>7, <1>8 DEF IInv

(* What a turn of a lookup does with the bucket it looks at.               *)
LEMMA LookupFact ==
  ASSUME Spread, IInv, Lookup
  PROVE  LET l == Landed
         IN  /\ l \in 0 .. cap /\ tomb' \in Nat \cup {-1}
             /\ table[l].key = op.key =>
                  l \in LiveIn(table, cap) /\ tomb' = -1
             /\ table[l].key # op.key =>
                  IF hash \notin Removes
                  THEN tomb' = -1 /\ Seeks(hash, table, cap, op.key, (l + 1) % cap)
                  ELSE /\ table[Home].set /\ table[Home].deleted /\ (l + 1) % cap # Home /\ tomb' # -1
                       /\ \A c \in Run(Round(Home, cap), (l + 1) % cap, cap) :
                            c = Round(Home, cap) \/ table[c].set
<1>1. /\ pc = "lookup" /\ table[Here].set
      /\ tomb' = IF table[Here].deleted /\ tomb = -1 THEN Here ELSE tomb
  BY DEF Lookup, Stop, Notes, Here
<1>2. TypeOK /\ Good(hash, table, cap) /\ Looking /\ op.key \in DOMAIN hash
  BY <1>1 DEF IInv, Sound, Finding
<1>3. PICK h, t, n, k, b, a : /\ h = hash /\ t = table /\ n = cap /\ k = op.key /\ b = Here /\ a = Home
  OBVIOUS
<1>4. /\ Hash(h) /\ Good(h, t, n) /\ k \in DOMAIN h /\ n \in Nat \ {0} /\ b \in 0 .. n - 1
      /\ a = h[k] % n /\ a \in 0 .. n - 1 /\ n \in Caps(h)
  <2>1. /\ Hash(h) /\ Good(h, t, n) /\ k \in DOMAIN h /\ n \in Nat \ {0} /\ n \in Caps(h)
    BY <1>2, <1>3 DEF TypeOK, Good
  <2>2. bucket \in Nat /\ b = bucket % n
    BY <1>2, <1>3 DEF TypeOK, Here
  <2>3. b \in 0 .. n - 1
    BY <2>1, <2>2, ModFact
  <2>4. a = h[k] % n
    BY <1>3 DEF Home
  <2> QED  BY <2>1, <2>3, <2>4, HashFact
<1>5. tomb \in Nat \cup {-1}
  BY <1>2 DEF TypeOK
<1>6. CASE h \notin Removes
  <2>1. ~t[b].deleted /\ t[b].set /\ Live(t[b])
    BY <1>1, <1>3, <1>4, <1>6 DEF Good, Live
  <2>2. tomb = -1 /\ Seeks(h, t, n, k, b)
    BY <1>1, <1>2, <1>3, <1>6 DEF Looking
  <2>3. tomb' = -1 /\ Landed = b
    BY <1>1, <1>3, <1>4, <2>1, <2>2 DEF Landed, Notes, Here
  <2>4. b \in LiveIn(t, n)
    BY <2>1, <1>4 DEF LiveIn
  <2>5. t[b].key # k => Seeks(h, t, n, k, (b + 1) % n)
    BY <1>4, <2>1, <2>2, SeeksNext
  <2>6. b \in 0 .. n
    BY <1>4
  <2> QED  BY <1>3, <1>6, <2>3, <2>4, <2>5, <2>6
<1>7. CASE h \in Removes
  <2>1. 0 \notin DOMAIN h /\ Perfect(h, n)
    BY <1>4, <1>7, SpreadFact
  <2>2. /\ n > 2
        /\ \A c \in 0 .. n - 1 : t[c].set => (t[c].key = k <=> c = a)
        /\ a + 1 \in 0 .. n /\ t[a + 1].key # k
        /\ \A d \in 0 .. n - 1 :
             t[d].set /\ (\A c \in Run(Round(a, n), d, n) : c = Round(a, n) \/ t[c].set)
               => Round(d, n) # a
    BY <1>4, <1>7, <2>1, HomeFact
  <2>3. CASE tomb = -1
    <3>1. b = a
      BY <1>1, <1>2, <1>3, <1>7, <2>3 DEF Looking
    <3>2. CASE t[b].deleted
      <4>1. tomb' = b /\ Landed = a + 1
        BY <1>1, <1>3, <2>3, <3>1, <3>2 DEF Landed, Notes, Here
      <4>2. PICK r : r = Round(a, n) /\ r \in 0 .. n - 1
        BY <1>4, RunFact
      <4>3. ((a + 1) + 1) % n = Round(r, n)
        <5>1. CASE a + 1 = n
          <6>1. PICK x : x = (a + 1) + 1
            OBVIOUS
          <6>2. x \in n .. 2 * n - 1 /\ x - n = 1
            BY <5>1, <6>1, <1>4, <2>2
          <6>3. x % n = 1
            BY <6>2, <1>4, ModFact
          <6>4. Round(r, n) = 1
            BY <5>1, <4>2, <2>2 DEF Round
          <6> QED  BY <6>1, <6>3, <6>4
        <5>2. CASE a + 1 # n
          <6>1. r = a + 1
            BY <5>2, <4>2 DEF Round
          <6> QED  BY <6>1, <4>2, <1>4, NextFact
        <5> QED  BY <5>1, <5>2
      <4>4. Round(r, n) # a
        BY <4>2, <1>4, <2>2 DEF Round
      <4>5. \A c \in Run(r, Round(r, n), n) : c = r
        <5>1. Run(r, r, n) = {} /\ Run(r, Round(r, n), n) \subseteq Run(r, r, n) \cup {r}
          BY <4>2, <1>4, RunFact
        <5> QED  BY <5>1
      <4>6. tomb' # -1 /\ tomb' \in Nat
        BY <4>1, <1>4
      <4>7. PICK e : e = Round(r, n)
        OBVIOUS
      <4>8. (Landed + 1) % n = e /\ e # a /\ \A c \in Run(r, e, n) : c = r
        BY <4>1, <4>3, <4>4, <4>5, <4>7
      <4> QED  BY <1>1, <1>3, <1>7, <2>2, <3>1, <3>2, <4>1, <4>2, <4>6, <4>8
    <3>3. CASE ~t[b].deleted
      <4>1. tomb' = -1 /\ Landed = b
        BY <1>1, <1>3, <1>4, <2>3, <3>3 DEF Landed, Notes, Here
      <4>2. t[b].set /\ t[b].key = k /\ b \in LiveIn(t, n)
        BY <1>1, <1>3, <1>4, <2>2, <3>1, <3>3 DEF LiveIn, Live
      <4>3. b \in 0 .. n
        BY <1>4
      <4> QED  BY <1>3, <4>1, <4>2, <4>3
    <3> QED  BY <3>2, <3>3
  <2>4. CASE tomb # -1
    <3>1. /\ b # a /\ t[a].set /\ t[a].deleted /\ t[b].set
          /\ \A c \in Run(Round(a, n), b, n) : c = Round(a, n) \/ t[c].set
      BY <1>1, <1>2, <1>3, <1>7, <2>4 DEF Looking
    <3>2. tomb' = tomb /\ Landed = b
      BY <1>1, <1>3, <1>4, <2>4 DEF Landed, Notes, Here
    <3>3. t[b].key # k /\ Round(b, n) # a
      BY <1>4, <2>2, <3>1
    <3>4. PICK e : e = Round(b, n) /\ e = (b + 1) % n
      BY <1>4, NextFact
    <3>5. \A c \in Run(Round(a, n), e, n) : c = Round(a, n) \/ t[c].set
      <4>1. PICK r : r = Round(a, n) /\ r \in 0 .. n - 1
        BY <1>4, RunFact
      <4>2. Run(r, e, n) \subseteq Run(r, b, n) \cup {b}
        BY <4>1, <3>4, <1>4, RunFact
      <4> QED  BY <4>1, <4>2, <3>1
    <3>6. b \in 0 .. n
      BY <1>4
    <3> QED  BY <1>3, <1>5, <1>7, <2>4, <3>1, <3>2, <3>3, <3>4, <3>5, <3>6
  <2> QED  BY <2>3, <2>4
<1> QED  BY <1>3, <1>6, <1>7

LEMMA StepLookup ==
  ASSUME Spread, IInv, Lookup
  PROVE  IInv'
<1>1. /\ pc = "lookup"
      /\ hash' = hash /\ cap' = cap /\ count' = count /\ table' = table
      /\ old' = old /\ idx' = idx /\ op' = op /\ reply' = reply /\ kept' = kept
      /\ cursor' = cursor /\ due' = due
      /\ IF table[Landed].key = op.key
           THEN bucket' = Landed /\ pc' = op.kind
           ELSE bucket' = Landed + 1 /\ pc' = pc
  BY DEF Lookup, size, grow, each
<1>2. TypeOK /\ Good(hash, table, cap) /\ Contents /\ Meeting /\ Looking /\ Finding
  BY <1>1 DEF IInv, Sound
<1>3. PICK l : l = Landed
  OBVIOUS
<1>4. /\ l \in 0 .. cap /\ tomb' \in Nat \cup {-1}
      /\ table[l].key = op.key => l \in LiveIn(table, cap) /\ tomb' = -1
      /\ table[l].key # op.key =>
           IF hash \notin Removes
           THEN tomb' = -1 /\ Seeks(hash, table, cap, op.key, (l + 1) % cap)
           ELSE /\ table[Home].set /\ table[Home].deleted /\ (l + 1) % cap # Home /\ tomb' # -1
                /\ \A c \in Run(Round(Home, cap), (l + 1) % cap, cap) :
                     c = Round(Home, cap) \/ table[c].set
  BY <1>3, LookupFact
<1>5. l \in Nat /\ l + 1 \in Nat
  BY <1>2, <1>4 DEF Good
<1>6. op.kind \in {"get", "remove"} /\ (op.kind = "remove" => hash \in Removes /\ cursor = -1)
  BY <1>1, <1>2 DEF Looking
<1>7. TypeOK'
  BY <1>1, <1>2, <1>3, <1>4, <1>5, <1>6 DEF TypeOK
<1>8. Contents' /\ Meeting' /\ Sound'
  BY <1>1, <1>2, <1>6 DEF Contents, Meeting, Sound
<1>9. Home' = Home
  BY <1>1 DEF Home
<1>10. CASE table[l].key = op.key
  <2>1. bucket' = l /\ pc' = op.kind
    BY <1>1, <1>3, <1>10
  <2>2. Looking' /\ Storing' /\ Growing'
    BY <2>1, <1>6 DEF Looking, Storing, Growing
  <2>3. Finding'
    BY <2>1, <1>1, <1>2, <1>4, <1>6, <1>10 DEF Finding
  <2> QED  BY <2>2, <2>3, <1>7, <1>8 DEF IInv
<1>11. CASE table[l].key # op.key
  <2>1. bucket' = l + 1 /\ pc' = "lookup"
    BY <1>1, <1>3, <1>11
  <2>2. Here' = (l + 1) % cap
    BY <1>1, <2>1 DEF Here
  <2>3. Looking'
    BY <2>1, <2>2, <1>1, <1>4, <1>6, <1>9, <1>11 DEF Looking
  <2>4. Finding' /\ Storing' /\ Growing'
    BY <2>1, <1>1, <1>2 DEF Finding, Storing, Growing
  <2> QED  BY <2>3, <2>4, <1>7, <1>8 DEF IInv
<1> QED  BY <1>10, <1>11

LEMMA StepNotThere ==
  ASSUME Spread, IInv, NotThere
  PROVE  IInv' /\ kept[op.key] = Missing /\ op.key \in Keys
<1>1. /\ pc = "lookup" /\ ~table[Here].set
      /\ reply' = Missing /\ pc' = "idle" /\ bucket' = 0 /\ tomb' = -1
      /\ hash' = hash /\ cap' = cap /\ count' = count /\ table' = table
      /\ old' = old /\ idx' = idx /\ op' = op /\ kept' = kept
      /\ cursor' = cursor /\ due' = due
  BY DEF NotThere, Stop, Here, Pop, size, grow, each
<1>2. TypeOK /\ Good(hash, table, cap) /\ Contents /\ Meeting /\ Looking /\ op.key \in DOMAIN hash
  BY <1>1 DEF IInv, Sound, Finding
<1>3. With(table, cap, op.key) = {}
  <2>1. PICK h, t, n, k, b, a : /\ h = hash /\ t = table /\ n = cap /\ k = op.key /\ b = Here /\ a = Home
    OBVIOUS
  <2>2. /\ Hash(h) /\ Good(h, t, n) /\ k \in DOMAIN h /\ n \in Nat \ {0} /\ b \in 0 .. n - 1
        /\ a = h[k] % n /\ n \in Caps(h)
    <3>1. /\ Hash(h) /\ Good(h, t, n) /\ k \in DOMAIN h /\ n \in Nat \ {0} /\ n \in Caps(h)
      BY <1>2, <2>1 DEF TypeOK, Good
    <3>2. bucket \in Nat /\ b = bucket % n
      BY <1>2, <2>1 DEF TypeOK, Here
    <3>3. b \in 0 .. n - 1
      BY <3>1, <3>2, ModFact
    <3>4. a = h[k] % n
      BY <2>1 DEF Home
    <3> QED  BY <3>1, <3>3, <3>4
  <2>3. ~t[b].set
    BY <1>1, <2>1
  <2>4. CASE h \notin Removes
    <3>1. Seeks(h, t, n, k, b)
      BY <1>1, <1>2, <2>1, <2>4 DEF Looking
    <3> QED  BY <3>1, <2>1, <2>2, <2>3, SearchEnds
  <2>5. CASE h \in Removes
    <3>1. 0 \notin DOMAIN h /\ Perfect(h, n)
      BY <2>2, <2>5, SpreadFact
    <3>2. \A c \in 0 .. n - 1 : t[c].set => (t[c].key = k <=> c = a)
      BY <2>2, <2>5, <3>1, HomeFact
    <3>3. b = a \/ t[a].deleted
      BY <1>1, <1>2, <2>1, <2>5 DEF Looking
    <3>4. With(t, n, k) = {}
      BY <2>3, <3>2, <3>3 DEF With, LiveIn, Live
    <3> QED  BY <3>4, <2>1
  <2> QED  BY <2>1, <2>4, <2>5
<1>4. op.key \in Keys /\ kept[op.key] = Missing
  <2>1. op.key \in Keys
    BY <1>2, HashFact DEF TypeOK
  <2> QED  BY <2>1, <1>1, <1>2, <1>3 DEF Contents
<1>5. TypeOK'
  BY <1>1, <1>2 DEF TypeOK
<1>6. Contents' /\ Meeting' /\ Sound'
  BY <1>1, <1>2 DEF Contents, Meeting, Sound
<1>7. Finding' /\ Looking' /\ Storing' /\ Growing'
  BY <1>1 DEF Finding, Looking, Storing, Growing
<1> QED  BY <1>4, <1>5, <1>6, <1>7 DEF IInv
(* hmap_val finds the value that is kept, and leaves the table alone: the  *)
(* bucket that hmap_iter notes is never passed to it.                      *)
LEMMA StepValue ==
  ASSUME Spread, IInv, Value
  PROVE  IInv' /\ reply' = kept[op.key] /\ op.key \in Keys
<1>1. /\ pc = "get" /\ reply' = table[bucket].val
      /\ table' = IF tomb = -1 THEN table
                  ELSE [table EXCEPT ![tomb] = table[bucket], ![bucket].deleted = TRUE]
      /\ pc' = "idle" /\ bucket' = 0 /\ tomb' = -1
      /\ hash' = hash /\ cap' = cap /\ count' = count
      /\ old' = old /\ idx' = idx /\ op' = op /\ kept' = kept
      /\ cursor' = cursor /\ due' = due
  BY DEF Value, Pop, size, grow, each
<1>2. /\ TypeOK /\ Good(hash, table, cap) /\ Contents /\ Meeting /\ op.key \in DOMAIN hash
      /\ bucket \in LiveIn(table, cap) /\ table[bucket].key = op.key /\ tomb = -1
  BY <1>1 DEF IInv, Sound, Finding
<1>3. table' = table
  BY <1>1, <1>2
<1>4. reply' = kept[op.key] /\ op.key \in Keys /\ reply' \in Vals
  <2>1. op.key \in Keys
    BY <1>2, HashFact DEF TypeOK
  <2>2. table[bucket].val \in Vals
    BY <1>2 DEF Good, LiveIn, Live
  <2>3. kept[op.key] = table[bucket].val
    BY <1>1, <1>2 DEF Contents
  <2> QED  BY <1>1, <2>1, <2>2, <2>3
<1>5. TypeOK'
  BY <1>1, <1>2, <1>4 DEF TypeOK
<1>6. Contents' /\ Meeting' /\ Sound'
  BY <1>1, <1>2, <1>3 DEF Contents, Meeting, Sound
<1>7. Finding' /\ Looking' /\ Storing' /\ Growing'
  BY <1>1 DEF Finding, Looking, Storing, Growing
<1> QED  BY <1>4, <1>5, <1>6, <1>7 DEF IInv

LEMMA StepDelete ==
  ASSUME Spread, IInv, Delete
  PROVE  IInv' /\ reply' = kept[op.key] /\ op.key \in Keys
<1>1. /\ pc = "remove" /\ reply' = table[bucket].val
      /\ table' = [table EXCEPT ![bucket].deleted = TRUE]
      /\ count' = count - 1 /\ kept' = [kept EXCEPT ![op.key] = Missing]
      /\ pc' = "idle" /\ bucket' = 0 /\ tomb' = -1
      /\ hash' = hash /\ cap' = cap
      /\ old' = old /\ idx' = idx /\ op' = op
      /\ cursor' = cursor /\ due' = due
  BY DEF Delete, Pop, grow, each
<1>2. /\ TypeOK /\ Good(hash, table, cap) /\ Contents /\ Meeting /\ op.key \in DOMAIN hash
      /\ bucket \in LiveIn(table, cap) /\ table[bucket].key = op.key
      /\ hash \in Removes /\ cursor = -1
  BY <1>1 DEF IInv, Sound, Finding
<1>3. PICK h, t, n, k, b, u : /\ h = hash /\ t = table /\ n = cap /\ k = op.key /\ b = bucket
                              /\ u = table' /\ u = Marked(t, b)
  BY <1>1 DEF Marked
<1>4. Hash(h) /\ Good(h, t, n) /\ h \in Removes /\ b \in LiveIn(t, n) /\ t[b].key = k
      /\ k \in Keys /\ n \in Nat
  BY <1>2, <1>3, HashFact DEF TypeOK, Good
<1>5. /\ Good(h, u, n) /\ LiveIn(u, n) = LiveIn(t, n) \ {b}
      /\ \A c \in LiveIn(u, n) : u[c] = t[c]
  BY <1>3, <1>4, DeleteGood
<1>6. reply' = kept[k] /\ reply' \in Vals
  <2>1. t[b].val \in Vals
    BY <1>4 DEF Good, LiveIn, Live
  <2>2. kept[k] = t[b].val
    BY <1>1, <1>2, <1>3, <1>4 DEF Contents
  <2> QED  BY <1>1, <1>3, <2>1, <2>2
<1>7. kept' \in [Keys -> Vals \cup {Missing}] /\ kept'[k] = Missing
      /\ \A j \in Keys : j # k => kept'[j] = kept[j]
  BY <1>1, <1>2, <1>3, <1>4 DEF TypeOK
<1>8. count' = Cardinality(LiveIn(u, n)) /\ count' \in Nat
  <2>1. IsFiniteSet(LiveIn(t, n)) /\ Cardinality(LiveIn(t, n)) \in Nat
    BY <1>4, LiveFinite
  <2>2. Cardinality(LiveIn(u, n)) = Cardinality(LiveIn(t, n)) - 1
    BY <2>1, <1>4, <1>5, FS_RemoveElement
  <2>3. count = Cardinality(LiveIn(t, n))
    BY <1>2, <1>3 DEF Contents
  <2>4. Cardinality(LiveIn(u, n)) \in Nat
    BY <1>4, LiveFinite
  <2> QED  BY <2>2, <2>3, <2>4, <1>1
<1>9. TypeOK'
  BY <1>1, <1>2, <1>6, <1>7, <1>8 DEF TypeOK
<1>10. ASSUME NEW c \in LiveIn(u, n) PROVE kept'[u[c].key] = u[c].val
  <2>1. c \in LiveIn(t, n) /\ u[c] = t[c] /\ c # b
    BY <1>5
  <2>2. t[c].key \in Keys /\ t[c].key # k
    <3>1. t[c].key \in DOMAIN h
      BY <2>1, <1>4 DEF Good, LiveIn, Live
    <3>2. t[c].key # k
      BY <2>1, <1>4 DEF Good
    <3> QED  BY <3>1, <3>2, <1>4, HashFact
  <2>3. kept[t[c].key] = t[c].val
    BY <2>1, <1>1, <1>2, <1>3 DEF Contents
  <2> QED  BY <2>1, <2>2, <2>3, <1>7
<1>11. ASSUME NEW j \in Keys, kept'[j] # Missing PROVE With(u, n, j) # {}
  <2>1. j # k /\ kept[j] # Missing
    BY <1>11, <1>7
  <2>2. PICK c : c \in LiveIn(t, n) /\ t[c].key = j
    BY <2>1, <1>1, <1>2, <1>3 DEF Contents, With
  <2>3. c \in LiveIn(u, n) /\ u[c].key = j
    BY <2>1, <2>2, <1>4, <1>5
  <2> QED  BY <2>3 DEF With
<1>12. Contents'
  BY <1>1, <1>3, <1>8, <1>10, <1>11 DEF Contents
<1>13. Sound' /\ Meeting'
  BY <1>1, <1>2, <1>3, <1>5 DEF Sound, Meeting
<1>14. Finding' /\ Looking' /\ Storing' /\ Growing'
  BY <1>1 DEF Finding, Looking, Storing, Growing
<1> QED  BY <1>3, <1>4, <1>6, <1>9, <1>12, <1>13, <1>14 DEF IInv

LEMMA StepGrow ==
  ASSUME Spread, IInv, Grow
  PROVE  IInv'
<1>1. /\ pc = "grow" /\ old' = table /\ idx' = cap /\ cap' = 2 * cap /\ count' = 0
      /\ pc' = "rehash"
      /\ hash' = hash /\ op' = op /\ bucket' = bucket /\ tomb' = tomb
      /\ reply' = reply /\ kept' = kept /\ cursor' = cursor /\ due' = due
  BY DEF Grow, loop, each
<1>2. PICK past \in {Zero, Junk} : table' = Blank(2 * cap, past)
  BY DEF Grow
<1>3. /\ TypeOK /\ Good(hash, table, cap) /\ Contents /\ Meeting /\ op.key \in DOMAIN hash
      /\ hash \in Grows /\ cursor = -1 /\ bucket = hash[op.key] /\ 2 * cap <= MaxCap
  BY <1>1 DEF IInv, Sound, Finding, Growing
<1>4. PICK h, t, n, m, u : /\ h = hash /\ t = table /\ n = cap /\ m = 2 * n /\ u = Blank(m, past)
  OBVIOUS
<1>5. /\ Hash(h) /\ Good(h, t, n) /\ n \in Nat \ {0} /\ m \in Nat \ {0} /\ m \in GrownCaps(h)
      /\ u = table' /\ m = cap'
  <2>1. Hash(h) /\ Good(h, t, n) /\ n \in Caps(h) /\ h \in Grows /\ m <= MaxCap
    BY <1>3, <1>4 DEF TypeOK
  <2> QED  BY <2>1, <1>1, <1>2, <1>4, CapFact
<1>6. Good(h, u, m) /\ Fresh(u, m) /\ LiveIn(u, m) = {}
  BY <1>4, <1>5, BlankFact
<1>7. TypeOK'
  BY <1>1, <1>3, <1>4, <1>5 DEF TypeOK, Caps
<1>8. LeftIn(t, n) = LiveIn(t, n)
  BY DEF LeftIn, LiveIn
<1>9. Waits(h, t, n, u, m, kept)
  <2>1. ASSUME NEW b \in LiveIn(t, n)
        PROVE  \E k \in DOMAIN h : t[b] = Entry(k, kept[k]) /\ kept[k] \in Vals /\ With(u, m, k) = {}
    <3>1. t[b] \in Slots /\ t[b].key \in DOMAIN h /\ t[b].val \in Vals /\ Live(t[b])
      <4>1. b \in 0 .. n - 1 /\ b \in 0 .. n /\ Live(t[b])
        BY <1>5 DEF LiveIn
      <4> QED  BY <4>1, <1>5 DEF Good, Live
    <3>2. t[b] = Entry(t[b].key, t[b].val)
      BY <3>1 DEF Slots, Entry, Live
    <3>3. kept[t[b].key] = t[b].val
      BY <1>1, <1>3, <1>4 DEF Contents
    <3>4. With(u, m, t[b].key) = {}
      BY <1>6 DEF With
    <3> QED  BY <3>1, <3>2, <3>3, <3>4
  <2>2. \A b, c \in LiveIn(t, n) : t[b].key = t[c].key => b = c
    BY <1>5 DEF Good
  <2> QED  BY <2>1, <2>2, <1>8 DEF Waits
<1>10. Contents'
  <2>1. count' = Cardinality(LiveIn(u, m))
    BY <1>1, <1>6, FS_EmptySet
  <2>2. ASSUME NEW k \in Keys, kept[k] # Missing PROVE \E b \in LeftIn(t, n) : t[b].key = k
    BY <2>2, <1>1, <1>3, <1>4, <1>8 DEF Contents, With
  <2>3. ASSUME NEW k \in Keys, kept'[k] # Missing PROVE \E b \in LeftIn(old', idx') : old'[b].key = k
    BY <2>2, <2>3, <1>1, <1>4
  <2> QED  BY <2>1, <2>3, <1>1, <1>5, <1>6 DEF Contents
<1>11. Growing'
  BY <1>1, <1>3, <1>4, <1>5, <1>6, <1>9 DEF Growing
<1>12. Sound' /\ Meeting' /\ Finding' /\ Looking' /\ Storing'
  BY <1>1, <1>3, <1>4, <1>5, <1>6 DEF Sound, Meeting, Finding, Looking, Storing
<1> QED  BY <1>7, <1>10, <1>11, <1>12 DEF IInv

(* The store goes on after the growth. *)
LEMMA RehashedFact ==
  ASSUME IInv, pc = "rehash", pc' = "probe",
         UNCHANGED <<hash, cap, op, bucket, tomb, cursor, due>>
  PROVE  Storing' /\ Looking' /\ Finding' /\ Growing'
<1>1. /\ Hash(hash) /\ op.key \in DOMAIN hash /\ bucket = hash[op.key] /\ cap \in Nat \ {0}
  BY DEF IInv, TypeOK, Finding, Growing, Sound, Good
<1>2. Here' = hash[op.key] % cap /\ Home' = hash[op.key] % cap
  BY <1>1 DEF Here, Home
<1>3. PICK u : u = table'
  OBVIOUS
<1>4. Seeks(hash, u, cap, op.key, hash[op.key] % cap)
  BY <1>1, SeeksStart
<1>5. Storing'
  BY <1>2, <1>3, <1>4 DEF Storing
<1>6. Looking' /\ Finding' /\ Growing'
  BY <1>1 DEF Looking, Finding, Growing
<1> QED  BY <1>5, <1>6

LEMMA StepRehashed ==
  ASSUME Spread, IInv, Rehashed
  PROVE  IInv'
<1>1. /\ pc = "rehash" /\ pc' = "probe" /\ LeftIn(old, idx) = {}
      /\ hash' = hash /\ cap' = cap /\ count' = count /\ table' = table
      /\ old' = old /\ idx' = idx /\ op' = op /\ bucket' = bucket /\ tomb' = tomb
      /\ reply' = reply /\ kept' = kept /\ cursor' = cursor /\ due' = due
  BY DEF Rehashed, Left, LeftIn, size, grow, loop, each
<1>2. TypeOK /\ Good(hash, table, cap) /\ Contents /\ Meeting
  BY <1>1 DEF IInv, Sound
<1>3. TypeOK'
  BY <1>1, <1>2 DEF TypeOK
<1>4. Storing' /\ Looking' /\ Finding' /\ Growing'
  BY <1>1, RehashedFact
<1>5. Contents' /\ Meeting' /\ Sound'
  BY <1>1, <1>2 DEF Contents, Meeting, Sound
<1> QED  BY <1>3, <1>4, <1>5 DEF IInv

LEMMA StepRehash ==
  ASSUME Spread, IInv, Rehash
  PROVE  IInv'
<1>1. PICK b : b = Max(Left)
  OBVIOUS
<1>2. /\ pc = "rehash" /\ Left # {}
      /\ table' = [table EXCEPT ![Spot(table, hash[old[b].key] % cap, cap + 1)] = old[b]]
      /\ idx' = b /\ pc' = (IF b = 0 THEN "probe" ELSE pc)
      /\ count' = count + 1
      /\ hash' = hash /\ cap' = cap /\ old' = old /\ op' = op /\ bucket' = bucket /\ tomb' = tomb
      /\ reply' = reply /\ kept' = kept /\ cursor' = cursor /\ due' = due
  BY <1>1 DEF Rehash, loop, each
<1>3. /\ TypeOK /\ Good(hash, table, cap) /\ Contents /\ Meeting /\ Finding
      /\ hash \in Grows /\ cursor = -1 /\ bucket = hash[op.key]
      /\ cap \in GrownCaps(hash) /\ Fresh(table, cap) /\ Waits(hash, old, idx, table, cap, kept)
  BY <1>2 DEF IInv, Sound, Growing
<1>4. PICK h, t, n, o, i, kp : h = hash /\ t = table /\ n = cap /\ o = old /\ i = idx /\ kp = kept
  OBVIOUS
<1>5. /\ Hash(h) /\ Good(h, t, n) /\ n \in Nat \ {0} /\ i \in Nat /\ Waits(h, o, i, t, n, kp)
      /\ kp \in [Keys -> Vals \cup {Missing}]
  BY <1>3, <1>4 DEF TypeOK, Good
<1>6. /\ h \in Removes => Perfect(h, n)
      /\ h \notin Removes => IsFiniteSet(DOMAIN h) /\ Roomy(h, n)
  BY <1>3, <1>4, <1>5, SpreadFact DEF Caps
<1>7. /\ b \in LeftIn(o, i) /\ b \in 0 .. i - 1 /\ b \in Nat
      /\ \A c \in LeftIn(o, i) : c <= b
  <2>1. Left = LeftIn(o, i)
    BY <1>4 DEF Left, LeftIn
  <2>2. LeftIn(o, i) \in SUBSET (0 .. i - 1) /\ LeftIn(o, i) # {}
    BY <2>1, <1>2 DEF LeftIn
  <2>3. b \in LeftIn(o, i) /\ \A c \in LeftIn(o, i) : c <= b
    BY <2>1, <2>2, <1>1, <1>5, MaxFact
  <2> QED  BY <2>2, <2>3, <1>5
<1>8. LeftIn(o, b) = LeftIn(o, i) \ {b}
  <2>1. \A c \in LeftIn(o, b) : c \in LeftIn(o, i) /\ c # b
    BY <1>5, <1>7 DEF LeftIn
  <2>2. \A c \in LeftIn(o, i) : c # b => c \in LeftIn(o, b)
    BY <1>5, <1>7 DEF LeftIn
  <2> QED  BY <2>1, <2>2
<1>9. PICK k \in DOMAIN h : o[b] = Entry(k, kp[k]) /\ kp[k] \in Vals /\ With(t, n, k) = {}
  BY <1>5, <1>7 DEF Waits
<1>10. PICK v \in Vals : v = kp[k]
  BY <1>9
<1>11. PICK s : s = Spot(t, h[k] % n, n + 1)
  OBVIOUS
<1>12. /\ s \in 0 .. n - 1 /\ ~Live(t[s]) /\ \A c \in Run(h[k] % n, s, n) : t[c].set
       /\ h \in Removes => s = h[k] % n
  <2>1. CASE h \notin Removes
    BY <2>1, <1>5, <1>6, <1>9, <1>11, SpotRoom
  <2>2. CASE h \in Removes
    <3>1. Fresh(t, n)
      BY <1>3, <1>4
    <3> QED  BY <2>2, <3>1, <1>5, <1>6, <1>9, <1>11, SpotHome
  <2> QED  BY <2>1, <2>2
<1>13. PICK u : u = Placed(t, s, k, v)
  OBVIOUS
<1>14. /\ Good(h, u, n) /\ LiveIn(u, n) = LiveIn(t, n) \cup {s}
       /\ With(u, n, k) = {s} /\ \A j : j # k => With(u, n, j) = With(t, n, j)
       /\ \A c \in 0 .. n : c # s => u[c] = t[c]
       /\ u[s] = Entry(k, v)
  BY <1>5, <1>9, <1>12, <1>13, PlaceGood
<1>15. o[b].key = k /\ o[b] = Entry(k, v)
  BY <1>9, <1>10 DEF Entry
<1>16. table' = u
  BY <1>2, <1>4, <1>11, <1>13, <1>15 DEF Placed
<1>17. count' = Cardinality(LiveIn(u, n)) /\ count' \in Nat
  <2>1. s \notin LiveIn(t, n) /\ IsFiniteSet(LiveIn(t, n))
    BY <1>5, <1>12, LiveFinite DEF LiveIn
  <2>2. Cardinality(LiveIn(t, n) \cup {s}) = Cardinality(LiveIn(t, n)) + 1
    BY <2>1, FS_AddElement
  <2>3. count = Cardinality(LiveIn(t, n)) /\ count \in Nat
    BY <1>3, <1>4 DEF Contents, TypeOK
  <2> QED  BY <2>2, <2>3, <1>2, <1>14
<1>18. Waits(h, o, b, u, n, kp)
  <2>1. ASSUME NEW c \in LeftIn(o, b)
        PROVE  \E j \in DOMAIN h : o[c] = Entry(j, kp[j]) /\ kp[j] \in Vals /\ With(u, n, j) = {}
    <3>1. c \in LeftIn(o, i) /\ c # b
      BY <1>8
    <3>2. PICK j \in DOMAIN h : o[c] = Entry(j, kp[j]) /\ kp[j] \in Vals /\ With(t, n, j) = {}
      BY <3>1, <1>5 DEF Waits
    <3>3. o[c].key # o[b].key
      BY <3>1, <1>5, <1>7 DEF Waits
    <3>4. j # k
      BY <3>2, <3>3, <1>15 DEF Entry
    <3> QED  BY <3>2, <3>4, <1>14
  <2>2. \A c, d \in LeftIn(o, b) : o[c].key = o[d].key => c = d
    BY <1>5, <1>8 DEF Waits
  <2> QED  BY <2>1, <2>2 DEF Waits
<1>19. ASSUME NEW c \in LiveIn(u, n) PROVE kp[u[c].key] = u[c].val
  <2>1. CASE c = s
    BY <2>1, <1>10, <1>14 DEF Entry
  <2>2. CASE c # s
    <3>1. c \in LiveIn(t, n) /\ c \in 0 .. n /\ u[c] = t[c]
      BY <2>2, <1>5, <1>14 DEF LiveIn
    <3>2. kp[t[c].key] = t[c].val
      BY <3>1, <1>2, <1>3, <1>4 DEF Contents
    <3> QED  BY <3>1, <3>2
  <2> QED  BY <2>1, <2>2
<1>20. ASSUME NEW j \in Keys, kp[j] # Missing
       PROVE  With(u, n, j) # {} \/ \E c \in LeftIn(o, b) : o[c].key = j
  <2>1. CASE j = k
    BY <2>1, <1>14
  <2>2. CASE j # k
    <3>1. With(t, n, j) # {} \/ \E c \in LeftIn(o, i) : o[c].key = j
      BY <1>20, <1>3, <1>4 DEF Contents
    <3>2. \A c \in LeftIn(o, i) : o[c].key = j => c \in LeftIn(o, b)
      BY <2>2, <1>8, <1>15
    <3> QED  BY <2>2, <3>1, <3>2, <1>14
  <2> QED  BY <2>1, <2>2
<1>21. b = 0 => LeftIn(o, b) = {}
  BY DEF LeftIn
<1>22. pc' = "rehash" \/ (pc' = "probe" /\ b = 0)
  BY <1>2
<1>23. Contents'
  <2>1. \A c \in LiveIn(table', cap') : kept'[table'[c].key] = table'[c].val
    BY <1>2, <1>4, <1>16, <1>19
  <2>2. ASSUME NEW j \in Keys, kept'[j] # Missing
        PROVE  \/ With(table', cap', j) # {}
               \/ pc' = "rehash" /\ \E c \in LeftIn(old', idx') : old'[c].key = j
    BY <2>2, <1>2, <1>4, <1>16, <1>20, <1>21, <1>22
  <2>3. count' = Cardinality(LiveIn(table', cap'))
    BY <1>2, <1>4, <1>16, <1>17
  <2> QED  BY <2>1, <2>2, <2>3 DEF Contents
<1>24. TypeOK'
  BY <1>2, <1>3, <1>7, <1>17 DEF TypeOK
<1>25. Sound' /\ Meeting'
  BY <1>2, <1>3, <1>4, <1>14, <1>16 DEF Sound, Meeting
<1>26. Storing' /\ Looking' /\ Finding' /\ Growing'
  <2>1. CASE pc' = "probe"
    BY <2>1, <1>2, RehashedFact
  <2>2. CASE pc' = "rehash"
    <3>1. Growing'
      <4>1. \A c \in 0 .. n - 1 : c \in 0 .. n
        BY <1>5
      <4>2. Fresh(u, n)
        BY <4>1, <1>3, <1>4, <1>14 DEF Fresh, Entry
      <4> QED  BY <4>2, <2>2, <1>2, <1>3, <1>4, <1>16, <1>18 DEF Growing
    <3>2. Storing' /\ Looking' /\ Finding'
      BY <2>2, <1>2, <1>3 DEF Storing, Looking, Finding
    <3> QED  BY <3>1, <3>2
  <2> QED  BY <2>1, <2>2, <1>22
<1> QED  BY <1>23, <1>24, <1>25, <1>26 DEF IInv
(* hmap_iter_set_ini comes to the bucket that the search is at.            *)
LEMMA BoundedFact ==
  ASSUME IInv, pc = "probe"
  PROVE  Bounded = Here /\ Here \in 0 .. cap - 1 /\ cap \in Nat \ {0}
<1>1. bucket \in Nat /\ cap \in Nat \ {0}
  BY DEF IInv, TypeOK, Sound, Good
<1>2. PICK b : b = bucket % cap /\ b \in 0 .. cap - 1 /\ (bucket < cap => b = bucket)
  <2>1. bucket % cap \in 0 .. cap - 1
    BY <1>1, ModFact
  <2>2. bucket < cap => bucket \in 0 .. cap - 1
    BY <1>1
  <2>3. bucket < cap => bucket % cap = bucket
    BY <1>1, <2>2, ModFact
  <2> QED  BY <2>1, <2>3
<1>3. Here = b
  BY <1>2 DEF Here
<1>4. Bounded = b
  BY <1>1, <1>2 DEF Bounded
<1> QED  BY <1>1, <1>2, <1>3, <1>4

LEMMA StepInsert ==
  ASSUME Spread, IInv, Insert
  PROVE  IInv' /\ kept' = kept
<1>1. PICK b : b = Here /\ b = Bounded /\ b \in 0 .. cap - 1 /\ cap \in Nat \ {0}
  BY BoundedFact DEF Insert
<1>2. /\ pc = "probe" /\ ~Live(table[b])
      /\ table' = [table EXCEPT ![b].set = TRUE, ![b].deleted = FALSE, ![b].key = op.key]
      /\ count' = count + 1 /\ bucket' = b /\ pc' = "assign"
      /\ hash' = hash /\ cap' = cap /\ old' = old /\ idx' = idx /\ op' = op /\ tomb' = tomb
      /\ reply' = reply /\ kept' = kept /\ cursor' = cursor /\ due' = due
  BY <1>1 DEF Insert, grow, each
<1>3. /\ TypeOK /\ Good(hash, table, cap) /\ Contents /\ Meeting /\ Storing /\ op.key \in DOMAIN hash
  BY <1>2 DEF IInv, Sound, Finding
<1>4. PICK h, t, n, k : h = hash /\ t = table /\ n = cap /\ k = op.key
  OBVIOUS
<1>5. /\ Hash(h) /\ Good(h, t, n) /\ n \in Nat \ {0} /\ n \in Caps(h) /\ k \in DOMAIN h
      /\ k \in Keys /\ b \in 0 .. n - 1 /\ b \in 0 .. n /\ ~Live(t[b])
  <2>1. /\ Hash(h) /\ Good(h, t, n) /\ n \in Nat \ {0} /\ n \in Caps(h) /\ k \in DOMAIN h
    BY <1>1, <1>3, <1>4 DEF TypeOK
  <2>2. b \in 0 .. n - 1 /\ b \in 0 .. n /\ ~Live(t[b])
    BY <1>1, <1>2, <1>4
  <2> QED  BY <2>1, <2>2, HashFact
<1>6. /\ With(t, n, k) = {} /\ (h \in Removes => b = h[k] % n)
      /\ \A c \in Run(h[k] % n, b, n) : t[c].set
  <2>1. CASE h \notin Removes
    <3>1. Seeks(h, t, n, k, b)
      BY <1>1, <1>2, <1>3, <1>4, <2>1 DEF Storing
    <3>2. ~t[b].set
      BY <1>5, <2>1 DEF Good, Live
    <3>3. With(t, n, k) = {}
      BY <1>5, <3>1, <3>2, SearchEnds
    <3> QED  BY <2>1, <3>1, <3>3 DEF Seeks, Live
  <2>2. CASE h \in Removes
    <3>1. b = Home
      BY <1>1, <1>2, <1>3, <1>4, <2>2 DEF Storing
    <3>2. b = h[k] % n
      BY <3>1, <1>4 DEF Home
    <3>3. Run(h[k] % n, b, n) = {}
      BY <3>2, <1>5, RunFact
    <3>4. 0 \notin DOMAIN h /\ Perfect(h, n)
      BY <1>5, <2>2, SpreadFact
    <3>5. \A c \in 0 .. n - 1 : t[c].set => (t[c].key = k <=> c = b)
      BY <1>5, <2>2, <3>2, <3>4, HomeFact
    <3>6. With(t, n, k) = {}
      BY <1>5, <3>5 DEF With, LiveIn, Live
    <3> QED  BY <3>2, <3>3, <3>6
  <2> QED  BY <2>1, <2>2
<1>7. PICK v \in Vals : v = t[b].val
  <2>1. t[b].set => t[b].val \in Vals
    BY <1>5 DEF Good
  <2>2. ~t[b].set => t[b].val = 0
    BY <1>5 DEF Good, Zero
  <2> QED  BY <2>1, <2>2, HMapAssumption
<1>8. PICK u : u = Placed(t, b, k, v)
  OBVIOUS
<1>9. /\ Good(h, u, n) /\ LiveIn(u, n) = LiveIn(t, n) \cup {b}
      /\ With(u, n, k) = {b} /\ \A j : j # k => With(u, n, j) = With(t, n, j)
      /\ \A c \in 0 .. n : c # b => u[c] = t[c]
      /\ u[b] = Entry(k, v)
  BY <1>5, <1>6, <1>8, PlaceGood
<1>10. table' = u
  <2>1. PICK e : e = [[[t[b] EXCEPT !.set = TRUE] EXCEPT !.deleted = FALSE] EXCEPT !.key = k]
    OBVIOUS
  <2>2. t \in [0 .. n -> Slots] /\ t[b] \in Slots
    BY <1>5 DEF Good
  <2>3. e = Entry(k, v)
    BY <2>1, <2>2, <1>7 DEF Slots, Entry
  <2>4. table' = [t EXCEPT ![b] = e]
    BY <2>1, <2>2, <1>2, <1>4, <1>5
  <2> QED  BY <2>3, <2>4, <1>8 DEF Placed
<1>11. b \in LiveIn(u, n) /\ u[b].key = k
  BY <1>9 DEF Entry
<1>12. count' = Cardinality(LiveIn(u, n)) /\ count' \in Nat
  <2>1. b \notin LiveIn(t, n) /\ IsFiniteSet(LiveIn(t, n))
    BY <1>5, LiveFinite DEF LiveIn
  <2>2. Cardinality(LiveIn(t, n) \cup {b}) = Cardinality(LiveIn(t, n)) + 1
    BY <2>1, FS_AddElement
  <2>3. count = Cardinality(LiveIn(t, n)) /\ count \in Nat
    BY <1>3, <1>4 DEF Contents, TypeOK
  <2> QED  BY <2>2, <2>3, <1>2, <1>9
<1>13. TypeOK'
  BY <1>2, <1>3, <1>5, <1>12 DEF TypeOK
<1>14. \A c \in LiveIn(u, n) : c # b => c \in LiveIn(t, n) /\ u[c] = t[c]
  <2>1. \A c \in LiveIn(t, n) : c \in 0 .. n
    BY <1>5 DEF LiveIn
  <2> QED  BY <2>1, <1>9
<1>15. \A c \in LiveIn(t, n) : c \in LiveIn(u, n) /\ u[c] = t[c]
  <2>1. \A c \in LiveIn(t, n) : c \in 0 .. n /\ c # b
    BY <1>5 DEF LiveIn
  <2> QED  BY <2>1, <1>9
<1>16. Contents'
  <2>1. \A c \in LiveIn(u, n) : kept[u[c].key] = u[c].val \/ c = b
    BY <1>2, <1>3, <1>4, <1>14 DEF Contents
  <2>2. ASSUME NEW j \in Keys, kept[j] # Missing PROVE With(u, n, j) # {}
    <3>1. With(t, n, j) # {}
      BY <2>2, <1>2, <1>3, <1>4 DEF Contents
    <3> QED  BY <3>1, <1>6, <1>9
  <2>3. \A c \in LiveIn(table', cap') : kept'[table'[c].key] = table'[c].val \/ (pc' = "assign" /\ c = bucket')
    BY <2>1, <1>2, <1>4, <1>10
  <2>4. \A j \in Keys : kept'[j] # Missing => With(table', cap', j) # {}
    BY <2>2, <1>2, <1>4, <1>10
  <2>5. count' = Cardinality(LiveIn(table', cap'))
    BY <1>2, <1>4, <1>10, <1>12
  <2> QED  BY <2>3, <2>4, <2>5 DEF Contents
<1>17. Meeting'
  <2>1. CASE cursor = -1
    BY <2>1, <1>2, <1>3 DEF Meeting
  <2>2. CASE cursor # -1
    <3>1. \A j \in due : \E c \in LiveIn(u, n) : cursor <= c /\ u[c].key = j
      BY <2>2, <1>3, <1>4, <1>15 DEF Meeting
    <3>2. \A j \in due' : \E c \in LiveIn(table', cap') : cursor' <= c /\ table'[c].key = j
      BY <3>1, <1>2, <1>4, <1>10
    <3> QED  BY <3>2, <2>2, <1>2 DEF Meeting
  <2> QED  BY <2>1, <2>2
<1>18. Sound' /\ Finding'
  BY <1>2, <1>3, <1>4, <1>9, <1>10, <1>11 DEF Sound, Finding
<1>19. Looking' /\ Storing' /\ Growing'
  BY <1>2 DEF Looking, Storing, Growing
<1> QED  BY <1>2, <1>13, <1>16, <1>17, <1>18, <1>19 DEF IInv

LEMMA StepProbe ==
  ASSUME Spread, IInv, Probe
  PROVE  IInv' /\ kept' = kept
<1>1. PICK b : b = Here /\ b = Bounded /\ b \in 0 .. cap - 1 /\ cap \in Nat \ {0}
  BY BoundedFact DEF Probe
<1>2. /\ pc = "probe" /\ Live(table[b])
      /\ IF table[b].key = op.key THEN bucket' = b /\ pc' = "assign"
                                  ELSE bucket' = b + 1 /\ pc' = "probe"
      /\ hash' = hash /\ cap' = cap /\ count' = count /\ table' = table
      /\ old' = old /\ idx' = idx /\ op' = op /\ tomb' = tomb
      /\ reply' = reply /\ kept' = kept /\ cursor' = cursor /\ due' = due
  BY <1>1 DEF Probe, size, grow, each
<1>3. /\ TypeOK /\ Good(hash, table, cap) /\ Contents /\ Meeting /\ Storing /\ Finding
  BY <1>2 DEF IInv, Sound
<1>4. PICK h, t, n, k : h = hash /\ t = table /\ n = cap /\ k = op.key
  OBVIOUS
<1>5. /\ Hash(h) /\ Good(h, t, n) /\ n \in Nat \ {0} /\ n \in Caps(h) /\ k \in DOMAIN h
      /\ b \in 0 .. n - 1 /\ b \in Nat /\ b \in LiveIn(t, n)
  <2>1. /\ Hash(h) /\ Good(h, t, n) /\ n \in Nat \ {0} /\ n \in Caps(h) /\ k \in DOMAIN h
    BY <1>1, <1>2, <1>3, <1>4 DEF TypeOK, Finding
  <2> QED  BY <2>1, <1>1, <1>2, <1>4 DEF LiveIn
<1>6. TypeOK'
  BY <1>2, <1>3, <1>5 DEF TypeOK
<1>7. Sound' /\ Meeting'
  BY <1>2, <1>3 DEF Sound, Meeting
<1>8. Contents'
  BY <1>2, <1>3 DEF Contents
<1>9. Looking' /\ Growing'
  BY <1>2 DEF Looking, Growing
<1>10. CASE t[b].key = k
  <2>1. bucket' = b /\ pc' = "assign"
    BY <1>2, <1>4, <1>10
  <2>2. Finding' /\ Storing'
    BY <2>1, <1>2, <1>3, <1>4, <1>5, <1>10 DEF Finding, Storing
  <2> QED  BY <2>2, <1>2, <1>6, <1>7, <1>8, <1>9 DEF IInv
<1>11. CASE t[b].key # k
  <2>1. bucket' = b + 1 /\ pc' = "probe"
    BY <1>2, <1>4, <1>11
  <2>2. Here' = (b + 1) % n
    BY <2>1, <1>2, <1>4 DEF Here
  <2>3. h \notin Removes
    <3>1. SUFFICES ASSUME h \in Removes PROVE FALSE
      OBVIOUS
    <3>2. b = Home
      BY <1>1, <1>2, <1>3, <1>4, <3>1 DEF Storing
    <3>3. b = h[k] % n
      BY <3>2, <1>4 DEF Home
    <3>4. 0 \notin DOMAIN h /\ Perfect(h, n)
      BY <1>5, <3>1, SpreadFact
    <3>5. \A c \in 0 .. n - 1 : t[c].set => (t[c].key = k <=> c = b)
      BY <1>5, <3>1, <3>3, <3>4, HomeFact
    <3> QED  BY <3>5, <1>5, <1>11 DEF LiveIn, Live
  <2>4. Seeks(h, t, n, k, (b + 1) % n)
    <3>1. Seeks(h, t, n, k, b)
      BY <1>1, <1>2, <1>3, <1>4, <2>3 DEF Storing
    <3> QED  BY <3>1, <1>5, <1>11, SeeksNext DEF LiveIn
  <2>5. Storing'
    BY <2>1, <2>2, <2>3, <2>4, <1>2, <1>4 DEF Storing
  <2>6. Finding'
    BY <2>1, <1>2, <1>3 DEF Finding
  <2> QED  BY <2>5, <2>6, <1>2, <1>6, <1>7, <1>8, <1>9 DEF IInv
<1> QED  BY <1>10, <1>11

LEMMA StepAssign ==
  ASSUME Spread, IInv, Assign
  PROVE  /\ IInv' /\ kept' = [kept EXCEPT ![op.key] = op.val] /\ reply' = reply
         /\ op.key \in Keys /\ op.val \in Vals
<1>1. /\ pc = "assign" /\ table' = [table EXCEPT ![bucket].val = op.val]
      /\ kept' = [kept EXCEPT ![op.key] = op.val]
      /\ old' = <<>> /\ idx' = 0 /\ pc' = "idle" /\ bucket' = 0 /\ tomb' = -1
      /\ hash' = hash /\ cap' = cap /\ count' = count /\ op' = op /\ reply' = reply
      /\ cursor' = cursor /\ due' = due
  BY DEF Assign, Pop, size, each
<1>2. /\ TypeOK /\ Good(hash, table, cap) /\ Contents /\ Meeting /\ op.key \in DOMAIN hash
      /\ bucket \in LiveIn(table, cap) /\ table[bucket].key = op.key
  BY <1>1 DEF IInv, Sound, Finding
<1>3. PICK h, t, n, k, b, v, u :
        /\ h = hash /\ t = table /\ n = cap /\ k = op.key /\ b = bucket /\ v = op.val
        /\ u = table' /\ u = Valued(t, b, v)
  BY <1>1 DEF Valued
<1>4. /\ Hash(h) /\ Good(h, t, n) /\ b \in LiveIn(t, n) /\ t[b].key = k /\ v \in Vals
      /\ k \in Keys /\ n \in Nat \ {0} /\ b \in 0 .. n
  <2>1. /\ Hash(h) /\ Good(h, t, n) /\ b \in LiveIn(t, n) /\ t[b].key = k /\ v \in Vals
        /\ n \in Nat \ {0} /\ k \in DOMAIN h
    BY <1>2, <1>3 DEF TypeOK, Good
  <2>2. b \in 0 .. n
    BY <2>1 DEF LiveIn
  <2> QED  BY <2>1, <2>2, HashFact
<1>5. /\ Good(h, u, n) /\ LiveIn(u, n) = LiveIn(t, n)
      /\ \A c \in 0 .. n : c # b => u[c] = t[c]
      /\ \A c \in 0 .. n : u[c].key = t[c].key
      /\ u[b].val = v
  BY <1>3, <1>4, ValGood
<1>6. /\ kept' \in [Keys -> Vals \cup {Missing}] /\ kept'[k] = v
      /\ \A j \in Keys : j # k => kept'[j] = kept[j]
  BY <1>1, <1>2, <1>3, <1>4 DEF TypeOK
<1>7. TypeOK'
  BY <1>1, <1>2, <1>6 DEF TypeOK
<1>8. \A c \in LiveIn(t, n) : c \in 0 .. n
  BY <1>4 DEF LiveIn
<1>9. ASSUME NEW c \in LiveIn(u, n) PROVE kept'[u[c].key] = u[c].val
  <2>1. c \in LiveIn(t, n) /\ u[c].key = t[c].key
    BY <1>5, <1>8
  <2>2. CASE c = b
    BY <2>1, <2>2, <1>4, <1>5, <1>6
  <2>3. CASE c # b
    <3>1. t[c].key \in Keys /\ t[c].key # k
      <4>1. t[c].key \in DOMAIN h
        BY <2>1, <1>4 DEF Good, LiveIn, Live
      <4>2. t[c].key # k
        BY <2>1, <2>3, <1>4 DEF Good
      <4> QED  BY <4>1, <4>2, <1>4, HashFact
    <3>2. kept[t[c].key] = t[c].val
      BY <2>1, <2>3, <1>2, <1>3 DEF Contents
    <3>3. u[c] = t[c]
      BY <2>1, <2>3, <1>5, <1>8
    <3> QED  BY <3>1, <3>2, <3>3, <1>6
  <2> QED  BY <2>2, <2>3
<1>10. ASSUME NEW j \in Keys, kept'[j] # Missing PROVE With(u, n, j) # {}
  <2>1. CASE j = k
    <3>1. b \in With(u, n, k)
      BY <1>4, <1>5 DEF With
    <3> QED  BY <2>1, <3>1
  <2>2. CASE j # k
    <3>1. PICK c \in LiveIn(t, n) : t[c].key = j
      BY <2>2, <1>10, <1>1, <1>2, <1>3, <1>6 DEF Contents, With
    <3>2. c \in LiveIn(u, n) /\ u[c].key = j
      BY <3>1, <1>5, <1>8
    <3> QED  BY <3>2 DEF With
  <2> QED  BY <2>1, <2>2
<1>11. Contents'
  <2>1. count' = Cardinality(LiveIn(u, n))
    BY <1>1, <1>2, <1>3, <1>5 DEF Contents
  <2> QED  BY <2>1, <1>1, <1>3, <1>9, <1>10 DEF Contents
<1>12. Meeting'
  <2>1. CASE cursor = -1
    BY <2>1, <1>1, <1>2 DEF Meeting
  <2>2. CASE cursor # -1
    <3>1. \A j \in due : \E c \in LiveIn(u, n) : cursor <= c /\ u[c].key = j
      BY <2>2, <1>2, <1>3, <1>5, <1>8 DEF Meeting
    <3>2. \A j \in due' : \E c \in LiveIn(table', cap') : cursor' <= c /\ table'[c].key = j
      BY <3>1, <1>1, <1>3
    <3> QED  BY <3>2, <2>2, <1>1 DEF Meeting
  <2> QED  BY <2>1, <2>2
<1>13. Sound'
  BY <1>1, <1>3, <1>5 DEF Sound
<1>14. Finding' /\ Looking' /\ Storing' /\ Growing'
  BY <1>1 DEF Finding, Looking, Storing, Growing
<1> QED  BY <1>1, <1>3, <1>4, <1>7, <1>11, <1>12, <1>13, <1>14 DEF IInv

(* Steps of a foreach loop, which changes nothing else.                    *)
LEMMA EachFact ==
  ASSUME IInv, pc = "idle", UNCHANGED <<hash, size, table, grow, pc, op, loop, reply, kept>>,
         cursor' \in Nat \cup {-1}, due' \subseteq Keys, Meeting'
  PROVE  IInv'
<1>1. /\ hash' = hash /\ cap' = cap /\ count' = count /\ table' = table
      /\ old' = old /\ idx' = idx /\ pc' = pc /\ op' = op /\ bucket' = bucket /\ tomb' = tomb
      /\ reply' = reply /\ kept' = kept
  BY DEF size, grow, loop
<1>2. TypeOK /\ Good(hash, table, cap) /\ Contents
  BY DEF IInv, Sound
<1>3. TypeOK'
  BY <1>1, <1>2 DEF TypeOK
<1>4. Sound' /\ Contents'
  BY <1>1, <1>2 DEF Sound, Contents
<1>5. Finding' /\ Looking' /\ Storing' /\ Growing'
  BY <1>1 DEF Finding, Looking, Storing, Growing
<1> QED  BY <1>3, <1>4, <1>5 DEF IInv

LEMMA StepEachInit ==
  ASSUME Spread, IInv, EachInit
  PROVE  IInv'
<1>1. /\ pc = "idle" /\ cursor' = 0 /\ due' = {k \in Keys : kept[k] # Missing}
      /\ UNCHANGED <<hash, size, table, grow, pc, op, loop, reply, kept>>
      /\ cap' = cap /\ table' = table
  BY DEF EachInit, Idle, size
<1>2. Contents /\ cap \in Nat
  BY <1>1 DEF IInv, Sound, Good
<1>3. \A k \in due' : \E b \in LiveIn(table, cap) : 0 <= b /\ table[b].key = k
  <2>1. ASSUME NEW k \in due' PROVE \E b \in LiveIn(table, cap) : 0 <= b /\ table[b].key = k
    <3>1. With(table, cap, k) # {}
      BY <1>1, <1>2 DEF Contents
    <3>2. PICK b \in LiveIn(table, cap) : table[b].key = k
      BY <3>1 DEF With
    <3>3. 0 <= b
      BY <1>2 DEF LiveIn
    <3> QED  BY <3>2, <3>3
  <2> QED  BY <2>1
<1>4. Meeting'
  BY <1>1, <1>3 DEF Meeting
<1>5. cursor' \in Nat \cup {-1} /\ due' \subseteq Keys
  BY <1>1
<1> QED  BY <1>1, <1>4, <1>5, EachFact

LEMMA StepEachNext ==
  ASSUME Spread, IInv, EachNext
  PROVE  IInv'
<1>1. PICK m : m = Min(Ahead)
  OBVIOUS
<1>2. /\ pc = "idle" /\ cursor >= 0 /\ Ahead # {} /\ cursor' = m + 1
      /\ due' = due \ {table[m].key}
      /\ UNCHANGED <<hash, size, table, grow, pc, op, loop, reply, kept>>
      /\ cap' = cap /\ table' = table
  BY <1>1 DEF EachNext, size
<1>3. Good(hash, table, cap) /\ Meeting /\ TypeOK /\ cap \in Nat
  BY <1>2 DEF IInv, Sound, Good
<1>4. cursor \in Nat
  BY <1>2, <1>3 DEF TypeOK
<1>5. Ahead = {b \in LiveIn(table, cap) : cursor <= b} /\ Ahead \in SUBSET Nat
  BY <1>3, <1>4 DEF Ahead, LiveIn
<1>6. m \in Nat /\ m \in LiveIn(table, cap) /\ \A b \in Ahead : m <= b
  BY <1>1, <1>2, <1>5, MinFact
<1>7. ASSUME NEW k \in due' PROVE \E b \in LiveIn(table, cap) : m + 1 <= b /\ table[b].key = k
  <2>1. PICK b \in LiveIn(table, cap) : cursor <= b /\ table[b].key = k
    BY <1>2, <1>3, <1>4 DEF Meeting
  <2>2. b \in Ahead /\ b \in Nat /\ b # m /\ m <= b
    BY <2>1, <1>2, <1>5, <1>6
  <2>3. m + 1 <= b
    BY <2>2, <1>6
  <2> QED  BY <2>1, <2>3
<1>8. Meeting'
  <2>1. cursor' # -1
    BY <1>2, <1>6
  <2> QED  BY <2>1, <1>2, <1>7 DEF Meeting
<1>9. cursor' \in Nat \cup {-1} /\ due' \subseteq Keys
  BY <1>2, <1>3, <1>6 DEF TypeOK
<1> QED  BY <1>2, <1>8, <1>9, EachFact

LEMMA StepEachEnd ==
  ASSUME Spread, IInv, EachEnd
  PROVE  IInv' /\ due = {}
<1>1. /\ pc = "idle" /\ cursor >= 0 /\ Ahead = {} /\ cursor' = -1 /\ due' = due
      /\ UNCHANGED <<hash, size, table, grow, pc, op, loop, reply, kept>>
  BY DEF EachEnd
<1>2. Meeting /\ TypeOK /\ cap \in Nat
  BY <1>1 DEF IInv, Sound, Good
<1>3. cursor \in Nat
  BY <1>1, <1>2 DEF TypeOK
<1>4. Ahead = {b \in LiveIn(table, cap) : cursor <= b}
  BY <1>2, <1>3 DEF Ahead, LiveIn
<1>5. due = {}
  BY <1>1, <1>2, <1>3, <1>4 DEF Meeting
<1>6. Meeting' /\ cursor' \in Nat \cup {-1} /\ due' \subseteq Keys
  BY <1>1, <1>5 DEF Meeting
<1> QED  BY <1>1, <1>5, <1>6, EachFact

LEMMA StepDestroy ==
  ASSUME Spread, IInv, Destroy
  PROVE  IInv' /\ pc' = "gone" /\ kept' = kept /\ reply' = reply
<1>1. /\ pc' = "gone" /\ hash' = hash /\ cap' = cap /\ count' = count
      /\ old' = old /\ idx' = idx /\ op' = op /\ bucket' = bucket /\ tomb' = tomb
      /\ reply' = reply /\ kept' = kept /\ cursor' = cursor /\ due' = due
  BY DEF Destroy, size, grow, loop, each
<1>2. TypeOK'
  BY <1>1 DEF IInv, TypeOK
<1> QED  BY <1>1, <1>2 DEF IInv
-----------------------------------------------------------------------------
(* The theorems.                                                           *)

(* What a step promises: the invariant, a step of the dictionary that is   *)
(* kept, and a loop that ends when it has nothing left to meet.            *)
DictStep ==
  \/ \E k \in Keys : \/ reply' = kept[k] /\ kept' = kept
                     \/ reply' = kept[k] /\ kept' = [kept EXCEPT ![k] = Missing]
                     \/ \E v \in Vals : kept' = [kept EXCEPT ![k] = v] /\ reply' = reply
  \/ kept' = kept /\ reply' = reply
Promised == IInv' /\ DictStep /\ (EachEnd => due = {})

LEMMA WorkPromised ==
  ASSUME Spread, IInv, Work
  PROVE  IInv' /\ DictStep
<1>1. CASE Lookup
  BY <1>1, StepLookup DEF Lookup, DictStep
<1>2. CASE NotThere
  <2>1. IInv' /\ kept[op.key] = Missing /\ op.key \in Keys
    BY <1>2, StepNotThere
  <2> QED  BY <2>1, <1>2 DEF NotThere, DictStep
<1>3. CASE Value
  <2>1. IInv' /\ reply' = kept[op.key] /\ op.key \in Keys
    BY <1>3, StepValue
  <2> QED  BY <2>1, <1>3 DEF Value, DictStep
<1>4. CASE Delete
  <2>1. IInv' /\ reply' = kept[op.key] /\ op.key \in Keys
    BY <1>4, StepDelete
  <2> QED  BY <2>1, <1>4 DEF Delete, DictStep
<1>5. CASE Grow
  BY <1>5, StepGrow DEF Grow, DictStep
<1>6. CASE Rehash
  BY <1>6, StepRehash DEF Rehash, DictStep
<1>7. CASE Rehashed
  BY <1>7, StepRehashed DEF Rehashed, DictStep
<1>8. CASE Insert
  BY <1>8, StepInsert DEF Insert, DictStep
<1>9. CASE Probe
  BY <1>9, StepProbe DEF Probe, DictStep
<1>10. CASE Assign
  <2>1. /\ IInv' /\ kept' = [kept EXCEPT ![op.key] = op.val] /\ reply' = reply
        /\ op.key \in Keys /\ op.val \in Vals
    BY <1>10, StepAssign
  <2> QED  BY <2>1 DEF DictStep
<1> QED  BY <1>1, <1>2, <1>3, <1>4, <1>5, <1>6, <1>7, <1>8, <1>9, <1>10 DEF Work

LEMMA ProgramPromised ==
  ASSUME Spread, IInv, Program
  PROVE  IInv' /\ DictStep
<1>1. CASE EachInit
  BY <1>1, StepEachInit DEF EachInit, DictStep
<1>2. CASE EachNext
  BY <1>2, StepEachNext DEF EachNext, DictStep
<1>3. CASE EachEnd
  BY <1>3, StepEachEnd DEF EachEnd, DictStep
<1>4. CASE Destroy
  BY <1>4, StepDestroy DEF DictStep
<1>5. ASSUME NEW k \in DOMAIN hash, Get(k) PROVE IInv' /\ DictStep
  BY <1>5, StepGet DEF Get, Start, DictStep
<1>6. ASSUME NEW k \in DOMAIN hash, RemoveKey(k) PROVE IInv' /\ DictStep
  BY <1>6, StepRemoveKey DEF RemoveKey, Start, DictStep
<1>7. ASSUME NEW k \in DOMAIN hash, NEW v \in Vals, Put(k, v) PROVE IInv' /\ DictStep
  BY <1>7, StepPut DEF Put, Start, DictStep
<1> QED  BY <1>1, <1>2, <1>3, <1>4, <1>5, <1>6, <1>7 DEF Program

LEMMA QuietPromised ==
  ASSUME IInv, UNCHANGED vars
  PROVE  IInv' /\ DictStep
<1>1. /\ hash' = hash /\ cap' = cap /\ count' = count /\ table' = table
      /\ old' = old /\ idx' = idx /\ pc' = pc /\ op' = op /\ bucket' = bucket /\ tomb' = tomb
      /\ reply' = reply /\ kept' = kept /\ cursor' = cursor /\ due' = due
  BY DEF vars, size, grow, loop, each
<1>2. TypeOK'
  BY <1>1 DEF IInv, TypeOK
<1>3. Home' = Home /\ Here' = Here
  BY <1>1 DEF Home, Here
<1>4. ASSUME pc # "gone"
      PROVE  Sound' /\ Looking' /\ Finding' /\ Storing' /\ Growing' /\ Contents' /\ Meeting'
  <2>1. Sound /\ Looking /\ Finding /\ Storing /\ Growing /\ Contents /\ Meeting
    BY <1>4 DEF IInv
  <2>2. Sound' /\ Contents' /\ Meeting' /\ Finding'
    BY <1>1, <2>1 DEF Sound, Contents, Meeting, Finding
  <2>3. Looking' /\ Storing' /\ Growing'
    BY <1>1, <1>3, <2>1 DEF Looking, Storing, Growing
  <2> QED  BY <2>2, <2>3
<1> QED  BY <1>1, <1>2, <1>4 DEF IInv, DictStep

LEMMA StepPromised ==
  ASSUME Spread, IInv, [Next]_vars
  PROVE  Promised
<1>1. IInv' /\ DictStep
  BY WorkPromised, ProgramPromised, QuietPromised DEF Next
<1>2. EachEnd => due = {}
  BY StepEachEnd
<1> QED  BY <1>1, <1>2 DEF Promised

(* The invariant is one.                                                   *)
THEOREM Inductive == ASSUME Spread PROVE Spec => []IInv
<1>1. Init => IInv
  BY InitInv
<1>2. IInv /\ [Next]_vars => IInv'
  BY StepPromised DEF Promised
<1> QED  BY <1>1, <1>2, PTL DEF Spec

(* Between operations the count of a dictionary is the number of its       *)
(* entries and no key has two, for any keys, hash, literal and capacity    *)
(* and any sequence of lookups, stores, removals, loops and growths.       *)
THEOREM CountIsExact == ASSUME Spread PROVE Spec => []CountExact
<1>1. ASSUME IInv PROVE CountExact
  <2>1. SUFFICES ASSUME pc = "idle"
                 PROVE  /\ count = Cardinality(Buckets)
                        /\ \A k \in Keys : Cardinality(Holding(k)) = IF kept[k] = Missing THEN 0 ELSE 1
    BY DEF CountExact
  <2>2. Good(hash, table, cap) /\ Contents
    BY <1>1, <2>1 DEF IInv, Sound
  <2>3. Buckets = LiveIn(table, cap) /\ \A k : Holding(k) = With(table, cap, k)
    BY DEF Buckets, Holding, LiveIn, With
  <2>4. count = Cardinality(Buckets)
    BY <2>2, <2>3 DEF Contents
  <2>5. ASSUME NEW k \in Keys
        PROVE  Cardinality(With(table, cap, k)) = IF kept[k] = Missing THEN 0 ELSE 1
    <3>1. CASE kept[k] = Missing
      <4>1. \A b \in LiveIn(table, cap) : kept[table[b].key] \in Vals
        BY <2>1, <2>2 DEF Contents, Good, LiveIn, Live
      <4>2. Missing \notin Vals
        BY HMapAssumption
      <4>3. With(table, cap, k) = {}
        BY <3>1, <4>1, <4>2 DEF With
      <4> QED  BY <3>1, <4>3, FS_EmptySet
    <3>2. CASE kept[k] # Missing
      <4>1. PICK b : b \in With(table, cap, k)
        BY <3>2, <2>1, <2>2 DEF Contents
      <4>2. With(table, cap, k) = {b}
        BY <4>1, <2>2 DEF With, Good
      <4> QED  BY <3>2, <4>2, FS_Singleton
    <3> QED  BY <3>1, <3>2
  <2> QED  BY <2>3, <2>4, <2>5
<1> QED  BY <1>1, Inductive, PTL

(* A foreach loop ends when it has met every key that was there when it    *)
(* began, whatever its body looks up and stores.                           *)
THEOREM LoopsMeetAll == ASSUME Spread PROVE Spec => EachMet
<1>1. IInv /\ [Next]_vars => [EachEnd => due = {}]_vars
  BY StepPromised DEF Promised
<1> QED  BY <1>1, Inductive, PTL DEF Spec, EachMet

(* A table with open addressing is a dictionary: each step is a lookup, a  *)
(* store or a removal of Dict on what the table shows, or none of them; a  *)
(* growth moves every entry and shows the same in between.                 *)
THEOREM IsDict == ASSUME Spread PROVE Spec => ImplementsDict
<1>1. IInv => Shown = kept
  BY ShownFact
<1>2. Init => Abstract!Init
  <2> SUFFICES ASSUME Init PROVE Abstract!Init
    OBVIOUS
  <2>1. Shown = kept /\ kept \in [Keys -> Vals \cup {Missing}] /\ reply = Missing
    BY InitInv, ShownFact DEF IInv, TypeOK, Init
  <2> QED  BY <2>1 DEF Abstract!Init
<1>3. ASSUME IInv, [Next]_vars, Shown = kept, (Shown = kept)'
      PROVE  [Abstract!Next]_<<Shown, reply>>
  <2>1. DictStep
    BY <1>3, StepPromised DEF Promised
  <2>2. Shown = kept /\ Shown' = kept'
    BY <1>3
  <2>3. CASE \E k \in Keys : \/ reply' = kept[k] /\ kept' = kept
                             \/ reply' = kept[k] /\ kept' = [kept EXCEPT ![k] = Missing]
                             \/ \E v \in Vals : kept' = [kept EXCEPT ![k] = v] /\ reply' = reply
    <3>1. Abstract!Next
      BY <2>2, <2>3 DEF Abstract!Next, Abstract!Get, Abstract!Remove, Abstract!Put
    <3> QED  BY <3>1
  <2>4. CASE kept' = kept /\ reply' = reply
    BY <2>2, <2>4
  <2> QED  BY <2>1, <2>3, <2>4 DEF DictStep
<1> QED  BY <1>1, <1>2, <1>3, Inductive, PTL DEF Spec, ImplementsDict, Abstract!Spec
=============================================================================
