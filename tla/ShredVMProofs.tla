--------------------------- MODULE ShredVMProofs ---------------------------
(***************************************************************************)
(* The inductive invariant of ShredVM, and the theorems that follow from   *)
(* it, for any number of shreds and events, any period of the position and *)
(* any mix of instructions, of programs that leave waiting shreds alone.   *)
(*                                                                         *)
(* First comes what each operation on the list of ticks does to a          *)
(* well-formed list.  These proofs follow the pointers; nothing is known   *)
(* of the length of the list, and no induction is needed: `after' carries  *)
(* the order along.                                                        *)
(***************************************************************************)
EXTENDS ShredVM, TLAPS

(* l and r agree on every tick but t: who is loose and who is done. *)
SameApart(l, r, t) ==
  \A s \in Shreds \ {t} : /\ Loose(l, s) => Loose(r, s)
                          /\ r.prev[s] = Erased <=> l.prev[s] = Erased

-----------------------------------------------------------------------------
LEMMA LinkedFact ==
  ASSUME NEW l
  PROVE  /\ Linked(l) \subseteq Shreds
         /\ \A s \in Shreds : s \in Linked(l) <=>
              (s = l.head \/ (l.prev[s] \in Shreds /\ l.next[l.prev[s]] = s))
BY DEF Linked

LEMMA ListFact ==
  ASSUME NEW l \in Lists
  PROVE  /\ l.head \in Shreds \cup {Null}
         /\ l.curr \in Shreds \cup {Null}
         /\ l.prev \in [Shreds -> Shreds \cup {Null, Erased}]
         /\ l.next \in [Shreds -> Shreds \cup {Null}]
         /\ l.wake \in [Shreds -> Int]
BY DEF Lists

(* A tick on the list, its neighbours and those served after it. *)
LEMMA ThreadsFact ==
  ASSUME NEW l \in Lists, NEW after \in [Linked(l) -> SUBSET Linked(l)],
         Threads(l, after)
  PROVE  /\ l.head = Null => Linked(l) = {}
         /\ l.head # Null => /\ l.head \in Linked(l)
                             /\ after[l.head] = Linked(l) \ {l.head}
         /\ \A s \in Linked(l) :
              /\ s \in Shreds
              /\ after[s] \subseteq Linked(l)
              /\ s \notin after[s]
              /\ l.prev[s] \in Linked(l) \cup {Null}
              /\ l.prev[s] = Null <=> s = l.head
              /\ l.prev[s] # Null => l.next[l.prev[s]] = s
              /\ l.next[s] = Null => after[s] = {}
              /\ l.next[s] # Null => /\ l.next[s] \in Linked(l)
                                     /\ l.prev[l.next[s]] = s
                                     /\ after[s] = {l.next[s]} \cup after[l.next[s]]
              /\ \A r \in after[s] : l.wake[s] <= l.wake[r]
<1>1. l.head # Null => l.head \in Linked(l)
  BY ListFact, LinkedFact
<1>2. \A s \in Linked(l) : l.prev[s] # Null => l.next[l.prev[s]] = s
  BY LinkedFact, PointerAssumption DEF Threads
<1> QED  BY <1>1, <1>2, LinkedFact DEF Threads

(* Unlinking a tick (tk_remove) leaves the others threaded in order, and   *)
(* does nothing to the list when the tick is off it.                       *)
LEMMA TkRemoveSound ==
  ASSUME NEW l \in Lists, WellFormed(l), NEW t \in Shreds,
         t \in Linked(l) \/ Loose(l, t)
  PROVE  LET r == TkRemove(l, t)
         IN  /\ r \in Lists
             /\ WellFormed(r)
             /\ Linked(r) = Linked(l) \ {t}
             /\ SameApart(l, r, t)
             /\ r.prev[t] # Erased
             /\ r.curr = IF t = l.curr THEN Null ELSE l.curr
<1> DEFINE r == TkRemove(l, t)
           L == Linked(l)
<1>1. PICK after \in [L -> SUBSET L] : Threads(l, after)
  BY DEF WellFormed
<1>2. /\ r.head = IF t # l.curr /\ t = l.head THEN l.next[t] ELSE l.head
      /\ r.curr = IF t = l.curr THEN Null ELSE l.curr
      /\ r.next = [s \in Shreds |-> IF s = l.prev[t] THEN l.next[t] ELSE l.next[s]]
      /\ r.prev = [s \in Shreds |-> IF s = l.next[t] THEN l.prev[t] ELSE l.prev[s]]
      /\ r.wake = l.wake
  BY DEF TkRemove, Lists
<1>3. r \in Lists
  BY DEF TkRemove, Lists
<1>4. l.prev[t] # Erased /\ l.next[t] # t
  BY <1>1, ThreadsFact, LinkedFact, PointerAssumption DEF Loose
<1>5. t \in L => t # l.curr
  BY DEF WellFormed
<1> HIDE DEF r
<1>6. Linked(r) = L \ {t}
  <2>1. CASE t \in L
    <3>1. ASSUME NEW s \in Shreds PROVE s \in Linked(r) <=> s \in L \ {t}
      BY <2>1, <1>1, <1>2, <1>4, <1>5, ThreadsFact, LinkedFact, ListFact, PointerAssumption
    <3> QED  BY <3>1, LinkedFact
  <2>2. CASE Loose(l, t)
    BY <2>2, <1>2, LinkedFact, ListFact, PointerAssumption DEF Loose
  <2> QED  BY <2>1, <2>2
<1>7. WellFormed(r)
  <2> DEFINE later == [s \in L \ {t} |-> after[s] \ {t}]
  <2>1. later \in [Linked(r) -> SUBSET Linked(r)]
    BY <1>1, <1>6
  <2>2. Threads(r, later)
    <3>1. Linked(r) = {} <=> r.head = Null
      BY <1>1, <1>2, <1>4, <1>5, <1>6, ThreadsFact, LinkedFact, ListFact,
         PointerAssumption DEF Loose
    <3>2. r.head # Null => later[r.head] = Linked(r) \ {r.head}
      BY <1>1, <1>2, <1>4, <1>5, <1>6, ThreadsFact, LinkedFact, ListFact,
         PointerAssumption DEF Loose
    <3>3. ASSUME NEW s \in Linked(r)
          PROVE  /\ s \notin later[s]
                 /\ r.prev[s] \in Linked(r) \cup {Null}
                 /\ r.prev[s] = Null <=> s = r.head
      BY <3>3, <1>1, <1>2, <1>4, <1>5, <1>6, ThreadsFact, LinkedFact, ListFact,
         PointerAssumption DEF Loose
    <3>4. ASSUME NEW s \in Linked(r)
          PROVE  /\ r.next[s] = Null => later[s] = {}
                 /\ r.next[s] # Null =>
                      /\ r.next[s] \in Linked(r)
                      /\ r.prev[r.next[s]] = s
                      /\ later[s] = {r.next[s]} \cup later[r.next[s]]
      <4>1. CASE t \notin L
        <5>1. l.prev[t] = Null /\ l.next[t] = Null
          BY <4>1 DEF Loose
        <5>2. \A u \in Shreds : r.next[u] = l.next[u] /\ r.prev[u] = l.prev[u]
          BY <5>1, <1>2, PointerAssumption
        <5>3. Linked(r) = L /\ \A u \in L : later[u] = after[u]
          BY <4>1, <1>1, <1>6
        <5> HIDE DEF later
        <5> QED  BY <5>2, <5>3, <3>4, <1>1, ThreadsFact
      <4>2. CASE t \in L /\ s = l.prev[t]
        <5>1. /\ s \in Shreds /\ s \in L /\ l.next[s] = t
              /\ after[s] = {t} \cup after[t]
              /\ t \notin after[t]
              /\ r.next[s] = l.next[t]
          BY <4>2, <3>4, <1>1, <1>2, <1>6, ThreadsFact, LinkedFact, ListFact,
             PointerAssumption
        <5>2. CASE l.next[t] = Null
          BY <5>1, <5>2, <4>2, <3>4, <1>1, <1>6, ThreadsFact
        <5>3. CASE l.next[t] # Null
          <6> DEFINE n == l.next[t]
          <6>1. /\ n \in L /\ n # t /\ l.prev[n] = t
                /\ after[t] = {n} \cup after[n]
            BY <5>3, <4>2, <1>1, <1>4, ThreadsFact
          <6>2. r.prev[n] = s
            BY <6>1, <1>2, <4>2, LinkedFact, ListFact
          <6> QED  BY <6>1, <6>2, <5>1, <5>3, <3>4, <1>1, <1>6
        <5> QED  BY <5>2, <5>3
      <4>3. CASE t \in L /\ s # l.prev[t]
        <5>1. /\ s \in Shreds /\ s \in L /\ s # t
              /\ l.next[s] # t
              /\ r.next[s] = l.next[s]
          BY <4>3, <3>4, <1>1, <1>2, <1>6, ThreadsFact, LinkedFact, ListFact
        <5>2. CASE l.next[s] = Null
          BY <5>1, <5>2, <3>4, <1>1, <1>6, ThreadsFact
        <5>3. CASE l.next[s] # Null
          <6> DEFINE n == l.next[s]
          <6>1. /\ n \in L /\ n # t /\ l.prev[n] = s
                /\ after[s] = {n} \cup after[n]
            BY <5>1, <5>3, <1>1, ThreadsFact
          <6>2. n # l.next[t]
            BY <6>1, <5>1, <4>3, <1>1, ThreadsFact, LinkedFact, PointerAssumption
          <6>3. r.prev[n] = s
            BY <6>1, <6>2, <1>2, LinkedFact, ListFact
          <6> QED  BY <6>1, <6>3, <5>1, <5>3, <3>4, <1>1, <1>6
        <5> QED  BY <5>2, <5>3
      <4> QED  BY <4>1, <4>2, <4>3
    <3>5. ASSUME NEW s \in Linked(r), NEW u \in later[s]
          PROVE  r.wake[s] <= r.wake[u]
      BY <3>5, <1>1, <1>2, <1>6, ThreadsFact
    <3> QED  BY <3>1, <3>2, <3>3, <3>4, <3>5 DEF Threads
  <2>3. r.curr \notin Linked(r)
    BY <1>2, <1>6, LinkedFact, PointerAssumption DEF WellFormed
  <2> QED  BY <2>1, <2>2, <2>3 DEF WellFormed
<1>8. SameApart(l, r, t)
  <2> SUFFICES ASSUME NEW s \in Shreds \ {t}
               PROVE  /\ Loose(l, s) => Loose(r, s)
                      /\ r.prev[s] = Erased <=> l.prev[s] = Erased
    BY DEF SameApart
  <2>1. t \in L /\ s = l.next[t] => s \in L /\ l.prev[s] = t
    BY <1>1, ThreadsFact, LinkedFact, PointerAssumption
  <2>2. t \in L /\ s = l.prev[t] => s \in L
    BY <1>1, ThreadsFact, LinkedFact, PointerAssumption
  <2>3. t \notin L => l.prev[t] = Null /\ l.next[t] = Null
    BY DEF Loose
  <2>4. Loose(l, s) => r.next[s] = Null /\ r.prev[s] = Null
    BY <2>1, <2>2, <2>3, <1>2, ListFact, PointerAssumption DEF Loose
  <2>5. r.prev[s] = Erased <=> l.prev[s] = Erased
    BY <2>1, <2>3, <1>2, <1>4, ListFact, PointerAssumption
  <2> QED  BY <2>4, <2>5, <1>6 DEF Loose
<1>9. r.prev[t] # Erased
  BY <1>2, <1>4, ListFact
<1> QED  BY <1>2, <1>3, <1>6, <1>7, <1>8, <1>9 DEF r

(* The same of shreduler_remove(s, t, false), which also clears t's own    *)
(* pointers.                                                               *)
LEMMA DetachSound ==
  ASSUME NEW l \in Lists, WellFormed(l), NEW t \in Shreds,
         t \in Linked(l) \/ Loose(l, t)
  PROVE  LET r == Detach(l, t)
         IN  /\ r \in Lists
             /\ WellFormed(r)
             /\ Linked(r) = Linked(l) \ {t}
             /\ SameApart(l, r, t)
             /\ Loose(r, t)
             /\ r.curr = IF t = l.curr THEN Null ELSE l.curr
<1> DEFINE p == TkRemove(l, t)
           r == Detach(l, t)
           L == Linked(l) \ {t}
<1>1. /\ p \in Lists
      /\ WellFormed(p)
      /\ Linked(p) = L
      /\ SameApart(l, p, t)
      /\ p.curr = IF t = l.curr THEN Null ELSE l.curr
  BY TkRemoveSound
<1> HIDE DEF p
<1>2. /\ r \in Lists
      /\ r.head = p.head /\ r.curr = p.curr /\ r.wake = p.wake
      /\ r.prev = [p.prev EXCEPT ![t] = Null]
      /\ r.next = [p.next EXCEPT ![t] = Null]
  BY <1>1 DEF Detach, Lists, p
<1> HIDE DEF r
<1>3. PICK after \in [L -> SUBSET L] : Threads(p, after)
  BY <1>1 DEF WellFormed
<1>4. \A s \in L : p.prev[s] # t /\ p.next[s] # t
  BY <1>1, <1>3, ThreadsFact, LinkedFact, PointerAssumption
<1>5. Linked(r) = L
  <2> SUFFICES ASSUME NEW s \in Shreds PROVE s \in Linked(r) <=> s \in L
    BY LinkedFact
  <2>1. CASE s = t
    BY <2>1, <1>1, <1>2, LinkedFact, ListFact, PointerAssumption
  <2>2. CASE s # t
    <3>1. r.prev[s] = p.prev[s]
      BY <2>2, <1>2, ListFact, <1>1
    <3>2. CASE p.prev[s] = t
      BY <3>1, <3>2, <2>2, <1>1, <1>2, <1>4, LinkedFact, ListFact, PointerAssumption
    <3>3. CASE p.prev[s] # t
      BY <3>1, <3>3, <2>2, <1>1, <1>2, LinkedFact, ListFact
    <3> QED  BY <3>2, <3>3
  <2> QED  BY <2>1, <2>2
<1>6. \A s \in L : s \in Shreds /\ r.prev[s] = p.prev[s] /\ r.next[s] = p.next[s]
  BY <1>1, <1>2, ListFact, LinkedFact
<1>7. Threads(r, after)
  BY <1>1, <1>2, <1>3, <1>5, <1>6 DEF Threads
<1>8. WellFormed(r)
  BY <1>1, <1>2, <1>5, <1>7 DEF WellFormed
<1>9. SameApart(l, r, t)
  BY <1>1, <1>2, <1>5, ListFact DEF SameApart, Loose
<1>10. Loose(r, t)
  BY <1>1, <1>2, <1>5, ListFact DEF Loose
<1> QED  BY <1>1, <1>2, <1>5, <1>8, <1>9, <1>10 DEF r

(* Serving the tick at the front (shreduler_get). *)
LEMMA PopSound ==
  ASSUME NEW l \in Lists, WellFormed(l), l.head # Null
  PROVE  LET r == Pop(l)
             t == l.head
         IN  /\ t \in Linked(l)
             /\ r \in Lists
             /\ WellFormed(r)
             /\ Linked(r) = Linked(l) \ {t}
             /\ SameApart(l, r, t)
             /\ Loose(r, t)
             /\ r.curr = t
<1> DEFINE r == Pop(l)
           t == l.head
           d == Detach(l, t)
<1>1. PICK after \in [Linked(l) -> SUBSET Linked(l)] : Threads(l, after)
  BY DEF WellFormed
<1>2. /\ t \in Shreds /\ t \in Linked(l) /\ t # l.curr
      /\ l.prev[t] = Null /\ l.next[t] # t
  BY <1>1, ThreadsFact, LinkedFact DEF WellFormed
<1>3. /\ d \in Lists
      /\ WellFormed(d)
      /\ Linked(d) = Linked(l) \ {t}
      /\ SameApart(l, d, t)
      /\ Loose(d, t)
  BY <1>2, DetachSound
<1>4. /\ r \in Lists
      /\ r.curr = t
      /\ r.head = l.next[t] /\ r.wake = l.wake
      /\ r.next = [l.next EXCEPT ![t] = Null]
      /\ r.prev = [s \in Shreds |-> IF s \in {l.next[t], t} THEN Null ELSE l.prev[s]]
  BY <1>2 DEF Pop, Lists
<1>5. /\ d.head = l.next[t] /\ d.wake = l.wake
      /\ d.next = [[s \in Shreds |-> IF s = l.prev[t] THEN l.next[t] ELSE l.next[s]]
                     EXCEPT ![t] = Null]
      /\ d.prev = [[s \in Shreds |-> IF s = l.next[t] THEN l.prev[t] ELSE l.prev[s]]
                     EXCEPT ![t] = Null]
  BY <1>2 DEF Detach, TkRemove, Lists
<1> HIDE DEF r, d
<1>6. r.next = d.next
  <2>1. [s \in Shreds |-> IF s = l.prev[t] THEN l.next[t] ELSE l.next[s]] = l.next
    BY <1>2, ListFact, PointerAssumption
  <2> QED  BY <2>1, <1>4, <1>5
<1>7. r.prev = d.prev
  BY <1>2, <1>4, <1>5, <1>3, ListFact
<1>8. r.head = d.head /\ r.wake = d.wake
  BY <1>4, <1>5
<1>9. Linked(r) = Linked(d)
  BY <1>6, <1>7, <1>8 DEF Linked
<1>10. WellFormed(r)
  <2>1. PICK later \in [Linked(d) -> SUBSET Linked(d)] : Threads(d, later)
    BY <1>3 DEF WellFormed
  <2>2. Threads(r, later)
    BY <2>1, <1>6, <1>7, <1>8, <1>9 DEF Threads
  <2> QED  BY <2>2, <1>3, <1>4, <1>9 DEF WellFormed
<1>11. SameApart(l, r, t) /\ Loose(r, t)
  BY <1>3, <1>6, <1>7, <1>9 DEF SameApart, Loose
<1> QED  BY <1>2, <1>3, <1>4, <1>9, <1>10, <1>11 DEF r

(* The sentinel goes on a tick that is off the list: nothing else changes. *)
LEMMA MarkSound ==
  ASSUME NEW l \in Lists, WellFormed(l), NEW t \in Shreds, t \notin Linked(l)
  PROVE  LET r == Mark(l, t)
         IN  /\ r \in Lists
             /\ WellFormed(r)
             /\ Linked(r) = Linked(l)
             /\ SameApart(l, r, t)
             /\ r.prev[t] = Erased
             /\ r.curr = l.curr
<1> DEFINE r == Mark(l, t)
<1>1. /\ r \in Lists
      /\ r.head = l.head /\ r.curr = l.curr /\ r.wake = l.wake /\ r.next = l.next
      /\ r.prev = [l.prev EXCEPT ![t] = Erased]
  BY DEF Mark, Lists
<1> HIDE DEF r
<1>2. PICK after \in [Linked(l) -> SUBSET Linked(l)] : Threads(l, after)
  BY DEF WellFormed
<1>3. Linked(r) = Linked(l)
  BY <1>1, ListFact, PointerAssumption DEF Linked
<1>4. Threads(r, after)
  <2>1. \A s \in Linked(l) : /\ s \in Shreds /\ s # t
                            /\ r.prev[s] = l.prev[s]
                            /\ l.next[s] # Null => r.prev[l.next[s]] = l.prev[l.next[s]]
    BY <1>1, <1>2, ThreadsFact, LinkedFact, ListFact
  <2> QED  BY <2>1, <1>1, <1>2, <1>3 DEF Threads
<1> QED  BY <1>1, <1>2, <1>3, <1>4, ListFact DEF WellFormed, SameApart, Loose, r

(* Moving every linked tick's wake time by the same amount (next_bbq_pos). *)
LEMMA ShiftSound ==
  ASSUME NEW l \in Lists, WellFormed(l), NEW k \in Int
  PROVE  LET r == Shift(l, k)
         IN  /\ r \in Lists
             /\ WellFormed(r)
             /\ Linked(r) = Linked(l)
             /\ r.head = l.head /\ r.curr = l.curr
             /\ r.prev = l.prev /\ r.next = l.next
<1> DEFINE r == Shift(l, k)
           w == [s \in Shreds |-> IF s \in Linked(l) THEN l.wake[s] - k
                                                     ELSE l.wake[s]]
<1>1. /\ r \in Lists
      /\ r.head = l.head /\ r.curr = l.curr /\ r.next = l.next /\ r.prev = l.prev
      /\ r.wake = w
  <2>1. w \in [Shreds -> Int]
    BY ListFact
  <2>2. r = [l EXCEPT !.wake = w]
    BY DEF Shift
  <2> HIDE DEF w
  <2> QED  BY <2>1, <2>2 DEF Lists
<1> HIDE DEF r
<1>2. PICK after \in [Linked(l) -> SUBSET Linked(l)] : Threads(l, after)
  BY DEF WellFormed
<1>3. Linked(r) = Linked(l)
  BY <1>1 DEF Linked
<1>4. Threads(r, after)
  <2>1. ASSUME NEW s \in Linked(l), NEW u \in after[s]
        PROVE  r.wake[s] <= r.wake[u]
    <3>1. s \in Shreds /\ u \in Shreds /\ u \in Linked(l) /\ l.wake[s] <= l.wake[u]
      BY <2>1, <1>2, ThreadsFact, LinkedFact
    <3>2. l.wake[s] \in Int /\ l.wake[u] \in Int
      BY <3>1, ListFact
    <3>3. r.wake[s] = l.wake[s] - k /\ r.wake[u] = l.wake[u] - k
      BY <2>1, <3>1, <1>1
    <3> QED  BY <3>1, <3>2, <3>3
  <2> HIDE DEF w
  <2> QED  BY <2>1, <1>1, <1>2, <1>3 DEF Threads
<1> HIDE DEF w
<1> QED  BY <1>1, <1>3, <1>4 DEF WellFormed, r

(* Inserting a loose tick where the walk of _shredule stops keeps the list *)
(* threaded in order of wake time.                                         *)
LEMMA InsertSound ==
  ASSUME NEW l \in Lists, WellFormed(l), NEW t \in Shreds, Loose(l, t),
         NEW w \in Int, NEW p \in Spots(l, w)
  PROVE  LET r == InsertAfter(l, t, w, p)
         IN  /\ r \in Lists
             /\ WellFormed(r)
             /\ Linked(r) = Linked(l) \cup {t}
             /\ SameApart(l, r, t)
             /\ r.prev[t] # Erased
             /\ r.curr = IF t = l.curr THEN Null ELSE l.curr
<1> DEFINE r == InsertAfter(l, t, w, p)
           L == Linked(l)
           n == IF p = Null THEN l.head ELSE l.next[p]
<1>1. PICK after \in [L -> SUBSET L] : Threads(l, after)
  BY DEF WellFormed
<1>2. /\ t \notin L /\ l.prev[t] = Null /\ l.next[t] = Null
      /\ t \in Shreds /\ L \subseteq Shreds
  BY LinkedFact DEF Loose
<1>3. \/ p = Null /\ (l.head = Null \/ l.wake[l.head] > w)
      \/ /\ p # Null /\ p \in L /\ p \in Shreds /\ p # t
         /\ l.wake[p] <= w
         /\ l.next[p] = Null \/ l.wake[l.next[p]] > w
  BY <1>2, LinkedFact, PointerAssumption DEF Spots
<1>4. /\ n = Null \/ (n \in L /\ n \in Shreds /\ n # t /\ n # p /\ l.prev[n] = p)
      /\ n # Null => l.wake[n] > w
  BY <1>1, <1>2, <1>3, ThreadsFact, LinkedFact, ListFact, PointerAssumption
<1>5. /\ r.head = IF p = Null THEN t ELSE l.head
      /\ r.curr = IF t = l.curr THEN Null ELSE l.curr
      /\ r.next = [s \in Shreds |-> IF s = p THEN t
                                    ELSE IF s = t /\ ~(p = Null /\ n = Null) THEN n
                                    ELSE l.next[s]]
      /\ r.prev = [s \in Shreds |-> IF s = t /\ p # Null THEN p
                                    ELSE IF s = n THEN t ELSE l.prev[s]]
      /\ r.wake = [l.wake EXCEPT ![t] = w]
  BY DEF InsertAfter
<1>a. /\ p = Null => n = l.head
      /\ p # Null => n = l.next[p]
  OBVIOUS
<1>6. r \in Lists
  <2>1. /\ n \in Shreds \cup {Null}
        /\ p \in Shreds \cup {Null}
    BY <1>3, <1>4
  <2> QED  BY <2>1, ListFact DEF InsertAfter, Lists
<1> HIDE DEF r, n
<1>7. /\ r.next[t] = n
      /\ r.prev[t] = p
      /\ r.wake[t] = w
      /\ p # Null => r.next[p] = t
      /\ n # Null => r.prev[n] = t
      /\ \A s \in Shreds : s # t /\ s # p => r.next[s] = l.next[s]
      /\ \A s \in Shreds : s # t /\ s # n => r.prev[s] = l.prev[s]
      /\ \A s \in Shreds : s # t => r.wake[s] = l.wake[s]
  <2>1. r.next[t] = n
    BY <1>2, <1>3, <1>4, <1>5, PointerAssumption
  <2>2. r.prev[t] = p
    BY <1>2, <1>3, <1>4, <1>5, PointerAssumption
  <2>3. /\ r.wake[t] = w
        /\ \A s \in Shreds : s # t => r.wake[s] = l.wake[s]
    BY <1>2, <1>5, ListFact
  <2>4. /\ p # Null => r.next[p] = t
        /\ \A s \in Shreds : s # t /\ s # p => r.next[s] = l.next[s]
    BY <1>3, <1>5
  <2>5. /\ n # Null => r.prev[n] = t
        /\ \A s \in Shreds : s # t /\ s # n => r.prev[s] = l.prev[s]
    BY <1>3, <1>4, <1>5
  <2> QED  BY <2>1, <2>2, <2>3, <2>4, <2>5
<1>8. Linked(r) = L \cup {t}
  <2> SUFFICES ASSUME NEW s \in Shreds PROVE s \in Linked(r) <=> s \in L \cup {t}
    BY <1>2, LinkedFact
  <2>1. CASE s = t
    BY <2>1, <1>3, <1>5, <1>7, LinkedFact
  <2>2. CASE s # t /\ s = n
    BY <2>2, <1>2, <1>4, <1>7, LinkedFact, PointerAssumption
  <2>3. CASE s # t /\ s # n
    <3>1. r.prev[s] = l.prev[s]
      BY <2>3, <1>7
    <3>2. s = r.head <=> s = l.head
      BY <2>3, <1>a, <1>5
    <3>3. CASE l.prev[s] = t
      BY <3>1, <3>2, <3>3, <2>3, <1>2, <1>7, LinkedFact, PointerAssumption
    <3>4. CASE l.prev[s] = p
      BY <3>1, <3>2, <3>4, <2>3, <1>2, <1>3, <1>a, <1>7, LinkedFact, PointerAssumption
    <3>5. CASE l.prev[s] # t /\ l.prev[s] # p
      BY <3>1, <3>2, <3>5, <2>3, <1>7, LinkedFact
    <3> QED  BY <3>3, <3>4, <3>5
  <2> QED  BY <2>1, <2>2, <2>3
<1>9. WellFormed(r)
  <2> DEFINE late == IF p = Null THEN L ELSE after[p]
             early == {s \in L : s = p \/ p \in after[s]}
             later == [s \in L \cup {t} |->
                         IF s = t THEN late
                         ELSE IF s \in early THEN after[s] \cup {t} ELSE after[s]]
  <2>1. /\ late \subseteq L /\ early \subseteq L
        /\ later \in [Linked(r) -> SUBSET Linked(r)]
        /\ later[t] = late
        /\ \A s \in L : later[s] = IF s \in early THEN after[s] \cup {t} ELSE after[s]
    BY <1>1, <1>2, <1>3, <1>8
  <2>2. /\ n = Null => late = {}
        /\ n # Null => late = {n} \cup after[n] /\ n \notin early
    <3>1. CASE p = Null
      <4>1. n = Null => L = {}
        BY <3>1, <1>1, <1>a, ThreadsFact
      <4>2. n # Null => L = {n} \cup after[n]
        BY <3>1, <1>1, <1>a, ThreadsFact
      <4>3. n \notin early
        BY <3>1, <1>1, <1>2, <1>4, PointerAssumption
      <4> QED  BY <3>1, <4>1, <4>2, <4>3
    <3>2. CASE p # Null
      <4>1. /\ n = Null => after[p] = {}
            /\ n # Null => after[p] = {n} \cup after[n]
            /\ p \notin after[p]
        BY <3>2, <1>1, <1>3, <1>a, ThreadsFact
      <4> QED  BY <3>2, <4>1, <1>4
    <3> QED  BY <3>1, <3>2
  <2> HIDE DEF later
  <2>3. Threads(r, later)
    <3>1. Linked(r) = {} <=> r.head = Null
      BY <1>1, <1>2, <1>3, <1>5, <1>8, ThreadsFact, PointerAssumption
    <3>2. later[r.head] = Linked(r) \ {r.head}
      <4>1. CASE p = Null
        BY <4>1, <2>1, <1>2, <1>5, <1>8
      <4>2. CASE p # Null
        <5>1. l.head \in early /\ l.head \in L /\ l.head # t
          BY <4>2, <1>1, <1>2, <1>3, ThreadsFact
        <5> QED  BY <5>1, <4>2, <2>1, <1>1, <1>2, <1>5, <1>8, ThreadsFact
      <4> QED  BY <4>1, <4>2
    <3>3. ASSUME NEW s \in Linked(r)
          PROVE  /\ s \notin later[s]
                 /\ r.prev[s] \in Linked(r) \cup {Null}
                 /\ r.prev[s] = Null <=> s = r.head
      <4>1. CASE s = t
        BY <4>1, <2>1, <1>2, <1>3, <1>5, <1>7, <1>8, <1>1, ThreadsFact
      <4>2. CASE s # t
        <5>1. s \in L /\ s \in Shreds /\ s \notin later[s]
          BY <4>2, <3>3, <2>1, <1>1, <1>2, <1>8, ThreadsFact
        <5> QED  BY <5>1, <4>2, <1>1, <1>3, <1>5, <1>7, <1>8, <1>a, ThreadsFact,
                    PointerAssumption
      <4> QED  BY <4>1, <4>2
    <3>4. ASSUME NEW s \in Linked(r)
          PROVE  /\ r.next[s] = Null => later[s] = {}
                 /\ r.next[s] # Null =>
                      /\ r.next[s] \in Linked(r)
                      /\ r.prev[r.next[s]] = s
                      /\ later[s] = {r.next[s]} \cup later[r.next[s]]
      <4>1. CASE s = t
        BY <4>1, <2>1, <2>2, <1>4, <1>7, <1>8
      <4>2. CASE s = p /\ s # t
        <5>1. /\ s \in L /\ s \in early /\ p # Null /\ r.next[s] = t /\ r.prev[t] = s
              /\ later[s] = after[s] \cup {t} /\ late = after[s]
          BY <4>2, <3>4, <2>1, <1>2, <1>3, <1>7, <1>8, LinkedFact, PointerAssumption
        <5> QED  BY <5>1, <2>1, <1>2, <1>8, PointerAssumption
      <4>3. CASE s # p /\ s # t
        <5>1. /\ s \in L /\ s \in Shreds /\ r.next[s] = l.next[s]
          BY <4>3, <3>4, <1>2, <1>7, <1>8
        <5>2. CASE l.next[s] = Null
          <6>1. after[s] = {} /\ s \notin early
            BY <5>1, <5>2, <4>3, <1>1, ThreadsFact
          <6> QED  BY <6>1, <5>1, <5>2, <2>1
        <5>3. CASE l.next[s] # Null
          <6> DEFINE m == l.next[s]
          <6>1. /\ m \in L /\ m \in Shreds /\ l.prev[m] = s
                /\ after[s] = {m} \cup after[m]
            BY <5>1, <5>3, <1>1, ThreadsFact
          <6>2. m # n /\ m # t
            BY <6>1, <5>1, <4>3, <1>2, <1>4, PointerAssumption
          <6>3. r.prev[m] = s
            BY <6>1, <6>2, <1>7
          <6>4. s \in early <=> m \in early
            BY <6>1, <5>1, <4>3
          <6> HIDE DEF m, early
          <6>5. later[s] = {m} \cup later[m]
            BY <6>1, <6>4, <5>1, <2>1
          <6>6. r.next[s] = m /\ m # Null /\ m \in Linked(r)
            BY <6>1, <5>1, <1>8, PointerAssumption DEF m
          <6> QED  BY <6>3, <6>5, <6>6
        <5> QED  BY <5>2, <5>3
      <4> QED  BY <4>1, <4>2, <4>3
    <3>5. ASSUME NEW s \in Linked(r), NEW u \in later[s]
          PROVE  r.wake[s] <= r.wake[u]
      <4>1. l.wake \in [Shreds -> Int]
        BY ListFact
      <4>2. CASE s = t
        <5>1. u \in L /\ u # t /\ u \in Shreds /\ u \in late
          BY <4>2, <3>5, <2>1, <1>2
        <5>2. n # Null /\ (u = n \/ l.wake[n] <= l.wake[u])
          BY <5>1, <2>2, <1>1, <1>4, ThreadsFact
        <5> QED  BY <5>1, <5>2, <4>1, <4>2, <1>4, <1>7
      <4>3. CASE s # t /\ u # t
        <5>1. s \in L /\ u \in after[s] /\ s \in Shreds /\ u \in Shreds
          BY <4>3, <3>5, <2>1, <1>1, <1>2, <1>8
        <5> QED  BY <5>1, <4>3, <1>1, <1>7, ThreadsFact
      <4>4. CASE s # t /\ u = t
        <5>1. /\ s \in L /\ s \in early /\ s \in Shreds
          BY <4>4, <3>5, <2>1, <1>1, <1>2, <1>8
        <5>2. p # Null /\ l.wake[p] <= w /\ p \in Shreds
          BY <5>1, <1>1, <1>2, <1>3, PointerAssumption
        <5>3. s = p \/ l.wake[s] <= l.wake[p]
          BY <5>1, <1>1, ThreadsFact
        <5> QED  BY <5>1, <5>2, <5>3, <4>1, <4>4, <1>7
      <4> QED  BY <4>2, <4>3, <4>4
    <3> QED  BY <3>1, <3>2, <3>3, <3>4, <3>5 DEF Threads
  <2>4. r.curr \notin Linked(r)
    BY <1>5, <1>8, LinkedFact, PointerAssumption DEF WellFormed
  <2> QED  BY <2>1, <2>3, <2>4 DEF WellFormed
<1>10. SameApart(l, r, t)
  <2> SUFFICES ASSUME NEW s \in Shreds \ {t}
               PROVE  /\ Loose(l, s) => Loose(r, s)
                      /\ r.prev[s] = Erased <=> l.prev[s] = Erased
    BY DEF SameApart
  <2>1. s \notin L => s # n /\ s # p
    BY <1>3, <1>4, PointerAssumption
  <2>2. s = n => l.prev[s] # Erased
    BY <1>1, <1>4, ThreadsFact, LinkedFact, PointerAssumption
  <2> QED  BY <2>1, <2>2, <1>7, <1>8, PointerAssumption DEF Loose
<1>11. r.prev[t] # Erased
  BY <1>3, <1>7, PointerAssumption
<1> QED  BY <1>5, <1>6, <1>8, <1>9, <1>10, <1>11 DEF r

(* r is the list l with t moved: on or off the list, not running, not done.*)
Moved(l, r, t) ==
  /\ r \in Lists
  /\ WellFormed(r)
  /\ SameApart(l, r, t)
  /\ Linked(r) \ {t} = Linked(l) \ {t}
  /\ r.prev[t] # Erased
  /\ r.curr = IF t = l.curr THEN Null ELSE l.curr

LEMMA TkRemoveMoves ==
  ASSUME NEW l \in Lists, WellFormed(l), NEW t \in Shreds,
         t \in Linked(l) \/ Loose(l, t)
  PROVE  Moved(l, TkRemove(l, t), t) /\ t \notin Linked(TkRemove(l, t))
BY TkRemoveSound DEF Moved

LEMMA DetachMoves ==
  ASSUME NEW l \in Lists, WellFormed(l), NEW t \in Shreds,
         t \in Linked(l) \/ Loose(l, t)
  PROVE  Moved(l, Detach(l, t), t) /\ Loose(Detach(l, t), t)
BY DetachSound, PointerAssumption DEF Moved, Loose

(* Shreduling a loose tick inserts it. *)
LEMMA ShreduleMoves ==
  ASSUME NEW l \in Lists, WellFormed(l), NEW t \in Shreds, Loose(l, t),
         NEW w \in Int, NEW r \in Shredule(l, t, w)
  PROVE  Moved(l, r, t) /\ t \in Linked(r)
<1>1. PICK p \in Spots(l, w) : r = InsertAfter(l, t, w, p)
  BY PointerAssumption DEF Shredule, Loose
<1> QED  BY <1>1, InsertSound DEF Moved

(* Moving t twice is moving it once. *)
LEMMA MovedTwice ==
  ASSUME NEW l, NEW p, NEW r, NEW t \in Shreds, Moved(l, p, t), Moved(p, r, t),
         l.curr \in Shreds \cup {Null}
  PROVE  Moved(l, r, t)
BY PointerAssumption DEF Moved, SameApart

-----------------------------------------------------------------------------
(* Facts about the lists of waiters.                                       *)

LEMMA WaitingFact ==
  /\ \A s : s \in Waiting <=> \E e \in Events : \E i \in DOMAIN waiters[e] : waiters[e][i] = s
BY DEF Waiting, WaitingOn

LEMMA WaitingIsShreds ==
  ASSUME TypeOK
  PROVE  Waiting \subseteq Shreds
BY DEF Waiting, WaitingOn, TypeOK

(* A shred that joins the list of an event. *)
LEMMA WaiterJoins ==
  ASSUME TypeOK, OnOneList, NEW e \in Events, NEW t \in Shreds, t \notin Waiting,
         waiters' = [waiters EXCEPT ![e] = Append(@, t)]
  PROVE  /\ waiters' \in [Events -> Seq(Shreds)]
         /\ Waiting' = Waiting \cup {t}
         /\ OnOneList'
<1> DEFINE w == waiters[e]
           n == Len(w) + 1
<1>1. /\ w \in Seq(Shreds) /\ Len(w) \in Nat
      /\ waiters \in [Events -> Seq(Shreds)]
      /\ \A d \in Events : waiters[d] \in Seq(Shreds)
  BY DEF TypeOK
<1>2. /\ Append(w, t) \in Seq(Shreds)
      /\ DOMAIN Append(w, t) = 1 .. n /\ DOMAIN w = 1 .. Len(w)
      /\ Append(w, t)[n] = t
      /\ \A i \in 1 .. Len(w) : Append(w, t)[i] = w[i]
  BY <1>1
<1>3. /\ waiters' \in [Events -> Seq(Shreds)]
      /\ waiters'[e] = Append(w, t)
      /\ \A d \in Events \ {e} : waiters'[d] = waiters[d]
  BY <1>1, <1>2
<1>4. \A d \in Events : \A i \in DOMAIN waiters[d] : waiters[d][i] \in Waiting
  BY WaitingFact
<1>5. \A d \in Events : \A i \in DOMAIN waiters'[d] :
        \/ d = e /\ i = n /\ waiters'[d][i] = t
        \/ i \in DOMAIN waiters[d] /\ waiters'[d][i] = waiters[d][i]
  BY <1>1, <1>2, <1>3
<1>6. Waiting' = Waiting \cup {t}
  <2>1. ASSUME NEW s \in Waiting' PROVE s \in Waiting \cup {t}
    BY <2>1, <1>4, <1>5 DEF Waiting, WaitingOn
  <2>2. t \in Waiting'
    <3>1. n \in DOMAIN waiters'[e] /\ waiters'[e][n] = t
      BY <1>1, <1>2, <1>3
    <3> QED  BY <3>1 DEF Waiting, WaitingOn
  <2>3. ASSUME NEW s \in Waiting PROVE s \in Waiting'
    <3>a. PICK d \in Events : \E i \in DOMAIN waiters[d] : waiters[d][i] = s
      BY <2>3, WaitingFact
    <3>1. PICK i \in DOMAIN waiters[d] : waiters[d][i] = s
      BY <3>a
    <3>2. i \in DOMAIN waiters'[d] /\ waiters'[d][i] = s
      BY <3>1, <1>1, <1>2, <1>3
    <3> QED  BY <3>2 DEF Waiting, WaitingOn
  <2> QED  BY <2>1, <2>2, <2>3
<1>7. OnOneList'
  BY <1>4, <1>5 DEF OnOneList
<1> QED  BY <1>3, <1>6, <1>7

(* The first shred of the list of an event leaves it. *)
LEMMA WaiterLeaves ==
  ASSUME TypeOK, OnOneList, NEW e \in Events, waiters[e] # <<>>,
         waiters' = [waiters EXCEPT ![e] = Tail(@)]
  PROVE  LET t == Head(waiters[e])
         IN  /\ t \in Shreds /\ t \in Waiting
             /\ waiters' \in [Events -> Seq(Shreds)]
             /\ Waiting' = Waiting \ {t}
             /\ OnOneList'
<1> DEFINE w == waiters[e]
           t == Head(w)
<1>1. /\ w \in Seq(Shreds) /\ Len(w) \in Nat /\ w # <<>>
      /\ waiters \in [Events -> Seq(Shreds)]
      /\ \A d \in Events : waiters[d] \in Seq(Shreds)
  BY DEF TypeOK
<1>2. /\ Len(w) > 0 /\ DOMAIN w = 1 .. Len(w) /\ t = w[1] /\ t \in Shreds
      /\ Tail(w) \in Seq(Shreds)
      /\ DOMAIN Tail(w) = 1 .. (Len(w) - 1)
      /\ \A i \in 1 .. (Len(w) - 1) : Tail(w)[i] = w[i + 1]
  BY <1>1
<1>3. /\ waiters' \in [Events -> Seq(Shreds)]
      /\ waiters'[e] = Tail(w)
      /\ \A d \in Events \ {e} : waiters'[d] = waiters[d]
  BY <1>1, <1>2
<1>4. t \in Waiting
  BY <1>2, WaitingFact
<1>5. /\ \A i \in DOMAIN waiters'[e] : /\ i + 1 \in DOMAIN waiters[e] /\ i + 1 # 1
                                       /\ waiters'[e][i] = waiters[e][i + 1]
      /\ \A d \in Events \ {e} : waiters'[d] = waiters[d]
  BY <1>2, <1>3
<1>6. ASSUME NEW s \in Waiting' PROVE s \in Waiting /\ s # t
  <2>a. PICK d \in Events : \E i \in DOMAIN waiters'[d] : waiters'[d][i] = s
    BY <1>6 DEF Waiting, WaitingOn
  <2>1. PICK i \in DOMAIN waiters'[d] : waiters'[d][i] = s
    BY <2>a
  <2>2. CASE d = e
    <3>1. i + 1 \in DOMAIN waiters[e] /\ i + 1 # 1 /\ waiters[e][i + 1] = s
      BY <2>1, <2>2, <1>5
    <3>2. 1 \in DOMAIN waiters[e] /\ waiters[e][1] = t
      BY <1>2
    <3> QED  BY <3>1, <3>2, WaitingFact DEF OnOneList
  <2>3. CASE d # e
    <3>1. i \in DOMAIN waiters[d] /\ waiters[d][i] = s
      BY <2>1, <2>3, <1>5
    <3>2. 1 \in DOMAIN waiters[e] /\ waiters[e][1] = t
      BY <1>2
    <3> QED  BY <3>1, <3>2, <2>3, WaitingFact DEF OnOneList
  <2> QED  BY <2>2, <2>3
<1>7. ASSUME NEW s \in Waiting, s # t PROVE s \in Waiting'
  <2>a. PICK d \in Events : \E i \in DOMAIN waiters[d] : waiters[d][i] = s
    BY <1>7, WaitingFact
  <2>1. PICK i \in DOMAIN waiters[d] : waiters[d][i] = s
    BY <2>a
  <2>2. CASE d = e
    <3>1. i - 1 \in DOMAIN waiters'[e] /\ waiters'[e][i - 1] = s
      BY <2>1, <2>2, <1>2, <1>3, <1>7
    <3> QED  BY <3>1 DEF Waiting, WaitingOn
  <2>3. CASE d # e
    BY <2>1, <2>3, <1>3 DEF Waiting, WaitingOn
  <2> QED  BY <2>2, <2>3
<1>8. OnOneList'
  <2> SUFFICES ASSUME NEW c \in Events, NEW d \in Events,
                      NEW i \in DOMAIN waiters'[c], NEW j \in DOMAIN waiters'[d],
                      waiters'[c][i] = waiters'[d][j]
               PROVE  c = d /\ i = j
    BY DEF OnOneList
  <2>1. CASE c = e /\ d = e
    <3>1. i + 1 = j + 1 /\ i \in Int /\ j \in Int
      BY <2>1, <1>2, <1>3, <1>5 DEF OnOneList
    <3> QED  BY <3>1, <2>1
  <2>2. CASE c = e /\ d # e
    BY <2>2, <1>5 DEF OnOneList
  <2>3. CASE c # e /\ d = e
    BY <2>3, <1>5 DEF OnOneList
  <2>4. CASE c # e /\ d # e
    BY <2>4, <1>5 DEF OnOneList
  <2> QED  BY <2>1, <2>2, <2>3, <2>4
<1> QED  BY <1>2, <1>3, <1>4, <1>6, <1>7, <1>8

(* The list of an event goes with it. *)
LEMMA WaitersReleased ==
  ASSUME TypeOK, OnOneList, NEW e \in Events,
         waiters' = [waiters EXCEPT ![e] = <<>>]
  PROVE  /\ waiters' \in [Events -> Seq(Shreds)]
         /\ Waiting' = Waiting \ WaitingOn(e)
         /\ WaitingOn(e) \subseteq Waiting
         /\ OnOneList'
<1>1. /\ waiters \in [Events -> Seq(Shreds)]
      /\ waiters' \in [Events -> Seq(Shreds)]
      /\ waiters'[e] = <<>> /\ DOMAIN waiters'[e] = {}
      /\ \A d \in Events \ {e} : waiters'[d] = waiters[d]
  BY DEF TypeOK
<1>2. ASSUME NEW s \in Waiting' PROVE s \in Waiting /\ s \notin WaitingOn(e)
  <2>a. PICK d \in Events : \E i \in DOMAIN waiters'[d] : waiters'[d][i] = s
    BY <1>2 DEF Waiting, WaitingOn
  <2>1. PICK i \in DOMAIN waiters'[d] : waiters'[d][i] = s
    BY <2>a
  <2>2. d # e /\ i \in DOMAIN waiters[d] /\ waiters[d][i] = s
    BY <2>1, <1>1
  <2> QED  BY <2>2 DEF OnOneList, Waiting, WaitingOn
<1>3. ASSUME NEW s \in Waiting, s \notin WaitingOn(e) PROVE s \in Waiting'
  BY <1>1, <1>3 DEF Waiting, WaitingOn
<1>4. OnOneList'
  BY <1>1 DEF OnOneList
<1> QED  BY <1>1, <1>2, <1>3, <1>4 DEF Waiting

-----------------------------------------------------------------------------
(* What moving one shred does to the invariant.                            *)

(* A shred that is not born yet is still not known to anyone. *)
FreshStays(t) ==
  \A s \in Shreds \ {t} :
    s \notin active /\ ~Done(s) => /\ parent'[s] = Null /\ children'[s] = {}
                                 /\ handles'[s] = 0 /\ s \notin Waiting'

LEMMA MovePlaces ==
  ASSUME TypeOK, Places, NEW t \in Shreds, t \notin erasing,
         Moved(q, q', t),
         active' = active \cup {t},
         erasing' \in {erasing, erasing \cup {t}},
         Loose(q', t) \/ t \in Linked(q') \/ t \in erasing',
         t \in erasing' => t \notin Linked(q'),
         FreshStays(t)
  PROVE  q' \in Lists /\ ListSound' /\ Places'
<1>1. /\ q' \in Lists /\ WellFormed(q')
      /\ \A s \in Shreds \ {t} : /\ s \in Linked(q') <=> s \in Linked(q)
                                 /\ Loose(q, s) => Loose(q', s)
                                 /\ Done(s)' <=> Done(s)
                                 /\ s = q'.curr => s = q.curr
      /\ ~Done(t)' /\ t # q'.curr
  BY PointerAssumption DEF Moved, SameApart, Done
<1>2. ASSUME NEW s \in Shreds
      PROVE  /\ s \in active' => ~Done(s)' /\ (s \in Linked(q') \cup erasing' \/ Loose(q', s))
             /\ s \notin active' => s \notin Linked(q') \cup erasing' \cup {q'.curr}
             /\ s \notin active' /\ ~Done(s)' =>
                   /\ Loose(q', s)
                   /\ parent'[s] = Null /\ children'[s] = {}
                   /\ handles'[s] = 0 /\ s \notin Waiting'
             /\ s \in erasing' => s \notin Linked(q') \cup {q'.curr}
             /\ s = q'.curr => Loose(q', s)
  <2>1. CASE s = t
    BY <2>1, <1>1
  <2>2. CASE s # t
    BY <2>2, <1>1 DEF Places, FreshStays
  <2> QED  BY <2>1, <2>2
<1> QED  BY <1>1, <1>2 DEF Places, ListSound

(* Shreds that are done stay done. *)
Kept == \A s \in Shreds : Done(s) => Done(s)'

LEMMA MoveKeeps ==
  ASSUME NEW t \in Shreds, Moved(q, q', t), ~Done(t)
  PROVE  Kept
BY DEF Moved, SameApart, Done, Kept

LEMMA MovePlacement ==
  ASSUME TypeOK, Placement, NEW t \in Shreds, Moved(q, q', t),
         Waiting' \subseteq Waiting \cup {t},
         t \in Waiting' => t \notin Linked(q'),
         OnOneList'
  PROVE  Placement'
<1>2. t # q'.curr
  BY PointerAssumption DEF Moved
<1>3. \A s \in Waiting' : s \in Shreds /\ s \notin Linked(q') \cup {q'.curr}
  <2> SUFFICES ASSUME NEW s \in Waiting'
               PROVE  s \in Shreds /\ s \notin Linked(q') \cup {q'.curr}
    OBVIOUS
  <2>1. CASE s = t
    BY <2>1, <1>2
  <2>2. CASE s # t
    <3>1. s \in Waiting /\ s \in Shreds
      BY <2>2, WaitingIsShreds
    <3>2. s \notin Linked(q) /\ s # q.curr
      BY <3>1 DEF Placement
    <3>3. s \in Shreds \ {t}
      BY <3>1, <2>2
    <3>4. s \notin Linked(q')
      BY <3>2, <3>3 DEF Moved
    <3>5. s # q'.curr
      BY <3>2, <3>3, PointerAssumption DEF Moved
    <3> QED  BY <3>3, <3>4, <3>5
  <2> QED  BY <2>1, <2>2
<1> QED  BY <1>3 DEF Placement

(* A live shred whose erasure has not begun can be unlinked. *)
LEMMA CanMove ==
  ASSUME TypeOK, Places, NEW t \in active, t \notin erasing
  PROVE  t \in Shreds /\ (t \in Linked(q) \/ Loose(q, t)) /\ ~Done(t)
BY DEF Places, TypeOK

(* The steps that leave all but one shred's place and try statements alone.*)
LEMMA OneMoves ==
  ASSUME IInv, NEW t \in active, t \notin erasing, t \notin Waiting,
         Moved(q, q', t), Loose(q', t) \/ t \in Linked(q'),
         frames' \in [Shreds -> Nat],
         UNCHANGED <<pos, running, tree, counts, cancel, events, micro>>
  PROVE  IInv' /\ Kept
<1> USE DEF IInv, tree, counts, events, micro
<1>1. t \in Shreds
  BY DEF TypeOK
<1>2. Waiting' = Waiting /\ (OnOneList' <=> OnOneList)
  BY DEF Waiting, WaitingOn, OnOneList
<1>3. FreshStays(t)
  BY <1>2 DEF FreshStays, Places
<1>4. q' \in Lists /\ ListSound' /\ Places'
  BY <1>1, <1>3, MovePlaces
<1>5. TypeOK'
  BY <1>4 DEF TypeOK
<1>6. Placement'
  BY <1>1, <1>2, MovePlacement DEF Placement
<1>7. RefCountExact'
  BY <1>2 DEF RefCountExact
<1>8. NoOrphans' /\ Lineage' /\ WakingSound'
  BY DEF NoOrphans, Lineage, WakingSound
<1>9. Kept
  BY <1>1, CanMove, MoveKeeps
<1> QED  BY <1>4, <1>5, <1>6, <1>7, <1>8, <1>9

(* The steps that do not touch the list. *)
LEMMA NoneMoves ==
  ASSUME IInv, TypeOK',
         UNCHANGED <<q, tree, erasing, waiters, waking>>,
         \A s \in Shreds : ref'[s] - handles'[s] = ref[s] - handles[s],
         \A s \in Shreds : s \notin active /\ ~Done(s) => handles'[s] = 0
  PROVE  IInv' /\ Kept
<1> USE DEF IInv, tree
<1>1. Waiting' = Waiting /\ (OnOneList' <=> OnOneList)
  BY DEF Waiting, WaitingOn, OnOneList
<1>2. ListSound' /\ Places' /\ Placement'
  BY <1>1 DEF ListSound, Places, Placement, Done
<1>3. RefCountExact'
  <2> SUFFICES ASSUME NEW s \in Shreds
               PROVE  ref'[s] = (IF s \in active THEN 1 ELSE 0)
                                + (IF s \in Waiting THEN 1 ELSE 0) + handles'[s]
    BY <1>1 DEF RefCountExact
  <2>1. ref[s] = (IF s \in active THEN 1 ELSE 0)
                 + (IF s \in Waiting THEN 1 ELSE 0) + handles[s]
    BY DEF RefCountExact
  <2>2. ref[s] \in Int /\ handles[s] \in Int /\ ref'[s] \in Int /\ handles'[s] \in Int
    BY DEF TypeOK
  <2> QED  BY <2>1, <2>2
<1>4. NoOrphans' /\ Lineage' /\ WakingSound'
  BY DEF NoOrphans, Lineage, WakingSound
<1>5. Kept
  BY DEF Kept, Done
<1> QED  BY <1>2, <1>3, <1>4, <1>5

-----------------------------------------------------------------------------
(* The steps of an erasure.                                                *)

LEMMA EraseStarts ==
  ASSUME IInv, Calm, NEW t \in active, NEW r \in {q, Detach(q, t)},
         StartErase(r, t), UNCHANGED frames
  PROVE  IInv' /\ Kept
<1> USE DEF IInv
<1>1. /\ t \in Shreds /\ erasing = {} /\ waking = Null
      /\ erasing' = {t}
      /\ UNCHANGED <<pos, running, active, parent, counts, cancel, events, waking, frames>>
      /\ children' = [p \in Shreds |-> IF p = parent[t] THEN children[p] \ {t}
                                                       ELSE children[p]]
      /\ q' = TkRemove(r, t)
  BY DEF Calm, StartErase, TypeOK
<1>2. Moved(q, q', t) /\ t \notin Linked(q')
  <2>1. q \in Lists /\ WellFormed(q) /\ (t \in Linked(q) \/ Loose(q, t))
    BY <1>1, CanMove DEF TypeOK, ListSound
  <2>2. CASE r = q
    BY <2>1, <2>2, <1>1, TkRemoveMoves
  <2>3. CASE r = Detach(q, t)
    <3>1. Moved(q, r, t) /\ Loose(r, t)
      BY <2>1, <2>3, <1>1, DetachMoves
    <3>2. Moved(r, q', t) /\ t \notin Linked(q')
      BY <3>1, <1>1, TkRemoveMoves DEF Moved
    <3> QED  BY <3>1, <3>2, <2>1, <1>1, ListFact, MovedTwice
  <2> QED  BY <2>2, <2>3
<1>3. Waiting' = Waiting /\ (OnOneList' <=> OnOneList)
  BY <1>1 DEF Waiting, WaitingOn, OnOneList, events
<1>4. /\ \A s \in Shreds : children'[s] \subseteq children[s]
      /\ \A s, p \in Shreds : s \in children[p] /\ s # t => s \in children'[p]
      /\ parent[t] # Null => t \notin children'[parent[t]]
      /\ children' \in [Shreds -> SUBSET Shreds]
  BY <1>1 DEF TypeOK
<1>5. FreshStays(t)
  BY <1>1, <1>3, <1>4 DEF FreshStays, Places, counts
<1>6. q' \in Lists /\ ListSound' /\ Places'
  BY <1>1, <1>2, <1>5, MovePlaces
<1>7. TypeOK'
  BY <1>1, <1>4, <1>6 DEF TypeOK, counts, events
<1>8. Placement'
  BY <1>1, <1>2, <1>3, MovePlacement DEF Placement
<1>9. RefCountExact'
  BY <1>1, <1>3 DEF RefCountExact, counts
<1>10. NoOrphans'
  BY <1>1, <1>4 DEF NoOrphans, TypeOK
<1>11. Lineage' /\ WakingSound'
  BY <1>1, <1>4 DEF Lineage, WakingSound
<1>12. Kept
  BY <1>1, <1>2, CanMove, MoveKeeps
<1> QED  BY <1>6, <1>7, <1>8, <1>9, <1>10, <1>11, <1>12

LEMMA EraseChildInv ==
  ASSUME IInv, NEW t \in Shreds, EraseChild(t)
  PROVE  IInv' /\ Kept
<1> USE DEF IInv
<1>1. PICK c \in children[t] : ~Done(c) /\ q' = TkRemove(q, c) /\ erasing' = erasing \cup {c}
  BY DEF EraseChild
<1>2. /\ t \in erasing /\ t \in active /\ c \in Shreds /\ t # Null
      /\ UNCHANGED <<pos, running, tree, counts, frames, cancel, events, waking>>
  BY <1>1, PointerAssumption DEF EraseChild, Innermost, Places, TypeOK
<1>3. parent[c] = t
  BY <1>1, <1>2 DEF NoOrphans
<1>4. c \notin erasing /\ c \in active
  BY <1>1, <1>2, <1>3 DEF EraseChild, Innermost, Places
<1>5. Moved(q, q', c) /\ c \notin Linked(q')
  BY <1>1, <1>4, CanMove, TkRemoveMoves DEF TypeOK, ListSound
<1>6. Waiting' = Waiting /\ (OnOneList' <=> OnOneList)
  BY <1>2 DEF Waiting, WaitingOn, OnOneList, events
<1>7. FreshStays(c)
  BY <1>2, <1>6 DEF FreshStays, Places, tree, counts
<1>8. active' = active \cup {c}
  BY <1>2, <1>4 DEF tree
<1>9. q' \in Lists /\ ListSound' /\ Places'
  BY <1>1, <1>2, <1>4, <1>5, <1>7, <1>8, MovePlaces
<1>10. TypeOK'
  BY <1>1, <1>2, <1>9 DEF TypeOK, tree, counts, events
<1>11. Placement'
  BY <1>2, <1>5, <1>6, MovePlacement DEF Placement
<1>12. RefCountExact'
  BY <1>2, <1>6 DEF RefCountExact, counts, tree
<1>13. NoOrphans' /\ Lineage' /\ WakingSound'
  BY <1>1, <1>2, <1>3 DEF NoOrphans, Lineage, WakingSound, tree
<1>14. Kept
  BY <1>1, <1>2, <1>5, MoveKeeps
<1> QED  BY <1>9, <1>10, <1>11, <1>12, <1>13, <1>14

LEMMA EraseSelfInv ==
  ASSUME IInv, NEW t \in Shreds, EraseSelf(t)
  PROVE  IInv' /\ Kept
<1> USE DEF IInv
<1>1. /\ t \in erasing /\ t \in active /\ t \notin Linked(q) /\ t # q.curr
      /\ \A c \in erasing : parent[c] # t
      /\ \A c \in children[t] : Done(c)
      /\ active' = active \ {t} /\ erasing' = erasing \ {t}
      /\ ref' = [ref EXCEPT ![t] = @ - 1]
      /\ UNCHANGED <<pos, running, parent, children, handles, frames, cancel, events, waking>>
  BY DEF EraseSelf, Innermost, Places
<1>2. q' = Mark(q, t)
  <2>1. Mark(q, t).prev[t] = Erased
    BY <1>1, MarkSound DEF TypeOK, ListSound
  <2> QED  BY <2>1 DEF EraseSelf, Shredule
<1>3. /\ q' \in Lists /\ WellFormed(q')
      /\ Linked(q') = Linked(q) /\ q'.curr = q.curr
      /\ Done(t)'
      /\ \A s \in Shreds \ {t} : /\ Loose(q, s) => Loose(q', s)
                                 /\ Done(s)' <=> Done(s)
  BY <1>1, <1>2, MarkSound DEF TypeOK, ListSound, SameApart, Done
<1>4. Waiting' = Waiting /\ (OnOneList' <=> OnOneList)
  BY <1>1 DEF Waiting, WaitingOn, OnOneList, events
<1>5. TypeOK'
  BY <1>1, <1>3 DEF TypeOK, events
<1>6. ListSound'
  BY <1>3 DEF ListSound
<1>7. Places'
  BY <1>1, <1>3, <1>4 DEF Places
<1>8. Placement'
  BY <1>3, <1>4 DEF Placement
<1>9. RefCountExact'
  <2> SUFFICES ASSUME NEW s \in Shreds
               PROVE  ref'[s] = (IF s \in active' THEN 1 ELSE 0)
                                + (IF s \in Waiting THEN 1 ELSE 0) + handles[s]
    BY <1>1, <1>4 DEF RefCountExact
  <2>1. /\ ref[s] = (IF s \in active THEN 1 ELSE 0)
                    + (IF s \in Waiting THEN 1 ELSE 0) + handles[s]
        /\ ref \in [Shreds -> Int] /\ handles[s] \in Int
    BY DEF RefCountExact, TypeOK
  <2> QED  BY <2>1, <1>1
<1>10. NoOrphans'
  <2>1. \A s \in active' : s \in active /\ s # t /\ s \in Shreds /\ ~Done(s)
    BY <1>1 DEF Places, TypeOK
  <2>2. \A s \in active' : parent[s] # t
    BY <2>1, <1>1, PointerAssumption DEF NoOrphans
  <2>3. \A s \in active' : \A c \in children[s] :
          parent[c] = s /\ (c \in active' \/ s \in erasing')
    BY <2>1, <1>1, PointerAssumption DEF NoOrphans, Lineage
  <2>4. \A s \in active' : parent[s] # Null =>
          parent[s] \in active' /\ s \in children[parent[s]] \cup erasing'
    BY <2>1, <2>2, <1>1 DEF NoOrphans
  <2> QED  BY <2>3, <2>4, <1>1 DEF NoOrphans
<1>11. Lineage' /\ WakingSound'
  BY <1>1 DEF Lineage, WakingSound
<1>12. Kept
  BY <1>3 DEF Kept
<1> QED  BY <1>5, <1>6, <1>7, <1>8, <1>9, <1>10, <1>11, <1>12

-----------------------------------------------------------------------------
(* The driver's loop.                                                      *)

LEMMA GetInv ==
  ASSUME IInv, Get
  PROVE  IInv' /\ Kept
<1> USE DEF IInv
<1>1. /\ q.head # Null /\ q.curr = Null /\ erasing = {}
      /\ q' = Pop(q)
      /\ UNCHANGED <<pos, running, tree, counts, frames, cancel, events, micro>>
  BY DEF Get, Idle, Calm, Due
<1>a. PICK t \in Shreds : t = q.head
  BY <1>1 DEF TypeOK, Lists
<1>2. /\ t \in Linked(q) /\ t \in active
      /\ q' \in Lists /\ WellFormed(q')
      /\ Linked(q') = Linked(q) \ {t}
      /\ SameApart(q, q', t)
      /\ Loose(q', t)
      /\ q'.curr = t
  BY <1>1, <1>a, PopSound, LinkedFact DEF TypeOK, ListSound, Places
<1>3. Waiting' = Waiting /\ (OnOneList' <=> OnOneList)
  BY <1>1 DEF Waiting, WaitingOn, OnOneList, events
<1>4. TypeOK' /\ ListSound'
  BY <1>1, <1>2 DEF TypeOK, ListSound, tree, counts, events, micro
<1>5. Places'
  <2>1. \A s \in Shreds \ {t} : (Loose(q, s) => Loose(q', s)) /\ (Done(s)' <=> Done(s))
    BY <1>2 DEF SameApart, Done
  <2>2. ~Done(t)'
    BY <1>2, PointerAssumption DEF Done, Loose
  <2> QED  BY <1>1, <1>2, <1>3, <2>1, <2>2 DEF Places, tree, counts, micro
<1>6. Placement'
  BY <1>2, <1>3 DEF Placement
<1>7. RefCountExact' /\ NoOrphans' /\ Lineage' /\ WakingSound'
  BY <1>1, <1>3 DEF RefCountExact, NoOrphans, Lineage, WakingSound, tree, counts,
                    events, micro
<1>8. Kept
  <2>1. ~Done(t)
    BY <1>2 DEF Places
  <2> QED  BY <2>1, <1>2 DEF Kept, SameApart, Done
<1> QED  BY <1>4, <1>5, <1>6, <1>7, <1>8

LEMMA EndSampleInv ==
  ASSUME IInv, EndSample
  PROVE  IInv' /\ Kept
<1> USE DEF IInv
<1>1. /\ running' \in BOOLEAN
      /\ UNCHANGED <<tree, counts, frames, cancel, events, micro>>
  BY VMAssumption DEF EndSample
<1>2. /\ pos' \in 0 .. PosMax - 2
      /\ q' \in Lists /\ WellFormed(q') /\ Linked(q') = Linked(q)
      /\ q'.curr = q.curr /\ q'.prev = q.prev /\ q'.next = q.next
  <2>1. pos \in 0 .. PosMax - 2 /\ PosMax \in Int /\ PosMax > 2 /\ PosMax * Sample \in Int
    BY VMAssumption DEF TypeOK
  <2>2. CASE pos + 1 = PosMax - 1
    <3>1. pos' = 0 /\ q' = Shift(q, PosMax * Sample)
      BY <2>2 DEF EndSample, NextPos
    <3>2. q \in Lists /\ WellFormed(q)
      BY DEF TypeOK, ListSound
    <3> QED  BY <2>1, <3>1, <3>2, ShiftSound
  <2>3. CASE pos + 1 # PosMax - 1
    BY <2>1, <2>3 DEF EndSample, NextPos, TypeOK, ListSound
  <2> QED  BY <2>2, <2>3
<1>3. Waiting' = Waiting /\ (OnOneList' <=> OnOneList)
  BY <1>1 DEF Waiting, WaitingOn, OnOneList, events
<1>4. TypeOK' /\ ListSound' /\ Placement'
  BY <1>1, <1>2, <1>3 DEF TypeOK, ListSound, Placement, tree, counts, events, micro
<1>5. Places'
  <2>1. \A s \in Shreds : (Loose(q', s) <=> Loose(q, s)) /\ (Done(s)' <=> Done(s))
    BY <1>2 DEF Loose, Done
  <2> QED  BY <1>1, <1>2, <1>3, <2>1 DEF Places, tree, counts, micro
<1>6. RefCountExact' /\ NoOrphans' /\ Lineage' /\ WakingSound'
  BY <1>1, <1>3 DEF RefCountExact, NoOrphans, Lineage, WakingSound, tree, counts,
                    events, micro
<1>7. Kept
  BY <1>2 DEF Kept, Done
<1> QED  BY <1>4, <1>5, <1>6, <1>7

-----------------------------------------------------------------------------
(* The instructions of the running shred.                                  *)

LEMMA NowIsInt ==
  ASSUME TypeOK
  PROVE  Now \in Int /\ Now + Eps \in Int /\ \A d \in Delays : Now + d \in Int
BY VMAssumption DEF TypeOK, Now

(* The running shred is alive, off the list and on no event's list. *)
LEMMA RunningFact ==
  ASSUME IInv, NEW t \in Shreds, Busy(t)
  PROVE  /\ t \in active /\ t = q.curr /\ Loose(q, t) /\ t \notin Waiting
         /\ erasing = {} /\ waking = Null /\ Calm
BY DEF IInv, Busy, Calm, Places, Placement

LEMMA RaiseInv ==
  ASSUME IInv, Calm, NEW t \in active, Raise(t),
         t \in Waiting => frames[t] = 0
  PROVE  IInv' /\ Kept
<1> DEFINE r == Detach(q, t)
<1>1. /\ t \in Shreds /\ t \notin erasing
      /\ q \in Lists /\ WellFormed(q) /\ (t \in Linked(q) \/ Loose(q, t))
      /\ q.curr \in Shreds \cup {Null}
  BY CanMove, ListFact DEF IInv, Calm, TypeOK, ListSound
<1>2. CASE StartErase(r, t) /\ UNCHANGED frames
  BY <1>2, EraseStarts
<1>3. CASE /\ frames[t] > 0
           /\ q' \in Shredule(r, t, Now)
           /\ frames' = [frames EXCEPT ![t] = @ - 1]
           /\ UNCHANGED <<pos, running, tree, counts, cancel, events, micro>>
  <2>1. Moved(q, r, t) /\ Loose(r, t) /\ r \in Lists /\ WellFormed(r)
    BY <1>1, DetachMoves DEF Moved
  <2> HIDE DEF r
  <2>2. Moved(r, q', t) /\ t \in Linked(q')
    BY <2>1, <1>1, <1>3, NowIsInt, ShreduleMoves DEF IInv
  <2>3. Moved(q, q', t)
    BY <2>1, <2>2, <1>1, MovedTwice
  <2>4. t \notin Waiting
    BY <1>3
  <2>5. frames' \in [Shreds -> Nat]
    BY <1>1, <1>3 DEF IInv, TypeOK
  <2> QED  BY <2>2, <2>3, <2>4, <2>5, <1>1, <1>3, OneMoves
<1> QED  BY <1>2, <1>3 DEF Raise

LEMMA TimeAdvInv ==
  ASSUME IInv, NEW t \in Shreds, NEW d \in Delays, TimeAdv(t, d)
  PROVE  IInv' /\ Kept
<1>1. Busy(t)
  BY DEF TimeAdv
<1>2. CASE d < 0
  BY <1>1, <1>2, RunningFact, RaiseInv DEF TimeAdv
<1>3. CASE ~(d < 0)
  <2>1. Moved(q, q', t) /\ t \in Linked(q')
    BY <1>1, <1>3, RunningFact, NowIsInt, ShreduleMoves DEF TimeAdv, IInv, TypeOK, ListSound
  <2>2. frames' \in [Shreds -> Nat]
    BY <1>3 DEF TimeAdv, IInv, TypeOK
  <2> QED  BY <2>1, <2>2, <1>1, <1>3, RunningFact, OneMoves DEF TimeAdv
<1> QED  BY <1>2, <1>3

LEMMA YieldInv ==
  ASSUME Disciplined, IInv, NEW t \in Shreds, NEW s \in Shreds, Yield(t, s)
  PROVE  IInv' /\ Kept
<1>1. /\ Busy(t) /\ Named(s) /\ ~Done(s) /\ s \notin Waiting
      /\ q' \in Shredule(IF s = t THEN q ELSE Detach(q, s), s, Now + Eps)
      /\ UNCHANGED <<pos, running, tree, counts, frames, cancel, events, micro>>
  BY DEF Yield
<1>2. s \in active /\ s \notin erasing
  BY <1>1, RunningFact DEF Named, IInv, Places
<1>3. /\ q \in Lists /\ WellFormed(q) /\ (s \in Linked(q) \/ Loose(q, s))
      /\ q.curr \in Shreds \cup {Null}
      /\ Now + Eps \in Int
  BY <1>2, CanMove, ListFact, NowIsInt DEF IInv, TypeOK, ListSound
<1>4. Moved(q, q', s) /\ s \in Linked(q')
  <2>1. CASE s = t
    BY <2>1, <1>1, <1>3, RunningFact, ShreduleMoves
  <2>2. CASE s # t
    <3> DEFINE r == Detach(q, s)
    <3>1. Moved(q, r, s) /\ Loose(r, s) /\ r \in Lists /\ WellFormed(r)
      BY <1>3, DetachMoves DEF Moved
    <3>2. q' \in Shredule(r, s, Now + Eps)
      BY <2>2, <1>1
    <3> HIDE DEF r
    <3>3. Moved(r, q', s) /\ s \in Linked(q')
      BY <3>1, <3>2, <1>3, ShreduleMoves
    <3> QED  BY <3>1, <3>3, <1>3, MovedTwice
  <2> QED  BY <2>1, <2>2
<1>5. frames' \in [Shreds -> Nat]
  BY <1>1 DEF IInv, TypeOK
<1> QED  BY <1>1, <1>2, <1>4, <1>5, OneMoves

LEMMA TryInv ==
  ASSUME IInv, NEW t \in Shreds, TryIni(t) \/ TryEnd(t)
  PROVE  IInv' /\ Kept
<1>1. UNCHANGED <<q, pos, running, tree, counts, cancel, events, micro>>
  BY DEF TryIni, TryEnd
<1>2. frames' \in [Shreds -> Nat]
  <2>1. frames \in [Shreds -> Nat] /\ frames[t] \in Nat
    BY DEF IInv, TypeOK
  <2>2. \E n \in Nat : frames' = [frames EXCEPT ![t] = n]
    BY <2>1 DEF TryIni, TryEnd
  <2> QED  BY <2>1, <2>2
<1>3. TypeOK'
  BY <1>1, <1>2 DEF IInv, TypeOK, tree, counts, events, micro
<1>4. \A s \in Shreds : s \notin active /\ ~Done(s) => handles'[s] = 0
  BY <1>1 DEF IInv, Places, counts
<1> QED  BY <1>1, <1>3, <1>4, NoneMoves DEF counts, events, micro

LEMMA SetCancelInv ==
  ASSUME IInv, NEW t \in Shreds, NEW s \in Shreds, NEW n \in BOOLEAN,
         SetCancel(t, s, n)
  PROVE  IInv' /\ Kept
<1>1. /\ UNCHANGED <<q, pos, running, tree, counts, frames, events, micro>>
      /\ cancel' \subseteq Shreds
  BY DEF SetCancel, IInv, TypeOK
<1>2. TypeOK'
  BY <1>1 DEF IInv, TypeOK, tree, counts, events, micro
<1>3. \A u \in Shreds : u \notin active /\ ~Done(u) => handles'[u] = 0
  BY <1>1 DEF IInv, Places, counts
<1> QED  BY <1>1, <1>2, <1>3, NoneMoves DEF counts, events, micro

LEMMA HandleInv ==
  ASSUME IInv, NEW t \in Shreds, NEW s \in Shreds,
         TakeHandle(t, s) \/ DropHandle(t, s)
  PROVE  IInv' /\ Kept
<1>1. UNCHANGED <<q, pos, running, tree, frames, cancel, events, micro>>
  BY DEF TakeHandle, DropHandle
<1>2. /\ handles \in [Shreds -> Nat] /\ ref \in [Shreds -> Int]
      /\ handles[s] \in Nat /\ ref[s] \in Int
  BY DEF IInv, TypeOK
<1>3. PICK k \in {1, -1} : /\ handles[s] + k \in Nat
                           /\ handles' = [handles EXCEPT ![s] = @ + k]
                           /\ ref' = [ref EXCEPT ![s] = @ + k]
  BY <1>2 DEF TakeHandle, DropHandle
<1>4. handles' \in [Shreds -> Nat] /\ ref' \in [Shreds -> Int]
  BY <1>2, <1>3
<1>5. \A u \in Shreds : ref'[u] - handles'[u] = ref[u] - handles[u]
  <2> SUFFICES ASSUME NEW u \in Shreds
               PROVE  ref'[u] - handles'[u] = ref[u] - handles[u]
    OBVIOUS
  <2>1. CASE u = s
    <3>1. ref'[u] = ref[s] + k /\ handles'[u] = handles[s] + k
      BY <2>1, <1>2, <1>3
    <3> QED  BY <3>1, <2>1, <1>2
  <2>2. CASE u # s
    BY <2>2, <1>2, <1>3
  <2> QED  BY <2>1, <2>2
<1>6. s \in active \/ handles[s] > 0
  BY DEF TakeHandle, DropHandle, Named
<1>7. \A u \in Shreds : u \notin active /\ ~Done(u) => handles'[u] = 0
  BY <1>2, <1>3, <1>6 DEF IInv, Places
<1>8. TypeOK'
  BY <1>1, <1>4 DEF IInv, TypeOK, tree, events, micro
<1> QED  BY <1>1, <1>5, <1>7, <1>8, NoneMoves DEF events, micro

(* The shred exit or test_cancel is called for is alive. *)
LEMMA ExitInv ==
  ASSUME IInv, NEW t \in Shreds, NEW s \in Shreds, Busy(t), Named(s), ~Done(s),
         StartErase(q, s), UNCHANGED frames
  PROVE  IInv' /\ Kept
<1>1. s \in active /\ Calm
  BY RunningFact DEF Named, IInv, Places
<1> QED  BY <1>1, EraseStarts

-----------------------------------------------------------------------------
(* The birth of a shred.                                                   *)

LEMMA UnbornFact ==
  ASSUME IInv, NEW u \in Shreds, Unborn(u)
  PROVE  /\ u \notin active /\ u \notin Waiting /\ handles[u] = 0 /\ ~Done(u)
         /\ Loose(q, u) /\ parent[u] = Null /\ children[u] = {}
         /\ u \notin erasing /\ u # q.curr
<1>1. /\ ref[u] = 0 /\ handles[u] \in Nat
      /\ ref[u] = (IF u \in active THEN 1 ELSE 0)
                  + (IF u \in Waiting THEN 1 ELSE 0) + handles[u]
  BY DEF Unborn, IInv, TypeOK, RefCountExact
<1>2. u \notin active /\ u \notin Waiting /\ handles[u] = 0
  BY <1>1
<1> QED  BY <1>2 DEF Unborn, IInv, Places

LEMMA AddInv ==
  ASSUME IInv, NEW u \in Shreds, Add(u),
         UNCHANGED <<pos, running, handles, frames, cancel, events, micro>>,
         \/ UNCHANGED <<parent, children>>
         \/ \E t \in active : /\ parent' = [parent EXCEPT ![u] = t]
                              /\ children' = [children EXCEPT ![t] = @ \cup {u}]
  PROVE  IInv' /\ Kept
<1> USE DEF IInv
<1>1. /\ u \notin active /\ u \notin Waiting /\ handles[u] = 0 /\ ~Done(u)
      /\ Loose(q, u) /\ parent[u] = Null /\ children[u] = {}
      /\ u \notin erasing /\ u # q.curr
      /\ q' \in Shredule(q, u, Eps)
      /\ active' = active \cup {u}
      /\ ref' = [ref EXCEPT ![u] = 1]
  BY UnbornFact DEF Add
<1>2. Moved(q, q', u) /\ u \in Linked(q')
  BY <1>1, VMAssumption, ShreduleMoves DEF TypeOK, ListSound
<1>3. Waiting' = Waiting /\ (OnOneList' <=> OnOneList)
  BY DEF Waiting, WaitingOn, OnOneList, events
<1>4. /\ parent' \in [Shreds -> Shreds \cup {Null}]
      /\ children' \in [Shreds -> SUBSET Shreds]
      /\ \A s \in Shreds \ {u} : parent'[s] = parent[s]
      /\ \A s \in Shreds \ active : children'[s] = children[s]
      /\ \A s \in Shreds : children[s] \subseteq children'[s]
      /\ \A s \in Shreds : children'[s] \subseteq children[s] \cup {u}
      /\ \A s \in Shreds : u \in children'[s] /\ u \notin children[s] => parent'[u] = s
      /\ parent'[u] # Null => parent'[u] \in active /\ u \in children'[parent'[u]]
  <2>1. /\ parent \in [Shreds -> Shreds \cup {Null}] /\ active \subseteq Shreds
        /\ children \in [Shreds -> SUBSET Shreds]
    BY DEF TypeOK
  <2>2. CASE UNCHANGED <<parent, children>>
    BY <2>1, <2>2, <1>1
  <2>3. CASE \E t \in active : /\ parent' = [parent EXCEPT ![u] = t]
                                /\ children' = [children EXCEPT ![t] = @ \cup {u}]
    <3>a. PICK t \in active : /\ parent' = [parent EXCEPT ![u] = t]
                              /\ children' = [children EXCEPT ![t] = @ \cup {u}]
      BY <2>3
    <3>1. /\ parent' \in [Shreds -> Shreds \cup {Null}] /\ parent'[u] = t
          /\ \A s \in Shreds \ {u} : parent'[s] = parent[s]
      BY <2>1, <3>a
    <3>2. /\ children'[t] = children[t] \cup {u}
          /\ \A s \in Shreds \ {t} : children'[s] = children[s]
      BY <2>1, <3>a
    <3>3. children' \in [Shreds -> SUBSET Shreds]
      <4>1. children[t] \cup {u} \in SUBSET Shreds
        BY <2>1
      <4> QED  BY <4>1, <2>1, <3>a
    <3>4. t \in Shreds /\ \A s \in Shreds \ active : s # t
      BY <2>1
    <3>5. \A s \in Shreds : /\ children[s] \subseteq children'[s]
                           /\ children'[s] \subseteq children[s] \cup {u}
                           /\ u \in children'[s] /\ u \notin children[s] => s = t
      BY <3>2
    <3>6. u \in children'[t] /\ \A s \in Shreds \ active : children'[s] = children[s]
      BY <3>2, <3>4
    <3>7. parent'[u] \in active /\ u \in children'[parent'[u]]
      BY <3>a, <3>1, <3>6
    <3> QED  BY <3>1, <3>3, <3>5, <3>6, <3>7
  <2> QED  BY <2>2, <2>3
<1>5. FreshStays(u)
  BY <1>3, <1>4 DEF FreshStays, Places
<1>6. q' \in Lists /\ ListSound' /\ Places'
  BY <1>1, <1>2, <1>5, MovePlaces DEF micro
<1>a. /\ ref' \in [Shreds -> Int] /\ ref'[u] = 1
      /\ \A s \in Shreds \ {u} : ref'[s] = ref[s]
  BY <1>1 DEF TypeOK
<1>7. TypeOK'
  BY <1>1, <1>4, <1>6, <1>a DEF TypeOK, events, micro
<1>8. Placement'
  BY <1>1, <1>2, <1>3, MovePlacement DEF Placement
<1>9. RefCountExact'
  BY <1>1, <1>3, <1>a DEF RefCountExact
<1>10. NoOrphans'
  <2> SUFFICES ASSUME NEW s \in active'
               PROVE  /\ parent'[s] # Null => /\ parent'[s] \in active'
                                              /\ s \in children'[parent'[s]] \cup erasing'
                      /\ \A c \in children'[s] : parent'[c] = s /\ (c \in active' \/ s \in erasing')
    BY DEF NoOrphans
  <2>1. s \in Shreds /\ \A p \in active : u \notin children[p]
    BY <1>1, PointerAssumption DEF TypeOK, NoOrphans
  <2>2. CASE s = u
    BY <2>2, <1>1, <1>4
  <2>3. CASE s # u
    <3>1. s \in active
      BY <2>3, <1>1
    <3>2. parent'[s] # Null => /\ parent'[s] \in active'
                               /\ s \in children'[parent'[s]] \cup erasing'
      BY <3>1, <2>1, <2>3, <1>1, <1>4 DEF NoOrphans, micro, TypeOK
    <3>3. \A c \in children'[s] : parent'[c] = s /\ (c \in active' \/ s \in erasing')
      BY <3>1, <2>1, <2>3, <1>1, <1>4 DEF NoOrphans, micro, TypeOK
    <3> QED  BY <3>2, <3>3
  <2> QED  BY <2>2, <2>3
<1>11. Lineage'
  BY <1>1, <1>4 DEF Lineage, micro, TypeOK, Places
<1>12. WakingSound'
  BY DEF WakingSound, micro, events
<1>13. Kept
  BY <1>1, <1>2, MoveKeeps
<1> QED  BY <1>6, <1>7, <1>8, <1>9, <1>10, <1>11, <1>12, <1>13

LEMMA SporkInv ==
  ASSUME IInv, NEW t \in Shreds, NEW u \in Shreds, Spork(t, u)
  PROVE  IInv' /\ Kept
<1>1. t \in active
  BY RunningFact DEF Spork
<1> QED  BY <1>1, AddInv DEF Spork

-----------------------------------------------------------------------------
(* Events.                                                                 *)

LEMMA EventWaitInv ==
  ASSUME IInv, NEW t \in Shreds, NEW e \in Events, EventWait(t, e)
  PROVE  IInv' /\ Kept
<1> USE DEF IInv
<1>1. /\ t \in active /\ t = q.curr /\ Loose(q, t) /\ t \notin Waiting
      /\ erasing = {} /\ waking = Null /\ ~Done(t)
      /\ q' = Detach(q, t)
      /\ ref' = [ref EXCEPT ![t] = @ + 1]
      /\ waiters' = [waiters EXCEPT ![e] = Append(@, t)]
      /\ UNCHANGED <<pos, running, tree, handles, frames, cancel, gone, micro>>
  BY RunningFact DEF EventWait, Places
<1>2. Moved(q, q', t) /\ Loose(q', t) /\ t \notin Linked(q')
  BY <1>1, DetachMoves DEF TypeOK, ListSound, Loose
<1>3. /\ waiters' \in [Events -> Seq(Shreds)]
      /\ Waiting' = Waiting \cup {t}
      /\ OnOneList'
  BY <1>1, WaiterJoins DEF Placement
<1>4. FreshStays(t)
  BY <1>1, <1>3 DEF FreshStays, Places, tree
<1>5. q' \in Lists /\ ListSound' /\ Places'
  BY <1>1, <1>2, <1>4, MovePlaces DEF tree, micro
<1>6. /\ ref' \in [Shreds -> Int] /\ ref'[t] = ref[t] + 1
      /\ \A s \in Shreds \ {t} : ref'[s] = ref[s]
  BY <1>1 DEF TypeOK
<1>7. TypeOK'
  BY <1>1, <1>3, <1>5, <1>6 DEF TypeOK, tree, micro
<1>8. Placement'
  BY <1>1, <1>2, <1>3, MovePlacement
<1>9. RefCountExact'
  <2> SUFFICES ASSUME NEW s \in Shreds
               PROVE  ref'[s] = (IF s \in active THEN 1 ELSE 0)
                                + (IF s \in Waiting' THEN 1 ELSE 0) + handles[s]
    BY <1>1 DEF RefCountExact, tree
  <2>1. /\ ref[s] = (IF s \in active THEN 1 ELSE 0)
                    + (IF s \in Waiting THEN 1 ELSE 0) + handles[s]
        /\ handles[s] \in Int
    BY DEF RefCountExact, TypeOK
  <2> QED  BY <2>1, <1>1, <1>3, <1>6
<1>10. NoOrphans' /\ Lineage' /\ WakingSound'
  BY <1>1 DEF NoOrphans, Lineage, WakingSound, tree, micro
<1>11. Kept
  BY <1>1, <1>2, MoveKeeps
<1> QED  BY <1>5, <1>7, <1>8, <1>9, <1>10, <1>11

(* Waking a shred that died while it waited changes nothing but its count. *)
LEMMA WakeFirstInv ==
  ASSUME IInv, NEW e \in Events, waiters[e] # <<>>, WakeFirst(e),
         erasing = {}, UNCHANGED erasing,
         waking' \in Events \cup {Null}, WakingSound'
  PROVE  IInv' /\ Kept
<1> USE DEF IInv
<1>1. PICK t \in Shreds : t = Head(waiters[e])
  BY WaiterLeaves DEF WakeFirst, Placement
<1>2. /\ q' \in Shredule(q, t, Now + Eps)
      /\ waiters' = [waiters EXCEPT ![e] = Tail(@)]
      /\ ref' = [ref EXCEPT ![t] = @ - 1]
      /\ UNCHANGED <<pos, running, tree, handles, frames, cancel, gone>>
  BY <1>1 DEF WakeFirst
<1>3. /\ t \in Waiting
      /\ waiters' \in [Events -> Seq(Shreds)]
      /\ Waiting' = Waiting \ {t}
      /\ OnOneList'
  BY <1>1, <1>2, WaiterLeaves DEF Placement
<1>4. t \notin Linked(q) /\ t # q.curr
  BY <1>3 DEF Placement
<1>5. /\ ref' \in [Shreds -> Int] /\ ref'[t] = ref[t] - 1
      /\ \A s \in Shreds \ {t} : ref'[s] = ref[s]
  BY <1>2 DEF TypeOK
<1>6. RefCountExact'
  <2> SUFFICES ASSUME NEW s \in Shreds
               PROVE  ref'[s] = (IF s \in active THEN 1 ELSE 0)
                                + (IF s \in Waiting' THEN 1 ELSE 0) + handles[s]
    BY <1>2 DEF RefCountExact, tree
  <2>1. /\ ref[s] = (IF s \in active THEN 1 ELSE 0)
                    + (IF s \in Waiting THEN 1 ELSE 0) + handles[s]
        /\ handles[s] \in Int
    BY DEF RefCountExact, TypeOK
  <2> QED  BY <2>1, <1>3, <1>5
<1>7. NoOrphans' /\ Lineage'
  BY <1>2 DEF NoOrphans, Lineage, tree
<1>8. q' \in Lists /\ ListSound' /\ Places' /\ Placement' /\ Kept
  <2>1. CASE Done(t)
    <3>1. q' = q
      BY <2>1, <1>2 DEF Shredule, Done
    <3>2. \A s : Done(s)' <=> Done(s)
      BY <3>1 DEF Done
    <3> QED  BY <3>1, <3>2, <1>2, <1>3
             DEF TypeOK, ListSound, Places, Placement, Kept, tree
  <2>2. CASE ~Done(t)
    <3>1. t \in active /\ Loose(q, t)
      BY <2>2, <1>3, <1>4 DEF Places
    <3>2. Moved(q, q', t) /\ t \in Linked(q')
      BY <3>1, <1>2, NowIsInt, ShreduleMoves DEF TypeOK, ListSound
    <3>3. FreshStays(t)
      BY <1>2, <1>3 DEF FreshStays, Places, tree
    <3>4. q' \in Lists /\ ListSound' /\ Places'
      BY <3>1, <3>2, <3>3, <1>2, MovePlaces DEF tree
    <3>5. Placement'
      BY <3>2, <1>3, MovePlacement
    <3> QED  BY <2>2, <3>2, <3>4, <3>5, MoveKeeps
  <2> QED  BY <2>1, <2>2
<1>9. TypeOK'
  BY <1>2, <1>3, <1>5, <1>8 DEF TypeOK, tree
<1> QED  BY <1>6, <1>7, <1>8, <1>9

LEMMA SignalInv ==
  ASSUME IInv, NEW t \in Shreds, NEW e \in Events, Signal(t, e)
  PROVE  IInv' /\ Kept
<1>1. /\ waiters[e] # <<>> /\ WakeFirst(e) /\ UNCHANGED micro
      /\ erasing = {} /\ waking = Null
  BY RunningFact DEF Signal
<1>2. WakingSound'
  BY <1>1 DEF WakingSound, micro
<1> QED  BY <1>1, <1>2, WakeFirstInv DEF micro

LEMMA WakeNextInv ==
  ASSUME IInv, WakeNext
  PROVE  IInv' /\ Kept
<1>1. /\ waking \in Events /\ waiters[waking] # <<>> /\ erasing = {}
      /\ WakeFirst(waking) /\ UNCHANGED erasing
      /\ waking' = IF Len(waiters[waking]) = 1 THEN Null ELSE waking
  BY DEF WakeNext, IInv, WakingSound
<1>2. WakingSound'
  <2>1. CASE Len(waiters[waking]) = 1
    BY <1>1, <2>1 DEF WakingSound
  <2>2. CASE Len(waiters[waking]) # 1
    <3>1. waiters[waking] \in Seq(Shreds) /\ waiters \in [Events -> Seq(Shreds)]
      BY <1>1 DEF IInv, TypeOK
    <3>2. Tail(waiters[waking]) # <<>>
      <4> DEFINE w == waiters[waking]
      <4>1. w \in Seq(Shreds) /\ w # <<>> /\ Len(w) # 1
        BY <3>1, <2>2, <1>1
      <4> HIDE DEF w
      <4>a. Len(w) \in Nat
        BY <4>1
      <4>b. Len(w) # 0
        BY <4>1
      <4>2. Len(w) \in Nat /\ Len(w) > 1
        <5>1. \A n \in Nat : n # 0 /\ n # 1 => n > 1
          OBVIOUS
        <5>2. Len(w) # 1
          BY <4>1
        <5> QED  BY <5>1, <5>2, <4>a, <4>b
      <4>3. Len(Tail(w)) = Len(w) - 1
        BY <4>1, <4>2
      <4>4. Tail(w) # <<>>
        BY <4>2, <4>3
      <4> QED  BY <4>4 DEF w
    <3>3. waiters' = [waiters EXCEPT ![waking] = Tail(@)]
      BY <1>1 DEF WakeFirst
    <3>4. waiters'[waking] = Tail(waiters[waking])
      BY <3>1, <3>3, <1>1
    <3> QED  BY <3>2, <3>4, <2>2, <1>1 DEF WakingSound
  <2> QED  BY <2>1, <2>2
<1> QED  BY <1>1, <1>2, WakeFirstInv

LEMMA BroadcastInv ==
  ASSUME IInv, NEW t \in Shreds, NEW e \in Events, Broadcast(t, e)
  PROVE  IInv' /\ Kept
<1> USE DEF IInv
<1>1. /\ waking' = e /\ waiters[e] # <<>> /\ erasing = {}
      /\ UNCHANGED <<q, pos, running, tree, counts, frames, cancel, events,
                     erasing>>
  BY RunningFact DEF Broadcast
<1>2. Waiting' = Waiting /\ (OnOneList' <=> OnOneList)
  BY <1>1 DEF Waiting, WaitingOn, OnOneList, events
<1>3. TypeOK' /\ ListSound' /\ Placement'
  BY <1>1, <1>2 DEF TypeOK, ListSound, Placement, tree, counts, events
<1>4. Places' /\ Kept
  BY <1>1, <1>2 DEF Places, Kept, Done, tree, counts
<1>5. RefCountExact' /\ NoOrphans' /\ Lineage' /\ WakingSound'
  BY <1>1, <1>2 DEF RefCountExact, NoOrphans, Lineage, WakingSound, tree, counts, events
<1> QED  BY <1>3, <1>4, <1>5

LEMMA EventDtorInv ==
  ASSUME IInv, NEW t \in Shreds, NEW e \in Events, EventDtor(t, e)
  PROVE  IInv' /\ Kept
<1> USE DEF IInv
<1>1. /\ e \notin gone /\ erasing = {} /\ waking = Null
      /\ gone' = gone \cup {e}
      /\ ref' = [s \in Shreds |-> IF s \in WaitingOn(e) THEN ref[s] - 1 ELSE ref[s]]
      /\ waiters' = [waiters EXCEPT ![e] = <<>>]
      /\ UNCHANGED <<q, pos, running, tree, handles, frames, cancel, micro>>
  BY RunningFact DEF EventDtor
<1>2. /\ waiters' \in [Events -> Seq(Shreds)]
      /\ Waiting' = Waiting \ WaitingOn(e)
      /\ WaitingOn(e) \subseteq Waiting
      /\ OnOneList'
  BY <1>1, WaitersReleased DEF Placement
<1>3. ref' \in [Shreds -> Int]
  BY <1>1 DEF TypeOK
<1>4. TypeOK' /\ ListSound' /\ Placement'
  BY <1>1, <1>2, <1>3 DEF TypeOK, ListSound, Placement, tree, micro
<1>5. Places' /\ Kept
  BY <1>1, <1>2 DEF Places, Kept, Done, tree, micro
<1>6. RefCountExact'
  <2> SUFFICES ASSUME NEW s \in Shreds
               PROVE  ref'[s] = (IF s \in active THEN 1 ELSE 0)
                                + (IF s \in Waiting' THEN 1 ELSE 0) + handles[s]
    BY <1>1 DEF RefCountExact, tree
  <2>1. /\ ref[s] = (IF s \in active THEN 1 ELSE 0)
                    + (IF s \in Waiting THEN 1 ELSE 0) + handles[s]
        /\ handles[s] \in Int
    BY DEF RefCountExact, TypeOK
  <2> QED  BY <2>1, <1>1, <1>2
<1>7. NoOrphans' /\ Lineage' /\ WakingSound'
  BY <1>1 DEF NoOrphans, Lineage, WakingSound, tree, micro
<1> QED  BY <1>4, <1>5, <1>6, <1>7

-----------------------------------------------------------------------------
(* Every step.                                                             *)

LEMMA InitInv ==
  ASSUME Init
  PROVE  IInv
<1>1. /\ q \in Lists /\ q.head = Root /\ q.curr = Null
      /\ \A s \in Shreds : q.prev[s] = Null /\ q.next[s] = Null
      /\ Root \in Shreds
  BY VMAssumption, PointerAssumption DEF Init, Lists
<1>2. Linked(q) = {Root}
  BY <1>1, PointerAssumption DEF Linked
<1>3. WellFormed(q)
  <2>1. [s \in {Root} |-> {}] \in [Linked(q) -> SUBSET Linked(q)]
    BY <1>2
  <2>2. Threads(q, [s \in {Root} |-> {}])
    BY <1>1, <1>2, PointerAssumption DEF Threads
  <2> QED  BY <2>1, <2>2, <1>1, <1>2, PointerAssumption DEF WellFormed
<1>4. Waiting = {} /\ OnOneList
  BY DEF Init, Waiting, WaitingOn, OnOneList
<1>5. TypeOK
  BY <1>1, VMAssumption DEF Init, TypeOK
<1>6. Places
  BY <1>1, <1>2, <1>4, PointerAssumption DEF Init, Places, Loose, Done
<1>7. RefCountExact
  <2>1. \A s \in Shreds : /\ ref[s] = IF s = Root THEN 1 ELSE 0
                         /\ handles[s] = 0
    BY DEF Init
  <2>2. active = {Root}
    BY DEF Init
  <2> SUFFICES ASSUME NEW s \in Shreds
               PROVE  ref[s] = (IF s \in active THEN 1 ELSE 0)
                               + (IF s \in Waiting THEN 1 ELSE 0) + handles[s]
    BY DEF RefCountExact
  <2>3. CASE s = Root
    BY <2>1, <2>2, <2>3, <1>4
  <2>4. CASE s # Root
    BY <2>1, <2>2, <2>4, <1>4
  <2> QED  BY <2>3, <2>4
<1>8. NoOrphans
  <2>1. parent[Root] = Null /\ children[Root] = {} /\ active = {Root}
    BY <1>1 DEF Init
  <2> QED  BY <2>1 DEF NoOrphans
<1>9. ListSound /\ Lineage /\ WakingSound
  BY <1>3 DEF Init, ListSound, Lineage, WakingSound
<1>10. Placement
  BY <1>4 DEF Placement
<1> QED  BY <1>5, <1>6, <1>7, <1>8, <1>9, <1>10 DEF IInv

LEMMA InstrInv ==
  ASSUME Disciplined, IInv, NEW t \in Shreds, Instr(t)
  PROVE  IInv' /\ Kept
<1>1. ASSUME NEW d \in Delays, TimeAdv(t, d) PROVE IInv' /\ Kept
  BY <1>1, TimeAdvInv
<1>2. CASE Perform(t)
  BY <1>2, RunningFact, RaiseInv DEF Perform
<1>3. CASE TryIni(t) \/ TryEnd(t)
  BY <1>3, TryInv
<1>4. CASE Eoc(t)
  BY <1>4, RunningFact, EraseStarts DEF Eoc
<1>5. ASSUME NEW s \in Shreds, Spork(t, s) PROVE IInv' /\ Kept
  BY <1>5, SporkInv
<1>6. ASSUME NEW s \in Shreds, Exit(t, s) \/ TestCancel(t, s) PROVE IInv' /\ Kept
  BY <1>6, ExitInv DEF Exit, TestCancel
<1>7. ASSUME NEW s \in Shreds, Yield(t, s) PROVE IInv' /\ Kept
  BY <1>7, YieldInv
<1>8. ASSUME NEW s \in Shreds, NEW n \in BOOLEAN, SetCancel(t, s, n) PROVE IInv' /\ Kept
  BY <1>8, SetCancelInv
<1>9. ASSUME NEW s \in Shreds, TakeHandle(t, s) \/ DropHandle(t, s) PROVE IInv' /\ Kept
  BY <1>9, HandleInv
<1>10. ASSUME NEW e \in Events, EventWait(t, e) PROVE IInv' /\ Kept
  BY <1>10, EventWaitInv
<1>11. ASSUME NEW e \in Events, Signal(t, e) PROVE IInv' /\ Kept
  BY <1>11, SignalInv
<1>12. ASSUME NEW e \in Events, Broadcast(t, e) PROVE IInv' /\ Kept
  BY <1>12, BroadcastInv
<1>13. ASSUME NEW e \in Events, EventDtor(t, e) PROVE IInv' /\ Kept
  BY <1>13, EventDtorInv
<1> QED  BY <1>1, <1>2, <1>3, <1>4, <1>5, <1>6, <1>7, <1>8, <1>9, <1>10, <1>11,
            <1>12, <1>13 DEF Instr

LEMMA NextInv ==
  ASSUME Disciplined, IInv, Next
  PROVE  IInv' /\ Kept
<1>1. CASE Get
  BY <1>1, GetInv
<1>2. CASE EndSample
  BY <1>2, EndSampleInv
<1>3. CASE WakeNext
  BY <1>3, WakeNextInv
<1>4. ASSUME NEW t \in Shreds, EraseChild(t) PROVE IInv' /\ Kept
  BY <1>4, EraseChildInv
<1>5. ASSUME NEW t \in Shreds, EraseSelf(t) PROVE IInv' /\ Kept
  BY <1>5, EraseSelfInv
<1>6. ASSUME NEW s \in Shreds, AddShred(s) PROVE IInv' /\ Kept
  BY <1>6, AddInv DEF AddShred
<1>7. ASSUME NEW s \in Shreds, VMRemove(s) PROVE IInv' /\ Kept
  BY <1>7, RaiseInv DEF VMRemove
<1>8. ASSUME NEW t \in Shreds, Instr(t) PROVE IInv' /\ Kept
  BY <1>8, InstrInv
<1> QED  BY <1>1, <1>2, <1>3, <1>4, <1>5, <1>6, <1>7, <1>8 DEF Next, Machine, Host

LEMMA StutterInv ==
  ASSUME IInv, UNCHANGED vars
  PROVE  IInv' /\ Kept
<1>1. UNCHANGED <<q, pos, running, tree, counts, frames, cancel, events, micro>>
  BY DEF vars
<1>2. TypeOK'
  BY <1>1 DEF IInv, TypeOK, tree, counts, events, micro
<1>3. \A s \in Shreds : s \notin active /\ ~Done(s) => handles'[s] = 0
  BY <1>1 DEF IInv, Places, counts
<1> QED  BY <1>1, <1>2, <1>3, NoneMoves DEF counts, events, micro

-----------------------------------------------------------------------------
(* Theorems.                                                               *)

(* IInv holds in every state of every VM whose programs are Disciplined:   *)
(* whatever instructions shreds mix with calls of the host, and however    *)
(* erasures and wake-ups interleave with them.                             *)
THEOREM Inductive ==
  ASSUME Disciplined
  PROVE  Spec => []IInv
<1>1. Init => IInv
  BY InitInv
<1>2. IInv /\ [Next]_vars => IInv'
  BY NextInv, StutterInv
<1> QED  BY <1>1, <1>2, PTL DEF Spec

(* Every variable keeps its type; reference counts of shreds too.          *)
THEOREM TypeCorrect == ASSUME Disciplined PROVE Spec => []TypeOK
<1>1. IInv => TypeOK
  BY DEF IInv
<1> QED  BY <1>1, Inductive, PTL

(* The shreduler's list stays threaded in order of wake time.              *)
THEOREM ListStaysSound == ASSUME Disciplined PROVE Spec => []ListSound
<1>1. IInv => ListSound
  BY DEF IInv
<1> QED  BY <1>1, Inductive, PTL

(* No shred is ever in two places.                                         *)
THEOREM OnePlaceEach == ASSUME Disciplined PROVE Spec => []Placement
<1>1. IInv => Placement
  BY DEF IInv
<1> QED  BY <1>1, Inductive, PTL

(* Reference counts of shreds are exact.                                   *)
THEOREM CountsAreExact == ASSUME Disciplined PROVE Spec => []RefCountExact
<1>1. IInv => RefCountExact
  BY DEF IInv
<1> QED  BY <1>1, Inductive, PTL

(* The shreds the VM can reach are not freed.                              *)
THEOREM NothingDangles == ASSUME Disciplined PROVE Spec => []NoDangling
<1>1. IInv => NoDangling
  <2> SUFFICES ASSUME IInv, NEW s \in Shreds,
                      s \in Linked(q) \cup {q.curr} \cup active \cup Waiting
               PROVE  ref[s] > 0
    BY DEF NoDangling
  <2>1. s \in active \/ s \in Waiting
    BY DEF IInv, Places
  <2>2. ref[s] = (IF s \in active THEN 1 ELSE 0)
                 + (IF s \in Waiting THEN 1 ELSE 0) + handles[s]
    BY DEF IInv, RefCountExact
  <2>3. handles[s] \in Nat
    BY DEF IInv, TypeOK
  <2> QED  BY <2>1, <2>2, <2>3
<1> QED  BY <1>1, Inductive, PTL

(* A shred does not outlive its parent, but for the moment of its erasure. *)
THEOREM FamiliesDieTogether == ASSUME Disciplined PROVE Spec => []NoOrphans
<1>1. IInv => NoOrphans
  BY DEF IInv
<1> QED  BY <1>1, Inductive, PTL

(* A shred that is done is never queued or run again.                      *)
THEOREM DoneForGood == ASSUME Disciplined PROVE Spec => NoResurrection
<1>1. ASSUME IInv, IInv', [Next]_vars
      PROVE  \A s \in Shreds : Done(s) => Done(s)' /\ s \notin (Linked(q) \cup {q.curr})'
  <2>1. Kept
    BY <1>1, NextInv, StutterInv
  <2>2. \A s \in Shreds : Done(s)' => s \notin (Linked(q) \cup {q.curr})'
    BY <1>1 DEF IInv, Places
  <2> QED  BY <2>1, <2>2 DEF Kept
<1> QED  BY <1>1, Inductive, PTL DEF Spec, NoResurrection

(* Only the driver moves the position.                                     *)
LEMMA PosMoves ==
  ASSUME Next, pos' # pos
  PROVE  EndSample
<1>1. ASSUME NEW t \in Shreds PROVE ~Raise(t)
  BY DEF Raise, StartErase
<1>2. ASSUME NEW t \in Shreds PROVE ~Instr(t)
  BY <1>1 DEF Instr, TimeAdv, Perform, TryIni, TryEnd, Eoc, Spork, Exit, Yield,
              SetCancel, TestCancel, TakeHandle, DropHandle, EventWait, Signal,
              Broadcast, EventDtor, StartErase, WakeFirst
<1>3. ~Host
  BY <1>1 DEF Host, AddShred, VMRemove
<1>4. ~Get /\ ~WakeNext /\ \A t \in Shreds : ~EraseChild(t) /\ ~EraseSelf(t)
  BY DEF Get, WakeNext, WakeFirst, EraseChild, EraseSelf
<1> QED  BY <1>2, <1>3, <1>4 DEF Next, Machine

(* The driver goes to the next sample only when none is due, though        *)
(* shreduler_get looks at the head of the list alone.                      *)
THEOREM SamplesComplete == ASSUME Disciplined PROVE Spec => NothingLeftBehind
<1>1. ASSUME IInv, [Next]_vars, pos' # pos
      PROVE  \A s \in Linked(q) : q.wake[s] > Now + Eps
  <2>1. ~Due
    BY <1>1, PosMoves DEF EndSample, vars
  <2>2. /\ q \in Lists /\ Now + Eps \in Int
        /\ \E after \in [Linked(q) -> SUBSET Linked(q)] : Threads(q, after)
    BY <1>1, NowIsInt DEF IInv, TypeOK, ListSound, WellFormed
  <2>3. PICK after \in [Linked(q) -> SUBSET Linked(q)] : Threads(q, after)
    BY <2>2
  <2> SUFFICES ASSUME NEW s \in Linked(q) PROVE q.wake[s] > Now + Eps
    OBVIOUS
  <2>4. /\ q.head # Null /\ q.head \in Shreds /\ s \in Shreds
        /\ q.wake[q.head] \in Int /\ q.wake[s] \in Int
    BY <2>2, <2>3 DEF Threads, Lists, Linked
  <2>5. q.wake[q.head] > Now + Eps
    BY <2>1, <2>2, <2>4 DEF Due
  <2>6. s = q.head \/ q.wake[q.head] <= q.wake[s]
    BY <2>3, <2>4 DEF Threads, Linked
  <2> QED  BY <2>2, <2>4, <2>5, <2>6
<1> QED  BY <1>1, Inductive, PTL DEF Spec, NothingLeftBehind

(* A queued shred's delay shrinks with the position, also when it wraps.   *)
THEOREM DelaysShrink == ASSUME Disciplined PROVE Spec => NeverOversleeps
<1>1. ASSUME IInv, [Next]_vars, pos' # pos
      PROVE  \A s \in Linked(q) :
               LET delay == q.wake[s] - pos * Sample
               IN  (q.wake[s] - pos * Sample)' \in {delay - Sample, delay - 2 * Sample}
  <2> SUFFICES ASSUME NEW s \in Linked(q)
               PROVE  q'.wake[s] - pos' * Sample \in
                        {(q.wake[s] - pos * Sample) - Sample,
                         (q.wake[s] - pos * Sample) - 2 * Sample}
    OBVIOUS
  <2>1. NextPos
    BY <1>1, PosMoves DEF EndSample, vars
  <2>2. /\ s \in Shreds /\ q.wake[s] \in Int /\ pos \in Int
        /\ Sample \in Int /\ PosMax \in Int /\ q \in Lists
    BY <1>1, VMAssumption DEF IInv, TypeOK, Lists, Linked
  <2>3. CASE pos + 1 = PosMax - 1
    <3>1. pos' = 0 /\ q'.wake[s] = q.wake[s] - PosMax * Sample
      BY <2>1, <2>3, <2>2 DEF NextPos, Shift, Lists
    <3>2. PosMax = pos + 2
      BY <2>2, <2>3
    <3>3. (pos + 2) * Sample = pos * Sample + 2 * Sample /\ 0 * Sample = 0
      BY <2>2
    <3> QED  BY <2>2, <3>1, <3>2, <3>3
  <2>4. CASE pos + 1 # PosMax - 1
    <3>1. pos' = pos + 1 /\ q' = q
      BY <2>1, <2>4 DEF NextPos
    <3>2. (pos + 1) * Sample = pos * Sample + Sample
      BY <2>2
    <3> QED  BY <2>2, <3>1, <3>2
  <2> QED  BY <2>3, <2>4
<1> QED  BY <1>1, Inductive, PTL DEF Spec, NeverOversleeps
=============================================================================
