------------------------------ MODULE TickList ------------------------------
(***************************************************************************)
(* The doubly linked list of ticks the shreduler keeps (shreduler.c).      *)
(*                                                                         *)
(* A list is a record: `head' and `curr' are Shreduler.list and .curr;     *)
(* `prev', `next' and `wake' are the fields of each shred's ShredTick.     *)
(* The operators are the list's code, pointer by pointer; what makes a     *)
(* list well formed is stated apart from them, as WellFormed.              *)
(*                                                                         *)
(* Times are integers counting fractions of a sample, so that the          *)
(* GWION_EPSILON the code adds to a float is an integer too.               *)
(***************************************************************************)
EXTENDS Integers

CONSTANTS
  Shreds,   \* every shred a run may create
  Null,     \* the null tick pointer
  Erased    \* (struct ShredTick_*)-1, the `prev' of a shred that is done

ASSUME PointerAssumption ==
  /\ Null \notin Shreds
  /\ Erased \notin Shreds
  /\ Null # Erased

Lists == [head : Shreds \cup {Null}, curr : Shreds \cup {Null},
          prev : [Shreds -> Shreds \cup {Null, Erased}],
          next : [Shreds -> Shreds \cup {Null}],
          wake : [Shreds -> Int]]

-----------------------------------------------------------------------------
(* shreduler_get: the tick at the front leaves the list and becomes curr. *)
Pop(q) ==
  LET t == q.head
      n == q.next[t]
  IN  [q EXCEPT !.head = n,
                !.curr = t,
                !.next = [@ EXCEPT ![t] = Null],
                !.prev = [s \in Shreds |-> IF s \in {n, t} THEN Null
                                                           ELSE @[s]]]

(* A slip: the head of the list is not moved past t. *)
TkRemoveKeepingHead(q, t) ==
  [q EXCEPT
     !.curr = IF t = @ THEN Null ELSE @,
     !.next = [s \in Shreds |-> IF s = q.prev[t] THEN q.next[t] ELSE @[s]],
     !.prev = [s \in Shreds |-> IF s = q.next[t] THEN q.prev[t] ELSE @[s]]]

(* tk_remove: t's neighbours are joined, its own two pointers stay. *)
TkRemove(q, t) ==
  [q EXCEPT
     !.curr = IF t = @ THEN Null ELSE @,
     !.head = IF t # q.curr /\ t = @ THEN q.next[t] ELSE @,
     !.next = [s \in Shreds |-> IF s = q.prev[t] THEN q.next[t] ELSE @[s]],
     !.prev = [s \in Shreds |-> IF s = q.next[t] THEN q.prev[t] ELSE @[s]]]

(* shreduler_remove(s, out, false). *)
Detach(q, t) ==
  LET r == TkRemove(q, t)
  IN  [r EXCEPT !.prev = [@ EXCEPT ![t] = Null],
                !.next = [@ EXCEPT ![t] = Null]]

(* The sentinel shreduler_erase leaves: t is done for good. *)
Mark(q, t) == [q EXCEPT !.prev = [@ EXCEPT ![t] = Erased]]

(* A tick is linked when the list leads to it. *)
Linked(q) == {s \in Shreds : \/ s = q.head
                             \/ /\ q.prev[s] \in Shreds
                                /\ q.next[q.prev[s]] = s}

(* A slip: the walk stops at an equal time, so that the last comes first. *)
SpotsBeforeEquals(q, w) ==
  IF q.head = Null \/ q.wake[q.head] >= w
    THEN {Null}
    ELSE {p \in Linked(q) : /\ q.wake[p] < w
                            /\ q.next[p] = Null \/ q.wake[q.next[p]] >= w}

(* Where the walk of _shredule stops: the tick to insert after, or Null. *)
Spots(q, w) ==
  IF q.head = Null \/ q.wake[q.head] > w
    THEN {Null}
    ELSE {p \in Linked(q) : /\ q.wake[p] <= w
                            /\ q.next[p] = Null \/ q.wake[q.next[p]] > w}

(* A slip: the tick that follows does not learn of t. *)
InsertOneWay(q, t, w, p) ==
  LET n == IF p = Null THEN q.head ELSE q.next[p]
  IN  [head |-> IF p = Null THEN t ELSE q.head,
       curr |-> IF t = q.curr THEN Null ELSE q.curr,
       next |-> [s \in Shreds |-> IF s = p THEN t ELSE IF s = t THEN n ELSE q.next[s]],
       prev |-> [s \in Shreds |-> IF s = t /\ p # Null THEN p ELSE q.prev[s]],
       wake |-> [q.wake EXCEPT ![t] = w]]

(* The pointer assignments of _shredule once the walk stopped at p. *)
InsertAfter(q, t, w, p) ==
  LET n == IF p = Null THEN q.head ELSE q.next[p]
  IN  [head |-> IF p = Null THEN t ELSE q.head,
       curr |-> IF t = q.curr THEN Null ELSE q.curr,
       next |-> [s \in Shreds |->
                   IF s = p THEN t
                   ELSE IF s = t /\ ~(p = Null /\ n = Null) THEN n
                   ELSE q.next[s]],
       prev |-> [s \in Shreds |->
                   IF s = t /\ p # Null THEN p
                   ELSE IF s = n THEN t
                   ELSE q.prev[s]],
       wake |-> [q.wake EXCEPT ![t] = w]]

(* A slip: the sentinel is not looked at. *)
ShreduleBlindly(q, t, w) == {InsertAfter(q, t, w, p) : p \in Spots(q, w)}

(* _shredule: what the list may be afterwards.  An erased shred is ignored. *)
Shredule(q, t, w) ==
  IF q.prev[t] = Erased THEN {q}
                        ELSE {InsertAfter(q, t, w, p) : p \in Spots(q, w)}

(* next_bbq_pos: the linked ticks' wake times move back.  The wake time of *)
(* any other tick, which the code moves too, is overwritten before it is   *)
(* read.                                                                   *)
Shift(q, k) ==
  LET wake == [s \in Shreds |-> IF s \in Linked(q) THEN q.wake[s] - k
                                                   ELSE q.wake[s]]
  IN  [q EXCEPT !.wake = wake]

-----------------------------------------------------------------------------
(* `after' orders the linked ticks as the pointers do: after[s] are the    *)
(* ticks that will be served later than s.                                 *)
Threads(q, after) ==
  LET L == Linked(q)
  IN  /\ L = {} <=> q.head = Null
      /\ q.head # Null => after[q.head] = L \ {q.head}
      /\ \A s \in L :
           /\ s \notin after[s]
           /\ q.prev[s] \in L \cup {Null}
           /\ q.prev[s] = Null <=> s = q.head
           /\ q.next[s] = Null => after[s] = {}
           /\ q.next[s] # Null => /\ q.next[s] \in L
                                  /\ q.prev[q.next[s]] = s
                                  /\ after[s] = {q.next[s]} \cup after[q.next[s]]
           /\ \A r \in after[s] : q.wake[s] <= q.wake[r]

(* A list is well formed when its pointers thread the linked ticks in      *)
(* order of wake time, the running tick not among them.                    *)
WellFormed(q) ==
  /\ \E after \in [Linked(q) -> SUBSET Linked(q)] : Threads(q, after)
  /\ q.curr \notin Linked(q)

(* A tick that can be inserted without keeping a stale pointer. *)
Loose(q, t) ==
  /\ t \notin Linked(q)
  /\ q.prev[t] = Null
  /\ q.next[t] = Null
=============================================================================
