-------------------------------- MODULE HMap --------------------------------
(***************************************************************************)
(* The dictionary of lib/dict.c: a table with open addressing.  Programs   *)
(* supply hash and equality, so that every operation is a loop of          *)
(* instructions; a step is one turn of a loop.                             *)
(*                                                                         *)
(* Keys and values are numbers, and 0 is what calloc leaves in a bucket.   *)
(***************************************************************************)
EXTENDS Integers, FiniteSets, SequencesExt

CONSTANTS
  Keys, Vals, Missing,
  Starts,      \* the function a program gives as hash, and the keys of a literal
  MinCap,      \* HMAP_MIN_CAP, the capacity without a literal
  MaxCap,      \* a bound on the capacity of a table that grows
  Grows,       \* the hashes of programs that make a table grow
  Removes      \* the hashes of programs that remove keys

ASSUME HMapAssumption ==
  /\ Keys \subseteq Nat /\ Vals \subseteq Nat /\ 0 \in Vals /\ Missing \notin Nat
  /\ \A s \in Starts :
       /\ DOMAIN s.hash \subseteq Keys /\ \A k \in DOMAIN s.hash : s.hash[k] \in Nat
       /\ s.keys \in Seq(DOMAIN s.hash) /\ IsInjective(s.keys) /\ Len(s.keys) < 256
  /\ MinCap \in Nat \ {0} /\ MaxCap \in Nat

VARIABLES
  hash,          \* the program's
  cap, count,    \* HMap.capacity and .count
  table,         \* HMap.state and .data, and what lies behind them
  old, idx,      \* the table that grows, and how much of it is left
  pc, op,        \* the loop the shred is in, and the operation it is for
  bucket, tomb,  \* what a loop keeps on the stack
  reply,         \* what the operation before answered
  kept,          \* what the program has stored and not removed
  cursor, due    \* a foreach loop, and the keys it still has to meet

size == <<cap, count>>
grow == <<old, idx>>
loop == <<bucket, tomb>>
each == <<cursor, due>>
vars == <<hash, size, table, grow, pc, op, loop, reply, kept, each>>

Zero == [set |-> FALSE, deleted |-> FALSE, key |-> 0, val |-> 0]
Junk == [set |-> TRUE, deleted |-> FALSE, key |-> Missing, val |-> Missing]
Live(s) == s.set /\ ~s.deleted
Entry(k, v) == [set |-> TRUE, deleted |-> FALSE, key |-> k, val |-> v]

(* n buckets, and behind them anything. *)
Blank(n, past) == [b \in 0 .. n |-> IF b = n THEN past ELSE Zero]

(* The first bucket from b on that is not set, in a circle of n. *)
Spot(t, b, n) ==
  LET Away(d) == (b + d) % n
  IN  Away(Min({d \in 0 .. n - 1 : ~t[Away(d)].set}))

Powers == {2, 4, 8, 16, 32, 64, 128, 256}
int2pow2(x) == CHOOSE p \in Powers : x < p /\ p <= 2 * x

(* A literal of the keys ks, all with the value 0. *)
dict_lit_ctor(h, ks, past) ==
  LET n == int2pow2(Len(ks))
      first[i \in 0 .. Len(ks)] ==
        IF i = 0 THEN Blank(n, past)
        ELSE [first[i - 1] EXCEPT ![Spot(first[i - 1], h[ks[i]] % n, n)] = Entry(ks[i], 0)]
  IN  first[Len(ks)]

Idle == pc = "idle" /\ cursor = -1

Init ==
  /\ \E past \in {Zero, Junk}, s \in Starts :
       /\ hash = s.hash /\ count = Len(s.keys)
       /\ kept = [k \in Keys |-> IF k \in ToSet(s.keys) THEN 0 ELSE Missing]
       /\ IF s.keys = <<>>
            THEN cap = MinCap /\ table = Blank(MinCap, past)
            ELSE cap = int2pow2(Len(s.keys)) /\ table = dict_lit_ctor(hash, s.keys, past)
  /\ old = <<>> /\ idx = 0
  /\ pc = "idle" /\ op = [kind |-> "none", key |-> 0, val |-> 0]
  /\ bucket = 0 /\ tomb = -1 /\ reply = Missing
  /\ cursor = -1 /\ due = {}

-----------------------------------------------------------------------------
(* Lookups: d[k], and k ~~ d.                                              *)

Start(kind, k, v, place) ==
  /\ pc = "idle"
  /\ op' = [kind |-> kind, key |-> k, val |-> v]
  /\ bucket' = hash[k] /\ tomb' = -1
  /\ pc' = place
  /\ UNCHANGED <<hash, size, table, grow, reply, kept, each>>

(* What a loop kept on the stack is popped. *)
Pop == bucket' = 0 /\ tomb' = -1

Get(k) == Start("get", k, 0, "lookup")
RemoveKey(k) == hash \in Removes /\ cursor = -1 /\ Start("remove", k, 0, "lookup")

(* hmap_iter: the first bucket that is deleted is noted, and passed over;  *)
(* the one that follows is not looked at.                                  *)
Stop == ~table[bucket % cap].set
Notes == table[bucket % cap].deleted /\ tomb = -1
Landed == (bucket % cap) + (IF Notes THEN 1 ELSE 0)

(* hmap_iter, the equality of the program, and hmap_iter_inc *)
Lookup ==
  /\ pc = "lookup" /\ ~Stop
  /\ tomb' = IF Notes THEN bucket % cap ELSE tomb
  /\ IF table[Landed].key = op.key
       THEN bucket' = Landed /\ pc' = op.kind
       ELSE bucket' = Landed + 1 /\ pc' = pc
  /\ UNCHANGED <<hash, size, table, grow, op, reply, kept, each>>

(* InvalidMapAccess *)
NotThere ==
  /\ pc = "lookup" /\ Stop
  /\ reply' = Missing /\ pc' = "idle"
  /\ Pop
  /\ UNCHANGED <<hash, size, table, grow, op, kept, each>>

(* hmap_val moves what it found to the deleted bucket it noted. *)
Value ==
  /\ pc = "get"
  /\ reply' = table[bucket].val
  /\ table' = IF tomb = -1 THEN table
              ELSE [table EXCEPT ![tomb] = table[bucket], ![bucket].deleted = TRUE]
  /\ pc' = "idle"
  /\ Pop
  /\ UNCHANGED <<hash, size, grow, op, kept, each>>

(* hmap_remove *)
Delete ==
  /\ pc = "remove"
  /\ reply' = table[bucket].val
  /\ table' = [table EXCEPT ![bucket].deleted = TRUE]
  /\ count' = count - 1
  /\ kept' = [kept EXCEPT ![op.key] = Missing]
  /\ pc' = "idle"
  /\ Pop
  /\ UNCHANGED <<hash, cap, grow, op, each>>

-----------------------------------------------------------------------------
(* v :=> d[k]                                                              *)

(* A slip: to grow when the table is full. *)
SlipTooFull == count >= cap

(* hmap_grow *)
TooFull == 4 * (count + 1) > 3 * cap

Put(k, v) ==
  /\ TooFull => hash \in Grows /\ 2 * cap <= MaxCap /\ cursor = -1
  /\ Start("put", k, v, IF TooFull THEN "grow" ELSE "probe")

(* hmap_grow_init *)
Grow ==
  /\ pc = "grow"
  /\ old' = table /\ idx' = cap
  /\ cap' = 2 * cap /\ count' = 0
  /\ \E past \in {Zero, Junk} : table' = Blank(2 * cap, past)
  /\ pc' = "rehash"
  /\ UNCHANGED <<hash, op, loop, reply, kept, each>>

Left == {b \in 0 .. idx - 1 : Live(old[b])}

(* hmap_grow_dec finds the entries from the end; hmap_find puts each in    *)
(* the first bucket that is not set, in a circle that is one too long.     *)
Rehash ==
  /\ pc = "rehash" /\ Left # {}
  /\ LET b == Max(Left)
     IN  /\ table' = [table EXCEPT ![Spot(table, hash[old[b].key] % cap, cap + 1)] = old[b]]
         /\ idx' = b
         /\ pc' = IF b = 0 THEN "probe" ELSE pc
  /\ count' = count + 1
  /\ UNCHANGED <<hash, cap, old, op, loop, reply, kept, each>>

Rehashed ==
  /\ pc = "rehash" /\ Left = {}
  /\ pc' = "probe"
  /\ UNCHANGED <<hash, size, table, grow, op, loop, reply, kept, each>>

(* hmap_iter_set_ini bounds the bucket. *)
Bounded == IF bucket >= cap THEN bucket % cap ELSE bucket

(* A slip: to forget the count. *)
SlipInsert ==
  /\ pc = "probe" /\ ~Live(table[Bounded])
  /\ table' = [table EXCEPT ![Bounded].set = TRUE, ![Bounded].deleted = FALSE,
                            ![Bounded].key = op.key]
  /\ bucket' = Bounded /\ pc' = "assign"
  /\ UNCHANGED <<hash, size, grow, op, tomb, reply, kept, each>>

(* hmap_iter_set takes the first bucket without an entry. *)
Insert ==
  /\ pc = "probe" /\ ~Live(table[Bounded])
  /\ table' = [table EXCEPT ![Bounded].set = TRUE, ![Bounded].deleted = FALSE,
                            ![Bounded].key = op.key]
  /\ count' = count + 1
  /\ bucket' = Bounded /\ pc' = "assign"
  /\ UNCHANGED <<hash, cap, grow, op, tomb, reply, kept, each>>

(* A slip: to take the bucket for the key's. *)
SlipProbe ==
  /\ pc = "probe" /\ Live(table[Bounded])
  /\ bucket' = Bounded /\ pc' = "assign"
  /\ UNCHANGED <<hash, size, table, grow, op, tomb, reply, kept, each>>

(* The equality of the program, and hmap_addr or hmpa_set_inc *)
Probe ==
  /\ pc = "probe" /\ Live(table[Bounded])
  /\ IF table[Bounded].key = op.key
       THEN bucket' = Bounded /\ pc' = "assign"
       ELSE bucket' = Bounded + 1 /\ pc' = pc
  /\ UNCHANGED <<hash, size, table, grow, op, tomb, reply, kept, each>>

(* The assignment to the address. *)
Assign ==
  /\ pc = "assign"
  /\ table' = [table EXCEPT ![bucket].val = op.val]
  /\ kept' = [kept EXCEPT ![op.key] = op.val]
  /\ old' = <<>> /\ idx' = 0 /\ pc' = "idle"
  /\ Pop
  /\ UNCHANGED <<hash, size, op, reply, each>>

-----------------------------------------------------------------------------
(* foreach (v : d); the body may use the dictionary, short of what removes *)
(* entries or makes it grow.                                               *)

EachInit ==
  /\ Idle
  /\ cursor' = 0 /\ due' = {k \in Keys : kept[k] # Missing}
  /\ UNCHANGED <<hash, size, table, grow, pc, op, loop, reply, kept>>

(* A slip: to begin after the first bucket. *)
SlipAhead == {b \in cursor + 1 .. cap - 1 : Live(table[b])}

(* DictEachIdx: the next entry, or the end *)
Ahead == {b \in cursor .. cap - 1 : Live(table[b])}

EachNext ==
  /\ pc = "idle" /\ cursor >= 0 /\ Ahead # {}
  /\ cursor' = Min(Ahead) + 1
  /\ due' = due \ {table[Min(Ahead)].key}
  /\ UNCHANGED <<hash, size, table, grow, pc, op, loop, reply, kept>>

EachEnd ==
  /\ pc = "idle" /\ cursor >= 0 /\ Ahead = {}
  /\ cursor' = -1
  /\ UNCHANGED <<hash, size, table, grow, pc, op, loop, reply, kept, due>>

(* dict_clear_dtor releases the entries from the end, but starts one too   *)
(* low: what is in the last bucket stays.                                  *)
Destroy ==
  /\ Idle
  /\ table' = [b \in DOMAIN table |-> IF b < cap - 1 THEN Zero ELSE table[b]]
  /\ pc' = "gone"
  /\ UNCHANGED <<hash, size, grow, op, loop, reply, kept, each>>

-----------------------------------------------------------------------------
Work ==
  \/ Lookup \/ NotThere \/ Value \/ Delete
  \/ Grow \/ Rehash \/ Rehashed \/ Insert \/ Probe \/ Assign

Program ==
  \/ EachInit \/ EachNext \/ EachEnd \/ Destroy
  \/ \E k \in DOMAIN hash : Get(k) \/ RemoveKey(k) \/ \E v \in Vals : Put(k, v)

Next == Work \/ Program

Spec == Init /\ [][Next]_vars

(* The shred that runs an operation goes on with it. *)
FairSpec == Spec /\ WF_vars(Work)

-----------------------------------------------------------------------------
Buckets == {b \in 0 .. cap - 1 : Live(table[b])}
Holding(k) == {b \in Buckets : table[b].key = k}

(* d[k] answers with the value stored last under k, and raises             *)
(* InvalidMapAccess when nothing was stored or k was removed since; a      *)
(* removal answers with what it removes.                                   *)
FindsWhatIsKept == pc = "idle" /\ op.kind = "get" => reply = kept[op.key]

(* Between operations the count, which decides when the table grows, is    *)
(* the number of entries; no key has two, and a key has one when it is     *)
(* kept.  hmap_iter_set takes a deleted bucket without looking further.    *)
CountExact ==
  pc = "idle" =>
    /\ count = Cardinality(Buckets)
    /\ \A k \in Keys : Cardinality(Holding(k)) = IF kept[k] = Missing THEN 0 ELSE 1

(* An operation comes to an end.                                           *)
WorkEnds == pc \notin {"idle", "gone"} ~> pc = "idle"

(* A foreach loop that ends has met every key that was there when it      *)
(* began, whatever its body looks up or stores.                            *)
EachMet == [][EachEnd => due = {}]_vars

(* The table is a dictionary: what it shows is what it holds, with what    *)
(* growth has not moved yet, and without the entry that still waits for    *)
(* its value.                                                              *)
Shown ==
  [k \in Keys |->
    LET b == Holding(k)
        o == IF pc = "rehash" THEN {c \in Left : old[c].key = k} ELSE {}
    IN  IF pc = "gone" \/ (pc = "assign" /\ op.key = k) THEN kept[k]
        ELSE IF b # {} THEN table[Min(b)].val
        ELSE IF o # {} THEN old[Max(o)].val
        ELSE Missing]

Abstract == INSTANCE Dict WITH store <- Shown
ImplementsDict == Abstract!Spec
=============================================================================
