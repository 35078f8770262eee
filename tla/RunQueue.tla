------------------------------ MODULE RunQueue ------------------------------
(***************************************************************************)
(* What the shreduler promises, without ticks and pointers: shreds are     *)
(* served one at a time, in the order of their delays, first come first    *)
(* served among equals, never early; no sample goes by while a shred is    *)
(* due or served; and a shred that is retired is never queued again.       *)
(***************************************************************************)
EXTENDS Integers, SequencesExt

CONSTANTS Shreds, Sample, Eps, Nobody

VARIABLES
  queue,    \* the shreds to be served, first first
  delay,    \* how long each of them still has to wait
  serving,  \* the shred that is served, or Nobody
  retired   \* shreds that are done

vars == <<queue, delay, serving, retired>>

Without(s) ==
  IF s \in ToSet(queue) THEN RemoveAt(queue, CHOOSE i \in DOMAIN queue : queue[i] = s)
                        ELSE queue

(* The queue r with s inserted after every shred that is due no later. *)
Inserted(r, s, d) ==
  LET earlier == {i \in DOMAIN r : delay[r[i]] <= d}
  IN  InsertAt(r, Cardinality(earlier) + 1, s)

Init ==
  /\ \E s \in Shreds : queue = <<s>> /\ delay = [r \in Shreds |-> IF r = s THEN Eps ELSE 0]
  /\ serving = Nobody
  /\ retired = {}

(* s is queued, or queued anew, to be served after a delay d: any d, so    *)
(* that Next takes it from the step itself.                                *)
Admit(s, d) ==
  /\ s \notin retired
  /\ queue' = Inserted(Without(s), s, d)
  /\ delay' = [delay EXCEPT ![s] = d]
  /\ serving' = IF s = serving THEN Nobody ELSE serving
  /\ UNCHANGED retired

Leaves(s) ==
  /\ queue' = Without(s)
  /\ delay' = [delay EXCEPT ![s] = 0]
  /\ UNCHANGED retired

Withdraw(s) ==
  /\ s \in ToSet(queue)
  /\ Leaves(s)
  /\ UNCHANGED serving

Serve ==
  /\ serving = Nobody
  /\ queue # <<>> /\ delay[queue[1]] <= Eps
  /\ Leaves(queue[1])
  /\ serving' = queue[1]

(* The shred that is served waits for something else, or comes to its end. *)
Stop ==
  /\ serving # Nobody
  /\ serving' = Nobody
  /\ UNCHANGED <<queue, delay, retired>>

Retire(s) ==
  /\ s \notin ToSet(queue) \cup {serving}
  /\ retired' = retired \cup {s}
  /\ UNCHANGED <<queue, delay, serving>>

(* A sample goes by: one, or two when the position wraps. *)
Tick ==
  /\ serving = Nobody
  /\ \A s \in ToSet(queue) : delay[s] > Eps
  /\ \E n \in {1, 2} :
       delay' = [s \in Shreds |-> IF s \in ToSet(queue)
                                    THEN delay[s] - n * Sample ELSE 0]
  /\ UNCHANGED <<queue, serving, retired>>

Next ==
  \/ Serve \/ Stop \/ Tick
  \/ \E s \in Shreds : \/ Withdraw(s) \/ Retire(s)
                       \/ \E d \in {delay'[s]} : Admit(s, d)

Spec == Init /\ [][Next]_vars
=============================================================================
