------------------------------ MODULE ShredVM ------------------------------
(***************************************************************************)
(* One virtual machine: the shreduler, the instructions and methods by     *)
(* which shreds create, suspend, wake and kill one another, the events     *)
(* they wait on, and the driver's loop that runs them sample by sample.    *)
(*                                                                         *)
(* A VM is a single thread.  A step is one instruction of the running      *)
(* shred, one call of the host, or one step of the driver's loop; erasing  *)
(* a tree of shreds and waking all the waiters of an event take several    *)
(* steps, during which (`erasing', `waking') nothing else runs.            *)
(***************************************************************************)
EXTENDS TickList, FiniteSets, Sequences

CONSTANTS
  Root,         \* the shred of the program given on the command line
  Events,
  Sample,       \* fractions in a sample
  Eps,          \* GWION_EPSILON in fractions of a sample
  Delays,       \* what programs add to `now', in fractions
  PosMax,       \* 16777216 in the code
  Loop,         \* Shreduler.loop: the VM outlives its shreds
  Instrs,       \* the instructions the programs use
  Disciplined,  \* programs leave shreds alone that wait on an event
  MaxFrames,    \* try statements a shred nests
  MaxHandles    \* references programs hold to one shred

ASSUME VMAssumption ==
  /\ Root \in Shreds
  /\ Null \notin Events
  /\ Sample \in Int /\ Eps \in Int /\ 0 < Eps /\ Eps < Sample
  /\ Delays \subseteq Int
  /\ PosMax \in Int /\ PosMax > 2
  /\ Loop \in BOOLEAN /\ Disciplined \in BOOLEAN
  /\ MaxFrames \in Nat /\ MaxHandles \in Nat

VARIABLES
  q,         \* the list of ticks
  pos,       \* Driver.pos, the sample being computed
  running,   \* Driver.is_running
  active,    \* Shreduler.active_shreds
  parent, children,  \* ShredTick.parent, .child
  ref,       \* the reference count of each Shred object
  handles,   \* references held by variables and stacks of programs
  frames,    \* try statements each shred is in (ShredInfo.frame)
  cancel,    \* shreds whose `cancel' member is set
  waiters,   \* the shreds waiting on each Event, first come first
  gone,      \* events that were destroyed
  erasing,   \* the shreds whose shreduler_erase is under way: one, a child
             \* of it, a child of that one...
  waking     \* the event whose waiters broadcast is waking, or Null

tree   == <<active, parent, children>>
counts == <<ref, handles>>
events == <<waiters, gone>>
micro  == <<erasing, waking>>
vars   == <<q, pos, running, tree, counts, frames, cancel, events, micro>>

Now     == pos * Sample
Calm    == running /\ erasing = {} /\ waking = Null
Idle    == Calm /\ q.curr = Null
Busy(t) == Calm /\ q.curr = t

Due     == q.head # Null /\ q.wake[q.head] <= Now + Eps
Done(t) == q.prev[t] = Erased
Unborn(t)  == ref[t] = 0 /\ ~Done(t)
WaitingOn(e) == {waiters[e][i] : i \in DOMAIN waiters[e]}
Waiting == UNION {WaitingOn(e) : e \in Events}
Uses(i) == i \in Instrs

Init ==
  /\ q = [head |-> Root, curr |-> Null, prev |-> [s \in Shreds |-> Null],
          next |-> [s \in Shreds |-> Null],
          wake |-> [s \in Shreds |-> IF s = Root THEN Eps ELSE 0]]
  /\ pos = 0 /\ running = TRUE
  /\ active = {Root}
  /\ parent = [s \in Shreds |-> Null]
  /\ children = [s \in Shreds |-> {}]
  /\ ref = [s \in Shreds |-> IF s = Root THEN 1 ELSE 0]
  /\ handles = [s \in Shreds |-> 0]
  /\ frames = [s \in Shreds |-> 0]
  /\ cancel = {}
  /\ waiters = [e \in Events |-> <<>>]
  /\ gone = {}
  /\ erasing = {} /\ waking = Null

-----------------------------------------------------------------------------
(* The driver's loop and the dispatch of shreds.                           *)

(* shreduler_get returns the shred at the front. *)
Get ==
  /\ Idle /\ Due
  /\ q' = Pop(q)
  /\ UNCHANGED <<pos, running, tree, counts, frames, cancel, events, micro>>

(* A slip: the wake times stay where they are. *)
NextPosAlone ==
  /\ pos' = IF pos + 1 = PosMax - 1 THEN 0 ELSE pos + 1
  /\ q' = q

(* next_bbq_pos: at the last position every wake time moves back by a      *)
(* whole period.                                                           *)
NextPos ==
  IF pos + 1 = PosMax - 1 THEN pos' = 0 /\ q' = Shift(q, PosMax * Sample)
                          ELSE pos' = pos + 1 /\ q' = q

(* shreduler_get returns NULL and the driver goes on to the next sample. *)
EndSample ==
  /\ Idle /\ ~Due
  /\ running' = (Loop \/ active # {})
  /\ NextPos
  /\ UNCHANGED <<tree, counts, frames, cancel, events, micro>>

-----------------------------------------------------------------------------
(* The end of a shred.                                                     *)

(* A slip: the parent still lists the child that dies. *)
StartEraseListed(r, t) ==
  /\ q' = TkRemove(r, t)
  /\ erasing' = {t}
  /\ UNCHANGED <<pos, running, tree, counts, cancel, events, waking>>

(* shreduler_remove(s, t, true), on the list r. *)
StartErase(r, t) ==
  /\ q' = TkRemove(r, t)
  /\ children' = [p \in Shreds |-> IF p = parent[t] THEN children[p] \ {t}
                                                   ELSE children[p]]
  /\ erasing' = {t}
  /\ UNCHANGED <<pos, running, active, parent, counts, cancel, events, waking>>

Innermost(t) == t \in erasing /\ \A c \in erasing : parent[c] # t

(* child: shreduler_erase turns to the children of t first. *)
EraseChild(t) ==
  /\ Innermost(t)
  /\ \E c \in children[t] :
       /\ ~Done(c)
       /\ q' = TkRemove(q, c)
       /\ erasing' = erasing \cup {c}
  /\ UNCHANGED <<pos, running, tree, counts, frames, cancel, events, waking>>

(* Two slips: t stays among the active shreds; its children are left over. *)
EraseSelfActive(t) ==
  /\ Innermost(t)
  /\ \A c \in children[t] : Done(c)
  /\ q' = Mark(q, t)
  /\ ref' = [ref EXCEPT ![t] = @ - 1]
  /\ erasing' = erasing \ {t}
  /\ UNCHANGED <<pos, running, tree, handles, frames, cancel, events, waking>>
EraseSelfAlone(t) ==
  /\ Innermost(t)
  /\ q' = Mark(q, t)
  /\ active' = active \ {t}
  /\ ref' = [ref EXCEPT ![t] = @ - 1]
  /\ erasing' = erasing \ {t}
  /\ UNCHANGED <<pos, running, parent, children, handles, frames, cancel,
                 events, waking>>

(* The rest of shreduler_erase.  A catch-all handler found by unwind calls *)
(* shredule, which must find the sentinel.                                 *)
EraseSelf(t) ==
  /\ Innermost(t)
  /\ \A c \in children[t] : Done(c)
  /\ LET marked == Mark(q, t)
     IN  q' \in {marked} \cup
                (IF frames[t] > 0 THEN Shredule(marked, t, Now) ELSE {})
  /\ active' = active \ {t}
  /\ ref' = [ref EXCEPT ![t] = @ - 1]
  /\ erasing' = erasing \ {t}
  /\ UNCHANGED <<pos, running, parent, children, handles, frames, cancel,
                 events, waking>>

(* handle: an effect raised in t is caught by one of its try statements,   *)
(* or ends t.                                                              *)
Raise(t) ==
  LET r == Detach(q, t)
  IN  \/ /\ frames[t] > 0
         /\ q' \in Shredule(r, t, Now)
         /\ frames' = [frames EXCEPT ![t] = @ - 1]
         /\ UNCHANGED <<pos, running, tree, counts, cancel, events, micro>>
      \/ /\ StartErase(r, t)
         /\ UNCHANGED frames

-----------------------------------------------------------------------------
(* Instructions of the running shred t.                                    *)

(* t waits until now + d; a time in the past is an effect. *)
TimeAdv(t, d) ==
  /\ Busy(t) /\ Uses("timeadv")
  /\ IF d < 0
       THEN Raise(t)
       ELSE /\ q' \in Shredule(q, t, Now + d)
            /\ UNCHANGED <<pos, running, tree, counts, frames, cancel, events,
                           micro>>

(* perform, and every instruction that fails. *)
Perform(t) == Busy(t) /\ Uses("perform") /\ Raise(t)

TryIni(t) ==
  /\ Busy(t) /\ Uses("try") /\ frames[t] < MaxFrames
  /\ frames' = [frames EXCEPT ![t] = @ + 1]
  /\ UNCHANGED <<q, pos, running, tree, counts, cancel, events, micro>>

TryEnd(t) ==
  /\ Busy(t) /\ frames[t] > 0
  /\ frames' = [frames EXCEPT ![t] = @ - 1]
  /\ UNCHANGED <<q, pos, running, tree, counts, cancel, events, micro>>

(* vm_add_shred and shreduler_add: u is queued at GWION_EPSILON, whatever  *)
(* the position.                                                           *)
Add(u) ==
  /\ Unborn(u)
  /\ q' \in Shredule(q, u, Eps)
  /\ active' = active \cup {u}
  /\ ref' = [ref EXCEPT ![u] = 1]

Spork(t, u) ==
  /\ Busy(t) /\ Uses("spork")
  /\ Add(u)
  /\ parent' = [parent EXCEPT ![u] = t]
  /\ children' = [children EXCEPT ![t] = @ \cup {u}]
  /\ UNCHANGED <<pos, running, handles, frames, cancel, events, micro>>

Eoc(t) == Busy(t) /\ StartErase(q, t) /\ UNCHANGED frames

(* A program can name the shreds of `fromId' and those it has handles to. *)
Named(s) == s \in active \/ handles[s] > 0

(* s.exit(): nothing for a shred that is done. *)
Exit(t, s) ==
  /\ Busy(t) /\ Uses("exit") /\ Named(s) /\ ~Done(s)
  /\ StartErase(q, s)
  /\ UNCHANGED frames

(* s.yield() queues s, even one that an event is still to wake. *)
Yield(t, s) ==
  /\ Busy(t) /\ Uses("yield") /\ Named(s) /\ ~Done(s)
  /\ Disciplined => s \notin Waiting
  /\ q' \in Shredule(IF s = t THEN q ELSE Detach(q, s), s, Now + Eps)
  /\ UNCHANGED <<pos, running, tree, counts, frames, cancel, events, micro>>

SetCancel(t, s, n) ==
  /\ Busy(t) /\ Uses("cancel") /\ Named(s)
  /\ cancel' = IF n THEN cancel \cup {s} ELSE cancel \ {s}
  /\ UNCHANGED <<q, pos, running, tree, counts, frames, events, micro>>

(* s.test_cancel(), of a shred that is not done. *)
TestCancel(t, s) ==
  /\ Busy(t) /\ Named(s) /\ ~Done(s) /\ s \in cancel
  /\ StartErase(q, s)
  /\ UNCHANGED frames

(* A program takes and drops a reference to a shred; the last one frees    *)
(* the object, and the shred with it.                                      *)
TakeHandle(t, s) ==
  /\ Busy(t) /\ Uses("handle") /\ Named(s) /\ handles[s] < MaxHandles
  /\ handles' = [handles EXCEPT ![s] = @ + 1]
  /\ ref' = [ref EXCEPT ![s] = @ + 1]
  /\ UNCHANGED <<q, pos, running, tree, frames, cancel, events, micro>>

DropHandle(t, s) ==
  /\ Busy(t) /\ handles[s] > 0
  /\ handles' = [handles EXCEPT ![s] = @ - 1]
  /\ ref' = [ref EXCEPT ![s] = @ - 1]
  /\ UNCHANGED <<q, pos, running, tree, frames, cancel, events, micro>>

-----------------------------------------------------------------------------
(* Events.                                                                 *)

(* Two slips: t still runs while it waits; the event takes no reference. *)
EventWaitRunning(t, e) ==
  /\ Busy(t) /\ Uses("event") /\ e \notin gone
  /\ ref' = [ref EXCEPT ![t] = @ + 1]
  /\ waiters' = [waiters EXCEPT ![e] = Append(@, t)]
  /\ UNCHANGED <<q, pos, running, tree, handles, frames, cancel, gone, micro>>
EventWaitUncounted(t, e) ==
  /\ Busy(t) /\ Uses("event") /\ e \notin gone
  /\ q' = Detach(q, t)
  /\ waiters' = [waiters EXCEPT ![e] = Append(@, t)]
  /\ UNCHANGED <<pos, running, tree, counts, frames, cancel, gone, micro>>

(* e => now *)
EventWait(t, e) ==
  /\ Busy(t) /\ Uses("event") /\ e \notin gone
  /\ q' = Detach(q, t)
  /\ ref' = [ref EXCEPT ![t] = @ + 1]
  /\ waiters' = [waiters EXCEPT ![e] = Append(@, t)]
  /\ UNCHANGED <<pos, running, tree, handles, frames, cancel, gone, micro>>

(* The first waiter of e is shreduled and leaves its list. *)
WakeFirst(e) ==
  LET s == Head(waiters[e])
  IN  /\ q' \in Shredule(q, s, Now + Eps)
      /\ waiters' = [waiters EXCEPT ![e] = Tail(@)]
      /\ ref' = [ref EXCEPT ![s] = @ - 1]
      /\ UNCHANGED <<pos, running, tree, handles, frames, cancel, gone>>

Signal(t, e) ==
  /\ Busy(t) /\ Uses("event") /\ waiters[e] # <<>>
  /\ WakeFirst(e)
  /\ UNCHANGED micro

(* e.broadcast() wakes the waiters one after the other. *)
Broadcast(t, e) ==
  /\ Busy(t) /\ Uses("broadcast") /\ waiters[e] # <<>>
  /\ waking' = e
  /\ UNCHANGED <<q, pos, running, tree, counts, frames, cancel, events,
                 erasing>>

(* A slip: only the first is woken. *)
WakeNextOnly ==
  /\ waking # Null
  /\ WakeFirst(waking)
  /\ waking' = Null
  /\ UNCHANGED erasing

WakeNext ==
  /\ waking # Null
  /\ WakeFirst(waking)
  /\ waking' = IF Len(waiters[waking]) = 1 THEN Null ELSE waking
  /\ UNCHANGED erasing

(* A slip: the waiters are not released. *)
EventDtorForgetful(t, e) ==
  /\ Busy(t) /\ Uses("dtor") /\ e \notin gone
  /\ gone' = gone \cup {e}
  /\ waiters' = [waiters EXCEPT ![e] = <<>>]
  /\ UNCHANGED <<q, pos, running, tree, counts, frames, cancel, micro>>

(* The last reference to e is dropped: its waiters are released, not woken.*)
EventDtor(t, e) ==
  /\ Busy(t) /\ Uses("dtor") /\ e \notin gone
  /\ gone' = gone \cup {e}
  /\ ref' = [s \in Shreds |-> IF s \in WaitingOn(e) THEN ref[s] - 1 ELSE ref[s]]
  /\ waiters' = [waiters EXCEPT ![e] = <<>>]
  /\ UNCHANGED <<q, pos, running, tree, handles, frames, cancel, micro>>

-----------------------------------------------------------------------------
(* Calls of the host, between or within the instructions of shreds.        *)

(* A program is compiled and its shred added. *)
AddShred(u) ==
  /\ Calm /\ Uses("add")
  /\ Add(u)
  /\ UNCHANGED <<pos, running, parent, children, handles, frames, cancel,
                 events, micro>>

(* vm_remove raises MsgRemove in a shred, which may catch it while it      *)
(* waits on an event.                                                      *)
VMRemove(s) ==
  /\ Calm /\ Uses("remove") /\ s \in active
  /\ Disciplined /\ s \in Waiting => frames[s] = 0
  /\ Raise(s)

-----------------------------------------------------------------------------
Instr(t) ==
  \/ \E d \in Delays : TimeAdv(t, d)
  \/ Perform(t) \/ TryIni(t) \/ TryEnd(t) \/ Eoc(t)
  \/ \E s \in Shreds : \/ Spork(t, s) \/ Exit(t, s) \/ Yield(t, s)
                       \/ \E n \in BOOLEAN : SetCancel(t, s, n)
                       \/ TestCancel(t, s)
                       \/ TakeHandle(t, s) \/ DropHandle(t, s)
  \/ \E e \in Events : \/ EventWait(t, e) \/ Signal(t, e) \/ Broadcast(t, e)
                       \/ EventDtor(t, e)

Host == \E s \in Shreds : AddShred(s) \/ VMRemove(s)

Machine == \/ Get \/ EndSample \/ WakeNext
           \/ \E t \in Shreds : EraseChild(t) \/ EraseSelf(t)

Next == Machine \/ Host \/ \E t \in Shreds : Instr(t)

Spec == Init /\ [][Next]_vars

-----------------------------------------------------------------------------
(* Properties.                                                             *)

TypeOK ==
  /\ q \in Lists
  /\ pos \in 0 .. PosMax - 2
  /\ running \in BOOLEAN
  /\ active \subseteq Shreds
  /\ parent \in [Shreds -> Shreds \cup {Null}]
  /\ children \in [Shreds -> SUBSET Shreds]
  /\ ref \in [Shreds -> Int]
  /\ handles \in [Shreds -> Nat]
  /\ frames \in [Shreds -> Nat]
  /\ cancel \subseteq Shreds
  /\ waiters \in [Events -> Seq(Shreds)]
  /\ gone \subseteq Events
  /\ erasing \subseteq Shreds
  /\ waking \in Events \cup {Null}

(* The shreduler's list is threaded in order of wake time after every      *)
(* sequence of insertions, removals and erasures, the running tick off it  *)
(* (shreduler.c: tk_remove and _shredule patch the pointers by hand).      *)
ListSound == WellFormed(q)

(* No shred is on two lists, or twice on one. *)
OnOneList ==
  \A d, e \in Events : \A i \in DOMAIN waiters[d], j \in DOMAIN waiters[e] :
    waiters[d][i] = waiters[e][j] => d = e /\ i = j

(* A shred is in one place: running, queued, or on the list of one event,  *)
(* once; so no wake-up finds it already queued (_shredule does not check). *)
Placement ==
  /\ \A s \in Waiting : s \notin Linked(q) \cup {q.curr}
  /\ OnOneList

(* The count of a Shred object is the number of references the VM, the     *)
(* events and the program hold, whoever kills or wakes the shred and in    *)
(* whatever order (EventWait, signal, shreduler_erase).                    *)
RefCountExact ==
  \A s \in Shreds :
    ref[s] = (IF s \in active THEN 1 ELSE 0)
             + (IF s \in Waiting THEN 1 ELSE 0) + handles[s]

(* Nothing the VM follows leads to a freed shred: the list, the running    *)
(* tick, the active shreds and the waiters of events.                      *)
NoDangling ==
  \A s \in Shreds :
    s \in Linked(q) \cup {q.curr} \cup active \cup Waiting => ref[s] > 0

(* A live shred's parent is alive and, unless the shred is being erased,   *)
(* lists it; the children a live shred lists are not freed: killing a      *)
(* shred kills every descendant, the innermost first (child, in            *)
(* shreduler.c).                                                           *)
NoOrphans ==
  \A s \in active :
    /\ parent[s] # Null => /\ parent[s] \in active
                           /\ s \in children[parent[s]] \cup erasing
    /\ \A c \in children[s] : parent[c] = s /\ (c \in active \/ s \in erasing)

(* What makes these invariants inductive.  A live shred is on the list, or *)
(* off it with clean pointers, unless its erasure has begun; a shred that  *)
(* was never born is not known anywhere.                                   *)
Places ==
  \A s \in Shreds :
    /\ s \in active => ~Done(s) /\ (s \in Linked(q) \cup erasing \/ Loose(q, s))
    /\ s \notin active => s \notin Linked(q) \cup erasing \cup {q.curr}
    /\ s \notin active /\ ~Done(s) => /\ Loose(q, s)
                                      /\ parent[s] = Null /\ children[s] = {}
                                      /\ handles[s] = 0 /\ s \notin Waiting
    /\ s \in erasing => s \notin Linked(q) \cup {q.curr}
    /\ s = q.curr => Loose(q, s)

(* Only the shred exit was called for is erased without its parent. *)
Lineage ==
  \A s \in erasing : parent[s] # Null =>
    parent[s] \in erasing \/ s \notin children[parent[s]]

WakingSound ==
  waking # Null => waking \in Events /\ waiters[waking] # <<>> /\ erasing = {}

IInv == TypeOK /\ ListSound /\ Places /\ Placement /\ RefCountExact /\ NoOrphans
        /\ Lineage /\ WakingSound

(* A shred that is done stays done: no wake-up, effect handler or host     *)
(* call puts it on the list again (the sentinel in tick->prev).            *)
NoResurrection ==
  [][\A s \in Shreds : Done(s) => Done(s)' /\ s \notin (Linked(q) \cup {q.curr})']_vars

(* The driver never leaves a sample while a shred is due in it.            *)
NothingLeftBehind ==
  [][pos' # pos => \A s \in Linked(q) : q.wake[s] > Now + Eps]_vars

(* A sleeping shred's delay shrinks by one sample per sample, by two when  *)
(* the position wraps, and never grows (next_bbq_pos).                     *)
NeverOversleeps ==
  [][pos' # pos => \A s \in Linked(q) :
       LET delay == q.wake[s] - pos * Sample
       IN  (q.wake[s] - pos * Sample)' \in {delay - Sample, delay - 2 * Sample}]_vars

(* The shreduler keeps the promise of RunQueue: its pointers spell a queue *)
(* served in order, first come first served, and only when due.            *)
QueueOf(r) ==
  LET n == Cardinality(Linked(r))
      first[i \in 0 .. n] ==
        IF i = 0 THEN <<>>
        ELSE LET before == first[i - 1]
                 t == IF before = <<>> THEN r.head ELSE r.next[before[Len(before)]]
             IN  IF t = Null THEN before ELSE Append(before, t)
  IN  first[n]

Promise == INSTANCE RunQueue WITH
  queue <- QueueOf(q),
  delay <- [s \in Shreds |-> IF s \in Linked(q) THEN q.wake[s] - Now ELSE 0],
  serving <- q.curr, Nobody <- Null,
  retired <- {s \in Shreds : Done(s)}

KeepsPromise == Promise!Spec

-----------------------------------------------------------------------------
(* The thread of the VM never stops of itself. *)
FairSpec == Spec /\ WF_vars(Machine)

(* Programs may run for ever within a sample; the code counts on them not  *)
(* to.                                                                     *)
SamplesEnd == []<>(Idle /\ ~Due)

(* A queued shred is served or removed at last, also when the position     *)
(* wraps while it sleeps, provided that samples end.                       *)
SleepersWake ==
  SamplesEnd => \A s \in Shreds : s \in Linked(q) ~> s \notin Linked(q)

(* Every shred on the list of an event when it is broadcast runs again, or *)
(* is done, provided that samples end.                                     *)
BroadcastWakesAll ==
  SamplesEnd => \A s \in Shreds :
    (waking # Null /\ s \in WaitingOn(waking)) ~> (q.curr = s \/ Done(s))

(* Erasing a shred ends, and leaves it and its whole family done. *)
EraseEnds ==
  \A s \in Shreds :
    (s \in erasing) ~> (erasing = {} /\ Done(s) /\ \A c \in children[s] : Done(c))
=============================================================================
