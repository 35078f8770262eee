------------------------------ MODULE ForkJoin ------------------------------
(***************************************************************************)
(* Forks: copies of a VM that run in threads of their own (lib/shred.c and *)
(* gwion.c).  The module is about what the threads share: the flags and    *)
(* the reference count of a fork, the event that join waits for, the locks *)
(* of the VMs and the lists of forks to clean up.                          *)
(*                                                                         *)
(* A step is a section under one lock, or one access without; ++ and -- of *)
(* a count are a load and a store.  The first shred of a VM is its body:   *)
(* the other shreds of a fork are sporked by it and end with it.           *)
(***************************************************************************)
EXTENDS Integers

CONSTANTS
  Forks, Root,
  Up,        \* the VM that makes a fork, and alone has hold of it
  Calls,     \* forks of a function call
  Cancels,   \* forks that programs may cancel
  Guarded,   \* forks whose mutex programs may lock
  Signals,   \* whether the program may be interrupted
  MaxHolds   \* a bound on the variables that hold a fork

VMs == Forks \cup {Root}

(* A VM, the one that made it, and so on. *)
Above == [v \in VMs |->
  {a \in VMs : \A S \in SUBSET VMs :
                 (v \in S /\ \A f \in S \cap Forks : Up[f] \in S) => a \in S}]

ASSUME ForkAssumption ==
  /\ Root \notin Forks
  /\ Up \in [Forks -> VMs]
  /\ \A f \in Forks : Root \in Above[f]
  /\ Calls \subseteq Forks /\ Cancels \subseteq Forks /\ Guarded \subseteq Forks
  /\ Signals \in BOOLEAN /\ MaxHolds \in Nat

VARIABLES
  pc,        \* where the thread of a VM is
  job,       \* the count a thread is about to store, and where it goes then
  todo,      \* the forks a cleaning thread has still to look at
  held,      \* the locks a thread holds from one step to the next
  body,      \* the first shred of a VM
  running,   \* BBQ.is_running
  kids,      \* GwionData.child
  graves,    \* GwionData.child2
  cancel, done, ref,  \* of the object of a fork
  waits,     \* the body of the VM above is in the list of the fork's event
  thread,    \* FORK_THREAD: there is a thread to join
  holds,     \* the references that variables of programs hold
  deaf,      \* forks whose event is freed
  freed,     \* forks whose object is freed
  gone       \* forks whose VM is freed

flags  == <<running, cancel, done>>
counts == <<ref, holds, job>>
lists  == <<kids, graves, todo>>
dead   == <<deaf, freed, gone>>
sync   == <<body, waits, thread, held>>
vars   == <<pc, flags, counts, lists, dead, sync>>

Go(v, place) == pc' = [pc EXCEPT ![v] = place]

(* The lock of l is free for the thread of v; locks are reentrant.  A VM's *)
(* own thread keeps its lock while it releases the shred that ends.        *)
Free(v, l) ==
  \A u \in VMs \ {v} : l \notin held[u] /\ ~(u = l /\ pc[u] = "exit")

(* The mutex of the shred of f, which a program may lock.  Who holds it    *)
(* waits for nothing, so that a step may take it within a lock.            *)
Unguarded(v, f) == \A u \in VMs \ {v} : ~(pc[u] = "guarded" /\ job[u].fork = f)

(* Load the count of f; the thread stores it in its next step. *)
Count(v, f, d, place, next) ==
  /\ job' = [job EXCEPT ![v] = [fork |-> f, value |-> ref[f] + d, next |-> next]]
  /\ Go(v, place)

Init ==
  /\ pc = [v \in VMs |-> IF v = Root THEN "test" ELSE "unborn"]
  /\ body = [v \in VMs |-> IF v = Root THEN "ready" ELSE "unborn"]
  /\ running = [v \in VMs |-> v = Root]
  /\ job = [v \in VMs |-> [fork |-> Root, value |-> 0, next |-> "run"]]
  /\ todo = [v \in VMs |-> {}] /\ held = [v \in VMs |-> {}]
  /\ kids = [v \in VMs |-> {}] /\ graves = [v \in VMs |-> {}]
  /\ cancel = [f \in Forks |-> FALSE] /\ done = [f \in Forks |-> FALSE]
  /\ ref = [f \in Forks |-> 0] /\ holds = [f \in Forks |-> 0]
  /\ waits = [f \in Forks |-> FALSE] /\ thread = [f \in Forks |-> FALSE]
  /\ deaf = {} /\ freed = {} /\ gone = {}

-----------------------------------------------------------------------------
(* Programs, and the loop that runs them sample by sample.                 *)

Runs(v) == pc[v] = "run" /\ body[v] # "over"
Knows(v, f) == Runs(v) /\ Up[f] = v /\ pc[f] # "unborn" /\ f \notin freed

(* The emitter ends the fork of a function call with sporkend, which       *)
(* launches nothing.                                                       *)
Launched(f) == f \notin Calls

(* A slip: the thread has no reference of its own. *)
LaunchUncounted(f) ==
  /\ pc' = [pc EXCEPT ![f] = IF Launched(f) THEN "look" ELSE "never"]
  /\ thread' = [thread EXCEPT ![f] = Launched(f)]
  /\ ref' = [ref EXCEPT ![f] = 1]

(* fork_launch *)
Launch(f) ==
  /\ pc' = [pc EXCEPT ![f] = IF Launched(f) THEN "look" ELSE "never"]
  /\ thread' = [thread EXCEPT ![f] = Launched(f)]
  /\ ref' = [ref EXCEPT ![f] = IF Launched(f) THEN 2 ELSE 1]

(* forkini and forkend *)
Fork(v, f) ==
  /\ Runs(v) /\ Up[f] = v /\ pc[f] = "unborn"
  /\ Launch(f)
  /\ body' = [body EXCEPT ![f] = "ready"]
  /\ running' = [running EXCEPT ![f] = TRUE]
  /\ kids' = [kids EXCEPT ![v] = @ \cup {f}]
  /\ UNCHANGED <<job, todo, held, graves, cancel, done, waits, holds, dead>>

(* A variable takes a reference; one is released. *)
Hold(v, f) ==
  /\ Knows(v, f) /\ holds[f] < MaxHolds
  /\ holds' = [holds EXCEPT ![f] = @ + 1]
  /\ Count(v, f, 1, "store", "run")
  /\ UNCHANGED <<flags, ref, lists, dead, sync>>

Drop(v, f) ==
  /\ Knows(v, f) /\ holds[f] > 0
  /\ holds' = [holds EXCEPT ![f] = @ - 1]
  /\ Count(v, f, -1, "store", "run")
  /\ UNCHANGED <<flags, ref, lists, dead, sync>>

Store(v) ==
  /\ pc[v] \in {"store", "exit"}
  /\ ref' = [ref EXCEPT ![job[v].fork] = job[v].value]
  /\ Go(v, IF job[v].value = 0 THEN "deafen" ELSE job[v].next)
  /\ UNCHANGED <<flags, holds, job, lists, dead, sync>>

(* set_cancel *)
SetCancel(v, f) ==
  /\ Knows(v, f) /\ f \in Cancels /\ Unguarded(v, f)
  /\ \E b \in BOOLEAN : cancel' = [cancel EXCEPT ![f] = b]
  /\ UNCHANGED <<pc, running, done, counts, lists, dead, sync>>

(* lock, of a fork or of the own shred; programs unlock before they do     *)
(* anything that takes the lock of a VM.                                   *)
Guard(v, f) ==
  /\ Knows(v, f) \/ (Runs(v) /\ v = f)
  /\ f \in Guarded /\ Unguarded(v, f)
  /\ job' = [job EXCEPT ![v].fork = f]
  /\ Go(v, "guarded")
  /\ UNCHANGED <<flags, ref, holds, lists, dead, sync>>

Unguard(v) ==
  /\ pc[v] = "guarded" /\ Go(v, "run")
  /\ UNCHANGED <<flags, counts, lists, dead, sync>>

(* fork_join: it looks at is_done, counts the event as a holder of the     *)
(* shred, adds the shred to the event, and takes it off the shreduler's    *)
(* list.  The object of Root's body is nobody else's: it has no count here. *)
Join(v, f) ==
  /\ Knows(v, f) /\ body[v] = "ready" /\ ~done[f]
  /\ job' = [job EXCEPT ![v] =
               [fork |-> f, value |-> IF v = Root THEN 0 ELSE ref[v] + 1, next |-> "run"]]
  /\ Go(v, "enlist")
  /\ UNCHANGED <<flags, ref, holds, lists, dead, sync>>

Enlist(v) ==
  /\ pc[v] = "enlist"
  /\ ref' = [u \in Forks |-> IF u = v THEN job[v].value ELSE ref[u]]
  /\ waits' = [waits EXCEPT ![job[v].fork] = TRUE]
  /\ Go(v, "leave")
  /\ UNCHANGED <<flags, holds, job, lists, dead, body, thread, held>>

Leave(v) ==
  /\ pc[v] = "leave" /\ Free(v, v)
  /\ body' = [body EXCEPT ![v] = "asleep"]
  /\ Go(v, "run")
  /\ UNCHANGED <<flags, counts, lists, dead, waits, thread, held>>

(* shreduler_get finds that the body is due again. *)
Get(v) ==
  /\ pc[v] = "run" /\ body[v] = "due" /\ Free(v, v)
  /\ body' = [body EXCEPT ![v] = "ready"]
  /\ UNCHANGED <<pc, flags, counts, lists, dead, waits, thread, held>>

(* The body ends; shreduler_erase, under the lock, releases the object. *)
Exit(v) ==
  /\ pc[v] = "run" /\ body[v] = "ready" /\ Free(v, v) /\ Unguarded(v, v)
  /\ body' = [body EXCEPT ![v] = "over"]
  /\ IF v = Root THEN pc' = pc /\ job' = job ELSE Count(v, v, -1, "exit", "run")
  /\ UNCHANGED <<flags, ref, holds, lists, dead, waits, thread, held>>

(* shreduler_get finds no shred that is due, and stops a VM without any. *)
EndSample(v) ==
  /\ pc[v] = "run" /\ Free(v, v)
  /\ running' = [running EXCEPT ![v] = @ /\ body[v] # "over"]
  /\ Go(v, IF v = Root THEN "test" ELSE "look")
  /\ UNCHANGED <<cancel, done, counts, lists, dead, sync>>

(* The handler of a signal stops the VM of the program, without its lock. *)
Interrupt ==
  /\ Signals /\ pc[Root] # "end"
  /\ running' = [running EXCEPT ![Root] = FALSE]
  /\ UNCHANGED <<pc, cancel, done, counts, lists, dead, sync>>

(* A slip: it does not look at cancel. *)
CheckNothing(f) ==
  /\ pc[f] = "look" /\ Unguarded(f, f)
  /\ Go(f, "test")
  /\ UNCHANGED <<flags, counts, lists, dead, sync>>

(* fork_running reads cancel first. *)
CheckCancel(f) ==
  /\ pc[f] = "look" /\ Unguarded(f, f)
  /\ todo' = [todo EXCEPT ![f] = IF cancel[f] THEN kids[f] ELSE {}]
  /\ Go(f, IF cancel[f] THEN "halt" ELSE "test")
  /\ UNCHANGED <<flags, counts, kids, graves, dead, sync>>

(* A slip: a fork is done before its own forks are cleaned up. *)
TestDone(v) ==
  /\ pc[v] = "test" /\ (v = Root \/ Free(v, v))
  /\ todo' = [todo EXCEPT ![v] = IF running[v] THEN {} ELSE kids[v]]
  /\ Go(v, IF running[v] THEN "run" ELSE "halt")
  /\ done' = [f \in Forks |-> done[f] \/ (f = v /\ ~running[v])]
  /\ UNCHANGED <<running, cancel, counts, kids, graves, dead, sync>>

(* Then is_running, as the loop of the driver does. *)
Test(v) ==
  /\ pc[v] = "test" /\ (v = Root \/ Free(v, v))
  /\ todo' = [todo EXCEPT ![v] = IF running[v] THEN {} ELSE kids[v]]
  /\ Go(v, IF running[v] THEN "run" ELSE "halt")
  /\ UNCHANGED <<flags, counts, kids, graves, dead, sync>>

-----------------------------------------------------------------------------
(* gwion_end_child: the thread of a VM stops, joins and releases the forks *)
(* that the VM made, each loop in any order.                               *)

Stopped(f) ==
  /\ running' = [running EXCEPT ![f] = FALSE]
  /\ cancel' = [cancel EXCEPT ![f] = TRUE]
  /\ done' = [done EXCEPT ![f] = TRUE]

Look(v, f) == todo' = [todo EXCEPT ![v] = @ \ {f}]

(* stop, for each fork *)
Stop(v, f) ==
  /\ pc[v] = "halt" /\ f \in todo[v] /\ Free(v, f) /\ Unguarded(v, f)
  /\ Stopped(f) /\ Look(v, f)
  /\ UNCHANGED <<pc, counts, kids, graves, dead, sync>>

(* A slip: a fork that is done is not waited for. *)
ReapUndone(v, f) ==
  /\ pc[v] = "reap" /\ f \in todo[v]
  /\ thread[f] /\ ~done[f] => pc[f] = "end"
  /\ thread' = [thread EXCEPT ![f] = FALSE]
  /\ Look(v, f)
  /\ UNCHANGED <<pc, flags, counts, kids, graves, dead, body, waits, held>>

(* join, for each fork *)
Reap(v, f) ==
  /\ pc[v] = "reap" /\ f \in todo[v]
  /\ thread[f] => pc[f] = "end"
  /\ thread' = [thread EXCEPT ![f] = FALSE]
  /\ Look(v, f)
  /\ UNCHANGED <<pc, flags, counts, kids, graves, dead, body, waits, held>>

(* _release, for each fork that is still in the list *)
Release(v, f) ==
  /\ pc[v] = "release" /\ f \in todo[v]
  /\ Look(v, f)
  /\ IF f \in kids[v] THEN Count(v, f, -1, "store", "release") ELSE pc' = pc /\ job' = job
  /\ UNCHANGED <<flags, ref, holds, kids, graves, dead, sync>>

(* A slip: the loop that joins is left out. *)
ThenHasty(v) ==
  /\ todo[v] = {}
  /\ \/ pc[v] = "halt" /\ Go(v, "release") /\ todo' = [todo EXCEPT ![v] = kids[v]] /\ kids' = kids
     \/ pc[v] = "release" /\ Go(v, "bury") /\ kids' = [kids EXCEPT ![v] = {}] /\ todo' = todo
  /\ UNCHANGED <<flags, counts, graves, dead, sync>>

(* From one loop of fork_clean to the next, and out of it. *)
Then(v) ==
  /\ todo[v] = {}
  /\ \/ pc[v] = "halt" /\ Go(v, "reap") /\ todo' = [todo EXCEPT ![v] = kids[v]] /\ kids' = kids
     \/ pc[v] = "reap" /\ Go(v, "release") /\ todo' = [todo EXCEPT ![v] = kids[v]] /\ kids' = kids
     \/ pc[v] = "release" /\ Go(v, "bury") /\ kids' = [kids EXCEPT ![v] = {}] /\ todo' = todo
  /\ UNCHANGED <<flags, counts, graves, dead, sync>>

(* fork_clean2 frees the VMs of the forks that were destroyed. *)
Bury(v) ==
  /\ pc[v] = "bury"
  /\ gone' = gone \cup graves[v]
  /\ graves' = [graves EXCEPT ![v] = {}]
  /\ Go(v, IF v = Root THEN "end" ELSE "lock")
  /\ UNCHANGED <<flags, counts, kids, todo, deaf, freed, sync>>

-----------------------------------------------------------------------------
(* The count of a fork reached zero: do_release frees its members, of      *)
(* which the event is one, and calls fork_dtor.                            *)

(* The event releases the shred that waits, which still holds itself. *)
Deafen(v) ==
  LET f == job[v].fork
  IN  /\ pc[v] = "deafen" /\ Unguarded(v, f)
      /\ deaf' = deaf \cup {f}
      /\ ref' = [u \in Forks |-> ref[u] - (IF waits[f] /\ u = Up[f] THEN 1 ELSE 0)]
      /\ waits' = [waits EXCEPT ![f] = FALSE]
      /\ done' = [done EXCEPT ![f] = TRUE]
      /\ Go(v, "stop")
      /\ UNCHANGED <<running, cancel, holds, job, lists, freed, gone, body, thread, held>>

DtorStop(v) ==
  /\ pc[v] = "stop" /\ Free(v, job[v].fork) /\ Unguarded(v, job[v].fork)
  /\ Stopped(job[v].fork)
  /\ Go(v, "join")
  /\ UNCHANGED <<counts, lists, dead, sync>>

DtorJoin(v) ==
  LET f == job[v].fork
  IN  /\ pc[v] = "join"
      /\ thread[f] => pc[f] = "end"
      /\ thread' = [thread EXCEPT ![f] = FALSE]
      /\ Go(v, "forget")
      /\ UNCHANGED <<flags, counts, lists, dead, body, waits, held>>

(* A slip: the VM of the fork is not noted. *)
ForgetVM(v) ==
  LET f == job[v].fork
  IN  /\ pc[v] = "forget" /\ Free(v, Up[f])
      /\ kids' = [kids EXCEPT ![Up[f]] = @ \ {f}]
      /\ freed' = freed \cup {f}
      /\ Go(v, job[v].next)
      /\ UNCHANGED <<flags, counts, todo, graves, deaf, gone, sync>>

(* The lists of the VM above are edited under its lock. *)
Forget(v) ==
  LET f == job[v].fork
  IN  /\ pc[v] = "forget" /\ Free(v, Up[f])
      /\ kids' = [kids EXCEPT ![Up[f]] = @ \ {f}]
      /\ graves' = [graves EXCEPT ![Up[f]] = @ \cup {f}]
      /\ freed' = freed \cup {f}
      /\ Go(v, job[v].next)
      /\ UNCHANGED <<flags, counts, todo, deaf, gone, sync>>

-----------------------------------------------------------------------------
(* The end of fork_run.                                                    *)

(* vm_lock takes the locks of the VMs above first. *)
Lock(f, l) ==
  /\ pc[f] = "lock" /\ Free(f, l)
  /\ l \in Above[f] \ held[f] /\ Above[l] \ {l} \subseteq held[f]
  /\ held' = [held EXCEPT ![f] = @ \cup {l}]
  /\ UNCHANGED <<pc, flags, counts, lists, dead, body, waits, thread>>

Finish(f) ==
  /\ pc[f] = "lock" /\ held[f] = Above[f] /\ Unguarded(f, f)
  /\ done' = [done EXCEPT ![f] = TRUE]
  /\ Go(f, "tell")
  /\ UNCHANGED <<running, cancel, counts, lists, dead, sync>>

(* cancel is read again, without the mutex.  The broadcast shredules the   *)
(* shred that waits and releases it.                                       *)
Quit(f) ==
  /\ pc[f] = "tell" /\ cancel[f] /\ Go(f, "unlock")
  /\ UNCHANGED <<flags, counts, lists, dead, sync>>

Tell(f) ==
  /\ pc[f] = "tell" /\ ~cancel[f]
  /\ IF waits[f] THEN body' = [body EXCEPT ![Up[f]] = "due"] ELSE body' = body
  /\ IF waits[f] /\ Up[f] # Root
       THEN Count(f, Up[f], -1, "store", "told")
       ELSE Go(f, "told") /\ job' = job
  /\ UNCHANGED <<flags, ref, holds, lists, dead, waits, thread, held>>

(* It ends by clearing the list. *)
Told(f) ==
  /\ pc[f] = "told"
  /\ waits' = [waits EXCEPT ![f] = FALSE]
  /\ Go(f, "unlock")
  /\ UNCHANGED <<flags, counts, lists, dead, body, thread, held>>

(* A slip: the locks of the VMs above are kept. *)
UnlockOne(f) ==
  /\ pc[f] = "unlock"
  /\ held' = [held EXCEPT ![f] = @ \ {f}]
  /\ Go(f, "end")
  /\ UNCHANGED <<flags, counts, lists, dead, body, waits, thread>>

Unlock(f) ==
  /\ pc[f] = "unlock"
  /\ held' = [held EXCEPT ![f] = {}]
  /\ Go(f, "end")
  /\ UNCHANGED <<flags, counts, lists, dead, body, waits, thread>>

-----------------------------------------------------------------------------
Program(v) ==
  \/ Exit(v)
  \/ \E f \in Forks : \/ Fork(v, f) \/ Hold(v, f) \/ Drop(v, f)
                      \/ SetCancel(v, f) \/ Guard(v, f) \/ Join(v, f)

Clean(v) ==
  \/ Then(v) \/ Bury(v) \/ Deafen(v) \/ DtorStop(v) \/ DtorJoin(v) \/ Forget(v)
  \/ \E f \in Forks : Stop(v, f) \/ Reap(v, f) \/ Release(v, f)

Loop(v) == Unguard(v) \/ Store(v) \/ Enlist(v) \/ Leave(v) \/ Get(v) \/ EndSample(v) \/ Test(v)

Tail(f) ==
  \/ CheckCancel(f) \/ Finish(f) \/ Quit(f) \/ Tell(f) \/ Told(f) \/ Unlock(f)
  \/ \E l \in VMs : Lock(f, l)

Thread(v) == Loop(v) \/ Clean(v) \/ (v \in Forks /\ Tail(v))

(* The program has ended. *)
Ended == pc[Root] = "end" /\ UNCHANGED vars

Next == Ended \/ Interrupt \/ \E v \in VMs : Program(v) \/ Thread(v)

Spec == Init /\ [][Next]_vars

(* The threads of the system run, locks are granted, and no program stays  *)
(* within a sample for ever.                                               *)
FairSpec == Spec /\ \A v \in VMs : WF_vars(Thread(v))

-----------------------------------------------------------------------------
(* Properties.                                                             *)

Places == {"unborn", "never", "look", "test", "run", "guarded", "enlist", "leave", "store", "exit",
           "halt", "reap", "release", "bury", "deafen", "stop", "join", "forget",
           "lock", "tell", "told", "unlock", "end"}
Flags  == [Forks -> BOOLEAN]

TypeOK ==
  /\ pc \in [VMs -> Places]
  /\ job \in [VMs -> [fork : VMs, value : Int, next : {"run", "release", "told"}]]
  /\ todo \in [VMs -> SUBSET Forks] /\ held \in [VMs -> SUBSET VMs]
  /\ kids \in [VMs -> SUBSET Forks] /\ graves \in [VMs -> SUBSET Forks]
  /\ body \in [VMs -> {"unborn", "ready", "asleep", "due", "over"}]
  /\ running \in [VMs -> BOOLEAN]
  /\ cancel \in Flags /\ done \in Flags /\ waits \in Flags /\ thread \in Flags
  /\ ref \in [Forks -> Int] /\ holds \in [Forks -> 0 .. MaxHolds]
  /\ deaf \subseteq Forks /\ freed \subseteq Forks /\ gone \subseteq Forks

Idle(f)  == pc[f] \in {"unborn", "never", "end"}
Past(f)  == pc[f] \in {"tell", "told", "unlock", "end"} \/ (pc[f] = "store" /\ job[f].next = "told")

(* What a thread uses outlives it: a fork's event, which it broadcasts,    *)
(* its object and its VM, and the VMs above, whose locks it takes.         *)
Outlived ==
  /\ \A f \in deaf \cup freed \cup gone : Idle(f)
  /\ \A f \in gone, g \in Forks : Up[g] = f => Idle(g)

(* A fork is destroyed by the last release: no variable, list or shred     *)
(* holds it (the annotations of _release for helgrind).                    *)
Listed(f) == f \in kids[Up[f]] /\ job[Up[f]].next # "release"
LastRelease ==
  \A v \in VMs : pc[v] = "deafen" =>
    LET f == job[v].fork
    IN  holds[f] = 0 /\ ~Listed(f) /\ (body[f] = "over" \/ pc[f] = "never")

(* A thread ends after those it created, and has joined them.              *)
NoOrphans ==
  \A f \in Forks : Past(Up[f]) => Idle(f) /\ ~thread[f]

(* While programs run, a fork that is done has left its loop: the one that *)
(* join lets go on reads what nobody writes any more.                      *)
DoneIsDone ==
  \A f \in Forks : done[f] /\ Knows(Up[f], f) => Past(f)

(* In the end all threads are joined, and the forks that came to their end *)
(* are freed with their VMs; one that is stopped keeps its own reference.  *)
NothingLeft ==
  pc[Root] = "end" => \A f \in Forks :
    /\ Idle(f) /\ ~thread[f]
    /\ body[f] = "over" \/ pc[f] = "never" => f \in freed \cap gone

(* The forks are cleaned up in the end: joins, locks and the ends of       *)
(* threads do not wait for each other in a circle.                         *)
CleanupEnds == pc[Root] = "halt" ~> pc[Root] = "end"

(* A fork that is cancelled, and stays so, ends.                           *)
CancelStops ==
  \A f \in Forks : <>[](pc[f] # "unborn" /\ cancel[f] /\ thread[f]) => <>(pc[f] = "end")

(* A fork that is done lets its joiner go on.                              *)
JoinReturns ==
  \A f \in Forks : (pc[f] = "end" /\ body[Up[f]] = "asleep" /\ job[Up[f]].fork = f)
                     ~> body[Up[f]] # "asleep"
=============================================================================
