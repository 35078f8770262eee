--------------------------- MODULE ForkJoinProofs ---------------------------
(***************************************************************************)
(* Inductive invariants of ForkJoin, for any number of forks made by one   *)
(* another in any way.  The first needs no counts and holds for any        *)
(* variables that hold forks: it says who has joined whom, and with it in  *)
(* which order threads end and which objects outlive the threads that use  *)
(* them.  The others, below, are about the counts.                         *)
(***************************************************************************)
EXTENDS ForkJoin, TLAPS

-----------------------------------------------------------------------------
(* Who has joined whom.                                                    *)

Born(f) == pc[f] # "unborn"
Storing == {"store", "exit"}
Destroying == {"deafen", "stop", "join", "forget"}

(* The thread of v has joined all forks of v, or never made any.           *)
Reaped(v) ==
  \/ pc[v] \in {"unborn", "never", "release", "bury", "lock", "tell", "told", "unlock", "end"}
  \/ pc[v] \in Destroying \cup {"store"} /\ job[v].next # "run"

(* A count is that of a fork, and forks are known to their VMs.            *)
Jobs ==
  \A v \in VMs :
    /\ pc[v] \in Storing \cup Destroying => job[v].fork \in Forks /\ Born(job[v].fork)
    /\ pc[v] = "exit" => job[v].next = "run"
Lists == \A v \in VMs : \A f \in kids[v] \cup todo[v] : Up[f] = v /\ Born(f)

(* A thread is joined after its end, and is listed until then.             *)
Threads ==
  \A f \in Forks : /\ ~thread[f] => Idle(f)
                   /\ thread[f] => f \in kids[Up[f]]
Reaping ==
  \A f \in Forks : thread[f] => ~Reaped(Up[f]) /\ (pc[Up[f]] = "reap" => f \in todo[Up[f]])
Forgetting == \A v \in VMs : pc[v] = "forget" => ~thread[job[v].fork]
Childless == \A f \in Forks : pc[Up[f]] \in {"unborn", "never"} => ~Born(f)
Dead ==
  /\ \A f \in freed : Born(f) /\ ~thread[f]
  /\ gone \subseteq freed /\ \A v \in VMs : graves[v] \subseteq freed

JInv == TypeOK /\ Jobs /\ Lists /\ Threads /\ Reaping /\ Forgetting /\ Childless /\ Dead

-----------------------------------------------------------------------------
(* The first invariant is kept.                                            *)

(* What the assumptions say of kinds.                                      *)
LEMMA VMsFact ==
  Forks \subseteq VMs /\ Root \in VMs /\ Root \notin Forks /\ Up \in [Forks -> VMs] /\ MaxHolds \in Nat
BY ForkAssumption DEF VMs

(* What a thread is about to store.                                        *)
LEMMA CountFact ==
  ASSUME TypeOK, NEW v \in VMs, NEW f \in Forks, NEW d \in Int, NEW place \in Places,
         NEW next \in {"run", "release", "told"}, Count(v, f, d, place, next)
  PROVE  /\ job' \in [VMs -> [fork : VMs, value : Int, next : {"run", "release", "told"}]]
         /\ pc' \in [VMs -> Places]
         /\ pc'[v] = place /\ job'[v].fork = f /\ job'[v].next = next
         /\ job'[v].value = ref[f] + d
         /\ \A u \in VMs \ {v} : job'[u] = job[u] /\ pc'[u] = pc[u]
<1>1. f \in VMs /\ ref[f] + d \in Int
  BY VMsFact DEF TypeOK
<1>2. [fork |-> f, value |-> ref[f] + d, next |-> next] \in [fork : VMs, value : Int, next : {"run", "release", "told"}]
  BY <1>1
<1> QED  BY <1>1, <1>2 DEF Count, Go, TypeOK

(* The body of a VM ends.                                                  *)
LEMMA ExitJ ==
  ASSUME NEW v \in VMs, JInv, Exit(v)
  PROVE  JInv'
<1>1. CASE v = Root
  BY <1>1, VMsFact DEF JInv, TypeOK, Jobs, Lists, Threads, Reaping, Forgetting, Childless, Dead, Exit, Born, Idle, Reaped, Storing, Destroying, Places, Flags, flags, lists, dead
<1>2. CASE v # Root
  <2>1. v \in Forks
    BY <1>2 DEF VMs
  <2>2. Count(v, v, -1, "exit", "run")
    BY <1>2 DEF Exit
  <2>3. /\ job' \in [VMs -> [fork : VMs, value : Int, next : {"run", "release", "told"}]]
        /\ pc' \in [VMs -> Places]
        /\ pc'[v] = "exit" /\ job'[v].fork = v /\ job'[v].next = "run"
        /\ \A u \in VMs \ {v} : job'[u] = job[u] /\ pc'[u] = pc[u]
    <3>1. TypeOK /\ "exit" \in Places
      BY DEF JInv, Places
    <3> QED  BY <2>1, <2>2, <3>1, CountFact
  <2>4. v # Root /\ pc[v] = "run" /\ body' \in [VMs -> {"unborn", "ready", "asleep", "due", "over"}]
    BY <1>2 DEF Exit, JInv, TypeOK
  <2>5. TypeOK'
    BY <2>3, <2>4 DEF JInv, TypeOK, Exit, flags, lists, dead
  <2>6. Jobs'
    <3>1. \A g \in Forks : Born(g) => Born(g)'
      BY <2>1, <2>3, VMsFact DEF Born
    <3>2. Born(v)'
      BY <2>3 DEF Born
    <3> QED  BY <2>1, <2>3, <3>1, <3>2 DEF JInv, Jobs, Storing, Destroying
  <2>9. Lists'
    BY <2>1, <2>3, <2>4, VMsFact DEF JInv, TypeOK, Lists, Exit, Born, lists
  <2>10. Forgetting'
    BY <2>1, <2>3, <2>4, VMsFact DEF JInv, TypeOK, Jobs, Forgetting, Exit, Storing, Destroying, lists
  <2>7. (Threads /\ Childless /\ Dead)'
    BY <2>1, <2>3, <2>4, VMsFact DEF JInv, TypeOK, Threads, Childless, Dead, Exit, Born, Idle, lists, dead
  <2>8. Reaping'
    BY <2>1, <2>3, <2>4, VMsFact DEF JInv, Reaping, Reaped, Destroying, Exit, lists
  <2> QED  BY <2>5, <2>6, <2>7, <2>8, <2>9, <2>10 DEF JInv
<1> QED  BY <1>1, <1>2

(* A fork is born, below a VM that has not begun to clean up.              *)
LEMMA ForkJ ==
  ASSUME NEW v \in VMs, NEW f \in Forks, JInv, Fork(v, f)
  PROVE  JInv'
<1>1. /\ pc' \in [VMs -> Places] /\ pc[f] = "unborn" /\ pc'[f] \in {"look", "never"}
      /\ \A u \in VMs \ {f} : pc'[u] = pc[u]
      /\ pc[v] = "run" /\ Up[f] = v
      /\ thread' \in Flags /\ thread'[f] = (pc'[f] = "look") /\ \A g \in Forks \ {f} : thread'[g] = thread[g]
      /\ ref' \in [Forks -> Int]
      /\ kids' \in [VMs -> SUBSET Forks] /\ kids'[v] = kids[v] \cup {f} /\ \A u \in VMs \ {v} : kids'[u] = kids[u]
  BY VMsFact DEF JInv, TypeOK, Fork, Launch, Launched, Runs, Places, Flags
<1>2. TypeOK'
  BY <1>1, VMsFact DEF JInv, TypeOK, Fork, dead, Flags
<1>3. Jobs'
  BY <1>1, VMsFact DEF JInv, TypeOK, Jobs, Fork, Born, Storing, Destroying
<1>9. Lists'
  BY <1>1, VMsFact DEF JInv, TypeOK, Lists, Fork, Born
<1>8. \A g \in Forks : Born(g) => Born(g)' /\ thread'[g] = thread[g]
  BY <1>1, VMsFact DEF Born
<1>10. Forgetting'
  BY <1>1, <1>8, VMsFact DEF JInv, Jobs, Forgetting, Fork, Storing, Destroying
<1>6. Childless'
  BY <1>1, VMsFact DEF JInv, Childless, Born
<1>7. Dead'
  BY <1>8 DEF JInv, TypeOK, Dead, Fork, dead
<1>4. Threads'
  BY <1>1, VMsFact DEF JInv, TypeOK, Threads, Idle
<1>5. Reaping'
  BY <1>1, VMsFact DEF JInv, TypeOK, Reaping, Reaped, Destroying, Fork
<1> QED  BY <1>2, <1>3, <1>4, <1>5, <1>6, <1>7, <1>9, <1>10 DEF JInv

(* The fork of a job is another.                                           *)
LEMMA PointFact ==
  ASSUME TypeOK, NEW v \in VMs, NEW f \in VMs, job' = [job EXCEPT ![v].fork = f]
  PROVE  /\ job' \in [VMs -> [fork : VMs, value : Int, next : {"run", "release", "told"}]]
         /\ job'[v].fork = f /\ job'[v].next = job[v].next
         /\ \A u \in VMs \ {v} : job'[u] = job[u]
<1>1. job[v] \in [fork : VMs, value : Int, next : {"run", "release", "told"}]
  BY DEF TypeOK
<1>2. [job[v] EXCEPT !.fork = f] \in [fork : VMs, value : Int, next : {"run", "release", "told"}]
  BY <1>1
<1>3. job' = [job EXCEPT ![v] = [job[v] EXCEPT !.fork = f]]
  OBVIOUS
<1> QED  BY <1>1, <1>2, <1>3 DEF TypeOK

(* A mutex is locked.                                                      *)
LEMMA GuardJ ==
  ASSUME NEW v \in VMs, NEW f \in Forks, JInv, Guard(v, f)
  PROVE  JInv'
<1>1. /\ job' \in [VMs -> [fork : VMs, value : Int, next : {"run", "release", "told"}]]
      /\ \A u \in VMs \ {v} : job'[u] = job[u]
  BY VMsFact, PointFact DEF Guard, JInv
<1>2. /\ pc' \in [VMs -> Places] /\ pc'[v] = "guarded" /\ pc[v] = "run"
      /\ \A u \in VMs \ {v} : pc'[u] = pc[u]
  BY DEF JInv, TypeOK, Guard, Go, Knows, Runs, Places
<1>3. TypeOK'
  BY <1>1, <1>2 DEF JInv, TypeOK, Guard, flags, lists, dead, sync
<1>4. (Jobs /\ Lists /\ Forgetting)'
  BY <1>1, <1>2, VMsFact DEF JInv, TypeOK, Jobs, Lists, Forgetting, Guard, Born, Storing, Destroying, lists, sync
<1>5. (Threads /\ Childless /\ Dead)'
  BY <1>1, <1>2, VMsFact DEF JInv, TypeOK, Threads, Childless, Dead, Guard, Born, Idle, lists, dead, sync
<1>6. Reaping'
  BY <1>1, <1>2, VMsFact DEF JInv, Reaping, Reaped, Destroying, Guard, lists, sync
<1> QED  BY <1>3, <1>4, <1>5, <1>6 DEF JInv

(* A join begins.                                                          *)
LEMMA JoinJ ==
  ASSUME NEW v \in VMs, NEW f \in Forks, JInv, Join(v, f)
  PROVE  JInv'
<1>0. v # Root => v \in Forks
  BY DEF VMs
<1>1. /\ job' \in [VMs -> [fork : VMs, value : Int, next : {"run", "release", "told"}]]
      /\ \A u \in VMs \ {v} : job'[u] = job[u]
  BY <1>0, VMsFact DEF Join, JInv, TypeOK
<1>2. /\ pc' \in [VMs -> Places] /\ pc'[v] = "enlist" /\ pc[v] = "run"
      /\ \A u \in VMs \ {v} : pc'[u] = pc[u]
  BY DEF JInv, TypeOK, Join, Go, Knows, Runs, Places
<1>3. TypeOK'
  BY <1>1, <1>2 DEF JInv, TypeOK, Join, flags, lists, dead, sync
<1>4. (Jobs /\ Lists /\ Forgetting)'
  BY <1>1, <1>2, VMsFact DEF JInv, TypeOK, Jobs, Lists, Forgetting, Join, Born, Storing, Destroying, lists, sync
<1>5. (Threads /\ Childless)'
  BY <1>1, <1>2, VMsFact DEF JInv, Threads, Childless, Join, Born, Idle, lists, sync
<1>7. Dead'
  BY <1>1, <1>2, VMsFact DEF JInv, TypeOK, Dead, Join, Born, lists, dead, sync
<1>6. Reaping'
  BY <1>1, <1>2, VMsFact DEF JInv, Reaping, Reaped, Destroying, Join, lists, sync
<1> QED  BY <1>3, <1>4, <1>5, <1>6, <1>7 DEF JInv

(* A count is stored: where it is zero, destruction begins.                *)
LEMMA StoreJ ==
  ASSUME NEW v \in VMs, JInv, Store(v)
  PROVE  JInv'
<1>1. /\ pc' \in [VMs -> Places] /\ pc'[v] \in {"deafen", job[v].next} /\ pc[v] \in {"store", "exit"}
      /\ \A u \in VMs \ {v} : pc'[u] = pc[u]
      /\ ref' \in [Forks -> Int]
      /\ job[v].next \in {"run", "release", "told"}
  BY DEF JInv, TypeOK, Jobs, Store, Go, Storing, Places
<1>2. (TypeOK /\ Jobs /\ Lists /\ Forgetting)'
  BY <1>1, VMsFact DEF JInv, TypeOK, Jobs, Lists, Forgetting, Store, Born, Storing, Destroying, flags, lists, dead, sync
<1>5. (Threads /\ Childless /\ Dead)'
  BY <1>1, VMsFact DEF JInv, TypeOK, Threads, Childless, Dead, Store, Born, Idle, lists, dead, sync
<1>3. ASSUME NEW u \in VMs, Reaped(u)' PROVE Reaped(u)
  BY <1>1, <1>3 DEF JInv, Jobs, Reaped, Store, Destroying
<1>4. Reaping'
  BY <1>1, <1>3, VMsFact DEF JInv, Reaping, Store, lists, sync
<1> QED  BY <1>2, <1>4, <1>5 DEF JInv

(* From one loop of the clean-up to the next: what is left to look at when *)
(* a loop begins is all of the list.                                       *)
LEMMA ThenJ ==
  ASSUME NEW v \in VMs, JInv, Then(v)
  PROVE  JInv'
<1>0. /\ pc \in [VMs -> Places] /\ todo \in [VMs -> SUBSET Forks] /\ kids \in [VMs -> SUBSET Forks]
      /\ graves \in [VMs -> SUBSET Forks]
  BY DEF JInv, TypeOK
<1>1. /\ pc[v] \in {"halt", "reap", "release"} /\ todo[v] = {}
      /\ pc' \in [VMs -> Places] /\ todo' \in [VMs -> SUBSET Forks] /\ kids' \in [VMs -> SUBSET Forks]
      /\ \A u \in VMs \ {v} : pc'[u] = pc[u] /\ todo'[u] = todo[u] /\ kids'[u] = kids[u]
  BY <1>0 DEF Then, Go, Places
<1>2. /\ pc[v] = "halt" => pc'[v] = "reap" /\ todo'[v] = kids[v] /\ kids'[v] = kids[v]
      /\ pc[v] = "reap" => pc'[v] = "release" /\ todo'[v] = kids[v] /\ kids'[v] = kids[v]
      /\ pc[v] = "release" => pc'[v] = "bury" /\ todo'[v] = {} /\ kids'[v] = {}
  BY <1>0 DEF Then, Go
<1>3. TypeOK'
  BY <1>1 DEF JInv, TypeOK, Then, flags, counts, dead, sync
<1>9. \A g \in Forks : Born(g)' <=> Born(g)
  BY <1>1, <1>2, VMsFact DEF Born
<1>4. Jobs' /\ Forgetting'
  BY <1>1, <1>2, <1>9, VMsFact DEF JInv, Jobs, Forgetting, Then, Storing, Destroying, counts, sync
<1>10. Childless'
  BY <1>1, <1>2, <1>9, VMsFact DEF JInv, Childless
<1>5. Lists'
  BY <1>1, <1>2, <1>9 DEF JInv, TypeOK, Lists
<1>6. Threads'
  BY <1>1, <1>2, VMsFact DEF JInv, TypeOK, Threads, Reaping, Reaped, Then, Idle, sync
<1>7. Reaping'
  BY <1>1, <1>2, VMsFact DEF JInv, Threads, Reaping, Reaped, Destroying, Then, counts, sync
<1>8. Dead'
  BY <1>1, <1>2, VMsFact DEF JInv, TypeOK, Dead, Then, Born, dead, sync
<1> QED  BY <1>3, <1>4, <1>5, <1>6, <1>7, <1>8, <1>10 DEF JInv

(* A fork of the list is released.                                         *)
LEMMA ReleaseJ ==
  ASSUME NEW v \in VMs, NEW f \in Forks, JInv, Release(v, f)
  PROVE  JInv'
<1>1. /\ pc' \in [VMs -> Places] /\ pc[v] = "release" /\ pc'[v] \in {"release", "store"}
      /\ job' \in [VMs -> [fork : VMs, value : Int, next : {"run", "release", "told"}]]
      /\ pc'[v] = "store" => job'[v].fork = f /\ job'[v].next = "release"
      /\ \A u \in VMs \ {v} : pc'[u] = pc[u] /\ job'[u] = job[u]
  <2>1. CASE f \in kids[v]
    BY <2>1, CountFact DEF JInv, Release, Places
  <2>2. CASE f \notin kids[v]
    BY <2>2 DEF JInv, TypeOK, Release
  <2> QED  BY <2>1, <2>2
<1>2. /\ f \in todo[v] /\ todo' \in [VMs -> SUBSET Forks] /\ todo'[v] = todo[v] \ {f}
      /\ \A u \in VMs \ {v} : todo'[u] = todo[u]
  BY DEF JInv, TypeOK, Release, Look
<1>3. TypeOK'
  BY <1>1, <1>2 DEF JInv, TypeOK, Release, flags, dead, sync
<1>4. Jobs'
  BY <1>1, <1>2, VMsFact DEF JInv, TypeOK, Jobs, Lists, Release, Born, Storing, Destroying, sync
<1>9. Lists'
  BY <1>1, <1>2, VMsFact DEF JInv, TypeOK, Lists, Release, Born, sync
<1>10. Forgetting'
  BY <1>1, <1>2, VMsFact DEF JInv, TypeOK, Jobs, Forgetting, Release, Storing, Destroying, sync
<1>5. (Threads /\ Childless /\ Dead)'
  BY <1>1, VMsFact DEF JInv, TypeOK, Threads, Childless, Dead, Release, Born, Idle, dead, sync
<1>6. Reaping'
  BY <1>1, <1>2, VMsFact DEF JInv, Reaping, Reaped, Destroying, Release, sync
<1> QED  BY <1>3, <1>4, <1>5, <1>6, <1>9, <1>10 DEF JInv

(* An event is told; the shred that waits is a fork's only below another   *)
(* fork.                                                                   *)
LEMMA TellJ ==
  ASSUME NEW f \in Forks, JInv, Tell(f)
  PROVE  JInv'
<1>1. /\ pc' \in [VMs -> Places] /\ pc[f] = "tell" /\ pc'[f] \in {"told", "store"}
      /\ job' \in [VMs -> [fork : VMs, value : Int, next : {"run", "release", "told"}]]
      /\ pc'[f] = "store" => job'[f].fork = Up[f] /\ Up[f] \in Forks /\ job'[f].next = "told"
      /\ \A u \in VMs \ {f} : pc'[u] = pc[u] /\ job'[u] = job[u]
  <2>1. CASE waits[f] /\ Up[f] # Root
    <3>1. Up[f] \in Forks
      BY <2>1, VMsFact DEF VMs
    <3>2. Count(f, Up[f], -1, "store", "told")
      BY <2>1 DEF Tell
    <3> QED  BY <3>1, <3>2, CountFact, VMsFact DEF JInv, Tell, Places
  <2>2. CASE ~(waits[f] /\ Up[f] # Root)
    BY <2>2, VMsFact DEF JInv, TypeOK, Tell, Go, Places
  <2> QED  BY <2>1, <2>2
<1>2. body' \in [VMs -> {"unborn", "ready", "asleep", "due", "over"}]
  BY DEF JInv, TypeOK, Tell
<1>3. f \in VMs /\ (\A g \in Forks : Up[g] = f => ~thread[g]) /\ (Up[f] \in Forks => Born(Up[f]))
  BY <1>1, VMsFact DEF JInv, Reaping, Reaped, Childless, Born
<1>4. TypeOK'
  BY <1>1, <1>2 DEF JInv, TypeOK, Tell, flags, lists, dead
<1>5. Jobs'
  BY <1>1, <1>3, VMsFact DEF JInv, TypeOK, Jobs, Tell, Born, Storing, Destroying, lists
<1>9. Lists'
  BY <1>1, <1>3, VMsFact DEF JInv, TypeOK, Lists, Tell, Born, lists
<1>10. Forgetting'
  BY <1>1, <1>3, VMsFact DEF JInv, TypeOK, Jobs, Forgetting, Tell, Storing, Destroying, lists
<1>6. (Threads /\ Childless /\ Dead)'
  BY <1>1, VMsFact DEF JInv, TypeOK, Threads, Childless, Dead, Tell, Born, Idle, lists, dead
<1>7. Reaping'
  BY <1>1, VMsFact DEF JInv, Reaping, Reaped, Destroying, Tell, lists
<1> QED  BY <1>4, <1>5, <1>6, <1>7, <1>9, <1>10 DEF JInv

(* The event of a join is entered.                                         *)
LEMMA EnlistJ ==
  ASSUME NEW v \in VMs, JInv, Enlist(v)
  PROVE  JInv'
<1>1. /\ pc' \in [VMs -> Places] /\ pc[v] = "enlist" /\ pc'[v] = "leave"
      /\ \A u \in VMs \ {v} : pc'[u] = pc[u]
      /\ ref' \in [Forks -> Int] /\ waits' \in Flags
  BY DEF JInv, TypeOK, Enlist, Go, Places, Flags
<1>2. TypeOK'
  BY <1>1 DEF JInv, TypeOK, Enlist, flags, lists, dead
<1>3. (Jobs /\ Lists /\ Forgetting)'
  BY <1>1, VMsFact DEF JInv, TypeOK, Jobs, Lists, Forgetting, Enlist, Born, Storing, Destroying, lists
<1>4. (Threads /\ Childless /\ Dead)'
  BY <1>1, VMsFact DEF JInv, TypeOK, Threads, Childless, Dead, Enlist, Born, Idle, lists, dead
<1>5. Reaping'
  BY <1>1, VMsFact DEF JInv, Reaping, Reaped, Destroying, Enlist, lists
<1> QED  BY <1>2, <1>3, <1>4, <1>5 DEF JInv

(* All other steps change one thread's place, and little else.             *)
LEMMA OthersJ ==
  ASSUME JInv, NEW v \in VMs,
         \/ \E f \in Forks : Hold(v, f)
         \/ \E f \in Forks : Drop(v, f)
         \/ \E f \in Forks : SetCancel(v, f)
         \/ Unguard(v)
         \/ Leave(v)
         \/ Get(v)
         \/ EndSample(v)
         \/ Test(v)
         \/ Bury(v)
         \/ Deafen(v)
         \/ DtorStop(v)
         \/ DtorJoin(v)
         \/ Forget(v)
         \/ \E f \in Forks : Stop(v, f)
         \/ \E f \in Forks : Reap(v, f)
         \/ v \in Forks /\ CheckCancel(v)
         \/ v \in Forks /\ Finish(v)
         \/ v \in Forks /\ Quit(v)
         \/ v \in Forks /\ Told(v)
         \/ v \in Forks /\ Unlock(v)
         \/ v \in Forks /\ \E l \in VMs : Lock(v, l)
  PROVE  JInv'
<1> USE VMsFact DEF JInv, TypeOK, Jobs, Lists, Threads, Reaping, Forgetting, Childless, Dead, Born,
      Idle, Reaped, Storing, Destroying, Places, Flags, Go, Count, Look, Stopped, Runs, Knows,
      vars, flags, counts, lists, dead, sync
<1>1. CASE \E f \in Forks : Hold(v, f)
  BY <1>1 DEF Hold
<1>2. CASE \E f \in Forks : Drop(v, f)
  BY <1>2 DEF Drop
<1>3. CASE \E f \in Forks : SetCancel(v, f)
  BY <1>3 DEF SetCancel
<1>4. CASE Unguard(v)
  BY <1>4 DEF Unguard
<1>5. CASE Leave(v)
  BY <1>5 DEF Leave
<1>6. CASE Get(v)
  BY <1>6 DEF Get
<1>7. CASE EndSample(v)
  BY <1>7 DEF EndSample
<1>8. CASE Test(v)
  BY <1>8 DEF Test
<1>9. CASE Bury(v)
  BY <1>9 DEF Bury
<1>10. CASE Deafen(v)
  BY <1>10 DEF Deafen
<1>11. CASE DtorStop(v)
  BY <1>11 DEF DtorStop
<1>12. CASE DtorJoin(v)
  BY <1>12 DEF DtorJoin
<1>13. CASE Forget(v)
  BY <1>13 DEF Forget
<1>14. CASE \E f \in Forks : Stop(v, f)
  BY <1>14 DEF Stop
<1>15. CASE \E f \in Forks : Reap(v, f)
  BY <1>15 DEF Reap
<1>16. CASE v \in Forks /\ CheckCancel(v)
  BY <1>16 DEF CheckCancel
<1>17. CASE v \in Forks /\ Finish(v)
  BY <1>17 DEF Finish
<1>18. CASE v \in Forks /\ Quit(v)
  BY <1>18 DEF Quit
<1>19. CASE v \in Forks /\ Told(v)
  BY <1>19 DEF Told
<1>20. CASE v \in Forks /\ Unlock(v)
  BY <1>20 DEF Unlock
<1>21. CASE v \in Forks /\ \E l \in VMs : Lock(v, l)
  BY <1>21 DEF Lock
<1> QED
  BY <1>1, <1>2, <1>3, <1>4, <1>5, <1>6, <1>7, <1>8, <1>9, <1>10, <1>11, <1>12, <1>13, <1>14, <1>15, <1>16, <1>17, <1>18, <1>19, <1>20, <1>21

(* Every step keeps the first invariant.                                   *)
LEMMA NextJ ==
  ASSUME JInv, [Next]_vars
  PROVE  JInv'
<1>1. CASE UNCHANGED vars
  BY <1>1 DEF JInv, TypeOK, Jobs, Lists, Threads, Reaping, Forgetting, Childless, Dead, Born, Idle,
       Reaped, vars, flags, counts, lists, dead, sync
<1>2. CASE Interrupt
  BY <1>2, VMsFact DEF Interrupt, JInv, TypeOK, Jobs, Lists, Threads, Reaping, Forgetting, Childless, Dead,
       Born, Idle, Reaped, counts, lists, dead, sync
<1>3. ASSUME NEW v \in VMs, Program(v)
      PROVE  JInv'
  BY <1>3, ExitJ, ForkJ, GuardJ, JoinJ, OthersJ DEF Program
<1>4. ASSUME NEW v \in VMs, Loop(v)
      PROVE  JInv'
  BY <1>4, StoreJ, EnlistJ, OthersJ DEF Loop
<1>5. ASSUME NEW v \in VMs, Clean(v)
      PROVE  JInv'
  BY <1>5, ThenJ, ReleaseJ, OthersJ DEF Clean
<1>6. ASSUME NEW v \in Forks, Tail(v)
      PROVE  JInv'
  BY <1>6, TellJ, OthersJ, VMsFact DEF Tail
<1> QED  BY <1>1, <1>2, <1>3, <1>4, <1>5, <1>6 DEF Next, Thread, Ended

(* Initially no fork is born.                                              *)
LEMMA InitJ == Init => JInv
<1> SUFFICES ASSUME Init PROVE JInv
  OBVIOUS
<1>1. TypeOK
  BY VMsFact DEF Init, TypeOK, Places, Flags
<1>2. \A f \in Forks : ~Born(f) /\ ~thread[f]
  BY VMsFact DEF Init, Born
<1>3. \A v \in VMs : pc[v] \in {"test", "unborn"} /\ kids[v] = {} /\ todo[v] = {} /\ graves[v] = {}
  BY DEF Init
<1> QED
  BY <1>1, <1>2, <1>3, VMsFact DEF JInv, Jobs, Lists, Threads, Reaping, Forgetting, Childless, Dead,
       Born, Idle, Init, Storing, Destroying

(* A thread ends after those it created, and has joined them, whatever     *)
(* programs do with references to forks.                                   *)
LEMMA JoinedFact ==
  ASSUME JInv
  PROVE  /\ NoOrphans
         /\ \A f \in freed \cup gone : Idle(f)
         /\ \A f \in gone, g \in Forks : Up[g] = f => Idle(g)
<1>1. \A f \in Forks : Past(Up[f]) => Reaped(Up[f])
  BY DEF Past, Reaped, Destroying
<1>2. NoOrphans
  BY <1>1 DEF JInv, Reaping, Threads, NoOrphans
<1>3. \A f \in freed \cup gone : Idle(f) /\ pc[f] # "unborn"
  BY DEF JInv, TypeOK, Dead, Threads, Born
<1>4. \A f \in gone, g \in Forks : Up[g] = f => Idle(g)
  BY <1>3 DEF JInv, Reaping, Threads, Idle, Reaped
<1> QED  BY <1>2, <1>3, <1>4

(* When the thread of the program has ended, all have, and all are joined: *)
(* a VM whose thread has not ended has one above it that has not either.   *)
LEMMA AllEndFact ==
  ASSUME JInv, pc[Root] = "end", NEW f \in Forks
  PROVE  Idle(f) /\ ~thread[f]
<1> DEFINE S == {v \in VMs : ~Idle(v)}
<1>1. \A g \in S \cap Forks : Up[g] \in S
  BY VMsFact DEF JInv, Reaping, Threads, Childless, Idle, Reaped, Born
<1>2. f \in S => Root \in S
  <2>1. Root \in Above[f] /\ f \in VMs /\ S \in SUBSET VMs
    BY ForkAssumption, VMsFact
  <2> HIDE DEF S
  <2> QED  BY <2>1, <1>1 DEF Above
<1>3. Idle(f)
  BY <1>2, VMsFact DEF Idle
<1>4. ~thread[f]
  <2>1. Idle(Up[f])
    <3>1. Up[f] \in S => Root \in S
      <4>1. CASE Up[f] = Root
        BY <4>1
      <4>2. CASE Up[f] \in Forks
        <5>1. Root \in Above[Up[f]] /\ Up[f] \in VMs /\ S \in SUBSET VMs
          BY <4>2, ForkAssumption, VMsFact
        <5> HIDE DEF S
        <5> QED  BY <5>1, <1>1 DEF Above
      <4> QED  BY <4>1, <4>2, VMsFact DEF VMs
    <3> QED  BY <3>1, VMsFact DEF Idle
  <2> QED  BY <2>1 DEF JInv, Reaping, Reaped, Idle
<1> QED  BY <1>3, <1>4


-----------------------------------------------------------------------------
(* Theorems: for any forks of forks, any variables that hold them, and     *)
(* whatever programs join, cancel, lock and drop.                          *)

(* JInv is an invariant: who works on the lists of a VM, and whom it has   *)
(* joined (gwion_end_child, fork_clean and fork_dtor).                     *)
THEOREM Joins == Spec => []JInv
<1> QED  BY InitJ, NextJ, PTL DEF Spec

(* The variables of gwion.c's and lib/shred.c's forks keep their types.    *)
THEOREM TypeCorrect == Spec => []TypeOK
<1>1. JInv => TypeOK
  BY DEF JInv
<1> QED  BY <1>1, Joins, PTL

(* A thread ends after those it created, and has joined them: fork_run     *)
(* calls gwion_end_child before it says that it is done.                   *)
THEOREM ThreadsEndInOrder == Spec => []NoOrphans
<1>1. JInv => NoOrphans
  BY JoinedFact
<1> QED  BY <1>1, Joins, PTL

(* The object and the VM of a fork are freed when its thread has ended,    *)
(* and the VM when the threads of its forks have, which take its lock.     *)
Survives ==
  /\ \A f \in freed \cup gone : Idle(f)
  /\ \A f \in gone, g \in Forks : Up[g] = f => Idle(g)

(* Objects and VMs of forks outlive their threads, in every behaviour. *)
THEOREM FreedAfterTheThread == Spec => []Survives
<1>1. JInv => Survives
  BY JoinedFact DEF Survives
<1> QED  BY <1>1, Joins, PTL

(* When gwion_end has returned, no thread runs and none is left to join.   *)
AllJoined == pc[Root] = "end" => \A f \in Forks : Idle(f) /\ ~thread[f]

(* At the end of the program no thread is left, in every behaviour. *)
THEOREM NoThreadIsLeft == Spec => []AllJoined
<1>1. JInv => AllJoined
  BY AllEndFact DEF AllJoined
<1> QED  BY <1>1, Joins, PTL
-----------------------------------------------------------------------------
(***************************************************************************)
(* What the counts of forks are worth where no variable of a program holds *)
(* one (MaxHolds = 0): a fork is held by the list of its VM, by its own    *)
(* shred, and by the events in whose list that shred waits.  No update of  *)
(* a count is lost, and the last release is the last, for any number of    *)
(* forks made by one another in any way.                                   *)
(***************************************************************************)

(* The holders of a fork.                                                  *)

(* The thread of v has given back what the list of its VM holds of f.      *)
Unlisted(v, f) ==
  \/ pc[v] \in {"bury", "lock", "tell", "told", "unlock", "end"}
  \/ pc[v] = "store" /\ job[v].next = "told"
  \/ pc[v] \in Destroying \cup {"release"} /\ f \notin todo[v]
  \/ pc[v] = "store" /\ job[v].next = "release" /\ f \notin todo[v] /\ job[v].fork # f

(* The event of g holds the shred that waits, until it is told.            *)
Owed(g) == waits[g] /\ pc[g] # "told"

InList(f)   == ~Unlisted(Up[f], f)
OwnShred(f) == pc[f] # "never" /\ (body[f] # "over" \/ pc[f] = "exit")
AtEvent(f)  == \E g \in Forks : Up[g] = f /\ Owed(g)

One(b) == IF b THEN 1 ELSE 0
Holders(f) == One(InList(f)) + One(OwnShred(f)) + One(AtEvent(f))

(* A count is never less than its holders.                                 *)
Counted == \A f \in Forks : Born(f) => ref[f] >= Holders(f)

(* No other thread writes the count that one is about to store.            *)
Telling(v) == pc[v] = "store" /\ job[v].next = "told"
Stores ==
  /\ \A v \in VMs : pc[v] = "exit" => v \in Forks /\ job[v].fork = v
  /\ \A v \in VMs : pc[v] = "store" =>
       \/ job[v].next = "told" /\ v \in Forks /\ job[v].fork = Up[v] /\ waits[v]
       \/ job[v].next = "release" /\ Up[job[v].fork] = v /\ job[v].fork \notin todo[v]
  /\ \A v \in VMs : pc[v] \in Storing => job[v].value = ref[job[v].fork] - 1
  /\ \A v \in Forks : pc[v] = "enlist" => job[v].value = ref[v] + 1

(* The body of a VM waits for one event, and until the fork of that event  *)
(* has let go of the locks.                                                *)
Waiting ==
  /\ \A g \in Forks : waits[g] =>
       /\ Born(g)
       /\ pc[Up[g]] = "leave" \/ body[Up[g]] \in {"asleep", "due"}
       /\ body[Up[g]] = "due" => Telling(g) \/ pc[g] = "told"
       /\ \A h \in Forks : waits[h] /\ Up[h] = Up[g] => h = g
  /\ \A v \in VMs : pc[v] = "enlist" => body[v] = "ready" /\ job[v].fork \in Forks
                                          /\ Up[job[v].fork] = v /\ Born(job[v].fork)
  /\ \A v \in VMs : pc[v] = "leave" => body[v] # "over"
  /\ \A v \in VMs : pc[v] = "exit" => body[v] = "over"
  /\ \A v \in VMs : pc[v] \in {"tell", "told", "unlock"} \/ Telling(v) =>
       v \in Forks /\ held[v] = Above[v]

(* What is destroyed was given back by its VM, and by its own shred.       *)
Destroyed ==
  \A v \in VMs : pc[v] \in Destroying =>
    LET f == job[v].fork
    IN  /\ job[v].next = "release" /\ Up[f] = v /\ f \notin todo[v]
        /\ body[f] = "over" \/ pc[f] = "never"
Deaf == \A f \in deaf : Born(f) /\ ~thread[f]

(* Only a thread at its end, or a VM that cleans up, says that it is done. *)
Cleaning(v) == pc[v] \in {"halt", "reap"} \cup Destroying \/ (Reaped(v) /\ pc[v] # "unborn")
DoneLate == \A f \in Forks : done[f] => Past(f) \/ Cleaning(Up[f])

IInv == JInv /\ Counted /\ Stores /\ Waiting /\ Destroyed /\ Deaf /\ DoneLate

-----------------------------------------------------------------------------
(* The invariant is kept.                                                  *)

(* A fork whose thread has not ended is not joined, and nor is the VM that *)
(* made it.                                                                *)
LEMMA BusyFact ==
  ASSUME IInv, NEW f \in Forks, ~Idle(f)
  PROVE  /\ thread[f] /\ ~Reaped(Up[f]) /\ Up[f] \in VMs /\ ~Idle(Up[f])
         /\ InList(f)
<1>1. thread[f] /\ ~Reaped(Up[f])
  BY DEF IInv, JInv, Threads, Reaping
<1>2. Up[f] \in VMs /\ ~Idle(Up[f])
  BY <1>1, VMsFact DEF Reaped, Idle
<1>3. pc[Up[f]] \in Destroying => job[Up[f]].next = "release"
  BY <1>2 DEF IInv, Destroyed
<1>4. InList(f)
  BY <1>1, <1>3 DEF InList, Unlisted, Reaped
<1> QED  BY <1>1, <1>2, <1>4

(* Fewer holders, and a count no less.                                     *)
LEMMA CountKept ==
  ASSUME NEW f \in Forks, TypeOK, TypeOK', ref[f] >= Holders(f), ref'[f] >= ref[f],
         InList(f)' => InList(f), OwnShred(f)' => OwnShred(f), AtEvent(f)' => AtEvent(f)
  PROVE  ref'[f] >= Holders(f)'
<1>1. ref[f] \in Int /\ ref'[f] \in Int
  BY DEF TypeOK
<1>2. Holders(f)' = One(InList(f)') + One(OwnShred(f)') + One(AtEvent(f)')
  BY DEF Holders
<1>3. Holders(f) = One(InList(f)) + One(OwnShred(f)) + One(AtEvent(f))
  BY DEF Holders
<1> QED  BY <1>1, <1>2, <1>3 DEF One

(* The body of a VM that waits in the list of a fork's event is not over,  *)
(* nor about to enter another list.                                        *)
LEMMA WaiterFact ==
  ASSUME IInv, NEW g \in Forks, waits[g]
  PROVE  /\ pc[Up[g]] \notin {"exit", "enlist"}
         /\ \A h \in Forks : waits[h] /\ Up[h] = Up[g] => h = g
BY VMsFact DEF IInv, Waiting

(* Below a VM that releases its forks no thread runs, at two levels.       *)
LEMMA StillFact ==
  ASSUME IInv, NEW f \in Forks, Reaped(Up[f])
  PROVE  /\ Idle(f)
         /\ \A g \in Forks : Up[g] = f => Idle(g)
<1>1. Idle(f)
  BY DEF IInv, JInv, Threads, Reaping
<1>2. Reaped(f)
  BY <1>1 DEF Idle, Reaped
<1>3. \A g \in Forks : Up[g] = f => Idle(g)
  BY <1>2 DEF IInv, JInv, Threads, Reaping
<1> QED  BY <1>1, <1>3

(* The three kinds of stores.                                              *)
Ending(v) == pc[v] = "exit" /\ v \in Forks /\ job[v].fork = v /\ job[v].next = "run"
Paying(v) == pc[v] = "store" /\ job[v].next = "told" /\ v \in Forks /\ job[v].fork = Up[v] /\ waits[v]
Giving(v) ==
  /\ pc[v] = "store" /\ job[v].next = "release"
  /\ Up[job[v].fork] = v /\ job[v].fork \notin todo[v]

(* A thread that stores does one of the three, to a fork.                  *)
LEMMA KindFact ==
  ASSUME IInv, NEW v \in VMs, pc[v] \in Storing
  PROVE  /\ Ending(v) \/ Paying(v) \/ Giving(v)
         /\ job[v].fork \in Forks /\ job[v].value = ref[job[v].fork] - 1
BY DEF IInv, JInv, Jobs, Stores, Storing, Destroying, Ending, Paying, Giving

(* Two threads never store to one count.                                   *)
LEMMA SoleFact ==
  ASSUME IInv, NEW u \in VMs, NEW v \in VMs, u # v, pc[u] \in Storing, pc[v] \in Storing
  PROVE  job[u].fork # job[v].fork
<1>1. /\ Ending(u) \/ Paying(u) \/ Giving(u)
      /\ Ending(v) \/ Paying(v) \/ Giving(v)
  BY KindFact
<1>2. SUFFICES ASSUME job[u].fork = job[v].fork PROVE FALSE
  OBVIOUS
<1>3. \A x, y \in VMs : Giving(x) /\ y # x /\ pc[y] \in Storing => job[x].fork # job[y].fork
  <2> SUFFICES ASSUME NEW x \in VMs, NEW y \in VMs, Giving(x), y # x, pc[y] \in Storing,
                      job[x].fork = job[y].fork
               PROVE  FALSE
    OBVIOUS
  <2>1. job[x].fork \in Forks /\ Reaped(Up[job[x].fork])
    BY KindFact DEF Giving, Reaped, Storing
  <2>2. CASE Ending(y)
    BY <2>1, <2>2, StillFact DEF Ending, Idle
  <2>3. CASE Paying(y)
    BY <2>1, <2>3, StillFact DEF Paying, Idle
  <2>4. CASE Giving(y)
    BY <2>4 DEF Giving
  <2> QED  BY <2>2, <2>3, <2>4, KindFact
<1>4. CASE Giving(u) \/ Giving(v)
  BY <1>2, <1>3, <1>4
<1>5. CASE Ending(u) /\ Ending(v)
  BY <1>2, <1>5 DEF Ending
<1>6. CASE Paying(u) /\ Paying(v)
  BY <1>2, <1>6, WaiterFact DEF Paying
<1>7. CASE Paying(u) /\ Ending(v)
  BY <1>2, <1>7, WaiterFact DEF Paying, Ending
<1>8. CASE Ending(u) /\ Paying(v)
  BY <1>2, <1>8, WaiterFact DEF Paying, Ending
<1> QED  BY <1>1, <1>4, <1>5, <1>6, <1>7, <1>8

(* Nor does one store to the count of a fork whose body enters a list.     *)
LEMMA EnlistSoleFact ==
  ASSUME IInv, NEW u \in Forks, NEW v \in VMs, pc[u] = "enlist", pc[v] \in Storing
  PROVE  job[v].fork # u
<1>1. job[v].fork \in Forks /\ (Ending(v) \/ Paying(v) \/ Giving(v))
  BY KindFact
<1>2. ~Idle(u)
  BY DEF Idle
<1>3. CASE Ending(v)
  BY <1>3 DEF Ending
<1>4. CASE Paying(v)
  BY <1>4, WaiterFact DEF Paying
<1>5. CASE Giving(v)
  BY <1>1, <1>2, <1>5, StillFact DEF Giving, Reaped
<1> QED  BY <1>1, <1>3, <1>4, <1>5

(* One that destroys a fork is not the joiner that another tells.          *)
LEMMA DeafenSoleFact ==
  ASSUME IInv, NEW v \in VMs, pc[v] = "deafen"
  PROVE  /\ job[v].fork \in Forks /\ Up[job[v].fork] = v /\ Idle(job[v].fork)
         /\ \A u \in VMs : pc[u] \in Storing => job[u].fork # v
<1>1. job[v].fork \in Forks /\ Up[job[v].fork] = v /\ Reaped(v)
  BY DEF IInv, JInv, Jobs, Destroyed, Destroying, Reaped
<1>2. \A g \in Forks : Up[g] = v => Idle(g)
  BY <1>1, StillFact
<1>3. ASSUME NEW u \in VMs, pc[u] \in Storing, job[u].fork = v PROVE FALSE
  <2>1. job[u].fork \in Forks /\ (Ending(u) \/ Paying(u) \/ Giving(u))
    BY <1>3, KindFact
  <2>2. ~Idle(v)
    BY DEF Idle
  <2>3. CASE Ending(u)
    BY <1>3, <2>3 DEF Ending
  <2>4. CASE Paying(u)
    BY <1>2, <1>3, <2>4 DEF Paying, Idle
  <2>5. CASE Giving(u)
    BY <1>3, <2>1, <2>2, <2>5, StillFact DEF Giving, Reaped
  <2> QED  BY <2>1, <2>3, <2>4, <2>5
<1> QED  BY <1>1, <1>2, <1>3

(* Only the release of a list's reference may be the last.                 *)
LEMMA StoreFact ==
  ASSUME IInv, NEW v \in VMs, Store(v)
  PROVE  /\ job[v].fork \in Forks /\ Born(job[v].fork)
         /\ ref' = [ref EXCEPT ![job[v].fork] = @ - 1]
         /\ \A u \in VMs \ {v} : pc'[u] = pc[u]
         /\ \/ Ending(v) /\ pc'[v] = "run"
            \/ Paying(v) /\ pc'[v] = "told"
            \/ Giving(v) /\ pc'[v] \in {"release", "deafen"}
<1>1. pc[v] \in Storing /\ job[v].fork \in Forks /\ Born(job[v].fork)
  BY DEF Store, Storing, IInv, JInv, Jobs
<1>2. ref' = [ref EXCEPT ![job[v].fork] = @ - 1]
  BY <1>1, KindFact DEF Store
<1>3. \A u \in VMs \ {v} : pc'[u] = pc[u]
  BY DEF Store, Go, IInv, JInv, TypeOK
<1>4. pc'[v] = IF job[v].value = 0 THEN "deafen" ELSE job[v].next
  BY DEF Store, Go, IInv, JInv, TypeOK
<1>5. ref[job[v].fork] \in Int /\ ref[job[v].fork] >= Holders(job[v].fork)
  BY <1>1 DEF IInv, JInv, TypeOK, Counted
<1>6. CASE Ending(v)
  <2>1. ~Idle(v)
    BY <1>6 DEF Ending, Idle
  <2>2. InList(v) /\ OwnShred(v)
    BY <1>6, <2>1, BusyFact DEF Ending, OwnShred
  <2>3. ref[v] >= 2
    BY <1>5, <1>6, <2>2 DEF Holders, One, Ending
  <2>4. job[v].value = ref[v] - 1 /\ ref[v] \in Int
    BY <1>1, <1>5, <1>6, KindFact DEF Ending
  <2>5. pc'[v] = "run"
    BY <1>4, <1>6, <2>3, <2>4 DEF Ending
  <2> QED  BY <1>1, <1>2, <1>3, <1>6, <2>5
<1>7. CASE Paying(v)
  <2>1. Up[v] \in Forks /\ job[v].fork = Up[v] /\ v \in Forks
    BY <1>1, <1>7 DEF Paying
  <2>2. ~Idle(v)
    BY <1>7 DEF Paying, Idle
  <2>3. ~Idle(Up[v])
    BY <2>1, <2>2, BusyFact
  <2>4. InList(Up[v])
    BY <2>1, <2>3, BusyFact
  <2>5. AtEvent(Up[v])
    BY <1>7 DEF Paying, AtEvent, Owed
  <2>6. ref[Up[v]] >= 2
    BY <1>5, <2>1, <2>4, <2>5 DEF Holders, One
  <2>7. job[v].value = ref[Up[v]] - 1 /\ ref[Up[v]] \in Int
    BY <1>1, <1>5, <2>1, KindFact
  <2>8. pc'[v] = "told"
    BY <1>4, <1>7, <2>6, <2>7 DEF Paying
  <2> QED  BY <1>1, <1>2, <1>3, <1>7, <2>8
<1>8. CASE Giving(v)
  BY <1>1, <1>2, <1>3, <1>4, <1>8 DEF Giving
<1> QED  BY <1>1, <1>6, <1>7, <1>8, KindFact

(* No count shrinks, and no fork has a new holder.                         *)
NoNewHolder ==
  \A f \in Forks : Born(f)' =>
    /\ Born(f) /\ ref'[f] >= ref[f]
    /\ InList(f)' => InList(f)
    /\ OwnShred(f)' => OwnShred(f)
    /\ AtEvent(f)' => AtEvent(f)

(* Then counts still cover their holders.                                  *)
LEMMA HoldersFact ==
  ASSUME IInv, JInv', NoNewHolder
  PROVE  Counted'
<1> SUFFICES ASSUME NEW f \in Forks, Born(f)' PROVE ref'[f] >= Holders(f)'
  BY DEF Counted
<1> QED  BY CountKept DEF NoNewHolder, IInv, JInv, Counted

(* All but the counts.                                                     *)
Rest == Stores /\ Waiting /\ Destroyed /\ Deaf /\ DoneLate

(* Most steps change one thread's place, and little else.                  *)
LEMMA OthersI ==
  ASSUME IInv, JInv', NEW v \in VMs,
         \/ \E f \in Forks : Guard(v, f)
         \/ \E f \in Forks : Join(v, f)
         \/ \E f \in Forks : SetCancel(v, f)
         \/ Unguard(v)
         \/ Leave(v)
         \/ EndSample(v)
         \/ Test(v)
         \/ Bury(v)
         \/ DtorStop(v)
         \/ DtorJoin(v)
         \/ Forget(v)
         \/ \E f \in Forks : Stop(v, f)
         \/ \E f \in Forks : Reap(v, f)
         \/ v \in Forks /\ CheckCancel(v)
         \/ v \in Forks /\ Finish(v)
         \/ v \in Forks /\ Quit(v)
         \/ v \in Forks /\ Told(v)
         \/ v \in Forks /\ Unlock(v)
         \/ v \in Forks /\ \E l \in VMs : Lock(v, l)
  PROVE  IInv'
<1> SUFFICES Rest' /\ NoNewHolder
  BY HoldersFact DEF IInv, Rest
<1> USE VMsFact DEF IInv, JInv, TypeOK, Jobs, Lists, Stores, Waiting, Destroyed, Deaf, DoneLate,
     Rest,
      NoNewHolder, InList, OwnShred, AtEvent, Owed, Unlisted, Telling, Past, Cleaning, Born,
      Reaped,
      Storing, Destroying, Flags, Go, Look, Stopped, Runs, Knows, flags, counts, lists, dead, sync
<1>1. CASE \E f \in Forks : Guard(v, f)
  BY <1>1 DEF Guard
<1>2. CASE \E f \in Forks : Join(v, f)
  BY <1>2 DEF Join
<1>3. CASE \E f \in Forks : SetCancel(v, f)
  BY <1>3 DEF SetCancel
<1>4. CASE Unguard(v)
  BY <1>4 DEF Unguard
<1>5. CASE Leave(v)
  BY <1>5 DEF Leave
<1>6. CASE EndSample(v)
  BY <1>6 DEF EndSample
<1>7. CASE Test(v)
  BY <1>7 DEF Test
<1>8. CASE Bury(v)
  BY <1>8 DEF Bury
<1>9. CASE DtorStop(v)
  BY <1>9 DEF DtorStop
<1>10. CASE DtorJoin(v)
  BY <1>10 DEF DtorJoin
<1>11. CASE Forget(v)
  BY <1>11 DEF Forget
<1>12. CASE \E f \in Forks : Stop(v, f)
  BY <1>12 DEF Stop
<1>13. CASE \E f \in Forks : Reap(v, f)
  BY <1>13 DEF Reap
<1>14. CASE v \in Forks /\ CheckCancel(v)
  BY <1>14 DEF CheckCancel
<1>15. CASE v \in Forks /\ Finish(v)
  BY <1>15 DEF Finish
<1>16. CASE v \in Forks /\ Quit(v)
  BY <1>16 DEF Quit
<1>17. CASE v \in Forks /\ Told(v)
  BY <1>17 DEF Told
<1>18. CASE v \in Forks /\ Unlock(v)
  BY <1>18 DEF Unlock
<1>19. CASE v \in Forks /\ \E l \in VMs : Lock(v, l)
  BY <1>19 DEF Lock
<1> QED
  BY <1>1, <1>2, <1>3, <1>4, <1>5, <1>6, <1>7, <1>8, <1>9, <1>10, <1>11, <1>12, <1>13, <1>14,
     <1>15, <1>16, <1>17, <1>18, <1>19

(* The body of a VM ends.                                                  *)
LEMMA ExitI ==
  ASSUME IInv, JInv', NEW v \in VMs, Exit(v)
  PROVE  IInv'
<1>1. /\ pc[v] = "run" /\ body[v] = "ready" /\ body'[v] = "over" /\ TypeOK
      /\ \A u \in VMs \ {v} : pc'[u] = pc[u] /\ job'[u] = job[u] /\ body'[u] = body[u]
      /\ \/ v = Root /\ pc'[v] = "run"
         \/ /\ v \in Forks /\ pc'[v] = "exit" /\ job'[v].fork = v
            /\ job'[v].value = ref[v] - 1
      /\ ref' = ref /\ waits' = waits /\ todo' = todo /\ held' = held /\ done' = done
      /\ deaf' = deaf /\ thread' = thread
  <2>1. /\ pc[v] = "run" /\ body[v] = "ready" /\ body'[v] = "over" /\ TypeOK
        /\ \A u \in VMs \ {v} : body'[u] = body[u]
        /\ ref' = ref /\ waits' = waits /\ todo' = todo /\ held' = held /\ done' = done
        /\ deaf' = deaf /\ thread' = thread
    BY DEF Exit, flags, lists, dead, IInv, JInv, TypeOK
  <2>2. CASE v = Root
    BY <2>1, <2>2 DEF Exit
  <2>3. CASE v # Root
    <3>1. v \in Forks /\ Count(v, v, -1, "exit", "run") /\ "exit" \in Places
      BY <2>3 DEF VMs, Exit, Places
    <3>2. /\ pc'[v] = "exit" /\ job'[v].fork = v /\ job'[v].value = ref[v] + (-1)
          /\ \A u \in VMs \ {v} : job'[u] = job[u] /\ pc'[u] = pc[u]
      BY <2>1, <3>1, CountFact
    <3>3. ref[v] \in Int
      BY <2>1, <3>1 DEF TypeOK
    <3> QED  BY <2>1, <3>1, <3>2, <3>3
  <2> QED  BY <2>2, <2>3
<1>2. Stores'
  BY <1>1, VMsFact DEF IInv, Stores, Storing
<1>3. (Waiting /\ Destroyed /\ Deaf /\ DoneLate)'
  <2>1. Waiting'
    BY <1>1, VMsFact DEF IInv, Waiting, Telling, Born
  <2>2. Destroyed'
    BY <1>1, VMsFact DEF IInv, JInv, Jobs, Destroyed, Destroying, Born
  <2>3. Deaf'
    BY <1>1, VMsFact DEF IInv, Deaf, TypeOK, Born
  <2>4. DoneLate'
    BY <1>1, VMsFact DEF IInv, DoneLate, Past, Cleaning, Reaped, Destroying
  <2> QED  BY <2>1, <2>2, <2>3, <2>4
<1>4. NoNewHolder
  <2> SUFFICES ASSUME NEW g \in Forks, Born(g)'
               PROVE  /\ Born(g) /\ ref'[g] >= ref[g] /\ (InList(g)' => InList(g))
                      /\ (OwnShred(g)' => OwnShred(g)) /\ (AtEvent(g)' => AtEvent(g))
    BY DEF NoNewHolder
  <2>1. Born(g) /\ ref'[g] >= ref[g]
    BY <1>1, VMsFact DEF Born, TypeOK
  <2>2. InList(g)' => InList(g)
    BY <1>1, VMsFact DEF InList, Unlisted, Destroying
  <2>3. OwnShred(g)' => OwnShred(g)
    BY <1>1, VMsFact DEF IInv, OwnShred
  <2>4. AtEvent(g)' => AtEvent(g)
    BY <1>1, VMsFact DEF AtEvent, Owed
  <2> QED  BY <2>1, <2>2, <2>3, <2>4
<1> QED  BY <1>2, <1>3, <1>4, HoldersFact DEF IInv

(* A fork is born, with a count that is exact.                             *)
LEMMA ForkI ==
  ASSUME IInv, JInv', NEW v \in VMs, NEW f \in Forks, Fork(v, f)
  PROVE  IInv'
<1>1. /\ pc[f] = "unborn" /\ pc'[f] \in {"look", "never"} /\ \A u \in VMs \ {f} : pc'[u] = pc[u]
      /\ body[v] # "over" /\ pc[v] = "run" /\ Up[f] = v
      /\ \A u \in VMs \ {f} : body'[u] = body[u]
      /\ ref'[f] = (IF pc'[f] = "look" THEN 2 ELSE 1)
      /\ \A g \in Forks \ {f} : ref'[g] = ref[g] /\ thread'[g] = thread[g]
      /\ waits' = waits /\ held' = held /\ job' = job /\ todo' = todo /\ done' = done /\ deaf' = deaf
      /\ TypeOK
  BY VMsFact DEF Fork, Launch, Launched, Runs, dead, IInv, JInv, TypeOK
<1>2. Waiting'
  <2>2. \A g \in Forks : Up[g] = f \/ g = f => ~waits[g]
    BY <1>1 DEF IInv, JInv, Childless, Waiting, Born
  <2> QED  BY <1>1, <2>2, VMsFact DEF IInv, Waiting, Telling, Born
<1>3. Counted'
  <2> SUFFICES ASSUME NEW h \in Forks, Born(h)' PROVE ref'[h] >= Holders(h)'
    BY DEF Counted
  <2>1. CASE h = f
    <3>1. \A g \in Forks : Up[g] = f => ~waits[g]
      BY <1>1 DEF IInv, JInv, Childless, Waiting, Born
    <3>2. ~AtEvent(f)'
      BY <1>1, <3>1 DEF AtEvent, Owed
    <3>3. OwnShred(f)' => pc'[f] = "look"
      BY <1>1 DEF OwnShred
    <3> QED  BY <1>1, <2>1, <3>2, <3>3 DEF Holders, One
  <2>2. CASE h # f
    <3>1. ref'[h] >= ref[h] /\ Born(h)
      BY <1>1, <2>2, VMsFact DEF IInv, JInv, TypeOK, Born
    <3>2. InList(h)' => InList(h)
      BY <1>1, <2>2, VMsFact DEF InList, Unlisted, Destroying
    <3>3. OwnShred(h)' => OwnShred(h)
      BY <1>1, <2>2, VMsFact DEF OwnShred
    <3>4. AtEvent(h)' => AtEvent(h)
      BY <1>1, <2>2, VMsFact DEF AtEvent, Owed
    <3> QED  BY <3>1, <3>2, <3>3, <3>4, CountKept DEF IInv, JInv, Counted
  <2> QED  BY <2>1, <2>2
<1>4. (Stores /\ Destroyed /\ Deaf /\ DoneLate)'
  <2>1. Stores'
    BY <1>1, VMsFact DEF IInv, JInv, Jobs, Stores, Storing, Destroying, Born
  <2>2. Destroyed'
    BY <1>1, VMsFact DEF IInv, JInv, Jobs, Destroyed, Destroying, Born
  <2>3. Deaf'
    BY <1>1, VMsFact DEF IInv, Deaf, TypeOK, Born
  <2>4. DoneLate'
    BY <1>1, VMsFact DEF IInv, DoneLate, Past, Cleaning, Reaped, Destroying
  <2> QED  BY <2>1, <2>2, <2>3, <2>4
<1> QED  BY <1>2, <1>3, <1>4 DEF IInv

(* A count is stored: it loses the holder that it is stored for.           *)
LEMMA StoreI ==
  ASSUME IInv, JInv', NEW v \in VMs, Store(v)
  PROVE  IInv'
<1>1. /\ job[v].fork \in Forks /\ Born(job[v].fork) /\ pc[v] \in Storing
      /\ ref' = [ref EXCEPT ![job[v].fork] = @ - 1]
      /\ \A u \in VMs \ {v} : pc'[u] = pc[u]
      /\ \/ Ending(v) /\ pc'[v] = "run"
         \/ Paying(v) /\ pc'[v] = "told"
         \/ Giving(v) /\ pc'[v] \in {"release", "deafen"}
  BY StoreFact DEF Store, Storing
<1>2. /\ job' = job /\ waits' = waits /\ todo' = todo /\ body' = body /\ held' = held
      /\ done' = done /\ deaf' = deaf /\ thread' = thread /\ TypeOK
  BY DEF Store, flags, lists, dead, sync, IInv, JInv
<1>3. Stores'
  <2>1. pc'[v] \notin Storing \cup {"enlist"}
    BY <1>1 DEF Storing
  <2>2. \A u \in VMs \ {v} : pc[u] \in Storing => job[u].fork \in Forks /\ ref'[job[u].fork] = ref[job[u].fork]
    BY <1>1, SoleFact, KindFact DEF IInv, JInv, TypeOK
  <2>3. \A u \in Forks : pc[u] = "enlist" => ref'[u] = ref[u]
    BY <1>1, EnlistSoleFact DEF IInv, JInv, TypeOK
  <2> QED  BY <1>1, <1>2, <2>1, <2>2, <2>3, VMsFact DEF IInv, Stores, Storing
<1>4. Waiting'
  <2>1. pc[v] \notin {"leave", "enlist"} /\ (Telling(v) => pc'[v] = "told") /\ pc[v] # "told"
    BY <1>1 DEF Storing, Telling, Ending, Paying, Giving
  <2>2. pc'[v] \in {"tell", "told", "unlock"} \/ Telling(v)' => Telling(v)
    BY <1>1 DEF Telling, Paying
  <2>3. Born(v) /\ Born(v)'
    BY <1>1 DEF Born, Storing
  <2>4. pc'[v] \notin {"leave", "enlist", "exit"}
    BY <1>1
  <2>5. \A u \in VMs \ {v} : Telling(u)' = Telling(u)
    BY <1>1, <1>2 DEF Telling
  <2>6. \A u \in VMs : Born(u) => Born(u)'
    BY <1>1, <2>3 DEF Born
  <2> QED  BY <1>1, <1>2, <2>1, <2>2, <2>3, <2>4, <2>5, <2>6, VMsFact DEF IInv, Waiting
<1>5. Destroyed'
  <2>1. pc'[v] \in Destroying => pc'[v] = "deafen" /\ Giving(v) /\ job[v].value = 0
    BY <1>1 DEF Destroying, Store, Go, IInv, JInv, TypeOK
  <2>2. pc'[v] = "deafen" => body[job[v].fork] = "over" \/ pc[job[v].fork] = "never"
    <3> SUFFICES ASSUME pc'[v] = "deafen", ~(body[job[v].fork] = "over" \/ pc[job[v].fork] = "never")
                 PROVE  FALSE
      OBVIOUS
    <3>1. Giving(v) /\ job[v].value = 0 /\ job[v].value = ref[job[v].fork] - 1 /\ ref[job[v].fork] \in Int
      BY <1>1, <2>1, KindFact DEF IInv, JInv, TypeOK, Destroying
    <3>2. InList(job[v].fork)
      BY <3>1 DEF Giving, InList, Unlisted, Destroying
    <3>3. OwnShred(job[v].fork)
      BY DEF OwnShred
    <3>4. ref[job[v].fork] >= 2
      BY <1>1, <3>1, <3>2, <3>3 DEF IInv, Counted, Holders, One
    <3> QED  BY <3>1, <3>4
  <2>3. \A u \in VMs : pc[u] \in Destroying /\ pc[job[u].fork] = "never" => pc'[job[u].fork] = "never"
    BY <1>1, VMsFact DEF Storing, Destroying, IInv, JInv, Jobs
  <2>4. pc'[v] = "deafen" /\ pc[job[v].fork] = "never" => pc'[job[v].fork] = "never"
    BY <1>1, VMsFact DEF Storing
  <2> QED  BY <1>1, <1>2, <2>1, <2>2, <2>3, <2>4 DEF IInv, Destroyed, Giving
<1>6. DoneLate'
  <2>1. \A u \in VMs : Cleaning(u) => Cleaning(u)'
    <3>1. Cleaning(v) => Paying(v) \/ Giving(v)
      BY <1>1 DEF Cleaning, Ending, Reaped, Destroying
    <3>2. Cleaning(v) => Cleaning(v)'
      BY <1>1, <1>2, <3>1 DEF Cleaning, Ending, Paying, Giving, Reaped, Destroying
    <3>3. \A u \in VMs \ {v} : Cleaning(u) => Cleaning(u)'
      BY <1>1, <1>2 DEF Cleaning, Reaped, Destroying
    <3> QED  BY <3>2, <3>3
  <2>2. \A f \in Forks : Past(f) => Past(f)'
    BY <1>1, <1>2, VMsFact DEF Past, Ending, Paying, Giving
  <2> QED  BY <1>2, <2>1, <2>2, VMsFact DEF IInv, DoneLate
<1>7. Counted'
  <2> DEFINE t == job[v].fork
  <2> SUFFICES ASSUME NEW h \in Forks, Born(h)' PROVE ref'[h] >= Holders(h)'
    BY DEF Counted
  <2>1. Born(h) /\ ref[h] \in Int /\ ref'[h] = (IF h = t THEN ref[h] - 1 ELSE ref[h])
    BY <1>1, <1>2, VMsFact DEF Born, TypeOK, Storing
  <2>2. InList(h)' => InList(h)
    BY <1>1, <1>2, VMsFact DEF InList, Unlisted, Destroying, Ending, Paying, Giving
  <2>3. OwnShred(h)' => OwnShred(h)
    BY <1>1, <1>2, VMsFact DEF OwnShred, Storing
  <2>4. AtEvent(h)' => AtEvent(h)
    <3>1. \A g \in Forks : Owed(g)' => Owed(g)
      BY <1>1, <1>2, VMsFact DEF Owed, Ending, Paying, Giving
    <3> QED  BY <3>1 DEF AtEvent
  <2>5. CASE h # t
    BY <1>2, <2>1, <2>2, <2>3, <2>4, <2>5, CountKept DEF IInv, JInv, Counted
  <2>6. CASE h = t /\ Ending(v)
    <3>1. OwnShred(h) /\ ~OwnShred(h)'
      BY <1>1, <1>2, <2>6 DEF OwnShred, Ending, Paying, Giving, IInv, Waiting
    <3> QED  BY <2>1, <2>2, <2>4, <2>6, <3>1 DEF IInv, Counted, Holders, One
  <2>7. CASE h = t /\ Paying(v)
    <3>1. AtEvent(h)
      BY <2>7 DEF AtEvent, Owed, Paying
    <3>2. \A g \in Forks : Up[g] = h /\ waits[g] => g = v
      BY <2>7, WaiterFact DEF Paying
    <3>3. pc'[v] = "told"
      BY <1>1, <2>7 DEF Ending, Paying, Giving
    <3>4. ~AtEvent(h)'
      BY <1>2, <3>2, <3>3 DEF AtEvent, Owed
    <3> QED  BY <2>1, <2>2, <2>3, <2>7, <3>1, <3>4 DEF IInv, Counted, Holders, One
  <2>8. CASE h = t /\ Giving(v)
    <3>1. InList(h)
      BY <2>8 DEF InList, Unlisted, Giving, Destroying
    <3>2. ~InList(h)'
      BY <1>1, <1>2, <2>8 DEF InList, Unlisted, Giving, Ending, Paying, Destroying
    <3> QED  BY <2>1, <2>3, <2>4, <2>8, <3>1, <3>2 DEF IInv, Counted, Holders, One
  <2> QED  BY <1>1, <2>5, <2>6, <2>7, <2>8
<1>8. Deaf'
  BY <1>1, <1>2, VMsFact DEF IInv, Deaf, TypeOK, Born
<1> QED  BY <1>3, <1>4, <1>5, <1>6, <1>7, <1>8 DEF IInv

(* A shred enters the list of an event, which holds it then.               *)
LEMMA EnlistI ==
  ASSUME IInv, JInv', NEW v \in VMs, Enlist(v)
  PROVE  IInv'
<1>1. /\ pc[v] = "enlist" /\ pc'[v] = "leave" /\ \A u \in VMs \ {v} : pc'[u] = pc[u]
      /\ job' = job /\ todo' = todo /\ body' = body /\ TypeOK
      /\ job[v].fork \in Forks /\ Up[job[v].fork] = v
      /\ \A u \in Forks : ref'[u] = (IF u = v THEN ref[u] + 1 ELSE ref[u])
      /\ waits' = [waits EXCEPT ![job[v].fork] = TRUE]
  BY DEF Enlist, Go, lists, IInv, JInv, TypeOK, Waiting, Stores
<1>2. Stores'
  <2>1. \A u \in VMs : pc[u] \in Storing => job[u].fork \in Forks /\ ref'[job[u].fork] = ref[job[u].fork]
    BY <1>1, KindFact, EnlistSoleFact
  <2>2. \A u \in Forks : pc'[u] = "enlist" => job'[u].value = ref'[u] + 1
    BY <1>1, VMsFact DEF IInv, Stores
  <2>3. \A g \in Forks : waits[g] => waits'[g]
    BY <1>1 DEF TypeOK, Flags
  <2>4. \A u \in VMs : pc'[u] \in {"store", "exit"} => pc[u] = pc'[u] /\ u # v
    BY <1>1
  <2>5. \A u \in VMs : pc'[u] \in Storing => job'[u].value = ref'[job'[u].fork] - 1
    BY <1>1, <2>1, <2>4 DEF IInv, Stores, Storing
  <2>6. \A u \in VMs : pc'[u] = "exit" => u \in Forks /\ job'[u].fork = u
    BY <1>1, <2>4 DEF IInv, Stores
  <2>7. \A u \in VMs : pc'[u] = "store" =>
          \/ job'[u].next = "told" /\ u \in Forks /\ job'[u].fork = Up[u] /\ waits'[u]
          \/ job'[u].next = "release" /\ Up[job'[u].fork] = u /\ job'[u].fork \notin todo'[u]
    BY <1>1, <2>3, <2>4 DEF IInv, Stores
  <2> QED  BY <2>2, <2>5, <2>6, <2>7 DEF Stores
<1>3. Counted'
  <2> SUFFICES ASSUME NEW h \in Forks, Born(h)' PROVE ref'[h] >= Holders(h)'
    BY DEF Counted
  <2>1. Born(h) /\ ref[h] \in Int /\ ref'[h] >= ref[h]
    BY <1>1, VMsFact DEF Born, TypeOK
  <2>2. InList(h)' => InList(h)
    BY <1>1, VMsFact DEF InList, Unlisted, Destroying
  <2>3. OwnShred(h)' => OwnShred(h)
    BY <1>1, VMsFact DEF OwnShred
  <2>4. CASE h = v
    BY <1>1, <2>1, <2>2, <2>3, <2>4 DEF IInv, Counted, Holders, One
  <2>5. CASE h # v
    <3>1. AtEvent(h)' => AtEvent(h)
      BY <1>1, <2>5, VMsFact DEF AtEvent, Owed, TypeOK, Flags
    <3> QED  BY <2>1, <2>2, <2>3, <3>1, CountKept DEF IInv, JInv, Counted
  <2> QED  BY <2>4, <2>5
<1>4. (Waiting /\ Destroyed /\ Deaf /\ DoneLate)'
  <2>1. Waiting'
    BY <1>1, VMsFact DEF IInv, Waiting, Telling, Born, Enlist, flags, lists, dead
  <2>2. Destroyed'
    BY <1>1, VMsFact DEF IInv, JInv, Jobs, Destroyed, Destroying, Born, Enlist, flags, lists, dead
  <2>3. Deaf'
    BY <1>1, VMsFact DEF IInv, Deaf, TypeOK, Born, Enlist, flags, lists, dead
  <2>4. DoneLate'
    BY <1>1, VMsFact DEF IInv, DoneLate, Past, Cleaning, Reaped, Destroying, Enlist, flags,
            lists, dead
  <2> QED  BY <2>1, <2>2, <2>3, <2>4
<1> QED  BY <1>2, <1>3, <1>4 DEF IInv

(* A shred goes on after a join: the fork that told it holds its VM's lock *)
(* until it has cleared its list, so that no event holds the shred.        *)
LEMMA GetI ==
  ASSUME IInv, JInv', NEW v \in VMs, Get(v)
  PROVE  IInv'
<1>1. Waiting'
  <2>1. ~\E g \in Forks : waits[g] /\ Up[g] = v
    <3> SUFFICES ASSUME NEW g \in Forks, waits[g], Up[g] = v PROVE FALSE
      OBVIOUS
    <3>1. Telling(g) \/ pc[g] = "told"
      BY DEF IInv, Waiting, Get
    <3>2. held[g] = Above[g]
      BY <3>1, VMsFact DEF IInv, Waiting
    <3>3. g # v
      BY <3>1 DEF Get, Telling
    <3>4. v \in held[g]
      BY <3>2, VMsFact DEF Above
    <3> QED  BY <3>3, <3>4, VMsFact DEF Get, Free
  <2>2. /\ pc[v] = "run" /\ pc' = pc /\ job' = job /\ waits' = waits /\ held' = held
        /\ \A u \in VMs \ {v} : body'[u] = body[u]
    BY DEF Get, counts, IInv, JInv, TypeOK
  <2> QED  BY <2>1, <2>2, VMsFact DEF IInv, Waiting, Telling, Born
<1>2. (Stores /\ Destroyed /\ Deaf /\ DoneLate)'
  <2>1. Stores'
    BY VMsFact DEF IInv, JInv, Jobs, Stores, Storing, Destroying, Born, Get, flags, counts,
            lists, dead, TypeOK
  <2>2. Destroyed'
    BY VMsFact DEF IInv, JInv, Jobs, Destroyed, Destroying, Born, Get, flags, counts, lists,
            dead, TypeOK
  <2>3. Deaf'
    BY VMsFact DEF IInv, Deaf, TypeOK, Born, Get, flags, counts, lists, dead, JInv
  <2>4. DoneLate'
    BY VMsFact DEF IInv, DoneLate, Past, Cleaning, Reaped, Destroying, Get, flags, counts, lists,
            dead, JInv, TypeOK
  <2> QED  BY <2>1, <2>2, <2>3, <2>4
<1>3. NoNewHolder
  BY VMsFact DEF IInv, JInv, TypeOK, Lists, NoNewHolder, InList, OwnShred, AtEvent, Owed,
          Unlisted, Destroying, Born, Get, flags, counts, lists, dead, JInv, TypeOK
<1> QED  BY <1>1, <1>2, <1>3, HoldersFact DEF IInv

(* From one loop of fork_clean to the next.                                *)
LEMMA ThenI ==
  ASSUME IInv, JInv', NEW v \in VMs, Then(v)
  PROVE  IInv'
<1>1. DoneLate'
  <2>1. /\ pc[v] \in {"halt", "reap", "release"} /\ pc'[v] \in {"reap", "release", "bury"}
        /\ \A u \in VMs \ {v} : pc'[u] = pc[u]
        /\ job' = job /\ done' = done
    BY DEF Then, Go, flags, counts, IInv, JInv, TypeOK
  <2>2. \A u \in VMs : Cleaning(u) => Cleaning(u)'
    BY <2>1 DEF Cleaning, Reaped, Destroying
  <2>3. \A f \in Forks : Past(f) => Past(f)'
    BY <2>1, VMsFact DEF Past
  <2> QED  BY <2>1, <2>2, <2>3, VMsFact DEF IInv, DoneLate
<1>2. (Stores /\ Waiting /\ Destroyed /\ Deaf)'
  <2>1. Stores'
    BY VMsFact DEF IInv, JInv, Jobs, Stores, Storing, Destroying, Born, Then, Go, flags, counts,
            lists, dead, sync, TypeOK
  <2>2. Waiting'
    BY VMsFact DEF IInv, Waiting, Telling, Born, Then, Go, flags, counts, lists, dead, sync,
            JInv, TypeOK
  <2>3. Destroyed'
    BY VMsFact DEF IInv, JInv, Jobs, Destroyed, Destroying, Born, Then, Go, flags, counts, lists,
            dead, sync, TypeOK
  <2>4. Deaf'
    BY VMsFact DEF IInv, Deaf, TypeOK, Born, Then, Go, flags, counts, lists, dead, sync, JInv
  <2> QED  BY <2>1, <2>2, <2>3, <2>4
<1>3. NoNewHolder
  BY VMsFact DEF IInv, JInv, TypeOK, Lists, NoNewHolder, InList, OwnShred, AtEvent, Owed,
          Unlisted, Destroying, Born, Then, Go, flags, counts, lists, dead, sync, JInv, TypeOK
<1> QED  BY <1>1, <1>2, <1>3, HoldersFact DEF IInv

(* An event is freed, and lets go of the shred that waits for it.          *)
LEMMA DeafenI ==
  ASSUME IInv, JInv', NEW v \in VMs, Deafen(v)
  PROVE  IInv'
<1>1. /\ job[v].fork \in Forks /\ Up[job[v].fork] = v /\ Idle(job[v].fork)
      /\ \A u \in VMs : pc[u] \in Storing => job[u].fork # v
      /\ pc[v] = "deafen" /\ pc'[v] = "stop" /\ \A u \in VMs \ {v} : pc'[u] = pc[u]
      /\ job' = job /\ todo' = todo /\ body' = body /\ TypeOK /\ thread' = thread
      /\ waits' = [waits EXCEPT ![job[v].fork] = FALSE] /\ deaf' = deaf \cup {job[v].fork}
      /\ \A u \in Forks : ref'[u] = ref[u] - (IF waits[job[v].fork] /\ u = v THEN 1 ELSE 0)
  BY DeafenSoleFact DEF Deafen, Go, lists, IInv, JInv, TypeOK
<1>2. Stores'
  <2>1. \A u \in VMs : pc[u] \in Storing => job[u].fork \in Forks /\ ref'[job[u].fork] = ref[job[u].fork]
    BY <1>1, KindFact DEF TypeOK
  <2>2. \A u \in Forks : pc'[u] = "enlist" => job'[u].value = ref'[u] + 1
    <3> SUFFICES ASSUME NEW u \in Forks, pc'[u] = "enlist" PROVE job'[u].value = ref'[u] + 1
      OBVIOUS
    <3>1. u # v /\ pc[u] = "enlist" /\ ref[u] \in Int
      BY <1>1, VMsFact DEF TypeOK
    <3>2. ref'[u] = ref[u]
      BY <1>1, <3>1
    <3> QED  BY <1>1, <3>1, <3>2 DEF IInv, Stores
  <2>3. \A u \in Forks : pc[u] = "store" /\ waits[u] => waits'[u]
    BY <1>1 DEF Idle, TypeOK, Flags
  <2>4. \A u \in VMs : pc'[u] \in {"store", "exit"} => pc[u] = pc'[u] /\ u # v
    BY <1>1
  <2>5. \A u \in VMs : pc'[u] \in Storing => job'[u].value = ref'[job'[u].fork] - 1
    BY <1>1, <2>1, <2>4 DEF IInv, Stores, Storing
  <2>6. \A u \in VMs : pc'[u] = "exit" => u \in Forks /\ job'[u].fork = u
    BY <1>1, <2>4 DEF IInv, Stores
  <2>7. \A u \in VMs : pc'[u] = "store" =>
          \/ job'[u].next = "told" /\ u \in Forks /\ job'[u].fork = Up[u] /\ waits'[u]
          \/ job'[u].next = "release" /\ Up[job'[u].fork] = u /\ job'[u].fork \notin todo'[u]
    BY <1>1, <2>3, <2>4 DEF IInv, Stores
  <2> QED  BY <2>2, <2>5, <2>6, <2>7 DEF Stores
<1>3. Deaf'
  <2>1. ~thread[job[v].fork] /\ Born(job[v].fork)
    BY <1>1 DEF IInv, JInv, Jobs, Reaping, Reaped, Destroyed, Destroying
  <2>2. \A f \in Forks : Born(f) => Born(f)'
    BY <1>1, VMsFact DEF Born
  <2>3. deaf \subseteq Forks
    BY <1>1 DEF TypeOK
  <2> QED  BY <1>1, <2>1, <2>2, <2>3 DEF IInv, Deaf
<1>4. Counted'
  <2> SUFFICES ASSUME NEW h \in Forks, Born(h)' PROVE ref'[h] >= Holders(h)'
    BY DEF Counted
  <2>1. Born(h) /\ ref[h] \in Int
    BY <1>1, VMsFact DEF Born, TypeOK
  <2>2. InList(h)' => InList(h)
    BY <1>1, VMsFact DEF InList, Unlisted, Destroying
  <2>3. OwnShred(h)' => OwnShred(h)
    BY <1>1, VMsFact DEF OwnShred
  <2>4. AtEvent(h)' => AtEvent(h)
    BY <1>1, VMsFact DEF AtEvent, Owed, TypeOK, Flags
  <2>5. CASE waits[job[v].fork] /\ h = v
    <3>1. pc[job[v].fork] # "told"
      BY <1>1 DEF Idle
    <3>2. AtEvent(h)
      BY <1>1, <2>5, <3>1 DEF AtEvent, Owed
    <3>3. ~AtEvent(h)'
      BY <1>1, <2>5, WaiterFact DEF AtEvent, Owed, TypeOK, Flags
    <3>4. ref'[h] = ref[h] - 1
      BY <1>1, <2>5
    <3> QED  BY <2>1, <2>2, <2>3, <3>2, <3>3, <3>4 DEF IInv, Counted, Holders, One
  <2>6. CASE ~(waits[job[v].fork] /\ h = v)
    <3>1. ref'[h] >= ref[h]
      BY <1>1, <2>1, <2>6
    <3> QED  BY <2>1, <2>2, <2>3, <2>4, <3>1, CountKept DEF IInv, JInv, Counted
  <2> QED  BY <2>5, <2>6
<1>5. (Waiting /\ Destroyed /\ DoneLate)'
  <2>1. Waiting'
    BY <1>1, VMsFact DEF IInv, Waiting, Telling, Born, Deafen, flags, lists, counts, Flags
  <2>2. Destroyed'
    BY <1>1, VMsFact DEF IInv, JInv, Jobs, Destroyed, Destroying, Born, Deafen, flags, lists,
            counts, Flags
  <2>3. DoneLate'
    BY <1>1, VMsFact DEF IInv, DoneLate, Past, Cleaning, Reaped, Destroying, Deafen, flags,
            lists, counts, Flags
  <2> QED  BY <2>1, <2>2, <2>3
<1> QED  BY <1>2, <1>3, <1>4, <1>5 DEF IInv

(* A list gives a fork back.                                               *)
LEMMA ReleaseI ==
  ASSUME IInv, JInv', NEW v \in VMs, NEW f \in Forks, Release(v, f)
  PROVE  IInv'
<1>1. /\ pc[v] = "release" /\ f \in todo[v] /\ Up[f] = v /\ TypeOK
      /\ \A u \in VMs \ {v} : pc'[u] = pc[u] /\ job'[u] = job[u] /\ todo'[u] = todo[u]
      /\ todo'[v] = todo[v] \ {f}
      /\ ref' = ref /\ waits' = waits /\ body' = body /\ held' = held /\ done' = done
      /\ deaf' = deaf /\ thread' = thread
      /\ \/ pc'[v] = "release"
         \/ /\ pc'[v] = "store" /\ job'[v].fork = f /\ job'[v].next = "release"
            /\ job'[v].value = ref[f] - 1
  <2>1. /\ pc[v] = "release" /\ f \in todo[v] /\ Up[f] = v /\ TypeOK
        /\ \A u \in VMs \ {v} : todo'[u] = todo[u]
        /\ todo'[v] = todo[v] \ {f}
        /\ ref' = ref /\ waits' = waits /\ body' = body /\ held' = held /\ done' = done
    BY DEF Release, Look, flags, sync, IInv, JInv, TypeOK, Lists
  <2>0. deaf' = deaf /\ thread' = thread
    BY DEF Release, dead, sync
  <2>2. CASE f \in kids[v]
    <3>1. Count(v, f, -1, "store", "release") /\ "store" \in Places
      BY <2>2 DEF Release, Places
    <3>2. /\ pc'[v] = "store" /\ job'[v].fork = f /\ job'[v].next = "release"
          /\ job'[v].value = ref[f] + (-1)
          /\ \A u \in VMs \ {v} : job'[u] = job[u] /\ pc'[u] = pc[u]
      BY <2>1, <3>1, CountFact
    <3>3. ref[f] \in Int
      BY <2>1 DEF TypeOK
    <3> QED  BY <2>0, <2>1, <3>2, <3>3
  <2>3. CASE f \notin kids[v]
    BY <2>0, <2>1, <2>3 DEF Release
  <2> QED  BY <2>1, <2>2, <2>3
<1>2. Stores'
  BY <1>1, VMsFact DEF IInv, Stores, Storing
<1>3. Waiting'
  <2>1. \A u \in VMs : Telling(u)' = Telling(u)
    BY <1>1 DEF Telling
  <2>2. \A u \in VMs : Born(u) => Born(u)'
    BY <1>1 DEF Born
  <2> QED  BY <1>1, <2>1, <2>2, VMsFact DEF IInv, Waiting
<1>4. DoneLate'
  <2>1. \A u \in VMs : Cleaning(u) => Cleaning(u)'
    BY <1>1 DEF Cleaning, Reaped, Destroying
  <2>2. \A g \in Forks : Past(g) => Past(g)'
    BY <1>1, VMsFact DEF Past
  <2> QED  BY <1>1, <2>1, <2>2, VMsFact DEF IInv, DoneLate
<1>5. (Destroyed /\ Deaf)'
  <2>1. Destroyed'
    BY <1>1, VMsFact DEF IInv, JInv, Jobs, Destroyed, Destroying, Born
  <2>2. Deaf'
    BY <1>1, VMsFact DEF IInv, Deaf, TypeOK, Born
  <2> QED  BY <2>1, <2>2
<1>6. NoNewHolder
  <2> SUFFICES ASSUME NEW g \in Forks, Born(g)'
               PROVE  /\ Born(g) /\ ref'[g] >= ref[g] /\ (InList(g)' => InList(g))
                      /\ (OwnShred(g)' => OwnShred(g)) /\ (AtEvent(g)' => AtEvent(g))
    BY DEF NoNewHolder
  <2>1. Born(g) /\ ref'[g] >= ref[g]
    BY <1>1, VMsFact DEF Born, TypeOK
  <2>2. InList(g)' => InList(g)
    BY <1>1, VMsFact DEF InList, Unlisted, Destroying
  <2>3. OwnShred(g)' => OwnShred(g)
    BY <1>1, VMsFact DEF OwnShred
  <2>4. AtEvent(g)' => AtEvent(g)
    BY <1>1, VMsFact DEF AtEvent, Owed
  <2> QED  BY <2>1, <2>2, <2>3, <2>4
<1> QED  BY <1>2, <1>3, <1>4, <1>5, <1>6, HoldersFact DEF IInv

(* A fork tells the shred that waits.                                      *)
LEMMA TellI ==
  ASSUME IInv, JInv', NEW v \in Forks, Tell(v)
  PROVE  IInv'
<1>1. /\ pc[v] = "tell" /\ TypeOK /\ v \in VMs /\ Up[v] \in VMs
      /\ \A u \in VMs \ {v} : pc'[u] = pc[u] /\ job'[u] = job[u]
      /\ ref' = ref /\ waits' = waits /\ todo' = todo /\ held' = held /\ done' = done
      /\ deaf' = deaf /\ thread' = thread
      /\ \/ pc'[v] = "told"
         \/ /\ pc'[v] = "store" /\ job'[v].fork = Up[v] /\ job'[v].next = "told"
            /\ job'[v].value = ref[Up[v]] - 1 /\ waits[v]
      /\ waits[v] => body'[Up[v]] = "due"
      /\ \A u \in VMs : (u = Up[v] /\ waits[v]) \/ body'[u] = body[u]
  <2>1. /\ pc[v] = "tell" /\ TypeOK /\ v \in VMs /\ Up[v] \in VMs
        /\ ref' = ref /\ waits' = waits /\ todo' = todo /\ held' = held /\ done' = done
        /\ deaf' = deaf /\ thread' = thread
        /\ waits[v] => body'[Up[v]] = "due"
        /\ \A u \in VMs : (u = Up[v] /\ waits[v]) \/ body'[u] = body[u]
    BY VMsFact DEF Tell, flags, lists, dead, IInv, JInv, TypeOK
  <2>2. CASE waits[v] /\ Up[v] # Root
    <3>1. Up[v] \in Forks /\ Count(v, Up[v], -1, "store", "told") /\ "store" \in Places
      BY <2>1, <2>2 DEF Tell, Places, VMs
    <3>2. /\ pc'[v] = "store" /\ job'[v].fork = Up[v] /\ job'[v].next = "told"
          /\ job'[v].value = ref[Up[v]] + (-1)
          /\ \A u \in VMs \ {v} : job'[u] = job[u] /\ pc'[u] = pc[u]
      BY <2>1, <3>1, CountFact
    <3>3. ref[Up[v]] \in Int
      BY <2>1, <3>1 DEF TypeOK
    <3> QED  BY <2>1, <2>2, <3>2, <3>3
  <2>3. CASE ~(waits[v] /\ Up[v] # Root)
    BY <2>1, <2>3 DEF Tell, Go, TypeOK
  <2> QED  BY <2>1, <2>2, <2>3
<1>2. Stores'
  BY <1>1, VMsFact DEF IInv, Stores, Storing
<1>3. Waiting'
  <2>1. Telling(v)' \/ pc'[v] = "told"
    BY <1>1 DEF Telling
  <2>2. \A u \in VMs \ {v} : Telling(u)' = Telling(u) /\ pc'[u] = pc[u]
    BY <1>1 DEF Telling
  <2>3. \A u \in VMs : Born(u) => Born(u)'
    BY <1>1 DEF Born
  <2>4. waits[v] => \/ pc[Up[v]] = "leave" /\ Up[v] # v
                    \/ /\ body[Up[v]] \in {"asleep", "due"}
                       /\ \A u \in VMs : pc[u] \in {"enlist", "exit"} => u # Up[v]
    BY <1>1 DEF IInv, Waiting
  <2>5. held[v] = Above[v]
    BY <1>1 DEF IInv, Waiting
  <2>6. \A g \in Forks : waits[g] =>
          /\ Born(g)'
          /\ pc'[Up[g]] = "leave" \/ body'[Up[g]] \in {"asleep", "due"}
          /\ body'[Up[g]] = "due" => Telling(g)' \/ pc'[g] = "told"
          /\ \A h \in Forks : waits[h] /\ Up[h] = Up[g] => h = g
    BY <1>1, <2>1, <2>2, <2>3, VMsFact DEF IInv, Waiting
  <2>7. \A u \in VMs : pc'[u] \in {"enlist", "leave",
  "exit"} => u # v /\ pc[u] = pc'[u] /\ job'[u] = job[u]
    BY <1>1
  <2>8. \A u \in VMs : pc'[u] = "enlist" => body'[u] = "ready" /\ job'[u].fork \in Forks
                                          /\ Up[job'[u].fork] = u /\ Born(job[u].fork)'
    <3> SUFFICES ASSUME NEW u \in VMs, pc'[u] = "enlist"
                 PROVE  body'[u] = "ready" /\ job'[u].fork \in Forks
                          /\ Up[job'[u].fork] = u /\ Born(job[u].fork)'
      OBVIOUS
    <3>1. u # v /\ pc[u] = "enlist" /\ job'[u] = job[u]
      BY <2>7
    <3>2. body[u] = "ready" /\ job[u].fork \in Forks /\ Up[job[u].fork] = u /\ Born(job[u].fork)
      BY <3>1 DEF IInv, Waiting
    <3>3. body'[u] = body[u]
      BY <1>1, <2>4, <3>1
    <3>4. Born(job[u].fork)'
      BY <1>1, <3>2, VMsFact DEF Born
    <3> QED  BY <3>1, <3>2, <3>3, <3>4 DEF Born
  <2>9. \A u \in VMs : /\ pc'[u] = "leave" => body'[u] # "over"
                       /\ pc'[u] = "exit" => body'[u] = "over"
    BY <1>1, <2>4, <2>7 DEF IInv, Waiting
  <2>10. \A u \in VMs : pc'[u] \in {"tell", "told", "unlock"} \/ Telling(u)' =>
           u \in Forks /\ held[u] = Above[u]
    BY <1>1, <2>2, <2>5 DEF IInv, Waiting
  <2> QED  BY <1>1, <2>6, <2>8, <2>9, <2>10 DEF Waiting, Telling, Born
<1>4. Destroyed'
  <2>1. \A u \in VMs : pc'[u] \in Destroying => u # v /\ pc[u] \in Destroying /\ job'[u] = job[u]
                                             /\ job[u].fork \in Forks
    BY <1>1 DEF Destroying, IInv, JInv, Jobs
  <2>2. ASSUME NEW u \in VMs, pc'[u] \in Destroying
        PROVE  body'[job[u].fork] = "over" \/ pc'[job[u].fork] = "never"
    <3>1. job[u].fork \in Forks /\ (body[job[u].fork] = "over" \/ pc[job[u].fork] = "never")
          /\ Up[job[u].fork] = u /\ job[u].next = "release"
      BY <2>1, <2>2 DEF IInv, Destroyed
    <3>2. Reaped(Up[job[u].fork])
      BY <2>1, <2>2, <3>1 DEF Reaped
    <3>3. Up[v] # job[u].fork
      BY <1>1, <3>1, <3>2, StillFact DEF Idle
    <3> QED  BY <1>1, <3>1, <3>3, VMsFact
  <2> QED  BY <1>1, <2>1, <2>2 DEF IInv, Destroyed
<1>5. DoneLate'
  <2>1. \A u \in VMs : Cleaning(u) => Cleaning(u)'
    BY <1>1 DEF Cleaning, Reaped, Destroying
  <2>2. \A g \in Forks : Past(g) => Past(g)'
    BY <1>1, VMsFact DEF Past
  <2> QED  BY <1>1, <2>1, <2>2, VMsFact DEF IInv, DoneLate
<1>6. Deaf'
  BY <1>1, VMsFact DEF IInv, Deaf, TypeOK, Born
<1>7. NoNewHolder
  <2> SUFFICES ASSUME NEW g \in Forks, Born(g)'
               PROVE  /\ Born(g) /\ ref'[g] >= ref[g] /\ (InList(g)' => InList(g))
                      /\ (OwnShred(g)' => OwnShred(g)) /\ (AtEvent(g)' => AtEvent(g))
    BY DEF NoNewHolder
  <2>1. Born(g) /\ ref'[g] >= ref[g]
    BY <1>1, VMsFact DEF Born, TypeOK
  <2>2. InList(g)' => InList(g)
    BY <1>1, VMsFact DEF InList, Unlisted, Destroying
  <2>3. OwnShred(g)' => OwnShred(g)
    BY <1>1, VMsFact DEF IInv, Waiting, OwnShred
  <2>4. AtEvent(g)' => AtEvent(g)
    BY <1>1, VMsFact DEF AtEvent, Owed
  <2> QED  BY <2>1, <2>2, <2>3, <2>4
<1> QED  BY <1>2, <1>3, <1>4, <1>5, <1>6, <1>7, HoldersFact DEF IInv

(* Every step keeps the invariant.                                         *)
LEMMA NextI ==
  ASSUME MaxHolds = 0, IInv, [Next]_vars
  PROVE  IInv'
<1>1. JInv'
  BY NextJ DEF IInv
<1>2. CASE UNCHANGED vars
  <2>1. Rest' /\ NoNewHolder
    BY <1>2 DEF IInv, Rest, Stores, Waiting, Destroyed, Deaf, DoneLate, JInv, TypeOK, NoNewHolder,
         InList, OwnShred, AtEvent, Owed, Unlisted, Telling, Past, Cleaning, Born, Reaped,
         vars, flags, counts, lists, dead, sync
  <2> QED  BY <1>1, <2>1, HoldersFact DEF IInv, Rest
<1>3. CASE Interrupt
  <2>1. Rest' /\ NoNewHolder
    BY <1>3 DEF IInv, Rest, Stores, Waiting, Destroyed, Deaf, DoneLate, JInv, TypeOK, NoNewHolder,
         InList, OwnShred, AtEvent, Owed, Unlisted, Telling, Past, Cleaning, Born, Reaped,
         Interrupt, counts, lists, dead, sync
  <2> QED  BY <1>1, <2>1, HoldersFact DEF IInv, Rest
<1>4. \A v \in VMs, f \in Forks : ~Hold(v, f) /\ ~Drop(v, f)
  BY DEF Hold, Drop, IInv, JInv, TypeOK
<1>5. ASSUME NEW v \in VMs, Program(v)
      PROVE  IInv'
  BY <1>1, <1>4, <1>5, ExitI, ForkI, OthersI DEF Program
<1>6. ASSUME NEW v \in VMs, Loop(v)
      PROVE  IInv'
  BY <1>1, <1>6, StoreI, EnlistI, GetI, OthersI DEF Loop
<1>7. ASSUME NEW v \in VMs, Clean(v)
      PROVE  IInv'
  BY <1>1, <1>7, ThenI, DeafenI, ReleaseI, OthersI DEF Clean
<1>8. ASSUME NEW v \in Forks, Tail(v)
      PROVE  IInv'
  BY <1>1, <1>8, TellI, OthersI, VMsFact DEF Tail
<1> QED  BY <1>2, <1>3, <1>5, <1>6, <1>7, <1>8 DEF Next, Thread, Ended

(* Initially no fork is born.                                              *)
LEMMA InitI == Init => IInv
<1> SUFFICES ASSUME Init PROVE IInv
  OBVIOUS
<1>1. \A f \in Forks : ~Born(f) /\ ~waits[f] /\ ~done[f]
  BY VMsFact DEF Init, Born
<1>2. (\A v \in VMs : pc[v] \in {"test", "unborn"}) /\ deaf = {}
  BY DEF Init
<1>3. Counted /\ Deaf /\ DoneLate
  BY <1>1, <1>2 DEF Counted, Deaf, DoneLate
<1>4. Stores /\ Destroyed
  BY <1>2, VMsFact DEF Stores, Destroyed, Storing, Destroying
<1>5. Waiting
  BY <1>1, <1>2 DEF Waiting, Telling
<1> QED  BY <1>3, <1>4, <1>5, InitJ DEF IInv

-----------------------------------------------------------------------------
(* Theorems: for any forks of forks that no variables hold.                *)

(* IInv is an invariant: each count covers its holders (release in the     *)
(* threads' loops, vm_add_shred, fork_join, the broadcast).                *)
THEOREM Counts ==
  ASSUME MaxHolds = 0
  PROVE  Spec => []IInv
<1>1. IInv /\ [Next]_vars => IInv'
  BY NextI
<1>2. Init => IInv
  BY InitI
<1> QED  BY <1>1, <1>2, PTL DEF Spec

(* do_release runs when no variable, list or shred holds the fork.         *)
THEOREM LastReleaseIsLast ==
  ASSUME MaxHolds = 0
  PROVE  Spec => []LastRelease
<1>1. IInv => LastRelease
  <2> SUFFICES ASSUME IInv, NEW v \in VMs, pc[v] = "deafen"
               PROVE  LET f == job[v].fork
                      IN  holds[f] = 0 /\ ~Listed(f) /\ (body[f] = "over" \/ pc[f] = "never")
    BY DEF LastRelease
  <2>1. job[v].fork \in Forks /\ job[v].next = "release" /\ Up[job[v].fork] = v
    BY DEF IInv, JInv, Jobs, Destroyed, Destroying
  <2>2. holds[job[v].fork] = 0
    BY <2>1 DEF IInv, JInv, TypeOK
  <2> QED  BY <2>1, <2>2 DEF IInv, Destroyed, Destroying, Listed
<1> QED  BY <1>1, Counts, PTL

(* The event, the object and the VM of a fork outlive its thread, and the  *)
(* VMs above it too.                                                       *)
THEOREM WhatThreadsUseOutlives ==
  ASSUME MaxHolds = 0
  PROVE  Spec => []Outlived
<1>1. IInv => Outlived
  <2> SUFFICES ASSUME IInv PROVE Outlived
    OBVIOUS
  <2>1. \A f \in deaf : Idle(f)
    BY DEF IInv, JInv, TypeOK, Deaf, Threads
  <2> QED  BY <2>1, JoinedFact DEF IInv, Outlived
<1> QED  BY <1>1, Counts, PTL

(* A fork that its parent sees done, while it runs, has left its loop.     *)
THEOREM DoneMeansDone ==
  ASSUME MaxHolds = 0
  PROVE  Spec => []DoneIsDone
<1>1. IInv => DoneIsDone
  BY VMsFact DEF IInv, DoneLate, DoneIsDone, Knows, Runs, Cleaning, Reaped, Destroying
<1> QED  BY <1>1, Counts, PTL

-----------------------------------------------------------------------------
(* What is left in the end.                                                *)
(*                                                                         *)
(* The invariant bounds a count from below, which keeps a fork from being  *)
(* destroyed too early.  That it is destroyed at all needs the count to be *)
(* exact: no reference is taken that nobody gives back.                    *)

(* The counts are exact.                                                   *)

(* A shred that enters the list of an event after the broadcast is cut off *)
(* with the list: it sleeps on, and the reference that it took is lost.    *)
Settled(f) == AtEvent(f) \/ (pc[f] # "leave" /\ body[f] # "asleep")

(* But for that, a count is its holders.                                   *)
Exact == \A f \in Forks : Born(f) /\ Settled(f) => ref[f] = Holders(f)

(* A VM has in its list what it is to release.                             *)
Kept == \A f \in Forks : Born(f) /\ InList(f) => f \in kids[Up[f]]

(* A fork whose count is zero is destroyed, and once it is, its VM is      *)
(* freed before the VM above ends.                                         *)
Spent ==
  \A f \in Forks : Born(f) /\ ref[f] = 0 =>
    f \in freed \/ (pc[Up[f]] \in Destroying /\ job[Up[f]].fork = f)
Buried ==
  /\ \A f \in freed : f \in gone \cup graves[Up[f]]
  /\ \A v \in VMs : graves[v] # {} => ~Past(v) /\ pc[v] # "lock"

(* No other thread wakes the body of a VM that has no thread.              *)
Bodies ==
  \A f \in Forks : /\ ~Born(f) => body[f] = "unborn"
                   /\ pc[f] = "never" => body[f] = "ready"

EInv == IInv /\ Exact /\ Kept /\ Spent /\ Buried /\ Bodies

(* No fork loses a holder or gains one.                                    *)
SameHolders ==
  \A f \in Forks : Born(f)' =>
    /\ Born(f) /\ ref'[f] = ref[f]
    /\ InList(f)' <=> InList(f)
    /\ OwnShred(f)' <=> OwnShred(f)
    /\ AtEvent(f)' <=> AtEvent(f)
    /\ Settled(f)' => Settled(f)

(* Then the counts are still exact.                                        *)
LEMMA ExactFact ==
  ASSUME EInv, SameHolders
  PROVE  Exact'
<1> SUFFICES ASSUME NEW f \in Forks, Born(f)', Settled(f)' PROVE ref'[f] = Holders(f)'
  BY DEF Exact
<1>1. Born(f) /\ Settled(f) /\ ref[f] = Holders(f) /\ ref'[f] = ref[f]
  BY DEF SameHolders, EInv, Exact
<1>2. /\ InList(f)' <=> InList(f)
      /\ OwnShred(f)' <=> OwnShred(f)
      /\ AtEvent(f)' <=> AtEvent(f)
  BY DEF SameHolders
<1>3. Holders(f)' = One(InList(f)') + One(OwnShred(f)') + One(AtEvent(f)')
  BY DEF Holders
<1> QED  BY <1>1, <1>2, <1>3 DEF Holders, One

(* Most steps change no holder of a fork.                                  *)
LEMMA OthersE ==
  ASSUME EInv, IInv', NEW v \in VMs,
         \/ \E f \in Forks : Guard(v, f)
         \/ \E f \in Forks : Join(v, f)
         \/ \E f \in Forks : SetCancel(v, f)
         \/ Unguard(v)
         \/ Leave(v)
         \/ Get(v)
         \/ EndSample(v)
         \/ Test(v)
         \/ Bury(v)
         \/ DtorStop(v)
         \/ DtorJoin(v)
         \/ Forget(v)
         \/ \E f \in Forks : Stop(v, f)
         \/ \E f \in Forks : Reap(v, f)
         \/ v \in Forks /\ CheckCancel(v)
         \/ v \in Forks /\ Finish(v)
         \/ v \in Forks /\ Quit(v)
         \/ v \in Forks /\ Told(v)
         \/ v \in Forks /\ Unlock(v)
         \/ v \in Forks /\ \E l \in VMs : Lock(v, l)
  PROVE  EInv'
<1> SUFFICES SameHolders /\ (Kept /\ Spent /\ Buried /\ Bodies)'
  BY ExactFact DEF EInv
<1> USE VMsFact DEF EInv, IInv, JInv, TypeOK, Jobs, Lists, Stores, Waiting, Destroyed, Kept, Spent,
      Buried, Bodies, SameHolders, InList, OwnShred, AtEvent, Owed, Unlisted, Settled, Telling,
      Past, Born, Storing, Destroying, Flags, Go, Look, Stopped, Runs, Knows,
      flags, counts, lists, dead, sync
<1>1. CASE \E f \in Forks : Guard(v, f)
  BY <1>1 DEF Guard
<1>2. CASE \E f \in Forks : Join(v, f)
  BY <1>2 DEF Join
<1>3. CASE \E f \in Forks : SetCancel(v, f)
  BY <1>3 DEF SetCancel
<1>4. CASE Unguard(v)
  BY <1>4 DEF Unguard
<1>5. CASE Leave(v)
  BY <1>5 DEF Leave
<1>6. CASE Get(v)
  BY <1>6 DEF Get
<1>7. CASE EndSample(v)
  BY <1>7 DEF EndSample
<1>8. CASE Test(v)
  BY <1>8 DEF Test
<1>9. CASE Bury(v)
  BY <1>9 DEF Bury
<1>10. CASE DtorStop(v)
  BY <1>10 DEF DtorStop
<1>11. CASE DtorJoin(v)
  BY <1>11 DEF DtorJoin
<1>12. CASE Forget(v)
  BY <1>12 DEF Forget
<1>13. CASE \E f \in Forks : Stop(v, f)
  BY <1>13 DEF Stop
<1>14. CASE \E f \in Forks : Reap(v, f)
  BY <1>14 DEF Reap
<1>15. CASE v \in Forks /\ CheckCancel(v)
  BY <1>15 DEF CheckCancel
<1>16. CASE v \in Forks /\ Finish(v)
  BY <1>16 DEF Finish
<1>17. CASE v \in Forks /\ Quit(v)
  BY <1>17 DEF Quit
<1>18. CASE v \in Forks /\ Told(v)
  BY <1>18 DEF Told
<1>19. CASE v \in Forks /\ Unlock(v)
  BY <1>19 DEF Unlock
<1>20. CASE v \in Forks /\ \E l \in VMs : Lock(v, l)
  BY <1>20 DEF Lock
<1> QED
  BY <1>1, <1>2, <1>3, <1>4, <1>5, <1>6, <1>7, <1>8, <1>9, <1>10, <1>11, <1>12, <1>13, <1>14,
     <1>15, <1>16, <1>17, <1>18, <1>19, <1>20

(* The body of a VM ends: its shred has its own reference until it is      *)
(* stored.                                                                 *)
LEMMA ExitE ==
  ASSUME EInv, IInv', NEW v \in VMs, Exit(v)
  PROVE  EInv'
<1>1. /\ pc[v] = "run" /\ body[v] = "ready" /\ body'[v] = "over"
      /\ \A u \in VMs \ {v} : pc'[u] = pc[u] /\ job'[u] = job[u] /\ body'[u] = body[u]
      /\ pc'[v] = (IF v = Root THEN "run" ELSE "exit")
      /\ ref' = ref /\ waits' = waits /\ todo' = todo /\ kids' = kids /\ graves' = graves
      /\ freed' = freed /\ gone' = gone
  BY DEF Exit, Count, Go, flags, lists, dead, EInv, IInv, JInv, TypeOK
<1>2. SameHolders
  <2> SUFFICES ASSUME NEW g \in Forks, Born(g)'
               PROVE  /\ Born(g) /\ ref'[g] = ref[g] /\ (InList(g)' <=> InList(g))
                      /\ (OwnShred(g)' <=> OwnShred(g)) /\ (AtEvent(g)' <=> AtEvent(g))
                      /\ (Settled(g)' => Settled(g))
    BY DEF SameHolders
  <2>1. Born(g) /\ ref'[g] = ref[g]
    BY <1>1, VMsFact DEF Born
  <2>2. InList(g)' <=> InList(g)
    BY <1>1, VMsFact DEF InList, Unlisted, Destroying
  <2>3. OwnShred(g)' <=> OwnShred(g)
    BY <1>1, VMsFact DEF OwnShred
  <2>4. AtEvent(g)' <=> AtEvent(g)
    BY <1>1, VMsFact DEF AtEvent, Owed
  <2>5. Settled(g)' => Settled(g)
    BY <1>1, <2>4, VMsFact DEF Settled
  <2> QED  BY <2>1, <2>2, <2>3, <2>4, <2>5
<1>3. (Kept /\ Spent /\ Buried /\ Bodies)'
  <2>1. Kept'
    BY <1>1, <1>2 DEF EInv, Kept, SameHolders
  <2>2. Spent'
    BY <1>1, <1>2, VMsFact DEF EInv, Spent, SameHolders, Destroying
  <2>3. Buried'
    BY <1>1, VMsFact DEF EInv, IInv, Stores, Storing, Buried, Past
  <2>4. Bodies'
    BY <1>1, VMsFact DEF EInv, Bodies, Born
  <2> QED  BY <2>1, <2>2, <2>3, <2>4
<1> QED  BY <1>2, <1>3, ExactFact DEF EInv

(* From one loop of fork_clean to the next: all that a VM has is released. *)
LEMMA ThenE ==
  ASSUME EInv, IInv', NEW v \in VMs, Then(v)
  PROVE  EInv'
<1>1. /\ todo[v] = {}
      /\ \A u \in VMs \ {v} : pc'[u] = pc[u] /\ todo'[u] = todo[u] /\ kids'[u] = kids[u]
      /\ \/ pc[v] = "halt" /\ pc'[v] = "reap" /\ kids'[v] = kids[v]
         \/ pc[v] = "reap" /\ pc'[v] = "release" /\ kids'[v] = kids[v] /\ todo'[v] = kids[v]
         \/ pc[v] = "release" /\ pc'[v] = "bury" /\ todo'[v] = {}
      /\ ref' = ref /\ waits' = waits /\ body' = body /\ graves' = graves
      /\ freed' = freed /\ gone' = gone /\ job' = job
  BY DEF Then, Go, flags, counts, dead, sync, EInv, IInv, JInv, TypeOK
<1>2. SameHolders
  <2> SUFFICES ASSUME NEW g \in Forks, Born(g)'
               PROVE  /\ Born(g) /\ ref'[g] = ref[g] /\ (InList(g)' <=> InList(g))
                      /\ (OwnShred(g)' <=> OwnShred(g)) /\ (AtEvent(g)' <=> AtEvent(g))
                      /\ (Settled(g)' => Settled(g))
    BY DEF SameHolders
  <2>1. Born(g) /\ ref'[g] = ref[g]
    BY <1>1, VMsFact DEF Born
  <2>2. InList(g)' <=> InList(g)
    <3>1. CASE pc[Up[g]] = "reap" /\ Up[g] = v
      <4>1. InList(g) /\ g \in kids[v]
        BY <2>1, <3>1 DEF EInv, Kept, InList, Unlisted, Destroying
      <4> QED  BY <1>1, <3>1, <4>1 DEF InList, Unlisted, Destroying
    <3>2. CASE ~(pc[Up[g]] = "reap" /\ Up[g] = v)
      BY <1>1, <3>2, VMsFact DEF InList, Unlisted, Destroying
    <3> QED  BY <3>1, <3>2
  <2>3. OwnShred(g)' <=> OwnShred(g)
    BY <1>1, VMsFact DEF OwnShred
  <2>4. AtEvent(g)' <=> AtEvent(g)
    BY <1>1, VMsFact DEF AtEvent, Owed
  <2>5. Settled(g)' => Settled(g)
    BY <1>1, <2>4, VMsFact DEF Settled
  <2> QED  BY <2>1, <2>2, <2>3, <2>4, <2>5
<1>3. (Kept /\ Spent /\ Buried /\ Bodies)'
  <2>1. Kept'
    <3> SUFFICES ASSUME NEW g \in Forks, Born(g)', InList(g)' PROVE g \in kids'[Up[g]]
      BY DEF Kept
    <3>1. g \in kids[Up[g]] /\ InList(g)
      BY <1>2 DEF EInv, Kept, SameHolders
    <3>2. Up[g] = v => pc'[v] # "bury"
      BY DEF InList, Unlisted
    <3> QED  BY <1>1, <3>1, <3>2, VMsFact
  <2>2. Spent'
    BY <1>1, <1>2, VMsFact DEF EInv, Spent, SameHolders, Destroying
  <2>3. Buried'
    BY <1>1, VMsFact DEF EInv, Buried, Past
  <2>4. Bodies'
    BY <1>1, VMsFact DEF EInv, Bodies, Born
  <2> QED  BY <2>1, <2>2, <2>3, <2>4
<1> QED  BY <1>2, <1>3, ExactFact DEF EInv

(* A fork tells the shred that waits, which settles.                       *)
LEMMA TellE ==
  ASSUME EInv, IInv', NEW v \in Forks, Tell(v)
  PROVE  EInv'
<1>1. /\ pc[v] = "tell" /\ v \in VMs /\ Up[v] \in VMs
      /\ \A u \in VMs \ {v} : pc'[u] = pc[u] /\ job'[u] = job[u]
      /\ ref' = ref /\ waits' = waits /\ todo' = todo /\ kids' = kids /\ graves' = graves
      /\ freed' = freed /\ gone' = gone
      /\ \/ pc'[v] = "told" /\ ~(waits[v] /\ Up[v] # Root)
         \/ pc'[v] = "store" /\ job'[v].next = "told"
      /\ waits[v] => body'[Up[v]] = "due"
      /\ \A u \in VMs : (u = Up[v] /\ waits[v]) \/ body'[u] = body[u]
  BY VMsFact DEF Tell, Count, Go, flags, lists, dead, EInv, IInv, JInv, TypeOK
<1>2. SameHolders
  <2> SUFFICES ASSUME NEW g \in Forks, Born(g)'
               PROVE  /\ Born(g) /\ ref'[g] = ref[g] /\ (InList(g)' <=> InList(g))
                      /\ (OwnShred(g)' <=> OwnShred(g)) /\ (AtEvent(g)' <=> AtEvent(g))
                      /\ (Settled(g)' => Settled(g))
    BY DEF SameHolders
  <2>1. Born(g) /\ ref'[g] = ref[g]
    BY <1>1, VMsFact DEF Born
  <2>2. InList(g)' <=> InList(g)
    BY <1>1, VMsFact DEF InList, Unlisted, Destroying
  <2>3. OwnShred(g)' <=> OwnShred(g)
    BY <1>1, VMsFact DEF EInv, IInv, Waiting, OwnShred
  <2>4. AtEvent(g)' <=> AtEvent(g)
    <3>1. \A h \in Forks : Up[h] # Root => (Owed(h)' <=> Owed(h))
      BY <1>1, VMsFact DEF Owed
    <3> QED  BY <3>1, VMsFact DEF AtEvent
  <2>5. Settled(g)' => Settled(g)
    <3>1. CASE Up[v] = g /\ waits[v]
      BY <1>1, <3>1 DEF Settled, AtEvent, Owed
    <3>2. CASE ~(Up[v] = g /\ waits[v])
      BY <1>1, <2>4, <3>2, VMsFact DEF Settled
    <3> QED  BY <3>1, <3>2
  <2> QED  BY <2>1, <2>2, <2>3, <2>4, <2>5
<1>3. (Kept /\ Spent /\ Buried /\ Bodies)'
  <2>1. Kept'
    BY <1>1, <1>2 DEF EInv, Kept, SameHolders
  <2>2. Spent'
    BY <1>1, <1>2, VMsFact DEF EInv, Spent, SameHolders, Destroying
  <2>3. Buried'
    BY <1>1, VMsFact DEF EInv, Buried, Past
  <2>4. Bodies'
    <3>1. Born(Up[v]) /\ pc[Up[v]] # "never"
      BY <1>1 DEF EInv, IInv, JInv, Childless, Born
    <3> QED  BY <1>1, <3>1, VMsFact DEF EInv, Bodies, Born
  <2> QED  BY <2>1, <2>2, <2>3, <2>4
<1> QED  BY <1>2, <1>3, ExactFact DEF EInv

(* A fork is born, with the references of the list and of its own shred.   *)
LEMMA ForkE ==
  ASSUME EInv, IInv', NEW v \in VMs, NEW f \in Forks, Fork(v, f)
  PROVE  EInv'
<1>1. /\ pc[f] = "unborn" /\ pc'[f] \in {"look", "never"} /\ \A u \in VMs \ {f} : pc'[u] = pc[u]
      /\ pc[v] = "run" /\ Up[f] = v /\ body'[f] = "ready"
      /\ \A u \in VMs \ {f} : body'[u] = body[u]
      /\ ref'[f] = (IF pc'[f] = "look" THEN 2 ELSE 1)
      /\ \A g \in Forks \ {f} : ref'[g] = ref[g]
      /\ waits' = waits /\ job' = job /\ todo' = todo /\ graves' = graves
      /\ freed' = freed /\ gone' = gone
      /\ f \in kids'[v] /\ \A u \in VMs : kids[u] \subseteq kids'[u]
      /\ TypeOK
  BY VMsFact DEF Fork, Launch, Launched, Runs, dead, EInv, IInv, JInv, TypeOK
<1>2. \A g \in Forks : Up[g] = f \/ g = f => ~waits[g]
  BY <1>1 DEF EInv, IInv, JInv, Childless, Waiting, Born
<1>3. ASSUME NEW h \in Forks, h # f, Born(h)'
      PROVE  /\ Born(h) /\ ref'[h] = ref[h] /\ (InList(h)' <=> InList(h))
             /\ (OwnShred(h)' <=> OwnShred(h)) /\ (AtEvent(h)' <=> AtEvent(h))
             /\ (Settled(h)' <=> Settled(h))
  <2>1. Born(h) /\ ref'[h] = ref[h]
    BY <1>1, <1>3, VMsFact DEF Born
  <2>2. InList(h)' <=> InList(h)
    <3>1. Up[h] # f
      BY <1>1, <2>1 DEF EInv, IInv, JInv, Childless
    <3> QED  BY <1>1, <3>1, VMsFact DEF InList, Unlisted, Destroying
  <2>3. OwnShred(h)' <=> OwnShred(h)
    BY <1>1, <1>3, VMsFact DEF OwnShred
  <2>4. AtEvent(h)' <=> AtEvent(h)
    BY <1>1, <1>2, VMsFact DEF AtEvent, Owed
  <2>5. Settled(h)' <=> Settled(h)
    BY <1>1, <1>3, <2>4, VMsFact DEF Settled
  <2> QED  BY <2>1, <2>2, <2>3, <2>4, <2>5
<1>4. InList(f)' /\ ~AtEvent(f)' /\ (OwnShred(f)' <=> pc'[f] = "look")
  <2>1. InList(f)'
    BY <1>1, VMsFact DEF InList, Unlisted, Destroying
  <2>2. ~AtEvent(f)'
    BY <1>1, <1>2 DEF AtEvent, Owed
  <2>3. OwnShred(f)' <=> pc'[f] = "look"
    BY <1>1 DEF OwnShred
  <2> QED  BY <2>1, <2>2, <2>3
<1>5. Exact'
  <2> SUFFICES ASSUME NEW h \in Forks, Born(h)', Settled(h)' PROVE ref'[h] = Holders(h)'
    BY DEF Exact
  <2>1. Holders(h)' = One(InList(h)') + One(OwnShred(h)') + One(AtEvent(h)')
    BY DEF Holders
  <2>2. CASE h = f
    BY <1>1, <1>4, <2>1, <2>2 DEF One
  <2>3. CASE h # f
    <3>1. ref[h] = Holders(h)
      BY <1>3, <2>3 DEF EInv, Exact
    <3> QED  BY <1>3, <2>1, <2>3, <3>1 DEF Holders, One
  <2> QED  BY <2>2, <2>3
<1>6. (Kept /\ Spent /\ Buried /\ Bodies)'
  <2>1. Kept'
    BY <1>1, <1>3, VMsFact DEF EInv, Kept
  <2>2. Spent'
    BY <1>1, <1>3, VMsFact DEF EInv, Spent, Destroying
  <2>3. Buried'
    BY <1>1, VMsFact DEF EInv, Buried, Past
  <2>4. Bodies'
    BY <1>1, VMsFact DEF EInv, Bodies, Born
  <2> QED  BY <2>1, <2>2, <2>3, <2>4
<1> QED  BY <1>5, <1>6 DEF EInv

(* A count is stored: it loses the holder that it is stored for, and one   *)
(* that reaches zero begins the destruction.                               *)
LEMMA StoreE ==
  ASSUME EInv, IInv', NEW v \in VMs, Store(v)
  PROVE  EInv'
<1> DEFINE t == job[v].fork
<1>1. /\ t \in Forks /\ Born(t) /\ pc[v] \in Storing
      /\ ref' = [ref EXCEPT ![t] = @ - 1]
      /\ \A u \in VMs \ {v} : pc'[u] = pc[u]
      /\ \/ Ending(v) /\ pc'[v] = "run"
         \/ Paying(v) /\ pc'[v] = "told"
         \/ Giving(v) /\ pc'[v] \in {"release", "deafen"}
  BY StoreFact DEF EInv, Store, Storing
<1>2. /\ job' = job /\ waits' = waits /\ todo' = todo /\ body' = body /\ kids' = kids
      /\ graves' = graves /\ freed' = freed /\ gone' = gone /\ TypeOK
      /\ pc'[v] = IF job[v].value = 0 THEN "deafen" ELSE job[v].next
  BY DEF Store, Go, flags, lists, dead, sync, EInv, IInv, JInv, TypeOK
<1>3. \A h \in Forks : ref[h] \in Int /\ ref'[h] = (IF h = t THEN ref[h] - 1 ELSE ref[h])
  BY <1>1, <1>2 DEF TypeOK
<1>4. ASSUME NEW h \in Forks, Born(h)'
      PROVE  /\ Born(h) /\ (Settled(h)' => Settled(h))
             /\ InList(h)' <=> InList(h) /\ ~(h = t /\ Giving(v))
             /\ OwnShred(h)' <=> OwnShred(h) /\ ~(h = t /\ Ending(v))
             /\ AtEvent(h)' <=> AtEvent(h) /\ ~(h = t /\ Paying(v))
             /\ Giving(v) /\ h = t => InList(h)
             /\ Ending(v) /\ h = t => OwnShred(h)
             /\ Paying(v) /\ h = t => AtEvent(h)
  <2>1. Born(h)
    BY <1>1, <1>4, VMsFact DEF Born, Storing
  <2>2. InList(h)' <=> InList(h) /\ ~(h = t /\ Giving(v))
    BY <1>1, <1>2, VMsFact DEF InList, Unlisted, Destroying, Ending, Paying, Giving
  <2>3. Giving(v) /\ h = t => InList(h)
    BY DEF InList, Unlisted, Giving, Destroying
  <2>4. OwnShred(h)' <=> OwnShred(h) /\ ~(h = t /\ Ending(v))
    BY <1>1, <1>2, VMsFact DEF OwnShred, Storing, Ending, Paying, Giving, EInv, IInv, Waiting
  <2>5. Ending(v) /\ h = t => OwnShred(h)
    BY DEF OwnShred, Ending
  <2>6. AtEvent(h)' <=> AtEvent(h) /\ ~(h = t /\ Paying(v))
    <3>1. \A g \in Forks : Owed(g)' <=> Owed(g) /\ ~(g = v /\ Paying(v))
      BY <1>1, <1>2, VMsFact DEF Owed, Storing, Ending, Paying, Giving
    <3>2. Paying(v) /\ h = t => \A g \in Forks : Up[g] = h /\ waits[g] => g = v
      BY WaiterFact DEF Paying, EInv
    <3>3. Paying(v) => t = Up[v] /\ v \in Forks
      BY DEF Paying
    <3> QED  BY <3>1, <3>2, <3>3 DEF AtEvent, Owed
  <2>7. Paying(v) /\ h = t => AtEvent(h)
    BY DEF AtEvent, Owed, Paying
  <2>8. Settled(h)' => Settled(h)
    BY <1>1, <1>2, <2>6, VMsFact DEF Settled, Storing
  <2> QED  BY <2>1, <2>2, <2>3, <2>4, <2>5, <2>6, <2>7, <2>8
<1>5. /\ Giving(v) => ~Ending(v) /\ ~Paying(v)
      /\ Paying(v) => ~Ending(v)
  BY DEF Giving, Ending, Paying
<1>6. Exact'
  <2> SUFFICES ASSUME NEW h \in Forks, Born(h)', Settled(h)' PROVE ref'[h] = Holders(h)'
    BY DEF Exact
  <2>1. Holders(h)' = One(InList(h)') + One(OwnShred(h)') + One(AtEvent(h)')
    BY DEF Holders
  <2>2. ref[h] = One(InList(h)) + One(OwnShred(h)) + One(AtEvent(h))
    BY <1>4 DEF EInv, Exact, Holders
  <2> QED  BY <1>1, <1>3, <1>4, <1>5, <2>1, <2>2 DEF One
<1>7. Kept'
  BY <1>2, <1>4 DEF EInv, Kept
<1>8. Spent'
  <2> SUFFICES ASSUME NEW h \in Forks, Born(h)', ref'[h] = 0
               PROVE  h \in freed \/ (pc'[Up[h]] \in Destroying /\ job[Up[h]].fork = h)
    BY <1>2 DEF Spent
  <2>1. CASE h = t
    <3>1. job[v].value = 0
      BY <1>1, <1>3, <2>1, KindFact DEF EInv
    <3>2. Giving(v) /\ pc'[v] = "deafen" /\ Up[t] = v
      BY <1>1, <1>2, <3>1 DEF Giving
    <3> QED  BY <2>1, <3>2 DEF Destroying
  <2>2. CASE h # t
    BY <1>1, <1>2, <1>3, <1>4, <2>2, VMsFact DEF EInv, Spent, Storing, Destroying
  <2> QED  BY <2>1, <2>2
<1>9. Buried'
  BY <1>1, <1>2, VMsFact DEF EInv, Buried, Past, Ending, Paying, Giving, Storing
<1>10. Bodies'
  BY <1>1, <1>2, VMsFact DEF EInv, Bodies, Born, Storing
<1> QED  BY <1>6, <1>7, <1>8, <1>9, <1>10 DEF EInv

(* A shred enters a list, with a reference of the list's.                  *)
LEMMA EnlistE ==
  ASSUME EInv, IInv', NEW v \in VMs, Enlist(v)
  PROVE  EInv'
<1>1. /\ pc[v] = "enlist" /\ pc'[v] = "leave" /\ \A u \in VMs \ {v} : pc'[u] = pc[u]
      /\ job' = job /\ todo' = todo /\ body' = body /\ kids' = kids /\ graves' = graves
      /\ freed' = freed /\ gone' = gone
      /\ job[v].fork \in Forks /\ Up[job[v].fork] = v
      /\ \A u \in Forks : ref[u] \in Int /\ ref'[u] = (IF u = v THEN ref[u] + 1 ELSE ref[u])
      /\ waits' = [waits EXCEPT ![job[v].fork] = TRUE] /\ waits \in Flags
  BY DEF Enlist, Go, lists, dead, EInv, IInv, JInv, TypeOK, Waiting, Stores
<1>2. \A g \in Forks : waits[g] => Up[g] # v
  BY <1>1, WaiterFact DEF EInv
<1>3. ASSUME NEW h \in Forks, Born(h)'
      PROVE  /\ Born(h) /\ (InList(h)' <=> InList(h)) /\ (OwnShred(h)' <=> OwnShred(h))
             /\ h # v => (AtEvent(h)' <=> AtEvent(h)) /\ (Settled(h)' => Settled(h))
  <2>1. Born(h)
    BY <1>1, <1>3, VMsFact DEF Born
  <2>2. InList(h)' <=> InList(h)
    BY <1>1, VMsFact DEF InList, Unlisted, Destroying
  <2>3. OwnShred(h)' <=> OwnShred(h)
    BY <1>1, VMsFact DEF OwnShred
  <2>4. h # v => (AtEvent(h)' <=> AtEvent(h))
    BY <1>1, VMsFact DEF AtEvent, Owed, Flags
  <2>5. h # v => (Settled(h)' => Settled(h))
    BY <1>1, <2>4, VMsFact DEF Settled
  <2> QED  BY <2>1, <2>2, <2>3, <2>4, <2>5
<1>4. Exact'
  <2> SUFFICES ASSUME NEW h \in Forks, Born(h)', Settled(h)' PROVE ref'[h] = Holders(h)'
    BY DEF Exact
  <2>1. Holders(h)' = One(InList(h)') + One(OwnShred(h)') + One(AtEvent(h)')
    BY DEF Holders
  <2>2. CASE h = v
    <3>1. Settled(h) /\ ~AtEvent(h)
      BY <1>1, <1>2, <2>2 DEF Settled, AtEvent, Owed, EInv, IInv, Waiting
    <3>2. AtEvent(h)'
      BY <1>1, <2>2 DEF Settled
    <3>3. ref[h] = One(InList(h)) + One(OwnShred(h)) + One(AtEvent(h))
      BY <1>3, <3>1 DEF EInv, Exact, Holders
    <3> QED  BY <1>1, <1>3, <2>1, <2>2, <3>1, <3>2, <3>3 DEF One
  <2>3. CASE h # v
    <3>1. ref[h] = One(InList(h)) + One(OwnShred(h)) + One(AtEvent(h))
      BY <1>3, <2>3 DEF EInv, Exact, Holders
    <3> QED  BY <1>1, <1>3, <2>1, <2>3, <3>1 DEF One
  <2> QED  BY <2>2, <2>3
<1>5. (Kept /\ Spent /\ Buried /\ Bodies)'
  <2>1. Kept'
    BY <1>1, <1>3 DEF EInv, Kept
  <2>2. Spent'
    <3>1. \A h \in Forks : Born(h) => ref[h] >= 0
      BY <1>1 DEF EInv, IInv, Counted, Holders, One
    <3> QED  BY <1>1, <1>3, <3>1, VMsFact DEF EInv, Spent, Destroying
  <2>3. Buried'
    BY <1>1, VMsFact DEF EInv, Buried, Past
  <2>4. Bodies'
    BY <1>1, VMsFact DEF EInv, Bodies, Born
  <2> QED  BY <2>1, <2>2, <2>3, <2>4
<1> QED  BY <1>4, <1>5 DEF EInv

(* An event is freed, and lets go of the shred that waits for it.          *)
LEMMA DeafenE ==
  ASSUME EInv, IInv', NEW v \in VMs, Deafen(v)
  PROVE  EInv'
<1> DEFINE t == job[v].fork
<1>1. /\ t \in Forks /\ Up[t] = v /\ Idle(t)
      /\ pc[v] = "deafen" /\ pc'[v] = "stop" /\ \A u \in VMs \ {v} : pc'[u] = pc[u]
      /\ job' = job /\ todo' = todo /\ body' = body /\ kids' = kids /\ graves' = graves
      /\ freed' = freed /\ gone' = gone
      /\ waits' = [waits EXCEPT ![t] = FALSE] /\ waits \in Flags
      /\ \A u \in Forks : /\ ref[u] \in Int
                          /\ ref'[u] = ref[u] - (IF waits[t] /\ u = v THEN 1 ELSE 0)
  BY DeafenSoleFact DEF Deafen, Go, lists, EInv, IInv, JInv, TypeOK
<1>2. ASSUME NEW h \in Forks, Born(h)'
      PROVE  /\ Born(h) /\ (InList(h)' <=> InList(h)) /\ (OwnShred(h)' <=> OwnShred(h))
             /\ AtEvent(h)' <=> AtEvent(h) /\ ~(h = v /\ waits[t])
             /\ h = v /\ waits[t] => AtEvent(h)
             /\ Settled(h)' => Settled(h)
  <2>1. Born(h)
    BY <1>1, <1>2, VMsFact DEF Born
  <2>2. InList(h)' <=> InList(h)
    BY <1>1, VMsFact DEF InList, Unlisted, Destroying
  <2>3. OwnShred(h)' <=> OwnShred(h)
    BY <1>1, VMsFact DEF OwnShred
  <2>4. h = v /\ waits[t] => AtEvent(h)
    BY <1>1 DEF AtEvent, Owed, Idle
  <2>5. AtEvent(h)' <=> AtEvent(h) /\ ~(h = v /\ waits[t])
    <3>1. waits[t] => \A g \in Forks : waits[g] /\ Up[g] = v => g = t
      BY <1>1, WaiterFact DEF EInv
    <3>2. \A g \in Forks : Owed(g)' <=> Owed(g) /\ g # t
      BY <1>1, VMsFact DEF Owed, Flags
    <3> QED  BY <1>1, <3>1, <3>2 DEF AtEvent, Owed
  <2>6. Settled(h)' => Settled(h)
    BY <1>1, <2>5, VMsFact DEF Settled
  <2> QED  BY <2>1, <2>2, <2>3, <2>4, <2>5, <2>6
<1>3. Exact'
  <2> SUFFICES ASSUME NEW h \in Forks, Born(h)', Settled(h)' PROVE ref'[h] = Holders(h)'
    BY DEF Exact
  <2>1. Holders(h)' = One(InList(h)') + One(OwnShred(h)') + One(AtEvent(h)')
    BY DEF Holders
  <2>2. ref[h] = One(InList(h)) + One(OwnShred(h)) + One(AtEvent(h))
    BY <1>2 DEF EInv, Exact, Holders
  <2> QED  BY <1>1, <1>2, <2>1, <2>2 DEF One
<1>4. Kept'
  BY <1>1, <1>2 DEF EInv, Kept
<1>5. Spent'
  <2> SUFFICES ASSUME NEW h \in Forks, Born(h)', ref'[h] = 0
               PROVE  h \in freed \/ (pc'[Up[h]] \in Destroying /\ job[Up[h]].fork = h)
    BY <1>1 DEF Spent
  <2>1. h # v
    <3> SUFFICES ASSUME h = v PROVE FALSE
      OBVIOUS
    <3>1. InList(h)
      BY <1>1, BusyFact DEF EInv, Idle
    <3>2. InList(h)'
      BY <1>2, <3>1
    <3>3. ref'[h] >= Holders(h)'
      BY DEF IInv, Counted
    <3>4. Holders(h)' = One(InList(h)') + One(OwnShred(h)') + One(AtEvent(h)')
      BY DEF Holders
    <3> QED  BY <1>1, <3>2, <3>3, <3>4 DEF One
  <2>2. ref[h] = 0 /\ Born(h)
    BY <1>1, <1>2, <2>1
  <2> QED  BY <1>1, <2>2, VMsFact DEF EInv, Spent, Destroying
<1>6. Buried'
  BY <1>1, VMsFact DEF EInv, Buried, Past
<1>7. Bodies'
  BY <1>1, VMsFact DEF EInv, Bodies, Born
<1> QED  BY <1>3, <1>4, <1>5, <1>6, <1>7 DEF EInv

(* A list gives a fork back, which it still has.                           *)
LEMMA ReleaseE ==
  ASSUME EInv, IInv', NEW v \in VMs, NEW f \in Forks, Release(v, f)
  PROVE  EInv'
<1>1. /\ pc[v] = "release" /\ f \in todo[v] /\ Up[f] = v
      /\ \A u \in VMs \ {v} : pc'[u] = pc[u] /\ job'[u] = job[u] /\ todo'[u] = todo[u]
      /\ todo'[v] = todo[v] \ {f}
      /\ ref' = ref /\ waits' = waits /\ body' = body /\ kids' = kids /\ graves' = graves
      /\ freed' = freed /\ gone' = gone
      /\ Born(f)
      /\ f \in kids[v] => pc'[v] = "store" /\ job'[v].fork = f /\ job'[v].next = "release"
  BY DEF Release, Look, Count, Go, flags, dead, sync, EInv, IInv, JInv, TypeOK, Lists
<1>2. f \in kids[v]
  BY <1>1 DEF EInv, Kept, InList, Unlisted, Destroying
<1>3. SameHolders
  <2> SUFFICES ASSUME NEW g \in Forks, Born(g)'
               PROVE  /\ Born(g) /\ ref'[g] = ref[g] /\ (InList(g)' <=> InList(g))
                      /\ (OwnShred(g)' <=> OwnShred(g)) /\ (AtEvent(g)' <=> AtEvent(g))
                      /\ (Settled(g)' => Settled(g))
    BY DEF SameHolders
  <2>1. Born(g) /\ ref'[g] = ref[g]
    BY <1>1, VMsFact DEF Born
  <2>2. InList(g)' <=> InList(g)
    BY <1>1, <1>2, VMsFact DEF InList, Unlisted, Destroying
  <2>3. OwnShred(g)' <=> OwnShred(g)
    BY <1>1, <1>2, VMsFact DEF OwnShred
  <2>4. AtEvent(g)' <=> AtEvent(g)
    BY <1>1, <1>2, VMsFact DEF AtEvent, Owed
  <2>5. Settled(g)' => Settled(g)
    BY <1>1, <1>2, <2>4, VMsFact DEF Settled
  <2> QED  BY <2>1, <2>2, <2>3, <2>4, <2>5
<1>4. (Kept /\ Spent /\ Buried /\ Bodies)'
  <2>1. Kept'
    BY <1>1, <1>3 DEF EInv, Kept, SameHolders
  <2>2. Spent'
    BY <1>1, <1>2, <1>3, VMsFact DEF EInv, Spent, SameHolders, Destroying
  <2>3. Buried'
    BY <1>1, <1>2, VMsFact DEF EInv, Buried, Past
  <2>4. Bodies'
    BY <1>1, <1>2, VMsFact DEF EInv, Bodies, Born
  <2> QED  BY <2>1, <2>2, <2>3, <2>4
<1> QED  BY <1>3, <1>4, ExactFact DEF EInv

(* Every step keeps the exact counts.                                      *)
LEMMA NextE ==
  ASSUME MaxHolds = 0, EInv, [Next]_vars
  PROVE  EInv'
<1>1. IInv'
  BY NextI DEF EInv
<1>2. CASE UNCHANGED vars \/ Interrupt
  <2>1. SameHolders /\ (Kept /\ Spent /\ Buried /\ Bodies)'
    BY <1>2 DEF EInv, Kept, Spent, Buried, Bodies, SameHolders, InList, OwnShred, AtEvent,
         Owed, Unlisted, Settled, Past, Born, Destroying, Interrupt,
         vars, flags, counts, lists, dead, sync
  <2> QED  BY <1>1, <2>1, ExactFact DEF EInv
<1>3. \A v \in VMs, f \in Forks : ~Hold(v, f) /\ ~Drop(v, f)
  BY DEF Hold, Drop, EInv, IInv, JInv, TypeOK
<1>4. ASSUME NEW v \in VMs, Program(v)
      PROVE  EInv'
  BY <1>1, <1>3, <1>4, ExitE, ForkE, OthersE DEF Program
<1>5. ASSUME NEW v \in VMs, Loop(v)
      PROVE  EInv'
  BY <1>1, <1>5, StoreE, EnlistE, OthersE DEF Loop
<1>6. ASSUME NEW v \in VMs, Clean(v)
      PROVE  EInv'
  BY <1>1, <1>6, ThenE, DeafenE, ReleaseE, OthersE DEF Clean
<1>7. ASSUME NEW v \in Forks, Tail(v)
      PROVE  EInv'
  BY <1>1, <1>7, TellE, OthersE, VMsFact DEF Tail
<1> QED  BY <1>2, <1>4, <1>5, <1>6, <1>7 DEF Next, Thread, Ended

(* In the end nothing holds a fork whose body is over.                     *)
LEMMA NothingFact == EInv => NothingLeft
<1> SUFFICES ASSUME EInv, pc[Root] = "end", NEW f \in Forks
             PROVE  /\ Idle(f) /\ ~thread[f]
                    /\ body[f] = "over" \/ pc[f] = "never" => f \in freed \cap gone
  BY DEF NothingLeft
<1>1. \A g \in Forks : Idle(g) /\ ~thread[g]
  BY AllEndFact DEF EInv, IInv
<1>2. SUFFICES ASSUME body[f] = "over" \/ pc[f] = "never" PROVE f \in freed \cap gone
  BY <1>1
<1>3. Born(f) /\ Up[f] \in VMs
  BY <1>2, VMsFact DEF Born, EInv, Bodies
<1>4. pc[Up[f]] = "end"
  BY <1>1, <1>3, VMsFact DEF VMs, Idle, EInv, IInv, JInv, Childless
<1>5. ~InList(f) /\ ~OwnShred(f)
  BY <1>1, <1>2, <1>4 DEF InList, Unlisted, OwnShred, Idle
<1>6. ~AtEvent(f) /\ Settled(f)
  <2>1. body[f] # "asleep" /\ pc[f] # "leave"
    BY <1>1, <1>2 DEF EInv, Bodies, Idle
  <2>2. body[f] \notin {"asleep", "due"}
    BY <1>2 DEF EInv, Bodies
  <2> QED  BY <2>1, <2>2 DEF AtEvent, Owed, Settled, EInv, IInv, Waiting
<1>7. ref[f] = 0
  BY <1>3, <1>5, <1>6 DEF EInv, Exact, Holders, One
<1>8. f \in freed
  BY <1>3, <1>4, <1>7 DEF EInv, Spent, Destroying
<1> QED  BY <1>3, <1>4, <1>8 DEF EInv, Buried, Past

(* Initially no fork is born.                                              *)
LEMMA InitE == Init => EInv
<1> SUFFICES ASSUME Init PROVE EInv
  OBVIOUS
<1>1. \A f \in Forks : ~Born(f) /\ body[f] = "unborn" /\ pc[f] = "unborn"
  BY VMsFact DEF Init, Born
<1>2. freed = {} /\ \A v \in VMs : graves[v] = {}
  BY DEF Init
<1> QED  BY <1>1, <1>2, InitI DEF EInv, Exact, Kept, Spent, Buried, Bodies

-----------------------------------------------------------------------------
(* Theorems: what is left in the end.                                      *)

(* EInv is an invariant: but for a shred that entered the list of an event *)
(* after its broadcast (fork_join), counts are exact; and what reaches     *)
(* zero is destroyed, and its VM freed (fork_clean, fork_clean2).          *)
THEOREM ExactCounts ==
  ASSUME MaxHolds = 0
  PROVE  Spec => []EInv
<1>1. EInv /\ [Next]_vars => EInv'
  BY NextE
<1>2. Init => EInv
  BY InitE
<1> QED  BY <1>1, <1>2, PTL DEF Spec

(* When the program has ended all threads are joined, and the forks whose  *)
(* body came to its end are freed, object and VM.                          *)
THEOREM NothingIsLeft ==
  ASSUME MaxHolds = 0
  PROVE  Spec => []NothingLeft
BY NothingFact, ExactCounts, PTL
==============================================================================
