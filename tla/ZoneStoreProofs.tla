-------------------------- MODULE ZoneStoreProofs --------------------------
(*****************************************************************************)
(* Proofs about ZoneStore, for every set of zones, of API clients and of     *)
(* other tasks, every bound on the edits, the crashes and the journal.       *)
(*                                                                           *)
(* AckedEditsWereServed holds whoever writes.  The other five invariants     *)
(* are false when an UPDATE, a transfer or a reload writes beside the API    *)
(* (the violation runs show how), so they are proved for OnlyApiWrites: the  *)
(* write lock of api.rs is enough exactly as long as every writer takes it.  *)
(*                                                                           *)
(* The argument follows what a task has left to do.  Its plan is a list of   *)
(* steps; Shape and WriterSteps say what order every rest of a plan keeps,   *)
(* and JobOK and WriterOK what the task relies on at each point of it.       *)
(*****************************************************************************)
EXTENDS ZoneStore, TLAPS

USE Zenon


(* The steps that the plans of the tasks are made of. *)
Steps ==
    {"read", "set", "logDisk", "logMem", "signRead", "signSet", "truncate", "write",
     "unlink", "ack", "load"}

(* What a zone may hold: a serial and the edits it contains. *)
Content == [serial : Int, edits : SUBSET Nat]

(* What a task holds while it works. *)
JobType ==
    [todo : Seq(Steps), zone : Zones \cup {NoZone}, old : Content, new : Content,
     snap : [Zones -> Content]]

(* The task still has to report its change as done. *)
HasAck(s) == \E i \in 1..Len(s) : s[i] = "ack"

(*****************************************************************************)
(* What all the plans have in common, and every rest of a plan keeps: the    *)
(* zones are set once, a truncation is followed by the write, the reply      *)
(* comes last, and a task that replies signs after it has set the zones.     *)
(*****************************************************************************)
Shape(s) ==
    /\ \A i, j \in 1..Len(s) : s[i] = "set" /\ s[j] = "set" => i = j
    /\ \A i \in 1..Len(s) : s[i] = "truncate" => i + 1 \in 1..Len(s) /\ s[i + 1] = "write"
    /\ \A i \in 1..Len(s) : s[i] = "ack" => i = Len(s)
    /\ \A i \in 1..Len(s) : s[i] = "load" => i + 1 \in 1..Len(s)
    /\ HasAck(s) => \A i \in 1..Len(s) : s[i] # "load"
    /\ HasAck(s) => \A i, j \in 1..Len(s) : s[i] = "set" /\ s[j] = "signRead" => i < j

(*****************************************************************************)
(* Before a task replies, its zone is served: what it sets, or will have     *)
(* read before it does, has the new zone in it, and with nothing to set any  *)
(* more the change was served already.                                       *)
(*****************************************************************************)
Promise(s, z, new, snap, sv) ==
    /\ z \in Zones
    /\ \A i \in 1..Len(s) :
           s[i] = "set" => snap[z] = new \/ \E j \in 1..(i - 1) : s[j] = "read"
    /\ (\A i \in 1..Len(s) : s[i] # "set") =>
           new = NoContent \/ \E c \in sv[z] : new.edits \subseteq c.edits

(* A task is in order. *)
JobOK(j, sv) ==
    /\ j \in JobType
    /\ Shape(j.todo)
    /\ HasAck(j.todo) => Promise(j.todo, j.zone, j.new, j.snap, sv)

(* The inductive invariant behind AckedEditsWereServed. *)
ServedInv ==
    /\ live \in [Zones -> Content] /\ file \in [Zones -> Content]
    /\ served \in [Zones -> SUBSET Content]
    /\ DOMAIN task = Tasks /\ \A t \in Tasks : JobOK(task[t], served)
    /\ acked \subseteq Zones \X Nat /\ AckedEditsWereServed
    /\ edits \in Nat

(* u is s without its first d elements. *)
Drops(s, u, d) ==
    /\ s \in Seq(Steps) /\ u \in Seq(Steps) /\ d \in Nat /\ Len(s) = Len(u) + d
    /\ \A i \in 1..Len(u) : u[i] = s[i + d]

(* What the head and the tail of a list of steps are. *)
LEMMA DropOne ==
    ASSUME NEW s \in Seq(Steps), s # <<>>
    PROVE  Drops(s, Tail(s), 1) /\ Head(s) = s[1] /\ 1 \in 1..Len(s)
<1>1. Len(s) \in Nat /\ Len(s) >= 1
  BY SMT
<1>2. Tail(s) \in Seq(Steps) /\ Len(Tail(s)) = Len(s) - 1
  BY SMT
<1>3. \A i \in 1..Len(Tail(s)) : Tail(s)[i] = s[i + 1]
  BY <1>1, <1>2, SMT
<1> QED  BY <1>1, <1>2, <1>3, SMT DEF Drops

(* The same for two steps. *)
LEMMA DropTwo ==
    ASSUME NEW s \in Seq(Steps), 2 \in 1..Len(s)
    PROVE  Drops(s, Tail(Tail(s)), 2)
<1>1. s # <<>> /\ Len(s) \in Nat /\ Len(s) >= 2
  BY SMT
<1>2. PICK u : u = Tail(s)
  OBVIOUS
<1>3. Drops(s, u, 1)
  BY <1>1, <1>2, DropOne
<1>4. u \in Seq(Steps) /\ Len(u) >= 1
  BY <1>1, <1>3, SMT DEF Drops
<1>5. Drops(u, Tail(u), 1)
  <2>1. u # <<>>
    BY <1>4, SMT
  <2> QED  BY <1>4, <2>1, DropOne
<1>6. \A i \in 1..Len(Tail(u)) : i + 1 \in 1..Len(u) /\ (i + 1) + 1 = i + 2
  BY <1>5, SMT DEF Drops
<1>7. \A i \in 1..Len(Tail(u)) : Tail(u)[i] = s[i + 2]
  BY <1>3, <1>5, <1>6 DEF Drops
<1>8. Drops(s, Tail(u), 2)
  BY <1>3, <1>5, <1>7, SMT DEF Drops
<1> QED  BY <1>2, <1>8

(* A rest of a plan replies only if the plan did. *)
LEMMA AckFromBefore ==
    ASSUME NEW s, NEW u, NEW d, Drops(s, u, d), HasAck(u)
    PROVE  HasAck(s)
<1>1. PICK i \in 1..Len(u) : u[i] = "ack"
  BY DEF HasAck
<1>2. i + d \in 1..Len(s) /\ s[i + d] = "ack"
  BY <1>1, SMT DEF Drops
<1> QED  BY <1>2 DEF HasAck

(* A rest of a plan has the shape of a plan. *)
LEMMA ShapeDrops ==
    ASSUME NEW s, NEW u, NEW d, Shape(s), Drops(s, u, d)
    PROVE  Shape(u)
<1>1. \A i \in 1..Len(u) : i + d \in 1..Len(s) /\ u[i] = s[i + d]
  BY SMT DEF Drops
<1>2. d \in Nat /\ Len(u) \in Nat /\ Len(s) \in Nat /\ Len(s) = Len(u) + d
  BY SMT DEF Drops
<1>3. \A i, j \in 1..Len(u) : u[i] = "set" /\ u[j] = "set" => i = j
  <2>1. \A i, j \in 1..Len(u) : i + d = j + d => i = j
    BY <1>2, SMT
  <2> QED  BY <1>1, <2>1, SMT DEF Shape
<1>4. ASSUME NEW i \in 1..Len(u), u[i] = "truncate"
      PROVE  i + 1 \in 1..Len(u) /\ u[i + 1] = "write"
  <2>1. (i + d) + 1 \in 1..Len(s) /\ s[(i + d) + 1] = "write"
    BY <1>1, <1>4 DEF Shape
  <2>2. i + 1 \in 1..Len(u) /\ (i + 1) + d = (i + d) + 1
    BY <1>2, <2>1, SMT
  <2> QED  BY <1>1, <2>1, <2>2
<1>5. ASSUME HasAck(u)
      PROVE  /\ \A i \in 1..Len(u) : u[i] # "load"
             /\ \A i, j \in 1..Len(u) : u[i] = "set" /\ u[j] = "signRead" => i < j
  <2>1. /\ \A i \in 1..Len(s) : s[i] # "load"
        /\ \A i, j \in 1..Len(s) : s[i] = "set" /\ s[j] = "signRead" => i < j
    BY <1>5, AckFromBefore DEF Shape
  <2>2. \A i, j \in 1..Len(u) : i + d < j + d => i < j
    BY <1>2, SMT
  <2> QED  BY <1>1, <2>1, <2>2
<1>6. \A i \in 1..Len(u) : u[i] = "ack" => i = Len(u)
  BY <1>1, <1>2, SMT DEF Shape
<1>7. \A i \in 1..Len(u) : u[i] = "load" => i + 1 \in 1..Len(u)
  <2>1. \A i \in 1..Len(u) : (i + d) + 1 \in 1..Len(s) => i + 1 \in 1..Len(u)
    BY <1>2, SMT
  <2> QED  BY <1>1, <2>1 DEF Shape
<1> QED  BY <1>3, <1>4, <1>5, <1>6, <1>7 DEF Shape

(* A step that neither reads nor sets the zones keeps the promise. *)
LEMMA PromiseDrops ==
    ASSUME NEW s, NEW u, NEW d, Drops(s, u, d), NEW z, NEW new, NEW snap, NEW sv,
           Promise(s, z, new, snap, sv),
           \A i \in 1..d : s[i] \notin {"set", "read"}
    PROVE  Promise(u, z, new, snap, sv)
<1>1. \A i \in 1..Len(u) : i + d \in 1..Len(s) /\ u[i] = s[i + d]
  BY SMT DEF Drops
<1>2. d \in Nat /\ Len(u) \in Nat /\ Len(s) \in Nat /\ Len(s) = Len(u) + d
  BY SMT DEF Drops
<1>3. ASSUME NEW i \in 1..Len(u), u[i] = "set", snap[z] # new
      PROVE  \E j \in 1..(i - 1) : u[j] = "read"
  <2>1. PICK k \in 1..((i + d) - 1) : s[k] = "read"
    BY <1>1, <1>3 DEF Promise
  <2>2. k \notin 1..d
    BY <2>1
  <2>3. k - d \in 1..(i - 1) /\ k - d \in 1..Len(u) /\ (k - d) + d = k
    BY <1>2, <2>2, SMT
  <2> QED  BY <1>1, <2>1, <2>3
<1>4. ASSUME \A i \in 1..Len(u) : u[i] # "set"
      PROVE  \A i \in 1..Len(s) : s[i] # "set"
  <2> SUFFICES ASSUME NEW i \in 1..Len(s), i \notin 1..d PROVE s[i] # "set"
    OBVIOUS
  <2>1. i - d \in 1..Len(u) /\ (i - d) + d = i
    BY <1>2, SMT
  <2> QED  BY <1>1, <1>4, <2>1
<1> QED  BY <1>3, <1>4 DEF Promise

(* A promise is kept when more was served. *)
LEMMA Grown ==
    ASSUME NEW j, NEW sv, NEW sv2, JobOK(j, sv), \A z \in Zones : sv[z] \subseteq sv2[z]
    PROVE  JobOK(j, sv2)
BY DEF JobOK, Promise

(* A task with nothing to do is in order. *)
LEMMA IdleOK == ASSUME NEW sv PROVE JobOK(Idle, sv)
<1>1. <<>> \in Seq(Steps) /\ Len(<<>>) = 0
  BY SMT
<1>2. Idle \in JobType /\ Idle.todo = <<>>
  BY <1>1, SMT DEF Idle, JobType, NoContent, Content
<1> QED  BY <1>1, <1>2, SMT DEF JobOK, Shape, HasAck

(* The plans have the shape, and their steps are steps. *)
LEMMA PlanShapes ==
    ASSUME NEW z
    PROVE  /\ PatchPlan(z) \in Seq(Steps) /\ Shape(PatchPlan(z))
           /\ CreatePlan(z) \in Seq(Steps) /\ Shape(CreatePlan(z))
           /\ DeletePlan \in Seq(Steps) /\ Shape(DeletePlan)
           /\ UpdatePlan(z) \in Seq(Steps) /\ Shape(UpdatePlan(z))
           /\ TransferPlan \in Seq(Steps) /\ Shape(TransferPlan)
           /\ TimerPlan \in Seq(Steps) /\ Shape(TimerPlan)
           /\ ReloadPlan \in Seq(Steps) /\ Shape(ReloadPlan)
<1>1. PatchPlan(z) \in Seq(Steps) /\ Shape(PatchPlan(z))
  <2>1. CASE z \in Signed
    BY <2>1, SMT DEF PatchPlan, Shape, HasAck, Steps
  <2>2. CASE z \notin Signed
    BY <2>2, SMT DEF PatchPlan, Shape, HasAck, Steps
  <2> QED  BY <2>1, <2>2
<1>2. CreatePlan(z) \in Seq(Steps) /\ Shape(CreatePlan(z))
  <2>1. CASE z \in Signed
    BY <2>1, SMT DEF CreatePlan, Shape, HasAck, Steps
  <2>2. CASE z \notin Signed
    BY <2>2, SMT DEF CreatePlan, Shape, HasAck, Steps
  <2> QED  BY <2>1, <2>2
<1>3. DeletePlan \in Seq(Steps) /\ Shape(DeletePlan)
  BY SMT DEF DeletePlan, Shape, HasAck, Steps
<1>4. UpdatePlan(z) \in Seq(Steps) /\ Shape(UpdatePlan(z))
  <2>1. CASE z \in Signed
    BY <2>1, SMT DEF UpdatePlan, Shape, HasAck, Steps
  <2>2. CASE z \notin Signed
    BY <2>2, SMT DEF UpdatePlan, Shape, HasAck, Steps
  <2> QED  BY <2>1, <2>2
<1>5. TransferPlan \in Seq(Steps) /\ Shape(TransferPlan)
  BY SMT DEF TransferPlan, Shape, HasAck, Steps
<1>6. TimerPlan \in Seq(Steps) /\ Shape(TimerPlan)
  BY SMT DEF TimerPlan, Shape, HasAck, Steps
<1>7. ReloadPlan \in Seq(Steps) /\ Shape(ReloadPlan)
  BY SMT DEF ReloadPlan, Shape, HasAck, Steps
<1> QED  BY <1>1, <1>2, <1>3, <1>4, <1>5, <1>6, <1>7

(* One task is given another job, while what was served is served. *)
LEMMA JobReplaced ==
    ASSUME ServedInv, NEW t \in Tasks, NEW job, task' = [task EXCEPT ![t] = job],
           \A z \in Zones : served[z] \subseteq served'[z], JobOK(job, served')
    PROVE  DOMAIN task' = Tasks /\ \A u \in Tasks : JobOK(task'[u], served')
<1>1. DOMAIN task' = Tasks /\ task'[t] = job /\ \A u \in Tasks \ {t} : task'[u] = task[u]
  BY DEF ServedInv
<1>2. \A u \in Tasks : JobOK(task[u], served')
  BY Grown DEF ServedInv
<1> QED  BY <1>1, <1>2

(* A task that goes on with a rest of its plan, or is done, is in order. *)
LEMMA Finished ==
    ASSUME ServedInv, NEW t \in Tasks, NEW u, NEW d, Drops(task[t].todo, u, d), Finish(t, u),
           \A z \in Zones : served[z] \subseteq served'[z],
           HasAck(u) => Promise(u, task[t].zone, task[t].new, task[t].snap, served')
    PROVE  DOMAIN task' = Tasks /\ \A v \in Tasks : JobOK(task'[v], served')
<1> DEFINE job == IF u = <<>> THEN Idle ELSE [task[t] EXCEPT !.todo = u]
<1>1. task' = [task EXCEPT ![t] = job]
  BY DEF Finish
<1>2. JobOK(job, served')
  <2>1. CASE u = <<>>
    BY <2>1, IdleOK
  <2>2. CASE u # <<>>
    <3> DEFINE j == [task[t] EXCEPT !.todo = u]
    <3>1. task[t] \in JobType /\ Shape(task[t].todo)
      BY DEF ServedInv, JobOK
    <3>2. /\ j \in JobType /\ j.todo = u /\ j.zone = task[t].zone
          /\ j.new = task[t].new /\ j.snap = task[t].snap
      BY <3>1 DEF JobType, Drops
    <3>3. Shape(u)
      BY <3>1, ShapeDrops
    <3> HIDE DEF j
    <3>4. JobOK(j, served')
      BY <3>2, <3>3 DEF JobOK
    <3> QED  BY <2>2, <3>4 DEF j
  <2> QED  BY <2>1, <2>2
<1> HIDE DEF job
<1> QED  BY <1>1, <1>2, JobReplaced

(* A step that neither sets nor reads the zones only shortens the list. *)
LEMMA Shortened ==
    ASSUME ServedInv, NEW t \in Tasks, NEW u, NEW d, Drops(task[t].todo, u, d), Finish(t, u),
           \A i \in 1..d : task[t].todo[i] \notin {"set", "read"}, UNCHANGED served
    PROVE  DOMAIN task' = Tasks /\ \A v \in Tasks : JobOK(task'[v], served')
<1>1. ASSUME HasAck(u) PROVE Promise(u, task[t].zone, task[t].new, task[t].snap, served')
  <2>1. Promise(task[t].todo, task[t].zone, task[t].new, task[t].snap, served)
    BY <1>1, AckFromBefore DEF ServedInv, JobOK
  <2>2. Promise(u, task[t].zone, task[t].new, task[t].snap, served)
    BY <2>1, PromiseDrops
  <2> QED  BY <2>2
<1> QED  BY <1>1, Finished

(* The first step of a task, and what is left after it. *)
LEMMA AtHead ==
    ASSUME ServedInv, NEW t \in Tasks, NEW step, Does(t, step)
    PROVE  /\ task[t].todo \in Seq(Steps) /\ task[t].todo[1] = step /\ 1 \in 1..Len(task[t].todo)
           /\ Drops(task[t].todo, Tail(task[t].todo), 1)
<1>1. task[t].todo \in Seq(Steps) /\ task[t].todo # <<>> /\ Head(task[t].todo) = step
  BY DEF ServedInv, JobOK, JobType, Does
<1> QED  BY <1>1, DropOne

(* A task that goes on with another copy of the zones. *)
LEMMA Held ==
    ASSUME ServedInv, NEW t \in Tasks, NEW step, Does(t, step), NEW snap \in [Zones -> Content],
           Holding(t, snap), UNCHANGED served,
           LET u == Tail(task[t].todo) IN
           HasAck(u) => Promise(u, task[t].zone, task[t].new, snap, served)
    PROVE  DOMAIN task' = Tasks /\ \A v \in Tasks : JobOK(task'[v], served')
<1> DEFINE u == Tail(task[t].todo)
           job == [task[t] EXCEPT !.todo = Tail(@), !.snap = snap]
<1>1. task' = [task EXCEPT ![t] = job]
  BY DEF Holding
<1>2. Drops(task[t].todo, u, 1)
  BY AtHead
<1>3. task[t] \in JobType /\ Shape(task[t].todo)
  BY DEF ServedInv, JobOK
<1>4. u \in Seq(Steps) /\ Shape(u)
  BY <1>2, <1>3, ShapeDrops DEF Drops
<1>5. /\ job \in JobType /\ job.todo = u /\ job.zone = task[t].zone
      /\ job.new = task[t].new /\ job.snap = snap
  BY <1>3, <1>4 DEF JobType
<1>6. HasAck(u) => Promise(u, task[t].zone, task[t].new, snap, served')
  OBVIOUS
<1> HIDE DEF u, job
<1>7. JobOK(job, served')
  BY <1>4, <1>5, <1>6 DEF JobOK
<1> QED  BY <1>1, <1>7, JobReplaced

(* A task that starts a plan is in order if the plan keeps the promise. *)
LEMMA Started ==
    ASSUME ServedInv, NEW t \in Tasks, NEW plan \in Seq(Steps), Shape(plan),
           NEW z \in Zones \cup {NoZone}, NEW old \in Content, NEW new \in Content,
           NEW snap \in [Zones -> Content],
           Start(t, Job(plan, z, old, new, snap)), UNCHANGED served,
           HasAck(plan) => Promise(plan, z, new, snap, served)
    PROVE  DOMAIN task' = Tasks /\ \A u \in Tasks : JobOK(task'[u], served')
<1> DEFINE job == Job(plan, z, old, new, snap)
<1>1. task' = [task EXCEPT ![t] = job]
  BY DEF Start
<1>2. job \in JobType /\ job.todo = plan /\ job.zone = z /\ job.new = new /\ job.snap = snap
  BY DEF Job, JobType
<1> HIDE DEF job
<1>3. JobOK(job, served')
  BY <1>2 DEF JobOK
<1> QED  BY <1>1, <1>3, JobReplaced

(* Where the plans set and read the zones. *)
LEMMA FirstSteps ==
    ASSUME NEW z
    PROVE  /\ 1 \in 1..Len(PatchPlan(z)) /\ PatchPlan(z)[1] = "set"
           /\ 1 \in 1..Len(CreatePlan(z)) /\ CreatePlan(z)[1] = "set"
           /\ 1 \in 1..Len(DeletePlan) /\ DeletePlan[1] = "set"
           /\ 4 \in 1..Len(UpdatePlan(z)) /\ UpdatePlan(z)[4] = "set"
           /\ 3 \in 1..Len(UpdatePlan(z)) /\ UpdatePlan(z)[3] = "read"
           /\ ~HasAck(TransferPlan) /\ ~HasAck(TimerPlan) /\ ~HasAck(ReloadPlan)
<1>1. CASE z \in Signed
  BY <1>1, SMT DEF PatchPlan, CreatePlan, DeletePlan, UpdatePlan, TransferPlan, TimerPlan, ReloadPlan, HasAck
<1>2. CASE z \notin Signed
  BY <1>2, SMT DEF PatchPlan, CreatePlan, DeletePlan, UpdatePlan, TransferPlan, TimerPlan, ReloadPlan, HasAck
<1> QED  BY <1>1, <1>2

(* Edited, created, empty and torn zones are contents. *)
LEMMA Contents ==
    /\ NoContent \in Content /\ Original \in Content /\ Torn \in Content
    /\ Idle.snap \in [Zones -> Content]
    /\ \A z \in Content, n \in Int, e \in Nat : Edited(z, n, e) \in Content
    /\ \A n \in Int, e \in Nat : Zone(n, {e}) \in Content
BY SMT DEF NoContent, Original, Torn, Zone, Edited, Content, Idle

(* Arithmetic that the steps below use. *)
LEMMA NatIsInt == \A n \in Nat : n \in Int
BY SMT

(* Every action preserves the invariant. *)
LEMMA ServedStep == ServedInv /\ [Next]_vars => ServedInv'
<1> SUFFICES ASSUME ServedInv, [Next]_vars PROVE ServedInv'
  OBVIOUS
<1>0. /\ live \in [Zones -> Content] /\ file \in [Zones -> Content] /\ edits \in Nat
      /\ served \in [Zones -> SUBSET Content] /\ acked \subseteq Zones \X Nat
  BY DEF ServedInv
<1>a. ASSUME DOMAIN task' = Tasks /\ \A u \in Tasks : JobOK(task'[u], served'),
             live' \in [Zones -> Content], file' \in [Zones -> Content], edits' \in Nat,
             acked' \subseteq acked, UNCHANGED served
      PROVE  ServedInv'
  BY <1>a DEF ServedInv, AckedEditsWereServed
<1>b. ASSUME NEW t \in Tasks, NEW z \in Zones, NEW plan \in Seq(Steps), Shape(plan),
             1 \in 1..Len(plan), plan[1] = "set", NEW old \in Content, NEW new \in Content,
             ApiStart(t, Job(plan, z, old, new, [live EXCEPT ![z] = new])), edits' \in Nat,
             acked' \subseteq acked
      PROVE  ServedInv'
  <2> DEFINE snap == [live EXCEPT ![z] = new]
  <2>1. snap \in [Zones -> Content] /\ snap[z] = new
    BY <1>0
  <2>2. /\ Start(t, Job(plan, z, old, new, snap))
        /\ UNCHANGED <<live, file, served>>
    BY <1>b DEF ApiStart, disk
  <2> HIDE DEF snap
  <2>3. Promise(plan, z, new, snap, served)
    BY <1>b, <2>1 DEF Promise
  <2>4. DOMAIN task' = Tasks /\ \A u \in Tasks : JobOK(task'[u], served')
    BY <1>b, <2>1, <2>2, <2>3, Started
  <2> QED  BY <1>0, <1>a, <1>b, <2>2, <2>4
<1>c. ASSUME NEW z, NEW new, NewEdit(z, new) PROVE edits + 1 \in Nat /\ edits' \in Nat
  BY <1>0, <1>c, SMT DEF NewEdit
<1>d. ClientSerials \subseteq Int /\ \A z \in Zones : live[z].serial \in Int
  <2>1. ClientSerials \subseteq Int
    BY ZoneStoreAssumption, NatIsInt
  <2> QED  BY <1>0, <2>1 DEF Content
<1>1. ASSUME NEW t \in ApiTasks, NEW z \in Zones, NEW n \in ClientSerials \cup {live[z].serial},
             Patch(t, z, n)
      PROVE  ServedInv'
  <2>1. live[z] \in Content /\ Edited(live[z], n, edits + 1) \in Content /\ edits' \in Nat
    BY <1>0, <1>1, <1>c, <1>d, Contents DEF Patch
  <2>2. acked' \subseteq acked
    BY <1>1 DEF Patch
  <2> QED  BY <1>1, <1>b, <2>1, <2>2, PlanShapes, FirstSteps DEF Patch, Tasks
<1>2. ASSUME NEW t \in ApiTasks, NEW z \in Zones, NEW n \in ClientSerials, Create(t, z, n)
      PROVE  ServedInv'
  <2>1. Zone(n, {edits + 1}) \in Content /\ NoContent \in Content /\ edits' \in Nat
    BY <1>2, <1>c, <1>d, Contents DEF Create
  <2>2. acked' \subseteq acked
    BY <1>2 DEF Create
  <2> QED  BY <1>2, <1>b, <2>1, <2>2, PlanShapes, FirstSteps DEF Create, Tasks
<1>3. ASSUME NEW t \in ApiTasks, NEW z \in Zones, Delete(t, z) PROVE ServedInv'
  <2>1. live[z] \in Content /\ NoContent \in Content /\ edits' \in Nat
    BY <1>0, <1>3, Contents DEF Delete
  <2>2. acked' \subseteq acked
    BY <1>3 DEF Delete
  <2> QED  BY <1>3, <1>b, <2>1, <2>2, PlanShapes, FirstSteps DEF Delete, Tasks
<1>4. ASSUME NEW t \in UpdateTasks, NEW z \in Zones, Update(t, z) PROVE ServedInv'
  <2> DEFINE new == Edited(live[z], live[z].serial, edits + 1)
  <2>1. /\ NewEdit(z, new) /\ Start(t, Job(UpdatePlan(z), z, live[z], new, Idle.snap))
        /\ UNCHANGED <<live, file, acked, served>>
    BY <1>4 DEF Update, shared, disk
  <2>2. live[z] \in Content /\ new \in Content
    BY <1>0, <1>c, <1>d, <2>1, Contents
  <2> HIDE DEF new
  <2>3. \A i \in 1..Len(UpdatePlan(z)) : UpdatePlan(z)[i] = "set" => i = 4
    BY PlanShapes, FirstSteps, SMT DEF Shape
  <2>4. 3 \in 1..(4 - 1)
    BY SMT
  <2>5. Promise(UpdatePlan(z), z, new, Idle.snap, served)
    BY <2>3, <2>4, FirstSteps DEF Promise
  <2>6. DOMAIN task' = Tasks /\ \A u \in Tasks : JobOK(task'[u], served')
    BY <2>1, <2>2, <2>5, Started, PlanShapes, Contents DEF Tasks
  <2> QED  BY <1>0, <1>a, <1>c, <2>1, <2>6
<1>5. ASSUME NEW t \in Transfers, NEW z \in Zones, Transfer(t, z) PROVE ServedInv'
  <2> DEFINE new == Zone(IF live[z] = NoContent THEN 1 ELSE live[z].serial + 1, {edits + 1})
  <2>1. /\ NewEdit(z, new) /\ Start(t, Job(TransferPlan, z, NoContent, new, Idle.snap))
        /\ UNCHANGED <<live, file, acked, served>>
    BY <1>5 DEF Transfer, shared, disk
  <2>2. new \in Content
    <3>1. (IF live[z] = NoContent THEN 1 ELSE live[z].serial + 1) \in Int
      BY <1>0, SMT DEF Content
    <3> QED  BY <1>c, <2>1, <3>1, Contents
  <2> HIDE DEF new
  <2>3. DOMAIN task' = Tasks /\ \A u \in Tasks : JobOK(task'[u], served')
    BY <2>1, <2>2, Started, PlanShapes, FirstSteps, Contents DEF Tasks
  <2> QED  BY <1>0, <1>a, <1>c, <2>1, <2>3
<1>6. ASSUME NEW t \in Tasks, TimerFires(t) \/ Hangup(t) PROVE ServedInv'
  <2>1. PICK plan \in {TimerPlan, ReloadPlan} : Start(t, [Idle EXCEPT !.todo = plan])
    BY <1>6 DEF TimerFires, Hangup
  <2>2. [Idle EXCEPT !.todo = plan] = Job(plan, NoZone, NoContent, NoContent, Idle.snap)
    BY SMT DEF Idle, Job
  <2>3. UNCHANGED <<live, file, edits, acked, served>>
    BY <1>6 DEF TimerFires, Hangup, shared, disk, history, counts
  <2>4. plan \in Seq(Steps) /\ Shape(plan) /\ ~HasAck(plan)
    BY PlanShapes, FirstSteps
  <2>5. Start(t, Job(plan, NoZone, NoContent, NoContent, Idle.snap))
    BY <2>1, <2>2
  <2>6. NoZone \in Zones \cup {NoZone} /\ UNCHANGED served
    BY <2>3
  <2>7. DOMAIN task' = Tasks /\ \A u \in Tasks : JobOK(task'[u], served')
    BY <2>4, <2>5, <2>6, Started, Contents
  <2> QED  BY <1>0, <1>a, <2>3, <2>7
<1>7. ASSUME NEW t \in Tasks, ReadZones(t) PROVE ServedInv'
  <2> DEFINE s == task[t].todo u == Tail(task[t].todo) z == task[t].zone
             snap == [live EXCEPT ![task[t].zone] = task[t].new]
  <2>1. Does(t, "read") /\ Holding(t, snap) /\ UNCHANGED <<live, file, edits, acked, served>>
    BY <1>7 DEF ReadZones, shared, disk, history, counts
  <2>2. s[1] = "read" /\ Drops(s, u, 1) /\ JobOK(task[t], served)
    BY <2>1, AtHead DEF ServedInv
  <2>3. snap \in [Zones -> Content]
    BY <1>0, <2>2 DEF JobOK, JobType
  <2>4. ASSUME HasAck(u) PROVE Promise(u, z, task[t].new, snap, served)
    <3>1. Promise(s, z, task[t].new, task[t].snap, served)
      BY <2>2, <2>4, AckFromBefore DEF JobOK
    <3>2. z \in Zones /\ snap[z] = task[t].new
      BY <1>0, <3>1 DEF Promise
    <3>3. (\A i \in 1..Len(u) : u[i] # "set") => \A i \in 1..Len(s) : s[i] # "set"
      <4> SUFFICES ASSUME \A i \in 1..Len(u) : u[i] # "set", NEW i \in 1..Len(s), i # 1
                   PROVE  s[i] # "set"
        BY <2>2
      <4>1. i - 1 \in 1..Len(u) /\ (i - 1) + 1 = i
        BY <2>2, SMT DEF Drops
      <4> QED  BY <2>2, <4>1 DEF Drops
    <3> HIDE DEF snap
    <3> QED  BY <3>1, <3>2, <3>3 DEF Promise
  <2> HIDE DEF snap
  <2>5. DOMAIN task' = Tasks /\ \A v \in Tasks : JobOK(task'[v], served')
    BY <2>1, <2>3, <2>4, Held
  <2> QED  BY <1>0, <1>a, <2>1, <2>5
<1>8. ASSUME NEW t \in Tasks, SetZones(t) PROVE ServedInv'
  <2> DEFINE s == task[t].todo u == Tail(task[t].todo) z == task[t].zone
  <2>1. /\ Does(t, "set") /\ live' = task[t].snap /\ Finish(t, u)
        /\ served' = [y \in Zones |-> served[y] \cup ({live'[y]} \ {NoContent})]
        /\ UNCHANGED <<file, edits, acked>>
    BY <1>8 DEF SetZones, Done, disk, counts
  <2>2. s[1] = "set" /\ Drops(s, u, 1) /\ JobOK(task[t], served) /\ 1 \in 1..Len(s)
    BY <2>1, AtHead DEF ServedInv
  <2>3. live' \in [Zones -> Content]
    BY <2>1, <2>2 DEF JobOK, JobType
  <2>4. served' \in [Zones -> SUBSET Content] /\ \A y \in Zones : served[y] \subseteq served'[y]
    BY <1>0, <2>1, <2>3
  <2>5. ASSUME HasAck(u) PROVE Promise(u, z, task[t].new, task[t].snap, served')
    <3>1. Promise(s, z, task[t].new, task[t].snap, served)
      BY <2>2, <2>5, AckFromBefore DEF JobOK
    <3>2. z \in Zones /\ task[t].snap[z] = task[t].new
      BY <2>2, <3>1, SMT DEF Promise
    <3>3. task[t].new = NoContent \/ task[t].new \in served'[z]
      BY <2>1, <2>3, <3>2
    <3>4. \A i \in 1..Len(u) : u[i] # "set"
      <4>1. \A i \in 1..Len(u) : i + 1 \in 1..Len(s) /\ i + 1 # 1 /\ u[i] = s[i + 1]
        BY <2>2, SMT DEF Drops
      <4> QED  BY <2>2, <4>1, SMT DEF JobOK, Shape
    <3> QED  BY <3>2, <3>3, <3>4 DEF Promise
  <2>6. DOMAIN task' = Tasks /\ \A v \in Tasks : JobOK(task'[v], served')
    BY <2>1, <2>2, <2>4, <2>5, Finished
  <2>7. AckedEditsWereServed'
    BY <1>0, <2>1, <2>4 DEF ServedInv, AckedEditsWereServed
  <2> QED  BY <1>0, <2>1, <2>3, <2>4, <2>6, <2>7 DEF ServedInv
<1>9. ASSUME NEW t \in Tasks, NEW step, Does(t, step), step \notin {"set", "read"},
             Done(t), UNCHANGED served
      PROVE  DOMAIN task' = Tasks /\ \A v \in Tasks : JobOK(task'[v], served')
  <2>1. task[t].todo[1] = step /\ Drops(task[t].todo, Tail(task[t].todo), 1)
    BY <1>9, AtHead
  <2>2. \A i \in 1..1 : task[t].todo[i] \notin {"set", "read"}
    BY <1>9, <2>1, SMT
  <2> QED  BY <1>9, <2>1, <2>2, Shortened DEF Done
<1>10. ASSUME NEW t \in Tasks, LogToDisk(t) \/ LogToMemory(t) \/ SetSigned(t) PROVE ServedInv'
  <2>1. /\ \E step \in {"logDisk", "logMem", "signSet"} : Does(t, step)
        /\ Done(t) /\ UNCHANGED <<live, file, edits, acked, served>>
    BY <1>10 DEF LogToDisk, LogToMemory, SetSigned, shared, disk, history, counts
  <2> QED  BY <1>0, <1>a, <1>9, <2>1
<1>11. ASSUME NEW t \in Tasks, TruncateFile(t) \/ WriteFile(t) \/ RemoveFile(t) PROVE ServedInv'
  <2>1. /\ \E step \in {"truncate", "write", "unlink"} : Does(t, step)
        /\ Done(t) /\ UNCHANGED <<live, edits, acked, served>>
    BY <1>11 DEF TruncateFile, WriteFile, RemoveFile, shared, history, counts
  <2>2. PICK c \in {Torn, task[t].new, NoContent} : file' = [file EXCEPT ![task[t].zone] = c]
    BY <1>11 DEF TruncateFile, WriteFile, RemoveFile
  <2>3. c \in Content
    BY Contents DEF ServedInv, JobOK, JobType
  <2>4. file' \in [Zones -> Content]
    BY <1>0, <2>2, <2>3
  <2> QED  BY <1>0, <1>a, <1>9, <2>1, <2>4
<1>12. ASSUME NEW t \in Tasks, ReadForSigning(t) PROVE ServedInv'
  <2> DEFINE s == task[t].todo u == Tail(task[t].todo)
  <2>1. Does(t, "signRead") /\ Holding(t, live) /\ UNCHANGED <<live, file, edits, acked, served>>
    BY <1>12 DEF ReadForSigning, shared, disk, history, counts
  <2>2. s[1] = "signRead" /\ 1 \in 1..Len(s) /\ Drops(s, u, 1) /\ JobOK(task[t], served)
    BY <2>1, AtHead DEF ServedInv
  <2>3. ASSUME HasAck(u) PROVE Promise(u, task[t].zone, task[t].new, live, served)
    <3>1. HasAck(s) /\ Promise(s, task[t].zone, task[t].new, task[t].snap, served)
      BY <2>2, <2>3, AckFromBefore DEF JobOK
    <3>2. \A i \in 1..Len(s) : s[i] # "set"
      <4>1. \A i \in 1..Len(s) : s[i] = "set" => i < 1
        BY <2>2, <3>1 DEF JobOK, Shape
      <4> QED  BY <4>1, SMT
    <3>3. \A i \in 1..Len(u) : u[i] # "set"
      BY <2>2, <3>2, SMT DEF Drops
    <3> QED  BY <3>1, <3>2, <3>3 DEF Promise
  <2>4. DOMAIN task' = Tasks /\ \A v \in Tasks : JobOK(task'[v], served')
    BY <1>0, <2>1, <2>3, Held
  <2> QED  BY <1>0, <1>a, <2>1, <2>4
<1>13. ASSUME NEW t \in Tasks, DiskFails(t) PROVE ServedInv'
  <2> DEFINE s == task[t].todo
  <2>1. PICK step \in {"truncate", "write", "unlink", "logDisk"} : Does(t, step)
    BY <1>13 DEF DiskFails
  <2>2. UNCHANGED <<live, file, edits, acked, served>>
    BY <1>13 DEF DiskFails, shared, disk, history, counts
  <2>3. /\ s \in Seq(Steps) /\ s[1] = step /\ Head(s) = step /\ 1 \in 1..Len(s)
        /\ Drops(s, Tail(s), 1) /\ Shape(s)
    BY <2>1, AtHead DEF ServedInv, JobOK, Does
  <2>4. CASE step = "truncate"
    <3>1. Finish(t, Tail(Tail(s)))
      BY <1>13, <2>3, <2>4 DEF DiskFails
    <3>2. 1 + 1 \in 1..Len(s) /\ s[1 + 1] = "write"
      BY <2>3, <2>4 DEF Shape
    <3>3. 2 \in 1..Len(s) /\ \A i \in 1..2 : s[i] \notin {"set", "read"}
      BY <2>3, <2>4, <3>2, SMT
    <3>4. Drops(s, Tail(Tail(s)), 2)
      BY <2>3, <3>3, DropTwo
    <3>5. DOMAIN task' = Tasks /\ \A v \in Tasks : JobOK(task'[v], served')
      BY <2>2, <3>1, <3>3, <3>4, Shortened
    <3> QED  BY <1>0, <1>a, <2>2, <3>5
  <2>5. CASE step # "truncate"
    <3>1. Done(t)
      BY <1>13, <2>3, <2>5 DEF DiskFails, Done
    <3> QED  BY <1>0, <1>a, <1>9, <2>1, <2>2, <3>1
  <2> QED  BY <2>4, <2>5
<1>14. ASSUME NEW t \in Tasks, Acknowledge(t) PROVE ServedInv'
  <2> DEFINE s == task[t].todo z == task[t].zone new == task[t].new
  <2>1. /\ Does(t, "ack") /\ Done(t) /\ UNCHANGED <<live, file, edits, served>>
        /\ acked' = acked \cup {<<z, e>> : e \in new.edits \ task[t].old.edits}
    BY <1>14 DEF Acknowledge, disk, counts
  <2>2. DOMAIN task' = Tasks /\ \A v \in Tasks : JobOK(task'[v], served')
    BY <1>9, <2>1
  <2>3. s[1] = "ack" /\ 1 \in 1..Len(s) /\ JobOK(task[t], served)
    BY <2>1, AtHead DEF ServedInv
  <2>4. HasAck(s) /\ Len(s) = 1
    BY <2>3 DEF HasAck, JobOK, Shape
  <2>5. \A i \in 1..Len(s) : s[i] # "set"
    BY <2>3, <2>4, SMT
  <2>6. z \in Zones /\ new \in Content /\ (new = NoContent \/ \E c \in served[z] : new.edits \subseteq c.edits)
    BY <2>3, <2>4, <2>5 DEF JobOK, Promise, JobType
  <2> HIDE DEF s, z, new
  <2>7. acked' \subseteq Zones \X Nat
    BY <1>0, <2>1, <2>6, SMT DEF Content
  <2>8. ASSUME NEW a \in acked' PROVE \E c \in served'[a[1]] : a[2] \in c.edits
    <3>1. CASE a \in acked
      BY <2>1, <3>1 DEF ServedInv, AckedEditsWereServed
    <3>2. CASE a \notin acked
      <4>1. \E e \in new.edits : a = <<z, e>>
        BY <2>1, <2>8, <3>2
      <4>2. new # NoContent
        BY <4>1, SMT DEF NoContent
      <4> QED  BY <2>1, <2>6, <4>1, <4>2, SMT
    <3> QED  BY <3>1, <3>2
  <2>9. AckedEditsWereServed'
    BY <2>8 DEF AckedEditsWereServed
  <2> QED  BY <1>0, <2>1, <2>2, <2>7, <2>9 DEF ServedInv
<1>15. OnDisk \in [Zones -> Content]
  BY <1>0, Contents DEF OnDisk
<1>16. ASSUME NEW t \in Tasks, LoadZones(t) PROVE ServedInv'
  <2> DEFINE s == task[t].todo
  <2>1. Does(t, "load") /\ UNCHANGED <<live, file, edits, acked, served>>
    BY <1>16 DEF LoadZones, shared, disk, history, counts
  <2>2. /\ s \in Seq(Steps) /\ s[1] = "load" /\ 1 \in 1..Len(s)
        /\ Drops(s, Tail(s), 1) /\ Shape(s)
    BY <2>1, AtHead DEF ServedInv, JobOK
  <2>3. ~HasAck(s)
    BY <2>2 DEF Shape
  <2>4. CASE Loadable
    <3>1. Holding(t, OnDisk) /\ ~HasAck(Tail(s))
      BY <1>16, <2>2, <2>3, <2>4, AckFromBefore DEF LoadZones
    <3>2. DOMAIN task' = Tasks /\ \A v \in Tasks : JobOK(task'[v], served')
      BY <1>15, <2>1, <3>1, Held
    <3> QED  BY <1>0, <1>a, <2>1, <3>2
  <2>5. CASE ~Loadable
    <3>1. Finish(t, Tail(Tail(s)))
      BY <1>16, <2>5 DEF LoadZones
    <3>2. Drops(s, Tail(Tail(s)), 2)
      <4>1. 1 + 1 \in 1..Len(s)
        BY <2>2 DEF Shape
      <4>2. 2 \in 1..Len(s)
        BY <4>1, SMT
      <4> QED  BY <2>2, <4>2, DropTwo
    <3>3. ~HasAck(Tail(Tail(s)))
      BY <2>3, <3>2, AckFromBefore
    <3>4. DOMAIN task' = Tasks /\ \A v \in Tasks : JobOK(task'[v], served')
      BY <2>1, <3>1, <3>2, <3>3, Finished
    <3> QED  BY <1>0, <1>a, <2>1, <3>4
  <2> QED  BY <2>4, <2>5
<1>17. ASSUME Restart PROVE ServedInv'
  <2>1. /\ task' = [t \in Tasks |-> Idle]
        /\ live' = IF Loadable THEN OnDisk ELSE [z \in Zones |-> NoContent]
        /\ served' = [z \in Zones |-> served[z] \cup ({live'[z]} \ {NoContent})]
        /\ acked' \subseteq acked /\ UNCHANGED <<file, edits>>
    BY <1>17 DEF Restart, disk, Promised
  <2>2. live' \in [Zones -> Content]
    BY <1>15, <2>1, Contents
  <2>3. served' \in [Zones -> SUBSET Content] /\ \A y \in Zones : served[y] \subseteq served'[y]
    BY <1>0, <2>1, <2>2
  <2>4. DOMAIN task' = Tasks /\ \A u \in Tasks : JobOK(task'[u], served')
    BY <2>1, IdleOK
  <2>5. AckedEditsWereServed'
    <3> SUFFICES ASSUME NEW a \in acked' PROVE \E c \in served'[a[1]] : a[2] \in c.edits
      BY DEF AckedEditsWereServed
    <3>1. a \in acked
      BY <2>1
    <3>2. a[1] \in Zones
      BY <1>0, <3>1
    <3>3. PICK c \in served[a[1]] : a[2] \in c.edits
      BY <3>1 DEF ServedInv, AckedEditsWereServed
    <3> QED  BY <2>3, <3>2, <3>3
  <2> QED  BY <1>0, <2>1, <2>2, <2>3, <2>4, <2>5 DEF ServedInv
<1>18. CASE UNCHANGED vars
  BY <1>18 DEF vars, ServedInv, AckedEditsWereServed
<1>19. ASSUME NEW t \in Tasks, Step(t) PROVE ServedInv'
  BY <1>19, <1>7, <1>8, <1>10, <1>11, <1>12, <1>13, <1>14, <1>16 DEF Step
<1> QED
  BY <1>1, <1>2, <1>3, <1>4, <1>5, <1>6, <1>17, <1>18, <1>19 DEF Next, Request, Tasks

(* At start every zone is served as it was loaded. *)
LEMMA ServedInit == Init => ServedInv
<1> SUFFICES ASSUME Init PROVE ServedInv
  OBVIOUS
<1>1. file \in [Zones -> Content]
  BY Contents DEF Init
<1>2. OnDisk \in [Zones -> Content]
  BY <1>1, Contents DEF OnDisk
<1>3. live \in [Zones -> Content] /\ served \in [Zones -> SUBSET Content]
  BY <1>2 DEF Init
<1>4. DOMAIN task = Tasks /\ \A t \in Tasks : JobOK(task[t], served)
  BY IdleOK DEF Init
<1> QED  BY <1>1, <1>3, <1>4 DEF Init, ServedInv, AckedEditsWereServed

(*****************************************************************************)
(* Whatever else writes, reloads, fails or crashes: the API and              *)
(* handle_update report a change as done only after a zone that contains it  *)
(* was served.                                                               *)
(*****************************************************************************)
THEOREM AcknowledgedWasServed == Spec => []AckedEditsWereServed
<1>1. ServedInv => AckedEditsWereServed
  BY DEF ServedInv
<1> QED  BY <1>1, ServedInit, ServedStep, PTL DEF Spec

----------------------------------------------------------------------------
(*****************************************************************************)
(* The server whose zones are changed through the API alone: the one for     *)
(* which the write lock of api.rs covers every writer. No zone file is in    *)
(* the configured list as well. Requests come at any time, from any number   *)
(* of clients, the timers re-sign beside them, file operations fail, and the *)
(* process may crash at any step.                                            *)
(*****************************************************************************)
OnlyApiWrites ==
    UpdateTasks = {} /\ Transfers = {} /\ Reloaders = {} /\ Listed = {}

(*****************************************************************************)
(* A rest of the plan of an API request that changes zone z: set the zones   *)
(* first if at all, sign right before the zone file is written, write it     *)
(* before the reply.                                                         *)
(*****************************************************************************)
WriterSteps(s, z) ==
    LET n == Len(s)
    IN  /\ n >= 1 => s[n] = "ack"
        /\ n >= 2 => s[n - 1] = "write"
        /\ n >= 3 => s[n - 2] = "truncate"
        /\ \A i \in 1..(n - 3) : s[i] \in {"set", "logDisk", "logMem", "signRead", "signSet"}
        /\ \A i \in 1..n : s[i] = "set" => i = 1
        /\ z \in Signed /\ n >= 4 => s[n - 3] = "signSet"
        /\ z \in Signed /\ n >= 5 => s[n - 4] = "signRead"
        /\ \A i \in 1..n : s[i] = "signSet" => z \in Signed
        /\ \A i \in 1..n : s[i] = "signSet" => i = n - 3
        /\ \A i \in 1..n : s[i] = "signRead" => i = n - 4

(* The rests of the plan of a request that deletes a zone. *)
DeleteRests == {DeletePlan, <<"unlink", "ack">>, <<"ack">>}

PlanRest(s, z, new) == IF new = NoContent THEN s \in DeleteRests ELSE WriterSteps(s, z)

(*****************************************************************************)
(* A request that holds the write lock: until it sets the zones they are     *)
(* what it read; from then on its zone is served. What is promised for the   *)
(* zone is in what the request read, as is the zone file until it is         *)
(* truncated, if it could be written; when only the reply is left, the file  *)
(* holds the new zone, or a warning was logged.                              *)
(*****************************************************************************)
WriterOK(j, lv, fl, st, ak) ==
    /\ j.zone \in Zones /\ Len(j.todo) >= 1 /\ PlanRest(j.todo, j.zone, j.new)
    /\ j.new # Torn /\ (j.new # NoContent => j.old.edits \subseteq j.new.edits)
    /\ j.todo[1] = "set" => lv[j.zone] = j.old /\ j.snap = [lv EXCEPT ![j.zone] = j.new]
    /\ j.todo[1] # "set" => lv[j.zone] = j.new
    /\ \A a \in ak : a[1] = j.zone => j.new # NoContent /\ a[2] \in j.old.edits
    /\ Len(j.todo) >= 3 => fl[j.zone] = j.old \/ j.zone \in st
    /\ j.todo[1] = "write" => fl[j.zone] = Torn
    /\ Len(j.todo) = 1 => fl[j.zone] = j.new \/ j.zone \in st

(* The request that holds the write lock changes zone z. *)
Writing(z) == lock # NoTask /\ task[lock].zone = z

(*****************************************************************************)
(* While the server is up: one request at a time, the timers only sign, and  *)
(* apart from the zone being written and those that could not be written,    *)
(* the files are what is served.                                             *)
(*****************************************************************************)
InOrder ==
    /\ \A t \in ApiTasks : t # lock => task[t].todo = <<>>
    /\ \A t \in Timers : \A i \in 1..Len(task[t].todo) : task[t].todo[i] \in {"signRead", "signSet"}
    /\ lock # NoTask => WriterOK(task[lock], live, file, stale, acked)
    /\ \A z \in Zones : live[z] # Torn /\ (~Writing(z) => file[z] = live[z] \/ z \in stale)
    /\ \A a \in acked : a[2] \in live[a[1]].edits

(*****************************************************************************)
(* The inductive invariant of the server with API writers only. Nothing is   *)
(* left to promise once the server has failed to start.                      *)
(*****************************************************************************)
ApiInv ==
    /\ ServedInv
    /\ lock \in ApiTasks \cup {NoTask} /\ up \in BOOLEAN
    /\ up => InOrder

(* The plans of the API requests have this order. *)
LEMMA WriterPlans ==
    ASSUME NEW z
    PROVE  /\ WriterSteps(PatchPlan(z), z) /\ Len(PatchPlan(z)) >= 1 /\ Len(PatchPlan(z)) # 1
           /\ WriterSteps(CreatePlan(z), z) /\ Len(CreatePlan(z)) >= 1 /\ Len(CreatePlan(z)) # 1
<1>1. WriterSteps(PatchPlan(z), z) /\ Len(PatchPlan(z)) >= 1 /\ Len(PatchPlan(z)) # 1
  <2>1. CASE z \in Signed
    BY <2>1, SMT DEF PatchPlan, WriterSteps
  <2>2. CASE z \notin Signed
    BY <2>2, SMT DEF PatchPlan, WriterSteps
  <2> QED  BY <2>1, <2>2
<1>2. WriterSteps(CreatePlan(z), z) /\ Len(CreatePlan(z)) >= 1 /\ Len(CreatePlan(z)) # 1
  <2>1. CASE z \in Signed
    BY <2>1, SMT DEF CreatePlan, WriterSteps
  <2>2. CASE z \notin Signed
    BY <2>2, SMT DEF CreatePlan, WriterSteps
  <2> QED  BY <2>1, <2>2
<1> QED  BY <1>1, <1>2

(* So has every rest of them. *)
LEMMA WriterDrops ==
    ASSUME NEW s, NEW u, NEW z, WriterSteps(s, z), Drops(s, u, 1)
    PROVE  WriterSteps(u, z) /\ (Len(u) >= 1 => u[1] # "set")
<1>1. PICK n \in Nat : /\ n = Len(u) /\ Len(s) = n + 1
                      /\ \A i \in 1..n : u[i] = s[i + 1]
  BY SMT DEF Drops
<1>2. \A k \in 0..(n - 1) : u[n - k] = s[(n + 1) - k]
  <2>1. \A k \in 0..(n - 1) : n - k \in 1..n /\ (n - k) + 1 = (n + 1) - k
    BY SMT
  <2> QED  BY <1>1, <2>1
<1>3. \A i \in 1..n : i + 1 \in 1..(n + 1) /\ i + 1 # 1
  BY SMT
<1>4. \A i \in 1..n : u[i] # "set"
  BY <1>1, <1>3, ZenonT(30) DEF WriterSteps
<1>5. \A i \in 1..(n - 3) : u[i] \in {"set", "logDisk", "logMem", "signRead", "signSet"}
  <2>1. \A i \in 1..(n - 3) : i \in 1..n /\ i + 1 \in 1..((n + 1) - 3)
    BY SMT
  <2> QED  BY <1>1, <2>1 DEF WriterSteps
<1>6. \A i \in 1..n : (u[i] = "signSet" => i = n - 3) /\ (u[i] = "signRead" => i = n - 4)
  <2>1. \A i \in 1..n : (i + 1 = (n + 1) - 3 => i = n - 3) /\ (i + 1 = (n + 1) - 4 => i = n - 4)
    BY SMT
  <2>2. \A i \in 1..(n + 1) : /\ s[i] = "signSet" => i = (n + 1) - 3
                              /\ s[i] = "signRead" => i = (n + 1) - 4
    <3>1. \A i \in 1..Len(s) : s[i] = "signSet" => i = Len(s) - 3
      BY DEF WriterSteps
    <3>2. \A i \in 1..Len(s) : s[i] = "signRead" => i = Len(s) - 4
      BY DEF WriterSteps
    <3> QED  BY <1>1, <3>1, <3>2
  <2> QED  BY <1>1, <1>3, <2>1, <2>2, ZenonT(30)
<1>a. \A i \in 1..n : u[i] = "signSet" => z \in Signed
  <2>1. \A i \in 1..Len(s) : s[i] = "signSet" => z \in Signed
    BY DEF WriterSteps
  <2> QED  BY <1>1, <1>3, <2>1
<1>7. /\ n >= 1 => u[n] = "ack"
      /\ n >= 2 => u[n - 1] = "write"
      /\ n >= 3 => u[n - 2] = "truncate"
      /\ z \in Signed /\ n >= 4 => u[n - 3] = "signSet"
      /\ z \in Signed /\ n >= 5 => u[n - 4] = "signRead"
  <2>1. /\ n >= 1 => 0 \in 0..(n - 1) /\ n - 0 = n /\ (n + 1) - 0 = n + 1
        /\ n >= 2 => 1 \in 0..(n - 1) /\ n + 1 >= 2
        /\ n >= 3 => 2 \in 0..(n - 1) /\ n + 1 >= 3
        /\ n >= 4 => 3 \in 0..(n - 1) /\ n + 1 >= 4
        /\ n >= 5 => 4 \in 0..(n - 1) /\ n + 1 >= 5
        /\ n + 1 >= 1
    BY SMT
  <2>2. /\ n + 1 >= 1 => s[n + 1] = "ack"
        /\ n + 1 >= 2 => s[(n + 1) - 1] = "write"
        /\ n + 1 >= 3 => s[(n + 1) - 2] = "truncate"
        /\ z \in Signed /\ n + 1 >= 4 => s[(n + 1) - 3] = "signSet"
        /\ z \in Signed /\ n + 1 >= 5 => s[(n + 1) - 4] = "signRead"
    BY <1>1, ZenonT(30) DEF WriterSteps
  <2>3. (n >= 1 => u[n] = "ack") /\ (n >= 2 => u[n - 1] = "write")
    BY <1>2, <2>1, <2>2, ZenonT(30)
  <2>4. n >= 3 => u[n - 2] = "truncate"
    BY <1>2, <2>1, <2>2, ZenonT(30)
  <2>5. /\ z \in Signed /\ n >= 4 => u[n - 3] = "signSet"
        /\ z \in Signed /\ n >= 5 => u[n - 4] = "signRead"
    BY <1>2, <2>1, <2>2, ZenonT(30)
  <2> QED  BY <2>3, <2>4, <2>5, SMT
<1>8. WriterSteps(u, z)
  BY <1>1, <1>4, <1>5, <1>6, <1>7, <1>a, ZenonT(30) DEF WriterSteps
<1>9. Len(u) >= 1 => 1 \in 1..n
  BY <1>1, SMT
<1> QED  BY <1>4, <1>8, <1>9

(* A list of steps is empty when its length is zero. *)
LEMMA EmptyOrNot ==
    ASSUME NEW s \in Seq(Steps)
    PROVE  (Len(s) = 0 => s = <<>>) /\ (Len(s) >= 1 => s # <<>>)
BY SMT

(* The lengths of a list and of its tail. *)
LEMMA DropsLen ==
    ASSUME NEW s, NEW u, Drops(s, u, 1)
    PROVE  /\ s \in Seq(Steps) /\ u \in Seq(Steps) /\ Len(s) \in Nat /\ Len(u) \in Nat
           /\ Len(s) = 1 => u = <<>>
           /\ Len(s) >= 2 => Len(u) >= 1 /\ u # <<>> /\ (Len(u) = 1 => Len(s) = 2)
           /\ \A i \in 1..Len(u) : i + 1 \in 1..Len(s) /\ u[i] = s[i + 1]
<1>1. PICK n \in Nat : /\ Len(u) = n /\ Len(s) = n + 1 /\ s \in Seq(Steps) /\ u \in Seq(Steps)
                      /\ \A i \in 1..n : u[i] = s[i + 1]
  BY SMT DEF Drops
<1>2. /\ n + 1 = 1 => n = 0
      /\ n + 1 >= 2 => n >= 1 /\ (n = 1 => n + 1 = 2)
      /\ n + 1 \in Nat /\ \A i \in 1..n : i + 1 \in 1..(n + 1)
  BY SMT
<1>3. (Len(u) = 0 => u = <<>>) /\ (Len(u) >= 1 => u # <<>>)
  BY <1>1, EmptyOrNot
<1> QED  BY <1>1, <1>2, <1>3

(* Sequences over a set are sequences over every larger one. *)
LEMMA LongerSeq ==
    ASSUME NEW S, NEW T, S \subseteq T, NEW s \in Seq(S)
    PROVE  s \in Seq(T)
BY SMT

(* The type of what a task has to do. *)
LEMMA TodoType ==
    ASSUME ServedInv, NEW t \in Tasks
    PROVE  task[t] \in JobType /\ task[t].todo \in Seq(Steps) /\ Len(task[t].todo) \in Nat
<1>1. task[t] \in JobType
  BY DEF ServedInv, JobOK
<1>2. task[t].todo \in Seq(Steps)
  BY <1>1 DEF JobType
<1> QED  BY <1>1, <1>2, SMT

(* The plans of the API requests are what a request may have left to do. *)
LEMMA PlansAreRests ==
    ASSUME NEW z, NEW new, new # NoContent
    PROVE  /\ PlanRest(PatchPlan(z), z, new) /\ PlanRest(CreatePlan(z), z, new)
           /\ PlanRest(DeletePlan, z, NoContent)
BY WriterPlans DEF PlanRest, DeleteRests

(* Where the writer is, from the step it is at. *)
LEMMA WriterAt ==
    ASSUME NEW s \in Seq(Steps), NEW z, WriterSteps(s, z), Len(s) >= 1
    PROVE  /\ s[1] = "ack" => Len(s) = 1
           /\ s[1] = "write" => Len(s) = 2
           /\ s[1] = "truncate" => Len(s) = 3
           /\ s[1] \notin {"ack", "write", "truncate"} => Len(s) >= 4
           /\ s[1] \in {"ack", "write", "truncate", "set", "logDisk", "logMem", "signRead", "signSet"}
<1>1. PICK n \in Nat : n = Len(s) /\ n >= 1
  BY SMT
<1>2. CASE n = 1
  BY <1>1, <1>2 DEF WriterSteps
<1>3. CASE n = 2
  BY <1>1, <1>3, SMT DEF WriterSteps
<1>4. CASE n = 3
  BY <1>1, <1>4, SMT DEF WriterSteps
<1>5. CASE n >= 4
  <2>1. s[1] \in {"set", "logDisk", "logMem", "signRead", "signSet"}
    BY <1>1, <1>5, SMT DEF WriterSteps
  <2> QED  BY <1>1, <1>5, <2>1
<1> QED  BY <1>1, <1>2, <1>3, <1>4, <1>5, SMT

(* The same for any request. *)
LEMMA RestAt ==
    ASSUME NEW s \in Seq(Steps), NEW z, NEW new, PlanRest(s, z, new), Len(s) >= 1
    PROVE  /\ s[1] = "ack" => Len(s) = 1
           /\ s[1] = "write" => Len(s) = 2 /\ new # NoContent
           /\ s[1] = "unlink" => Len(s) = 2 /\ new = NoContent
           /\ s[1] = "truncate" => Len(s) = 3 /\ new # NoContent
           /\ s[1] = "set" => Len(s) >= 3 /\ (new # NoContent => Len(s) >= 4)
           /\ s[1] \in {"logDisk", "logMem", "signRead", "signSet"} => Len(s) >= 4 /\ new # NoContent
           /\ s[1] \in {"ack", "write", "unlink", "truncate", "set", "logDisk", "logMem",
                        "signRead", "signSet"}
<1>1. CASE new = NoContent
  <2>1. s \in DeleteRests
    BY <1>1 DEF PlanRest
  <2> QED  BY <1>1, <2>1, SMT DEF DeleteRests, DeletePlan
<1>2. CASE new # NoContent
  <2>1. WriterSteps(s, z)
    BY <1>2 DEF PlanRest
  <2>2. Len(s) \in Nat /\ (Len(s) >= 4 => Len(s) >= 3)
    BY SMT
  <2> QED  BY <1>2, <2>1, <2>2, WriterAt
<1> QED  BY <1>1, <1>2

(* What is left after one step. *)
LEMMA RestDrops ==
    ASSUME NEW s, NEW u, NEW z, NEW new, PlanRest(s, z, new), Drops(s, u, 1), Len(s) >= 2
    PROVE  PlanRest(u, z, new) /\ Len(u) >= 1 /\ u[1] # "set"
<1>1. CASE new = NoContent
  <2>1. s \in {DeletePlan, <<"unlink", "ack">>} /\ u = Tail(s)
    <3>1. s \in DeleteRests /\ Len(s) \in Nat /\ s # <<>> /\ s \in Seq(Steps)
      BY <1>1, SMT DEF PlanRest, Drops
    <3>2. s # <<"ack">>
      <4>1. Len(<<"ack">>) = 1 /\ ~(1 >= 2)
        BY SMT
      <4> QED  BY <4>1
    <3>3. Tail(s) \in Seq(Steps) /\ Len(Tail(s)) = Len(s) - 1 /\ \A i \in 1..Len(Tail(s)) : Tail(s)[i] = s[i + 1]
      BY <3>1, SMT
    <3>4. u \in Seq(Steps) /\ Len(u) = Len(Tail(s)) /\ \A i \in 1..Len(u) : u[i] = Tail(s)[i]
      BY <3>1, <3>3, SMT DEF Drops
    <3>5. u = Tail(s)
      BY <3>3, <3>4, SMT
    <3> QED  BY <3>1, <3>2, <3>5 DEF DeleteRests
  <2>2. u \in {<<"unlink", "ack">>, <<"ack">>}
    <3>1. Tail(<<"set", "unlink", "ack">>) = <<"unlink", "ack">>
      BY SMT
    <3>2. Tail(<<"unlink", "ack">>) = <<"ack">>
      BY SMT
    <3> QED  BY <2>1, <3>1, <3>2 DEF DeletePlan
  <2>3. Len(u) >= 1 /\ u[1] # "set"
    BY <2>2, SMT
  <2> QED  BY <1>1, <2>2, <2>3 DEF PlanRest, DeleteRests
<1>2. CASE new # NoContent
  <2>1. WriterSteps(u, z) /\ (Len(u) >= 1 => u[1] # "set")
    BY <1>2, WriterDrops DEF PlanRest
  <2>2. Len(u) >= 1
    BY DropsLen
  <2> QED  BY <1>2, <2>1, <2>2 DEF PlanRest
<1> QED  BY <1>1, <1>2

(* A step of a task changes that task alone, and leaves its zone, its old and its new content. *)
LEMMA StepFrame ==
    ASSUME ServedInv, NEW t \in Tasks, NEW u, Finish(t, u) \/ \E snap : u = Tail(task[t].todo) /\ Holding(t, snap)
    PROVE  /\ \A v \in Tasks \ {t} : task'[v] = task[v]
           /\ task'[t].todo = u
           /\ u # <<>> => /\ task'[t].zone = task[t].zone
                          /\ task'[t].old = task[t].old /\ task'[t].new = task[t].new
<1>1. task[t] \in JobType /\ DOMAIN task = Tasks
  BY DEF ServedInv, JobOK, JobType
<1>2. \A v \in Tasks \ {t} : task'[v] = task[v]
  BY <1>1 DEF Finish, Holding
<1>3. CASE Finish(t, u)
  <2>1. task'[t] = IF u = <<>> THEN Idle ELSE [task[t] EXCEPT !.todo = u]
    BY <1>1, <1>3 DEF Finish
  <2>2. task'[t].todo = u
    BY <1>1, <2>1, SMT DEF Idle, JobType
  <2>3. u # <<>> => /\ task'[t].zone = task[t].zone
                    /\ task'[t].old = task[t].old /\ task'[t].new = task[t].new
    BY <1>1, <2>1 DEF JobType
  <2> QED  BY <1>2, <2>2, <2>3
<1>4. ASSUME NEW snap, u = Tail(task[t].todo), Holding(t, snap)
      PROVE  /\ task'[t].todo = u /\ task'[t].zone = task[t].zone
             /\ task'[t].old = task[t].old /\ task'[t].new = task[t].new
  BY <1>1, <1>4 DEF Holding, JobType
<1> QED  BY <1>2, <1>3, <1>4

(* Who takes a step: the holder of the write lock, or a timer, which only signs. *)
LEMMA WhoSteps ==
    ASSUME OnlyApiWrites, ApiInv, NEW t \in Tasks, NEW step, Does(t, step)
    PROVE  /\ up /\ InOrder /\ ServedInv
           /\ \/ t \in Timers /\ t # lock /\ t \notin ApiTasks /\ step \in {"signRead", "signSet"}
              \/ /\ t \in ApiTasks /\ t \notin Timers /\ t = lock /\ lock # NoTask
                 /\ WriterOK(task[t], live, file, stale, acked)
                 /\ task[t].todo \in Seq(Steps) /\ task[t].todo[1] = step
<1>1. up /\ InOrder /\ ServedInv /\ lock \in ApiTasks \cup {NoTask}
  BY DEF Does, ApiInv
<1>2. /\ task[t].todo \in Seq(Steps) /\ task[t].todo[1] = step /\ 1 \in 1..Len(task[t].todo)
      /\ task[t].todo # <<>>
  BY <1>1, AtHead DEF Does
<1>3. t \in ApiTasks \/ t \in Timers
  BY DEF OnlyApiWrites, Tasks
<1>4. CASE t \in Timers
  <2>1. t \notin ApiTasks /\ t # NoTask
    BY <1>4, ZoneStoreAssumption
  <2>2. step \in {"signRead", "signSet"}
    BY <1>1, <1>2, <1>4 DEF InOrder
  <2> QED  BY <1>1, <1>4, <2>1, <2>2
<1>5. CASE t \in ApiTasks
  <2>1. t = lock /\ lock # NoTask /\ t \notin Timers
    BY <1>1, <1>2, <1>5, ZoneStoreAssumption DEF InOrder, Tasks
  <2>2. WriterOK(task[t], live, file, stale, acked)
    BY <1>1, <2>1 DEF InOrder
  <2> QED  BY <1>1, <1>2, <1>5, <2>1, <2>2
<1> QED  BY <1>3, <1>4, <1>5

(* What is true of the holder of the write lock at its next step. *)
LEMMA WriterDoes ==
    ASSUME OnlyApiWrites, ApiInv, NEW t \in Tasks, NEW step, Does(t, step),
           step \notin {"signRead", "signSet"} \/ t \notin Timers
    PROVE  /\ up /\ InOrder /\ ServedInv
           /\ t \in ApiTasks /\ t \notin Timers /\ t = lock /\ lock # NoTask
           /\ WriterOK(task[t], live, file, stale, acked)
           /\ task[t].todo \in Seq(Steps) /\ task[t].todo[1] = step
           /\ PlanRest(task[t].todo, task[t].zone, task[t].new) /\ Len(task[t].todo) >= 1
           /\ task[t].zone \in Zones
           /\ step \notin {"read", "load"}
<1>1. /\ up /\ InOrder /\ ServedInv
      /\ t \in ApiTasks /\ t \notin Timers /\ t = lock /\ lock # NoTask
      /\ WriterOK(task[t], live, file, stale, acked)
      /\ task[t].todo \in Seq(Steps) /\ task[t].todo[1] = step
  BY WhoSteps
<1>2. PlanRest(task[t].todo, task[t].zone, task[t].new) /\ Len(task[t].todo) >= 1 /\ task[t].zone \in Zones
  BY <1>1 DEF WriterOK
<1>3. step \notin {"read", "load"}
  BY <1>1, <1>2, RestAt
<1> QED  BY <1>1, <1>2, <1>3

(* A timer's step leaves everything in order. *)
LEMMA TimerSteps ==
    ASSUME OnlyApiWrites, ApiInv, ServedInv', NEW t \in Timers, NEW step, Does(t, step),
           Done(t) \/ \E snap : Holding(t, snap),
           UNCHANGED <<live, file, lock, up, acked, stale>>
    PROVE  ApiInv'
<1>1. up /\ InOrder /\ ServedInv /\ t \in Tasks /\ t \notin ApiTasks
  BY ZoneStoreAssumption DEF Does, ApiInv, Tasks
<1>2. task'[t].todo = Tail(task[t].todo) /\ \A v \in Tasks \ {t} : task'[v] = task[v]
  BY <1>1, StepFrame DEF Done
<1>3. Drops(task[t].todo, task'[t].todo, 1)
  BY <1>1, <1>2, AtHead
<1>4. \A i \in 1..Len(task'[t].todo) : task'[t].todo[i] \in {"signRead", "signSet"}
  <2>1. \A i \in 1..Len(task'[t].todo) :
            i + 1 \in 1..Len(task[t].todo) /\ task'[t].todo[i] = task[t].todo[i + 1]
    BY <1>3, DropsLen, ZenonT(30)
  <2> QED  BY <1>1, <2>1 DEF InOrder
<1>5. \A v \in ApiTasks : task'[v] = task[v]
  BY <1>1, <1>2 DEF Tasks
<1>6. lock # NoTask => task'[lock] = task[lock]
  BY <1>5 DEF ApiInv
<1>7. InOrder'
  <2>1. \A v \in ApiTasks : v # lock' => task'[v].todo = <<>>
    BY <1>1, <1>5 DEF InOrder
  <2>2. \A v \in Timers : \A i \in 1..Len(task'[v].todo) : task'[v].todo[i] \in {"signRead", "signSet"}
    BY <1>1, <1>2, <1>4 DEF InOrder, Tasks
  <2>3. lock' # NoTask => WriterOK(task'[lock'], live', file', stale', acked')
    BY <1>1, <1>6 DEF InOrder
  <2>4. \A z \in Zones : live'[z] # Torn /\ (~Writing(z)' => file'[z] = live'[z] \/ z \in stale')
    BY <1>1, <1>6 DEF InOrder, Writing
  <2>5. \A a \in acked' : a[2] \in live'[a[1]].edits
    BY <1>1 DEF InOrder
  <2> QED  BY <2>1, <2>2, <2>3, <2>4, <2>5 DEF InOrder
<1> QED  BY <1>7 DEF ApiInv

(*****************************************************************************)
(* A step of the holder of the write lock, other than its reply, with u left *)
(* to do: only its own zone is set, written or marked as not written.        *)
(*****************************************************************************)
LEMMA WriterGoesOn ==
    ASSUME OnlyApiWrites, ApiInv, ServedInv', NEW t \in ApiTasks, t = lock, lock # NoTask, up,
           NEW z \in Zones, z = task[t].zone, NEW new, new = task[t].new, NEW u,
           Finish(t, u) \/ \E snap : u = Tail(task[t].todo) /\ Holding(t, snap),
           PlanRest(u, z, new), u # <<>>, Len(u) >= 1, u[1] # "set",
           UNCHANGED <<lock, up, acked>>,
           live'[z] = new, \A y \in Zones \ {z} : live'[y] = live[y],
           \A y \in Zones \ {z} : file'[y] = file[y] /\ (y \in stale' <=> y \in stale),
           Len(u) >= 3 => file'[z] = task[t].old \/ z \in stale',
           u[1] = "write" => file'[z] = Torn,
           Len(u) = 1 => file'[z] = new \/ z \in stale'
    PROVE  ApiInv'
<1>1. InOrder /\ ServedInv /\ t \in Tasks /\ t \notin Timers
  BY ZoneStoreAssumption DEF ApiInv, Tasks
<1>2. WriterOK(task[t], live, file, stale, acked)
  BY <1>1 DEF InOrder
<1>3. PICK old : /\ old = task[t].old /\ new # Torn /\ (new # NoContent => old.edits \subseteq new.edits)
                 /\ \A a \in acked : a[1] = z => new # NoContent /\ a[2] \in old.edits
  BY <1>2 DEF WriterOK
<1>4. /\ \A v \in Tasks \ {t} : task'[v] = task[v]
      /\ task'[t].todo = u /\ task'[t].zone = z /\ task'[t].old = old /\ task'[t].new = new
  <2>1. /\ \A v \in Tasks \ {t} : task'[v] = task[v]
        /\ task'[t].todo = u
        /\ u # <<>> => /\ task'[t].zone = task[t].zone
                       /\ task'[t].old = task[t].old /\ task'[t].new = task[t].new
    BY <1>1, StepFrame, SMT
  <2> QED  BY <1>3, <2>1
<1>5. WriterOK(task'[t], live', file', stale', acked')
  BY <1>3, <1>4 DEF WriterOK
<1>6. acked \subseteq Zones \X Nat
  BY <1>1 DEF ServedInv
<1>7. \A v \in ApiTasks : v # lock' => task'[v].todo = <<>>
  BY <1>1, <1>4, SMT DEF InOrder, Tasks
<1>8. \A v \in Timers : \A i \in 1..Len(task'[v].todo) : task'[v].todo[i] \in {"signRead", "signSet"}
  <2>1. \A v \in Timers : task'[v] = task[v]
    BY <1>1, <1>4, ZoneStoreAssumption DEF Tasks
  <2> QED  BY <1>1, <2>1 DEF InOrder
<1>9. \A y \in Zones : live'[y] # Torn /\ (~Writing(y)' => file'[y] = live'[y] \/ y \in stale')
  <2>1. Writing(z)'
    BY <1>4 DEF Writing
  <2>2. \A y \in Zones \ {z} : ~Writing(y)
    BY DEF Writing
  <2>3. \A y \in Zones \ {z} : live'[y] # Torn /\ (file'[y] = live'[y] \/ y \in stale')
    BY <1>1, <2>2 DEF InOrder
  <2> QED  BY <1>3, <2>1, <2>3
<1>10. ASSUME NEW a \in acked PROVE a[2] \in live'[a[1]].edits
  <2>1. CASE a[1] = z
    BY <1>3, <2>1
  <2>2. CASE a[1] # z
    <3>1. a[1] \in Zones \ {z} /\ a[2] \in live[a[1]].edits
      BY <1>1, <1>6, <2>2 DEF InOrder
    <3> QED  BY <3>1
  <2> QED  BY <2>1, <2>2
<1>11. InOrder'
  BY <1>5, <1>7, <1>8, <1>9, <1>10 DEF InOrder
<1> QED  BY <1>11 DEF ApiInv

(* The reply: what is acknowledged is in the zone served. *)
LEMMA WriterReplies ==
    ASSUME OnlyApiWrites, ApiInv, ServedInv', NEW t \in Tasks, Acknowledge(t)
    PROVE  ApiInv'
<1>1. Does(t, "ack") /\ UNCHANGED <<live, file, up, stale>> /\ Done(t)
  BY DEF Acknowledge, disk
<1>2. /\ up /\ InOrder /\ ServedInv /\ t \in ApiTasks /\ t \notin Timers /\ t = lock /\ lock # NoTask
      /\ WriterOK(task[t], live, file, stale, acked) /\ task[t].todo[1] = "ack"
      /\ task[t].todo \in Seq(Steps)
      /\ PlanRest(task[t].todo, task[t].zone, task[t].new) /\ Len(task[t].todo) >= 1
  BY <1>1, WriterDoes
<1>3. Len(task[t].todo) = 1
  BY <1>2, RestAt
<1>4. PICK z, old, new :
          /\ z \in Zones /\ z = task[t].zone /\ old = task[t].old /\ new = task[t].new
          /\ live[z] = new /\ (file[z] = new \/ z \in stale)
  <2>1. /\ task[t].zone \in Zones /\ live[task[t].zone] = task[t].new
        /\ file[task[t].zone] = task[t].new \/ task[t].zone \in stale
    BY <1>2, <1>3 DEF WriterOK
  <2> QED  BY <2>1
<1>5. lock' = NoTask /\ acked' = acked \cup {<<z, e>> : e \in new.edits \ old.edits}
  BY <1>2, <1>4 DEF Acknowledge
<1>6. task'[t].todo = <<>> /\ \A v \in Tasks \ {t} : task'[v] = task[v]
  <2>1. task'[t].todo = Tail(task[t].todo) /\ \A v \in Tasks \ {t} : task'[v] = task[v]
    BY <1>1, <1>2, StepFrame DEF Done
  <2>2. Drops(task[t].todo, task'[t].todo, 1)
    BY <1>1, <1>2, <2>1, AtHead
  <2> QED  BY <1>3, <2>1, <2>2, DropsLen
<1>7. \A a \in acked' : a \in acked \/ (a[1] = z /\ a[2] \in new.edits)
  BY <1>5, SMT
<1>8. \A v \in ApiTasks : task'[v].todo = <<>>
  BY <1>2, <1>6, ZenonT(30) DEF InOrder, Tasks
<1>9. \A v \in Timers : \A i \in 1..Len(task'[v].todo) : task'[v].todo[i] \in {"signRead", "signSet"}
  <2>1. \A v \in Timers : task'[v] = task[v]
    BY <1>2, <1>6, ZoneStoreAssumption DEF Tasks
  <2> QED  BY <1>2, <2>1 DEF InOrder
<1>10. \A y \in Zones : live'[y] # Torn /\ (file'[y] = live'[y] \/ y \in stale')
  BY <1>1, <1>2, <1>4 DEF InOrder, Writing
<1>11. \A a \in acked' : a[2] \in live'[a[1]].edits
  BY <1>1, <1>2, <1>4, <1>7 DEF InOrder
<1>12. InOrder'
  BY <1>5, <1>8, <1>9, <1>10, <1>11 DEF InOrder
<1> QED  BY <1>1, <1>5, <1>12 DEF ApiInv

(* A request takes the write lock, and with it the zones as they are. *)
LEMMA WriterStarts ==
    ASSUME OnlyApiWrites, ApiInv, ServedInv', NEW t \in ApiTasks, NEW z \in Zones, NEW new, NEW plan,
           ApiStart(t, Job(plan, z, live[z], new, [live EXCEPT ![z] = new])),
           PlanRest(plan, z, new), Len(plan) >= 1, Len(plan) # 1, plan[1] = "set", new # Torn,
           new # NoContent => live[z].edits \subseteq new.edits,
           acked' \subseteq acked, \A a \in acked' : a[1] = z => new # NoContent
    PROVE  ApiInv'
<1> DEFINE job == Job(plan, z, live[z], new, [live EXCEPT ![z] = new])
<1>1. /\ up /\ lock = NoTask /\ lock' = t /\ UNCHANGED <<live, file, up, stale>>
      /\ task' = [task EXCEPT ![t] = job]
  BY DEF ApiStart, Start, disk
<1>2. InOrder /\ DOMAIN task = Tasks /\ t \in Tasks /\ t # NoTask
  BY <1>1, ZoneStoreAssumption DEF ApiInv, ServedInv, Tasks
<1>3. task'[t] = job /\ \A v \in Tasks \ {t} : task'[v] = task[v]
  BY <1>1, <1>2
<1>4. \A y \in Zones : live[y] # Torn /\ (file[y] = live[y] \/ y \in stale)
  BY <1>1, <1>2 DEF InOrder, Writing
<1>5. WriterOK(job, live, file, stale, acked')
  <2>1. /\ job.todo = plan /\ job.zone = z /\ job.old = live[z] /\ job.new = new
        /\ job.snap = [live EXCEPT ![z] = new]
    BY DEF Job
  <2>2. \A a \in acked' : a[1] = z => new # NoContent /\ a[2] \in live[z].edits
    BY <1>2 DEF InOrder
  <2> HIDE DEF job
  <2> QED  BY <1>4, <2>1, <2>2 DEF WriterOK
<1>6. \A v \in ApiTasks : v # t => task'[v].todo = <<>>
  BY <1>1, <1>2, <1>3, ZoneStoreAssumption DEF InOrder, Tasks
<1>7. \A v \in Timers : \A i \in 1..Len(task'[v].todo) : task'[v].todo[i] \in {"signRead", "signSet"}
  <2>1. \A v \in Timers : task'[v] = task[v]
    BY <1>3, ZoneStoreAssumption DEF Tasks
  <2> QED  BY <1>2, <2>1 DEF InOrder
<1>8. WriterOK(task'[lock'], live', file', stale', acked')
  BY <1>1, <1>3, <1>5
<1>9. \A a \in acked' : a[2] \in live'[a[1]].edits
  BY <1>1, <1>2 DEF InOrder
<1>10. InOrder'
  BY <1>1, <1>2, <1>4, <1>6, <1>7, <1>8, <1>9 DEF InOrder
<1> QED  BY <1>1, <1>10 DEF ApiInv

(* At start, nobody writes and the files are what is served. *)
LEMMA ApiInit == OnlyApiWrites /\ Init => ApiInv
<1> SUFFICES ASSUME OnlyApiWrites, Init PROVE ApiInv
  OBVIOUS
<1>1. ServedInv
  BY ServedInit
<1>2. lock = NoTask /\ up = TRUE /\ acked = {} /\ task = [t \in Tasks |-> Idle]
  BY DEF Init
<1>3. \A z \in Zones : live[z] # Torn /\ file[z] = live[z]
  <2>1. \A z \in Zones : file[z] \in {Original, NoContent} /\ live[z] = file[z]
    BY DEF OnlyApiWrites, Init, OnDisk
  <2>2. Original # Torn /\ NoContent # Torn
    BY SMT DEF Original, NoContent, Torn, Zone
  <2> QED  BY <2>1, <2>2
<1>4. \A t \in Tasks : task[t].todo = <<>>
  BY <1>2 DEF Idle
<1>5. InOrder
  BY <1>2, <1>3, <1>4, SMT DEF InOrder, Tasks
<1> QED  BY <1>1, <1>2, <1>5 DEF ApiInv

(*****************************************************************************)
(* What was promised is in the files, unless one of them is torn: the writer *)
(* has not reached its zone's file, or has written it.                       *)
(*****************************************************************************)
LEMMA PromisedIsOnDisk ==
    ASSUME ApiInv, up, NEW a \in acked
    PROVE  \/ a[2] \in file[a[1]].edits
           \/ a[1] \in stale
           \/ lock \in ApiTasks /\ task[lock].zone = a[1] /\ Does(lock, "write") /\ file[a[1]] = Torn
<1>1. InOrder /\ ServedInv /\ a[1] \in Zones /\ a[2] \in live[a[1]].edits
  BY DEF ApiInv, InOrder, ServedInv
<1>2. CASE ~Writing(a[1])
  BY <1>1, <1>2 DEF InOrder
<1>3. CASE Writing(a[1])
  <2>1. /\ lock \in ApiTasks /\ lock # NoTask /\ lock \in Tasks /\ task[lock].zone = a[1]
        /\ WriterOK(task[lock], live, file, stale, acked)
    BY <1>1, <1>3 DEF Writing, InOrder, ApiInv, Tasks
  <2>2. PICK s, old, new :
            /\ s = task[lock].todo /\ old = task[lock].old /\ new = task[lock].new
            /\ s \in Seq(Steps) /\ Len(s) >= 1 /\ PlanRest(s, a[1], new)
            /\ new # NoContent /\ old.edits \subseteq new.edits /\ a[2] \in old.edits
            /\ Len(s) >= 3 => file[a[1]] = old \/ a[1] \in stale
            /\ s[1] = "write" => file[a[1]] = Torn
            /\ Len(s) = 1 => file[a[1]] = new \/ a[1] \in stale
    BY <1>1, <2>1, TodoType DEF WriterOK
  <2>3. PICK n \in Nat : n = Len(s) /\ n >= 1
    BY <2>2, SMT
  <2>4. n = 1 \/ n = 2 \/ n >= 3
    BY <2>3, SMT
  <2>5. CASE n = 2
    <3>1. s[1] = "write"
      <4>1. ~(2 = 1) /\ ~(2 = 3) /\ ~(2 >= 3) /\ ~(2 >= 4)
        BY SMT
      <4> QED  BY <2>2, <2>3, <2>5, <4>1, RestAt
    <3>2. Does(lock, "write")
      <4>1. s # <<>> /\ Head(s) = s[1]
        BY <2>2, <2>3, SMT
      <4> QED  BY <2>2, <3>1, <4>1 DEF Does
    <3> QED  BY <2>1, <2>2, <3>1, <3>2
  <2> QED  BY <2>2, <2>3, <2>4, <2>5
<1> QED  BY <1>2, <1>3

(*****************************************************************************)
(* A restart serves the files, which hold what is still promised, or leaves  *)
(* the server down because a file is torn.                                   *)
(*****************************************************************************)
LEMMA ApiRestart ==
    ASSUME OnlyApiWrites, ApiInv, ServedInv', Restart
    PROVE  ApiInv'
<1>1. /\ task' = [t \in Tasks |-> Idle] /\ lock' = NoTask /\ up' = Loadable /\ up
      /\ UNCHANGED file /\ acked' = Promised
      /\ Loadable => live' = OnDisk
  BY DEF Restart, disk
<1>2. up' \in BOOLEAN
  BY <1>1 DEF Loadable
<1>3. ASSUME up' PROVE InOrder'
  <2>1. \A z \in Zones : file[z] # Torn
    BY <1>1, <1>3 DEF Loadable
  <2>2. \A z \in Zones : live'[z] = file[z]
    BY <1>1, <1>3 DEF OnDisk, OnlyApiWrites
  <2>3. \A t \in Tasks : task'[t].todo = <<>>
    BY <1>1 DEF Idle
  <2>4. ASSUME NEW a \in acked' PROVE a[2] \in live'[a[1]].edits
    <3>1. a \in acked /\ (a[1] \in stale => a[2] \in file[a[1]].edits)
      BY <1>1 DEF Promised
    <3>2. a[1] \in Zones
      BY <3>1 DEF ApiInv, ServedInv
    <3>3. a[2] \in file[a[1]].edits
      BY <1>1, <2>1, <3>1, <3>2, PromisedIsOnDisk
    <3> QED  BY <2>2, <3>2, <3>3
  <2> QED  BY <1>1, <2>1, <2>2, <2>3, <2>4, SMT DEF InOrder, Tasks
<1> QED  BY <1>1, <1>2, <1>3 DEF ApiInv

(*****************************************************************************)
(* One step of a task. A step of the holder of the write lock leaves a rest  *)
(* of its plan, and the zone file is where that rest says.                   *)
(*****************************************************************************)
LEMMA ApiTaskStep ==
    ASSUME OnlyApiWrites, ApiInv, ServedInv', NEW t \in Tasks, Step(t)
    PROVE  ApiInv'
<1>1. CASE Acknowledge(t)
  BY <1>1, WriterReplies
<1>2. ASSUME NEW step \in {"signRead", "signSet"}, Does(t, step), t \in Timers,
             ReadForSigning(t) \/ SetSigned(t)
      PROVE  ApiInv'
  <2>1. UNCHANGED <<live, file, lock, up, acked, stale>> /\ (Done(t) \/ \E snap : Holding(t, snap))
    BY <1>2 DEF ReadForSigning, SetSigned, shared, disk, history
  <2> QED  BY <1>2, <2>1, TimerSteps
<1>3. ASSUME NEW step, Does(t, step), step \notin {"signRead", "signSet"} \/ t \notin Timers, step # "ack"
      PROVE  ApiInv'
  <2>1. /\ up /\ InOrder /\ ServedInv
        /\ t \in ApiTasks /\ t \notin Timers /\ t = lock /\ lock # NoTask
        /\ WriterOK(task[t], live, file, stale, acked)
        /\ task[t].todo[1] = step /\ task[t].zone \in Zones /\ step \notin {"read", "load"}
    BY <1>3, WriterDoes
  <2>2. PICK s, z, old, new :
            /\ z \in Zones /\ s = task[t].todo /\ z = task[t].zone /\ old = task[t].old /\ new = task[t].new
    BY <2>1
  <2>3. s \in Seq(Steps) /\ PlanRest(s, z, new) /\ Len(s) >= 1 /\ s[1] = step
    BY <1>3, <2>1, <2>2, WriterDoes
  <2>4. PICK n \in Nat : n = Len(s) /\ n >= 1
    BY <2>3, SMT
  <2>5. /\ step = "write" => n = 2 /\ new # NoContent
        /\ step = "unlink" => n = 2 /\ new = NoContent
        /\ step = "truncate" => n = 3 /\ new # NoContent
        /\ step = "set" => n >= 3 /\ (new # NoContent => n >= 4)
        /\ step \in {"logDisk", "logMem", "signRead", "signSet"} => n >= 4 /\ new # NoContent
        /\ step \in {"write", "unlink", "truncate", "set", "logDisk", "logMem", "signRead", "signSet"}
    BY <1>3, <2>3, <2>4, RestAt
  <2>6. n >= 2 /\ (n >= 3 \/ step \in {"write", "unlink"})
    BY <2>5, SMT
  <2>7. Drops(s, Tail(s), 1) /\ Head(s) = step
    <3>1. Drops(s, Tail(s), 1)
      BY <1>3, <2>1, <2>2, AtHead
    <3>2. Head(s) = s[1]
      BY <2>3, SMT
    <3> QED  BY <2>3, <3>1, <3>2
  <2>8. PICK u : u = Tail(s)
    OBVIOUS
  <2>9. PlanRest(u, z, new) /\ Len(u) >= 1 /\ u[1] # "set" /\ u \in Seq(Steps)
    <3>1. Drops(s, u, 1) /\ Len(s) >= 2
      BY <2>4, <2>6, <2>7, <2>8
    <3> QED  BY <2>3, <3>1, RestDrops DEF Drops
  <2>10. PICK m \in Nat : m = Len(u) /\ n = m + 1 /\ m >= 1 /\ u # <<>>
    <3>1. Len(u) \in Nat /\ Len(u) + 1 = Len(s) /\ u # <<>>
      <4>1. Len(u) \in Nat /\ u # <<>>
        BY <2>9, SMT
      <4> QED  BY <2>7, <2>8, <4>1 DEF Drops
    <3> QED  BY <2>4, <2>9, <3>1
  <2>11. u[1] = "write" => m = 2 /\ new # NoContent
    BY <2>9, <2>10, RestAt
  <2>12. /\ n >= 3 => file[z] = old \/ z \in stale
         /\ step # "set" => live[z] = new
         /\ step = "set" => task[t].snap = [live EXCEPT ![z] = new]
    BY <2>1, <2>2, <2>4 DEF WriterOK
  <2>13. live \in [Zones -> Content] /\ file \in [Zones -> Content]
    BY <2>1 DEF ServedInv
  <2>15. CASE SetZones(t) \/ LogToDisk(t) \/ LogToMemory(t) \/ ReadForSigning(t) \/ SetSigned(t)
    <3>1. /\ UNCHANGED <<lock, up, acked, file, stale>> /\ step \notin {"write", "unlink", "truncate"}
          /\ Done(t) \/ \E snap : Holding(t, snap)
          /\ IF step = "set" THEN live' = task[t].snap ELSE live' = live
      BY <1>3, <2>15 DEF SetZones, LogToDisk, LogToMemory, ReadForSigning, SetSigned, Does,
                         shared, disk, history
    <3>2. live'[z] = new /\ \A y \in Zones \ {z} : live'[y] = live[y]
      BY <2>2, <2>12, <2>13, <3>1
    <3>3. /\ m >= 3 => n >= 3
          /\ m = 1 => FALSE
          /\ m = 2 => new = NoContent
      BY <2>5, <2>10, <3>1, SMT
    <3>4. Finish(t, u) \/ \E snap : u = Tail(task[t].todo) /\ Holding(t, snap)
      BY <2>2, <2>8, <3>1 DEF Done
    <3> QED  BY <2>1, <2>2, <2>9, <2>10, <2>11, <2>12, <3>1, <3>2, <3>3, <3>4, WriterGoesOn
  <2>16. CASE TruncateFile(t)
    <3>1. /\ UNCHANGED <<live, lock, up, acked, stale>> /\ step = "truncate" /\ Finish(t, u)
          /\ file' = [file EXCEPT ![z] = Torn]
      BY <1>3, <2>2, <2>8, <2>16 DEF TruncateFile, Does, Done, shared, history
    <3>2. file'[z] = Torn /\ \A y \in Zones \ {z} : file'[y] = file[y]
      BY <2>2, <2>13, <3>1
    <3>3. ~(m >= 3) /\ m # 1
      BY <2>5, <2>10, <3>1, SMT
    <3>4. /\ live'[z] = new /\ \A y \in Zones \ {z} : live'[y] = live[y]
          /\ \A y \in Zones \ {z} : file'[y] = file[y] /\ (y \in stale' <=> y \in stale)
      BY <2>12, <3>1, <3>2
    <3>5. ~(Len(u) >= 3) /\ Len(u) # 1
      BY <2>10, <3>3
    <3> QED  BY <2>1, <2>2, <2>9, <2>10, <3>1, <3>2, <3>4, <3>5, WriterGoesOn
  <2>17. CASE WriteFile(t) \/ RemoveFile(t)
    <3>1. /\ UNCHANGED <<live, lock, up, acked>> /\ step \in {"write", "unlink"} /\ Finish(t, u)
          /\ file' = [file EXCEPT ![z] = new] /\ stale' = stale \ {z}
      <4>1. /\ UNCHANGED <<live, lock, up, acked>> /\ Finish(t, u) /\ stale' = stale \ {z}
            /\ \/ step = "write" /\ file' = [file EXCEPT ![z] = new]
               \/ step = "unlink" /\ file' = [file EXCEPT ![z] = NoContent]
        BY <1>3, <2>2, <2>8, <2>17 DEF WriteFile, RemoveFile, Does, Done, shared
      <4> QED  BY <2>5, <4>1
    <3>2. file'[z] = new /\ \A y \in Zones \ {z} : file'[y] = file[y] /\ (y \in stale' <=> y \in stale)
      BY <2>2, <2>13, <3>1
    <3>3. ~(m >= 3) /\ m # 2
      BY <2>5, <2>10, <3>1, SMT
    <3> QED  BY <2>1, <2>2, <2>9, <2>10, <2>11, <2>12, <3>1, <3>2, <3>3, WriterGoesOn
  <2>18. CASE DiskFails(t) /\ step # "truncate"
    <3>1. /\ UNCHANGED <<live, lock, up, acked, file>> /\ step \in {"write", "unlink", "logDisk"}
          /\ Finish(t, u) /\ stale' = IF step = "logDisk" THEN stale ELSE stale \cup {z}
      BY <1>3, <2>2, <2>7, <2>8, <2>18 DEF DiskFails, Does, shared, disk
    <3>2. \A y \in Zones \ {z} : y \in stale' <=> y \in stale
      BY <3>1
    <3>3. /\ step = "logDisk" => (m >= 3 => n >= 3) /\ m # 1 /\ m # 2
          /\ step # "logDisk" => ~(m >= 3) /\ m # 2
      <4>1. CASE step = "logDisk"
        BY <2>5, <2>10, <4>1, SMT
      <4>2. CASE step \in {"write", "unlink"}
        BY <2>5, <2>10, <4>2, SMT
      <4> QED  BY <3>1, <4>1, <4>2
    <3>4. /\ m >= 3 => file'[z] = old \/ z \in stale'
          /\ m = 1 => z \in stale'
      BY <2>12, <3>1, <3>3
    <3>5. u[1] # "write"
      BY <2>11, <3>3
    <3> QED  BY <2>1, <2>2, <2>9, <2>10, <2>12, <3>1, <3>2, <3>4, <3>5, WriterGoesOn
  <2>19. CASE DiskFails(t) /\ step = "truncate"
    <3>1. PICK w : w = Tail(u)
      OBVIOUS
    <3>2. /\ UNCHANGED <<live, lock, up, acked, file>>
          /\ Finish(t, w) /\ stale' = stale \cup {z}
      BY <2>2, <2>7, <2>8, <2>19, <3>1 DEF DiskFails, shared, disk
    <3>3. m = 2
      BY <2>5, <2>10, <2>19, SMT
    <3>4. Drops(u, w, 1) /\ Len(u) >= 2
      <4>1. 2 >= 2
        BY SMT
      <4> QED  BY <2>9, <2>10, <3>1, <3>3, <4>1, DropOne
    <3>5. PlanRest(w, z, new) /\ Len(w) >= 1 /\ w[1] # "set" /\ w \in Seq(Steps)
      BY <2>9, <3>4, RestDrops DEF Drops
    <3>6. Len(w) = 1 /\ ~(Len(w) >= 3) /\ w # <<>> /\ w[1] # "write"
      <4>1. Len(w) = 1
        <5>1. PICK k \in Nat : k = Len(w)
          BY <3>5, SMT
        <5>2. 2 = k + 1
          BY <2>10, <3>3, <3>4, <5>1 DEF Drops
        <5>3. k = 1
          BY <5>2, SMT
        <5> QED  BY <5>1, <5>3
      <4>2. ~(1 >= 3) /\ ~(1 = 2) /\ Len(<<>>) # 1
        BY SMT
      <4>3. w[1] # "write"
        BY <3>5, <4>1, <4>2, RestAt
      <4> QED  BY <4>1, <4>2, <4>3
    <3>7. \A y \in Zones \ {z} : y \in stale' <=> y \in stale
      BY <3>2
    <3>8. step # "set" /\ z \in stale'
      BY <2>19, <3>2
    <3> QED  BY <2>1, <2>2, <2>12, <3>2, <3>5, <3>6, <3>7, <3>8, WriterGoesOn
  <2>20. CASE ReadZones(t) \/ LoadZones(t) \/ Acknowledge(t)
    BY <1>3, <2>1, <2>20 DEF ReadZones, LoadZones, Acknowledge, Does
  <2> QED  BY <2>15, <2>16, <2>17, <2>18, <2>19, <2>20 DEF Step
<1>4. CASE ReadForSigning(t) \/ SetSigned(t)
  <2>1. PICK step \in {"signRead", "signSet"} : Does(t, step)
    BY <1>4 DEF ReadForSigning, SetSigned
  <2> QED  BY <1>2, <1>3, <1>4, <2>1
<1>5. CASE ~(Acknowledge(t) \/ ReadForSigning(t) \/ SetSigned(t))
  <2>1. PICK step \in {"read", "set", "logDisk", "logMem", "truncate", "write", "unlink", "load"} :
            Does(t, step)
    BY <1>5 DEF Step, ReadZones, SetZones, LogToDisk, LogToMemory, TruncateFile, WriteFile,
                RemoveFile, DiskFails, LoadZones
  <2> QED  BY <1>3, <2>1
<1> QED  BY <1>1, <1>4, <1>5

(* Every step of the server keeps its writers in order. *)
LEMMA ApiStep == OnlyApiWrites /\ ApiInv /\ [Next]_vars => ApiInv'
<1> SUFFICES ASSUME OnlyApiWrites, ApiInv, [Next]_vars PROVE ApiInv'
  OBVIOUS
<1>0. ServedInv /\ ServedInv'
  BY ServedStep DEF ApiInv
<1>a. live \in [Zones -> Content] /\ edits \in Nat
  BY <1>0 DEF ServedInv
<1>b. \A c : edits + 1 \in c.edits => c \notin {NoContent, Torn}
  BY SMT DEF NoContent, Torn
<1>1. ASSUME NEW t \in ApiTasks, NEW z \in Zones, NEW n, Patch(t, z, n) PROVE ApiInv'
  <2>1. PICK new, plan :
            /\ new = Edited(live[z], n, edits + 1) /\ acked' = acked /\ plan = PatchPlan(z)
            /\ ApiStart(t, Job(plan, z, live[z], new, [live EXCEPT ![z] = new]))
    BY <1>1 DEF Patch
  <2>2. live[z].edits \subseteq new.edits /\ edits + 1 \in new.edits
    BY <1>a, <2>1 DEF Edited, Zone, Content
  <2>3. new # NoContent /\ new # Torn
    BY <1>b, <2>2
  <2>4. plan[1] = "set" /\ Len(plan) >= 1 /\ Len(plan) # 1
    BY <2>1, WriterPlans DEF PatchPlan
  <2>5. PlanRest(plan, z, new)
    BY <2>1, <2>3, PlansAreRests
  <2>6. ApiStart(t, Job(plan, z, live[z], new, [live EXCEPT ![z] = new])) /\ acked' \subseteq acked
    BY <2>1
  <2> QED  BY <1>0, <2>2, <2>3, <2>4, <2>5, <2>6, WriterStarts, SMT
<1>2. ASSUME NEW t \in ApiTasks, NEW z \in Zones, NEW n, Create(t, z, n) PROVE ApiInv'
  <2>1. PICK new : /\ new = Zone(n, {edits + 1}) /\ live[z] = NoContent /\ acked' = acked
                   /\ ApiStart(t, Job(CreatePlan(z), z, live[z], new, [live EXCEPT ![z] = new]))
    BY <1>2 DEF Create
  <2>2. live[z].edits \subseteq new.edits /\ edits + 1 \in new.edits
    BY <2>1, SMT DEF Zone, NoContent
  <2>3. new \notin {NoContent, Torn}
    BY <1>b, <2>2
  <2>4. CreatePlan(z)[1] = "set" /\ Len(CreatePlan(z)) >= 1 /\ Len(CreatePlan(z)) # 1
    BY WriterPlans DEF CreatePlan
  <2>5. PlanRest(CreatePlan(z), z, new)
    BY <2>3, PlansAreRests
  <2> QED  BY <1>0, <2>1, <2>2, <2>3, <2>4, <2>5, WriterStarts
<1>3. ASSUME NEW t \in ApiTasks, NEW z \in Zones, Delete(t, z) PROVE ApiInv'
  <2>1. /\ ApiStart(t, Job(DeletePlan, z, live[z], NoContent, [live EXCEPT ![z] = NoContent]))
        /\ acked' = {a \in acked : a[1] # z}
    BY <1>3 DEF Delete
  <2>2. acked' \subseteq acked /\ \A a \in acked' : a[1] # z
    BY <2>1
  <2>3. DeletePlan[1] = "set" /\ Len(DeletePlan) >= 1 /\ Len(DeletePlan) # 1 /\ NoContent # Torn
    BY SMT DEF DeletePlan, NoContent, Torn
  <2>4. PlanRest(DeletePlan, z, NoContent)
    BY DEF PlanRest, DeleteRests
  <2> QED  BY <1>0, <2>1, <2>2, <2>3, <2>4, WriterStarts
<1>4. ASSUME NEW t \in Timers, TimerFires(t) PROVE ApiInv'
  <2>1. /\ up /\ task' = [task EXCEPT ![t] = [Idle EXCEPT !.todo = TimerPlan]]
        /\ UNCHANGED <<live, file, lock, up, acked, stale>>
    BY <1>4 DEF TimerFires, Start, shared, disk, history
  <2>2. InOrder /\ DOMAIN task = Tasks /\ t \in Tasks /\ t \notin ApiTasks
    BY <1>0, <2>1, ZoneStoreAssumption DEF ApiInv, ServedInv, Tasks
  <2>3. task'[t].todo = TimerPlan /\ \A v \in Tasks \ {t} : task'[v] = task[v]
    BY <2>1, <2>2 DEF Idle
  <2>4. \A i \in 1..Len(TimerPlan) : TimerPlan[i] \in {"signRead", "signSet"}
    BY SMT DEF TimerPlan
  <2>5. \A v \in Timers : \A i \in 1..Len(task'[v].todo) : task'[v].todo[i] \in {"signRead", "signSet"}
    BY <2>2, <2>3, <2>4 DEF InOrder, Tasks
  <2>6. \A v \in ApiTasks : task'[v] = task[v]
    BY <2>2, <2>3 DEF Tasks
  <2>7. lock # NoTask => task'[lock] = task[lock]
    BY <2>6 DEF ApiInv
  <2>8. lock' # NoTask => WriterOK(task'[lock'], live', file', stale', acked')
    BY <2>1, <2>2, <2>7 DEF InOrder
  <2>9. \A z \in Zones : live'[z] # Torn /\ (~Writing(z)' => file'[z] = live'[z] \/ z \in stale')
    BY <2>1, <2>2, <2>7 DEF InOrder, Writing
  <2>10. InOrder'
    BY <2>1, <2>2, <2>5, <2>6, <2>8, <2>9 DEF InOrder
  <2> QED  BY <1>0, <2>1, <2>10 DEF ApiInv
<1>5. ASSUME NEW t \in Tasks, Step(t) PROVE ApiInv'
  BY <1>0, <1>5, ApiTaskStep
<1>6. CASE Restart
  BY <1>0, <1>6, ApiRestart
<1>7. CASE UNCHANGED vars
  <2>1. UNCHANGED <<live, file, lock, task, up, acked, stale>>
    BY <1>7 DEF vars
  <2>2. InOrder' = InOrder
    BY <2>1 DEF InOrder, Writing, WriterOK
  <2> QED  BY <1>0, <2>1, <2>2 DEF ApiInv
<1>8. CASE Request
  BY <1>1, <1>2, <1>3, <1>8 DEF Request, OnlyApiWrites
<1> QED  BY <1>4, <1>5, <1>6, <1>7, <1>8 DEF Next

(* The invariant holds at every step. *)
LEMMA ApiInvariant == OnlyApiWrites => (Spec => []ApiInv)
<1>1. OnlyApiWrites /\ Init => ApiInv
  BY ApiInit
<1>2. OnlyApiWrites /\ ApiInv /\ [Next]_vars => ApiInv'
  BY ApiStep
<1> SUFFICES ASSUME OnlyApiWrites PROVE Spec => []ApiInv
  OBVIOUS
<1>3. Init => ApiInv
  BY <1>1
<1>4. ApiInv /\ [Next]_vars => ApiInv'
  BY <1>2
<1> QED  BY <1>3, <1>4, PTL DEF Spec

(*****************************************************************************)
(* The write lock does its work: an edit the API has acknowledged stays in   *)
(* the zone that is served, over other requests and over restarts, until     *)
(* the zone is deleted.                                                      *)
(*****************************************************************************)
THEOREM AcknowledgedStaysLive == OnlyApiWrites => (Spec => []AckedEditsLive)
<1>1. ApiInv => AckedEditsLive
  BY DEF ApiInv, InOrder, AckedEditsLive
<1> QED  BY <1>1, ApiInvariant, PTL

(*****************************************************************************)
(* While the server is up, an edit the API has acknowledged is in the zone   *)
(* file, except where the last attempt to write that file failed and logged  *)
(* a warning, and between the truncation and the write of a later request:   *)
(* persist comes before the reply.                                           *)
(*****************************************************************************)
THEOREM AcknowledgedIsOnDisk == OnlyApiWrites => (Spec => []AckedEditsOnDisk)
<1>1. ApiInv => AckedEditsOnDisk
  BY PromisedIsOnDisk DEF AckedEditsOnDisk, Tasks
<1> QED  BY <1>1, ApiInvariant, PTL

(*****************************************************************************)
(* With nobody writing, the zone files load and are exactly what is served,  *)
(* so that a restart or a SIGHUP changes nothing; the zones whose last file  *)
(* operation failed are left out.                                            *)
(*****************************************************************************)
THEOREM QuietDiskIsLive == OnlyApiWrites => (Spec => []DiskMatchesLive)
<1>1. ASSUME OnlyApiWrites, ApiInv PROVE DiskMatchesLive
  <2> SUFFICES ASSUME up, Quiet
               PROVE  /\ stale = {} => Loadable
                      /\ \A z \in Zones \ (Listed \cup stale) : file[z] = live[z]
    BY DEF DiskMatchesLive
  <2>1. InOrder
    BY <1>1 DEF ApiInv
  <2>2. lock = NoTask
    <3> SUFFICES ASSUME lock # NoTask PROVE FALSE
      OBVIOUS
    <3>1. lock \in Tasks /\ Len(task[lock].todo) >= 1
      BY <1>1, <2>1 DEF ApiInv, InOrder, WriterOK, Tasks
    <3>2. task[lock].todo = <<>>
      BY <3>1 DEF Quiet, IsIdle
    <3> QED  BY <3>1, <3>2, SMT
  <2>3. \A z \in Zones : live[z] # Torn /\ (file[z] = live[z] \/ z \in stale)
    BY <2>1, <2>2 DEF InOrder, Writing
  <2> QED  BY <1>1, <2>3 DEF Loadable, OnlyApiWrites
<1>2. OnlyApiWrites => (ApiInv => DiskMatchesLive)
  BY <1>1
<1> SUFFICES ASSUME OnlyApiWrites PROVE Spec => []DiskMatchesLive
  OBVIOUS
<1>3. ApiInv => DiskMatchesLive
  BY <1>2
<1>4. Spec => []ApiInv
  BY ApiInvariant
<1> QED  BY <1>3, <1>4, PTL
=============================================================================
