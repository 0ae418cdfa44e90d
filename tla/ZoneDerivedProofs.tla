------------------------- MODULE ZoneDerivedProofs -------------------------
(*****************************************************************************)
(* What ZoneStore derives from the zones it serves keeps up with them, for   *)
(* every set of zones and of tasks and every bound: the DNSSEC signatures    *)
(* with the writers of OnlyApiWrites and any number of timers, the journal   *)
(* whoever writes. The invariants stand on ServedInv and ApiInv of           *)
(* ZoneStoreProofs.                                                          *)
(*****************************************************************************)
EXTENDS ZoneStoreProofs

USE Zenon

(* The zone z has been set by the holder of the write lock, which signs next. *)
Pending(z) ==
    /\ Writing(z) /\ task[lock].new # NoContent
    /\ task[lock].todo[1] # "set" /\ Len(task[lock].todo) >= 4

(* c is a copy of the zone z that is served, or there is none. *)
UpToDate(c, z) == live[z] = NoContent \/ c = live[z]

(*****************************************************************************)
(* The signatures are those of the zones served, or the writer will sign;    *)
(* so is what a task has read for signing, unless another one stored its     *)
(* signatures since. A timer ends with storing what it read.                 *)
(*****************************************************************************)
SignedInOrder ==
    /\ ~late => \A z \in Signed : UpToDate(signed[z], z) \/ Pending(z)
    /\ \A u \in Tasks \ overtaken : Does(u, "signSet") =>
           \A z \in Signed : UpToDate(task[u].snap[z], z) \/ (u # lock /\ Pending(z))
    /\ \A u \in Timers : \A i \in 1..Len(task[u].todo) :
           task[u].todo[i] = "signSet" => i = Len(task[u].todo)

(* The invariant behind SignaturesMatchLive, together with ApiInv. *)
SignedInv == up => SignedInOrder

(*****************************************************************************)
(* A plan signs what it read in the step before, and before it goes on to    *)
(* the file.                                                                 *)
(*****************************************************************************)
LEMMA SignOrder ==
    ASSUME NEW s, NEW u, NEW z, WriterSteps(s, z), Drops(s, u, 1), Len(u) >= 1
    PROVE  /\ s[1] # "signRead" => u[1] # "signSet"
           /\ z \in Signed /\ s[1] \in {"set", "logDisk", "logMem", "signRead"} => Len(u) >= 4
<1>1. PICK n \in Nat : n = Len(u) /\ Len(s) = n + 1 /\ n >= 1 /\ u[1] = s[1 + 1]
  BY SMT DEF Drops
<1>2. ASSUME u[1] = "signSet" PROVE s[1] = "signRead"
  <2>1. 1 + 1 \in 1..Len(s) /\ s[1 + 1] = "signSet"
    BY <1>1, <1>2, SMT
  <2>2. z \in Signed /\ 1 + 1 = Len(s) - 3
    BY <2>1 DEF WriterSteps
  <2>3. Len(s) >= 5 /\ Len(s) - 4 = 1
    <3>1. 1 + 1 = (n + 1) - 3
      BY <1>1, <2>2
    <3>2. n + 1 >= 5 /\ (n + 1) - 4 = 1
      BY <3>1, SMT
    <3> QED  BY <1>1, <3>2
  <2>4. s[Len(s) - 4] = "signRead"
    BY <2>2, <2>3 DEF WriterSteps
  <2> QED  BY <2>3, <2>4
<1>3. ASSUME z \in Signed, s[1] \in {"set", "logDisk", "logMem", "signRead"} PROVE n >= 4
  <2>1. n + 1 >= 5 \/ n + 1 \in {2, 3, 4}
    BY <1>1, SMT
  <2>2. n + 1 # 2 /\ n + 1 # 3
    BY <1>1, <1>3, SMT DEF WriterSteps
  <2>3. n + 1 # 4
    BY <1>1, <1>3, SMT DEF WriterSteps
  <2> QED  BY <2>1, <2>2, <2>3, SMT
<1> QED  BY <1>1, <1>2, <1>3

(* The same for what any request has left to do. *)
LEMMA RestSigns ==
    ASSUME NEW s, NEW u, NEW z, NEW new, PlanRest(s, z, new), Drops(s, u, 1), Len(u) >= 1
    PROVE  /\ s[1] # "signRead" => u[1] # "signSet"
           /\ new # NoContent /\ z \in Signed /\ s[1] \in {"set", "logDisk", "logMem", "signRead"}
                  => Len(u) >= 4
<1>1. CASE new # NoContent
  BY <1>1, SignOrder DEF PlanRest
<1>2. CASE new = NoContent
  <2>1. Len(s) >= 2 /\ u \in Seq(Steps)
    BY SMT DEF Drops
  <2>2. u \in DeleteRests
    BY <1>2, <2>1, RestDrops DEF PlanRest
  <2>3. u[1] # "signSet"
    BY <2>2, SMT DEF DeleteRests, DeletePlan
  <2> QED  BY <1>2, <2>3
<1> QED  BY <1>1, <1>2

(* The zones are signed before the server answers. *)
LEMMA SignedInit == Init => SignedInv
<1> SUFFICES ASSUME Init PROVE SignedInOrder
  BY DEF SignedInv
<1>1. \A z \in Signed : signed[z] = live[z]
  BY ZoneStoreAssumption DEF Init, SignedOf
<1>2. \A u \in Tasks : task[u].todo = <<>>
  BY DEF Init, Idle
<1>3. \A u \in Timers : \A i \in 1..Len(task[u].todo) : FALSE
  BY <1>2, SMT DEF Tasks
<1> QED  BY <1>1, <1>2, <1>3 DEF SignedInOrder, UpToDate, Does

(* The timers that take no step are where they were. *)
LEMMA TimersKept ==
    ASSUME SignedInOrder, \A u \in Timers : task'[u] = task[u]
    PROVE  \A u \in Timers : \A i \in 1..Len(task'[u].todo) :
               task'[u].todo[i] = "signSet" => i = Len(task'[u].todo)
BY DEF SignedInOrder

(*****************************************************************************)
(* A step of the holder of the write lock other than storing signatures: the *)
(* other zones are what they were, and its own is signed, gone or pending.   *)
(*****************************************************************************)
LEMMA WriterSigns ==
    ASSUME SignedInOrder, NEW t \in ApiTasks, t = lock, NEW z \in Zones, z = task[t].zone,
           up, up', \A v \in Tasks \ {t} : task'[v] = task[v],
           UNCHANGED <<signed, late, overtaken>>, lock' \in {t, NoTask},
           \A y \in Zones \ {z} : live'[y] = live[y],
           z \in Signed => \/ live'[z] = NoContent \/ Pending(z)'
                           \/ ~Pending(z) /\ live'[z] = live[z],
           Does(t, "signSet")' => task'[t].snap = live'
    PROVE  SignedInOrder'
<1>1. \A y \in Zones \ {z} : ~Pending(y)
  BY DEF Pending, Writing
<1>2. \A y \in Zones \ {z} : \A c : UpToDate(c, y) => UpToDate(c, y)'
  BY DEF UpToDate
<1>3. z \in Signed => \/ \A c : UpToDate(c, z)'
                      \/ Pending(z)'
                      \/ ~Pending(z) /\ \A c : UpToDate(c, z) => UpToDate(c, z)'
  BY DEF UpToDate
<1>4. Signed \subseteq Zones /\ t \notin Timers /\ NoTask \notin Tasks /\ t \in Tasks
  BY ZoneStoreAssumption DEF Tasks
<1>5. ~late' => \A y \in Signed : UpToDate(signed[y], y)' \/ Pending(y)'
  <2> SUFFICES ASSUME ~late, NEW y \in Signed PROVE UpToDate(signed[y], y)' \/ Pending(y)'
    OBVIOUS
  <2>1. PICK c : c = signed[y] /\ c = signed'[y] /\ (UpToDate(c, y) \/ Pending(y))
    BY DEF SignedInOrder
  <2>2. UpToDate(c, y)' \/ Pending(y)'
    BY <1>1, <1>2, <1>3, <1>4, <2>1
  <2> QED  BY <2>1, <2>2 DEF UpToDate
<1>6. ASSUME NEW u \in Tasks \ overtaken', Does(u, "signSet")', NEW y \in Signed
      PROVE  UpToDate(task[u].snap[y], y)' \/ (u # lock' /\ Pending(y)')
  <2>1. CASE u = t
    BY <1>6, <2>1 DEF UpToDate
  <2>2. CASE u # t
    <3>1. Does(u, "signSet") /\ task'[u] = task[u] /\ u # lock'
      BY <1>4, <1>6, <2>2 DEF Does
    <3>2. UpToDate(task[u].snap[y], y) \/ Pending(y)
      BY <1>6, <3>1 DEF SignedInOrder
    <3>3. UpToDate(task[u].snap[y], y)' \/ Pending(y)'
      <4>1. PICK c : c = task[u].snap[y] /\ c = task'[u].snap[y]
        BY <3>1
      <4>2. UpToDate(c, y)' \/ Pending(y)'
        BY <1>1, <1>2, <1>3, <1>4, <3>2, <4>1
      <4> QED  BY <4>1, <4>2 DEF UpToDate
    <3> QED  BY <3>1, <3>3
  <2> QED  BY <2>1, <2>2
<1>7. \A u \in Timers : task'[u] = task[u]
  BY <1>4 DEF Tasks
<1>8. \A u \in Timers : \A i \in 1..Len(task'[u].todo) :
          task'[u].todo[i] = "signSet" => i = Len(task'[u].todo)
  BY <1>7, TimersKept
<1> QED  BY <1>5, <1>6, <1>8 DEF SignedInOrder

(* Whatever a task that holds no lock does, nothing is pending that was not. *)
LEMMA PendingKept ==
    ASSUME ApiInv, NEW t \in Tasks, t # lock, lock' = lock,
           \A v \in Tasks \ {t} : task'[v] = task[v]
    PROVE  \A z : Pending(z)' <=> Pending(z)
<1>1. lock # NoTask => task'[lock] = task[lock]
  BY DEF ApiInv, Tasks
<1> QED  BY <1>1 DEF Pending, Writing

(*****************************************************************************)
(* Whoever stores its signatures: if none was stored since it read, they are *)
(* those of what is served, and those who still hold a copy are late now.    *)
(*****************************************************************************)
LEMMA SetSignedKeeps ==
    ASSUME OnlyApiWrites, ApiInv, SignedInOrder, NEW t \in Tasks, SetSigned(t), up'
    PROVE  SignedInOrder'
<1>1. /\ Does(t, "signSet") /\ Done(t) /\ UNCHANGED <<live, lock>>
      /\ signed' = SignedOf(task[t].snap)
      /\ overtaken' = {u \in Tasks \ {t} : u \in overtaken \/ Does(u, "signSet")}
      /\ late' = (t \in overtaken)
  BY DEF SetSigned
<1>2. ServedInv /\ Signed \subseteq Zones /\ up
  BY <1>1, ZoneStoreAssumption DEF ApiInv, Does
<1>3. /\ \A v \in Tasks \ {t} : task'[v] = task[v]
      /\ task'[t].todo = Tail(task[t].todo)
  BY <1>2, <1>1, StepFrame DEF Done
<1>4. Drops(task[t].todo, task'[t].todo, 1)
  BY <1>1, <1>2, <1>3, AtHead
<1>5. /\ \A i \in 1..Len(task'[t].todo) : i + 1 \in 1..Len(task[t].todo)
                                          /\ task'[t].todo[i] = task[t].todo[i + 1]
      /\ 1 \in 1..Len(task[t].todo) /\ task[t].todo[1] = "signSet"
  BY <1>1, <1>2, <1>4, AtHead, DropsLen, ZenonT(30)
<1>6. t \in Timers => task'[t].todo = <<>>
  <2> SUFFICES ASSUME t \in Timers PROVE task'[t].todo = <<>>
    OBVIOUS
  <2>1. Len(task[t].todo) = 1
    BY <1>5 DEF SignedInOrder
  <2> QED  BY <1>4, <2>1, DropsLen
<1>7. ~Does(t, "signSet")'
  <2>1. CASE t \in Timers
    BY <1>6, <2>1 DEF Does
  <2>2. CASE t \notin Timers
    <3> SUFFICES ASSUME task'[t].todo # <<>> PROVE Head(task'[t].todo) # "signSet"
      BY DEF Does
    <3>1. PlanRest(task[t].todo, task[t].zone, task[t].new)
      BY <1>1, <2>2, WriterDoes
    <3>2. task'[t].todo \in Seq(Steps) /\ Len(task'[t].todo) >= 1 /\ Head(task'[t].todo) = task'[t].todo[1]
      <4>1. task'[t].todo \in Seq(Steps)
        BY <1>4 DEF Drops
      <4> QED  BY <4>1, SMT
    <3>3. task'[t].todo[1] # "signSet"
      BY <1>4, <1>5, <3>1, <3>2, RestSigns
    <3> QED  BY <3>2, <3>3
  <2> QED  BY <2>1, <2>2
<1>8. \A u \in Tasks \ overtaken' : ~Does(u, "signSet")'
  <2> SUFFICES ASSUME NEW u \in Tasks, u \notin overtaken', u # t PROVE ~Does(u, "signSet")'
    BY <1>7
  <2>1. ~Does(u, "signSet") /\ task'[u] = task[u]
    BY <1>1, <1>3
  <2> QED  BY <1>2, <2>1 DEF Does
<1>9. ASSUME ~late', NEW z \in Signed PROVE UpToDate(signed[z], z)' \/ Pending(z)'
  <2>1. UpToDate(task[t].snap[z], z) \/ (t # lock /\ Pending(z))
    BY <1>1, <1>9 DEF SignedInOrder
  <2>2. signed'[z] = task[t].snap[z]
    BY <1>1, <1>2, <1>9 DEF SignedOf
  <2>3. CASE UpToDate(task[t].snap[z], z)
    BY <1>1, <2>2, <2>3 DEF UpToDate
  <2>4. CASE t # lock /\ Pending(z)
    BY <1>1, <1>3, <2>4, PendingKept
  <2> QED  BY <2>1, <2>3, <2>4
<1>10. \A u \in Timers : \A i \in 1..Len(task'[u].todo) :
           task'[u].todo[i] = "signSet" => i = Len(task'[u].todo)
  <2>1. \A i \in 1..Len(<<>>) : FALSE
    BY SMT
  <2> QED  BY <1>3, <1>6, <2>1 DEF SignedInOrder, Tasks
<1> QED  BY <1>8, <1>9, <1>10 DEF SignedInOrder

(* With API writers and any number of timers, every step keeps the signatures in order. *)
LEMMA SignedStep == OnlyApiWrites /\ ApiInv /\ SignedInv /\ [Next]_vars => SignedInv'
<1> SUFFICES ASSUME OnlyApiWrites, ApiInv, SignedInv, [Next]_vars, up'
             PROVE  SignedInOrder'
  BY DEF SignedInv
<1>0. /\ ServedInv /\ live \in [Zones -> Content] /\ Signed \subseteq Zones /\ DOMAIN task = Tasks
  BY ZoneStoreAssumption DEF ApiInv, ServedInv
<1>1. ASSUME NEW t \in ApiTasks, NEW job, ApiStart(t, job), job.todo # <<>>, Head(job.todo) = "set"
      PROVE  SignedInOrder'
  <2>1. /\ up /\ lock = NoTask /\ lock' = t /\ task' = [task EXCEPT ![t] = job]
        /\ UNCHANGED <<live, signed, late, overtaken>>
    BY <1>1 DEF ApiStart, Start, signing
  <2>2. SignedInOrder /\ t \in Tasks /\ t \notin Timers
    BY <2>1, ZoneStoreAssumption DEF SignedInv, Tasks
  <2>3. task'[t] = job /\ \A v \in Tasks \ {t} : task'[v] = task[v]
    BY <1>0, <2>1, <2>2
  <2>4. \A z : ~Pending(z)
    BY <2>1 DEF Pending, Writing
  <2>5. ~late' => \A z \in Signed : UpToDate(signed[z], z)'
    BY <2>1, <2>2, <2>4 DEF SignedInOrder, UpToDate
  <2>6. ASSUME NEW u \in Tasks \ overtaken', Does(u, "signSet")', NEW z \in Signed
        PROVE  UpToDate(task[u].snap[z], z)'
    <3>1. u # t
      BY <1>1, <2>3, <2>6 DEF Does
    <3>2. task'[u] = task[u] /\ Does(u, "signSet") /\ u \in Tasks \ overtaken
      BY <2>1, <2>3, <2>6, <3>1 DEF Does
    <3> QED  BY <2>1, <2>2, <2>4, <2>6, <3>2 DEF SignedInOrder, UpToDate
  <2>7. \A u \in Timers : task'[u] = task[u]
    BY <2>2, <2>3 DEF Tasks
  <2>8. \A u \in Timers : \A i \in 1..Len(task'[u].todo) :
            task'[u].todo[i] = "signSet" => i = Len(task'[u].todo)
    BY <2>2, <2>7, TimersKept
  <2> QED  BY <2>5, <2>6, <2>8 DEF SignedInOrder
<1>2. ASSUME NEW t \in ApiTasks, NEW z \in Zones, NEW n, Patch(t, z, n) \/ Create(t, z, n) \/ Delete(t, z)
      PROVE  SignedInOrder'
  <2>1. /\ PatchPlan(z) # <<>> /\ Head(PatchPlan(z)) = "set"
        /\ CreatePlan(z) # <<>> /\ Head(CreatePlan(z)) = "set"
        /\ DeletePlan # <<>> /\ Head(DeletePlan) = "set"
    BY SMT DEF PatchPlan, CreatePlan, DeletePlan
  <2>2. CASE Patch(t, z, n)
    <3>1. PICK new : ApiStart(t, Job(PatchPlan(z), z, live[z], new, [live EXCEPT ![z] = new]))
      BY <2>2 DEF Patch
    <3>2. Job(PatchPlan(z), z, live[z], new, [live EXCEPT ![z] = new]).todo = PatchPlan(z)
      BY DEF Job
    <3> QED  BY <1>1, <2>1, <3>1, <3>2
  <2>3. CASE Create(t, z, n)
    <3>1. PICK new : ApiStart(t, Job(CreatePlan(z), z, NoContent, new, [live EXCEPT ![z] = new]))
      BY <2>3 DEF Create
    <3>2. Job(CreatePlan(z), z, NoContent, new, [live EXCEPT ![z] = new]).todo = CreatePlan(z)
      BY DEF Job
    <3> QED  BY <1>1, <2>1, <3>1, <3>2
  <2>4. CASE Delete(t, z)
    <3>1. ApiStart(t, Job(DeletePlan, z, live[z], NoContent, [live EXCEPT ![z] = NoContent]))
      BY <2>4 DEF Delete
    <3>2. Job(DeletePlan, z, live[z], NoContent, [live EXCEPT ![z] = NoContent]).todo = DeletePlan
      BY DEF Job
    <3> QED  BY <1>1, <2>1, <3>1, <3>2
  <2> QED  BY <1>2, <2>2, <2>3, <2>4
<1>3. ASSUME NEW t \in Timers, NEW snap, \A v \in Tasks \ {t} : task'[v] = task[v],
             UNCHANGED <<live, signed, lock, late, overtaken>>, up, t # lock,
             Does(t, "signSet")' => task'[t].snap = live,
             \A i \in 1..Len(task'[t].todo) : task'[t].todo[i] = "signSet" => i = Len(task'[t].todo)
      PROVE  SignedInOrder'
  <2>1. SignedInOrder /\ \A z : Pending(z)' <=> Pending(z)
    BY <1>3, PendingKept DEF SignedInv, Tasks
  <2>2. ~late' => \A z \in Signed : UpToDate(signed[z], z)' \/ Pending(z)'
    BY <1>3, <2>1 DEF SignedInOrder, UpToDate
  <2>3. ASSUME NEW u \in Tasks \ overtaken', Does(u, "signSet")', NEW z \in Signed
        PROVE  UpToDate(task[u].snap[z], z)' \/ (u # lock' /\ Pending(z)')
    <3>1. CASE u = t
      BY <1>3, <2>3, <3>1 DEF UpToDate
    <3>2. CASE u # t
      <4>1. task'[u] = task[u] /\ Does(u, "signSet") /\ u \in Tasks \ overtaken
        BY <1>3, <2>3, <3>2 DEF Does
      <4>2. UpToDate(task[u].snap[z], z) \/ (u # lock /\ Pending(z))
        BY <2>1, <2>3, <4>1 DEF SignedInOrder
      <4> QED  BY <1>3, <2>1, <4>1, <4>2 DEF UpToDate
    <3> QED  BY <3>1, <3>2
  <2>4. \A u \in Timers : \A i \in 1..Len(task'[u].todo) :
            task'[u].todo[i] = "signSet" => i = Len(task'[u].todo)
    BY <1>3, <2>1 DEF SignedInOrder, Tasks
  <2> QED  BY <2>2, <2>3, <2>4 DEF SignedInOrder
<1>4. ASSUME NEW t \in Timers, TimerFires(t) PROVE SignedInOrder'
  <2>1. /\ up /\ task' = [task EXCEPT ![t] = [Idle EXCEPT !.todo = TimerPlan]]
        /\ UNCHANGED <<live, signed, lock, late, overtaken>>
    BY <1>4 DEF TimerFires, Start, shared, history, signing
  <2>2. t \in Tasks /\ t \notin ApiTasks /\ t # NoTask
    BY ZoneStoreAssumption DEF Tasks
  <2>3. task'[t].todo = TimerPlan /\ \A v \in Tasks \ {t} : task'[v] = task[v]
    BY <1>0, <2>1, <2>2 DEF Idle
  <2>4. Head(TimerPlan) # "signSet" /\ \A i \in 1..Len(TimerPlan) : TimerPlan[i] = "signSet" => i = Len(TimerPlan)
    BY SMT DEF TimerPlan
  <2>5. t # lock
    BY <2>2 DEF ApiInv
  <2>6. ~Does(t, "signSet")'
    BY <2>3, <2>4 DEF Does
  <2> QED  BY <1>3, <2>1, <2>3, <2>4, <2>5, <2>6
<1>5. ASSUME NEW t \in Timers, ReadForSigning(t) PROVE SignedInOrder'
  <2>1. Does(t, "signRead") /\ Holding(t, live) /\ UNCHANGED <<live, signed, lock, late, overtaken>>
    BY <1>5 DEF ReadForSigning, shared, history, signing
  <2>2. t \in Tasks /\ t # lock /\ up /\ SignedInOrder
    BY <2>1, ZoneStoreAssumption DEF Tasks, ApiInv, Does, SignedInv
  <2>3. /\ \A v \in Tasks \ {t} : task'[v] = task[v]
        /\ task'[t].todo = Tail(task[t].todo)
    BY <1>0, <2>1, <2>2, StepFrame
  <2>4. task'[t].snap = live
    BY <1>0, <2>1, <2>2 DEF Holding, ServedInv, JobOK, JobType
  <2>5. Drops(task[t].todo, task'[t].todo, 1)
    BY <1>0, <2>1, <2>2, <2>3, AtHead
  <2>6. ASSUME NEW i \in 1..Len(task'[t].todo), task'[t].todo[i] = "signSet"
        PROVE  i = Len(task'[t].todo)
    <3>1. PICK n \in Nat : n = Len(task'[t].todo) /\ Len(task[t].todo) = n + 1 /\ i \in 1..n
      BY <2>5, <2>6, DropsLen DEF Drops
    <3>2. i + 1 \in 1..Len(task[t].todo) /\ task[t].todo[i + 1] = "signSet"
      BY <2>5, <2>6, DropsLen, ZenonT(30)
    <3>3. i + 1 = n + 1
      BY <2>2, <3>1, <3>2 DEF SignedInOrder
    <3>4. i = n
      BY <3>1, <3>3, SMT
    <3> QED  BY <3>1, <3>4
  <2> QED  BY <1>3, <2>1, <2>2, <2>3, <2>4, <2>6
<1>6. ASSUME NEW t \in Tasks, Step(t), ~SetSigned(t), t \notin Timers PROVE SignedInOrder'
  <2>1. PICK step \in Steps : Does(t, step)
    BY <1>6 DEF Step, ReadZones, SetZones, LogToDisk, LogToMemory, ReadForSigning, SetSigned,
                TruncateFile, WriteFile, RemoveFile, DiskFails, Acknowledge, LoadZones, Steps
  <2>2. /\ up /\ t \in ApiTasks /\ t = lock /\ lock # NoTask
        /\ WriterOK(task[t], live, file, stale, acked)
        /\ task[t].todo \in Seq(Steps) /\ task[t].todo[1] = step
        /\ PlanRest(task[t].todo, task[t].zone, task[t].new) /\ Len(task[t].todo) >= 1
        /\ task[t].zone \in Zones /\ step \notin {"read", "load"}
    BY <1>6, <2>1, WriterDoes
  <2>3. SignedInOrder
    BY <2>2 DEF SignedInv
  <2>4. PICK s, z, new : /\ s = task[t].todo /\ z = task[t].zone /\ new = task[t].new
                         /\ z \in Zones /\ s \in Seq(Steps) /\ PlanRest(s, z, new) /\ s[1] = step
    BY <2>2
  <2>5. PICK n \in Nat : n = Len(s) /\ n >= 1
    BY <2>2, <2>4, SMT
  <2>6. /\ step = "ack" => n = 1
        /\ step = "write" => n = 2
        /\ step = "unlink" => n = 2
        /\ step = "truncate" => n = 3
        /\ step = "set" => n >= 3
        /\ step \in {"logDisk", "logMem", "signRead", "signSet"} => n >= 4 /\ new # NoContent
        /\ step \in {"ack", "write", "unlink", "truncate", "set", "logDisk", "logMem", "signRead", "signSet"}
    BY <2>4, <2>5, RestAt
  <2>7. step \in {"ack", "write", "unlink", "truncate"} => ~Pending(z)
    <3>1. step \in {"ack", "write", "unlink", "truncate"} => ~(n >= 4)
      BY <2>6, SMT
    <3> QED  BY <2>2, <2>4, <2>5, <3>1 DEF Pending
  <2>8. PICK u : u = Tail(s)
    OBVIOUS
  <2>9. Drops(s, u, 1) /\ u \in Seq(Steps)
    BY <1>0, <2>1, <2>4, <2>8, AtHead DEF Drops
  <2>10. ASSUME step # "ack"
         PROVE  /\ PlanRest(u, z, new) /\ Len(u) >= 1 /\ u[1] # "set" /\ u # <<>> /\ Head(u) = u[1]
                /\ step # "signRead" => u[1] # "signSet"
                /\ new # NoContent /\ z \in Signed /\ step \in {"set", "logDisk", "logMem", "signRead"}
                       => Len(u) >= 4
    <3>1. n >= 2
      BY <2>6, <2>10, SMT
    <3>2. PlanRest(u, z, new) /\ Len(u) >= 1 /\ u[1] # "set"
      <4>1. Len(s) >= 2
        BY <2>5, <3>1
      <4> QED  BY <2>4, <2>9, <4>1, RestDrops, SMT
    <3>3. u # <<>> /\ Head(u) = u[1]
      BY <2>9, <3>2, SMT
    <3> QED  BY <2>4, <2>9, <3>2, <3>3, RestSigns
  <2>11. CASE Acknowledge(t)
    <3>1. Does(t, "ack") /\ UNCHANGED <<live, signed, late, overtaken>> /\ Done(t) /\ lock' = NoTask
      BY <2>2, <2>11 DEF Acknowledge, signing
    <3>2. step = "ack"
      BY <2>1, <3>1 DEF Does
    <3>3. task'[t].todo = u /\ \A v \in Tasks \ {t} : task'[v] = task[v]
      BY <1>0, <2>4, <2>8, <3>1, StepFrame DEF Done
    <3>4. u = <<>>
      BY <2>5, <2>6, <2>9, <3>2, DropsLen
    <3>5. ~Does(t, "signSet")'
      BY <3>3, <3>4 DEF Does
    <3> QED  BY <2>2, <2>3, <2>4, <2>7, <3>1, <3>2, <3>3, <3>5, WriterSigns
  <2>12. ASSUME step # "ack", lock' = lock, UNCHANGED <<signed, late, overtaken>>,
                NEW w, Finish(t, w) \/ \E snap : w = Tail(task[t].todo) /\ Holding(t, snap),
                w # <<>>, w[1] # "set", Head(w) = w[1], w[1] = "signSet" => task'[t].snap = live',
                \A y \in Zones \ {z} : live'[y] = live[y],
                step # "set" => live' = live,
                step = "set" => live'[z] = new,
                new # NoContent /\ z \in Signed /\ step \in {"set", "logDisk", "logMem", "signRead"}
                       => Len(w) >= 4
         PROVE  SignedInOrder'
    <3>1. /\ \A v \in Tasks \ {t} : task'[v] = task[v]
          /\ task'[t].todo = w /\ task'[t].zone = z /\ task'[t].new = new
      <4>1. /\ \A v \in Tasks \ {t} : task'[v] = task[v]
            /\ task'[t].todo = w
            /\ w # <<>> => task'[t].zone = task[t].zone /\ task'[t].new = task[t].new
        BY <1>0, <2>12, StepFrame, SMT
      <4> QED  BY <2>4, <2>12, <4>1
    <3>2. Does(t, "signSet")' => task'[t].snap = live'
      BY <2>12, <3>1 DEF Does
    <3>3. ASSUME z \in Signed
          PROVE  live'[z] = NoContent \/ Pending(z)' \/ (~Pending(z) /\ live'[z] = live[z])
      <4>1. CASE step \in {"set", "logDisk", "logMem", "signRead"} /\ new # NoContent
        BY <2>2, <2>12, <3>1, <3>3, <4>1 DEF Pending, Writing
      <4>2. CASE new = NoContent
        BY <2>4, <2>12, <4>2, <2>2 DEF Pending
      <4>3. CASE step \in {"ack", "write", "unlink", "truncate"}
        BY <2>7, <2>12, <4>3
      <4>4. CASE step = "signSet"
        BY <1>6, <2>1, <4>4 DEF Step, ReadZones, SetZones, LogToDisk, LogToMemory, ReadForSigning,
                TruncateFile, WriteFile, RemoveFile, DiskFails, Acknowledge, LoadZones, Does
      <4> QED  BY <2>6, <4>1, <4>2, <4>3, <4>4
    <3> QED  BY <2>2, <2>3, <2>4, <2>12, <3>1, <3>2, <3>3, WriterSigns
  <2>13. CASE SetZones(t)
    <3>1. Does(t, "set") /\ Done(t) /\ live' = task[t].snap /\ UNCHANGED <<signed, lock, late, overtaken>>
      BY <2>13 DEF SetZones, signing
    <3>2. step = "set"
      BY <2>1, <3>1 DEF Does
    <3>3. task[t].snap = [live EXCEPT ![z] = new]
      BY <2>2, <2>4, <3>2 DEF WriterOK
    <3>4. live'[z] = new /\ \A y \in Zones \ {z} : live'[y] = live[y]
      BY <1>0, <2>4, <3>1, <3>3
    <3>5. Finish(t, u)
      BY <2>4, <2>8, <3>1 DEF Done
    <3> QED  BY <2>10, <2>12, <3>1, <3>2, <3>4, <3>5
  <2>14. CASE ReadForSigning(t)
    <3>1. Holding(t, live) /\ UNCHANGED <<live, signed, lock, late, overtaken>> /\ Does(t, "signRead")
      BY <2>14 DEF ReadForSigning, shared, history, signing
    <3>2. step = "signRead"
      BY <2>1, <3>1 DEF Does
    <3>3. task'[t].snap = live'
      BY <1>0, <3>1 DEF Holding, ServedInv, JobOK, JobType
    <3>4. u = Tail(task[t].todo)
      BY <2>4, <2>8
    <3> QED  BY <2>10, <2>12, <3>1, <3>2, <3>3, <3>4
  <2>15. CASE LogToDisk(t) \/ LogToMemory(t) \/ TruncateFile(t) \/ WriteFile(t) \/ RemoveFile(t)
    <3>1. /\ Done(t) /\ UNCHANGED <<live, signed, lock, late, overtaken>>
          /\ \E no \in {"logDisk", "logMem", "truncate", "write", "unlink"} : Does(t, no)
      BY <2>15 DEF LogToDisk, LogToMemory, TruncateFile, WriteFile, RemoveFile, shared, history, signing
    <3>2. step \in {"logDisk", "logMem", "truncate", "write", "unlink"}
      BY <2>1, <3>1 DEF Does
    <3>3. Finish(t, u)
      BY <2>4, <2>8, <3>1 DEF Done
    <3> QED  BY <2>10, <2>12, <3>1, <3>2, <3>3
  <2>16. CASE DiskFails(t)
    <3>1. /\ UNCHANGED <<live, signed, lock, late, overtaken>>
          /\ step \in {"logDisk", "truncate", "write", "unlink"}
          /\ Finish(t, IF step = "truncate" THEN Tail(u) ELSE u)
      BY <2>1, <2>4, <2>8, <2>16 DEF DiskFails, Does, shared, signing
    <3>2. CASE step # "truncate"
      BY <2>10, <2>12, <3>1, <3>2
    <3>3. CASE step = "truncate"
      <4>1. PICK w : w = Tail(u)
        OBVIOUS
      <4>2. Drops(u, w, 1) /\ w \in Seq(Steps) /\ Len(u) >= 2
        <5>1. Drops(u, w, 1) /\ w \in Seq(Steps)
          BY <2>9, <2>10, <3>3, <4>1, DropOne DEF Drops
        <5>2. 3 = Len(u) + 1 /\ Len(u) \in Nat
          BY <2>5, <2>6, <2>9, <3>3, DropsLen DEF Drops
        <5>3. PICK m \in Nat : m = Len(u) /\ 3 = m + 1
          BY <5>2
        <5>4. m >= 2
          BY <5>3, SMT
        <5> QED  BY <5>1, <5>3, <5>4
      <4>3. Len(w) >= 1 /\ w[1] # "set" /\ PlanRest(w, z, new)
        BY <2>10, <3>3, <4>2, RestDrops
      <4>4. w[1] # "signSet"
        <5>1. u[1] # "signRead"
          <6>1. Len(u) >= 4 => n >= 5
            BY <2>5, <2>9, SMT DEF Drops
          <6>2. ~(n >= 5)
            BY <2>6, <3>3, SMT
          <6> QED  BY <2>9, <2>10, <3>3, <6>1, <6>2, RestAt
        <5> QED  BY <2>10, <3>3, <4>2, <4>3, <5>1, RestSigns
      <4>5. w # <<>> /\ Head(w) = w[1]
        BY <4>2, <4>3, SMT
      <4>6. Finish(t, w)
        BY <3>1, <3>3, <4>1
      <4> QED  BY <2>12, <3>1, <3>3, <4>3, <4>4, <4>5, <4>6
    <3> QED  BY <3>2, <3>3
  <2>17. CASE ReadZones(t) \/ LoadZones(t)
    BY <2>1, <2>2, <2>17 DEF ReadZones, LoadZones, Does
  <2> QED  BY <1>6, <2>11, <2>13, <2>14, <2>15, <2>16, <2>17 DEF Step
<1>7. ASSUME NEW t \in Tasks, Step(t) PROVE SignedInOrder'
  <2>1. CASE SetSigned(t)
    <3>1. SignedInOrder
      BY <2>1 DEF SetSigned, Does, SignedInv
    <3> QED  BY <2>1, <3>1, SetSignedKeeps
  <2>2. CASE t \in Timers /\ ~SetSigned(t)
    <3>1. PICK step \in Steps : Does(t, step)
      BY <1>7 DEF Step, ReadZones, SetZones, LogToDisk, LogToMemory, ReadForSigning, SetSigned,
                  TruncateFile, WriteFile, RemoveFile, DiskFails, Acknowledge, LoadZones, Steps
    <3>2. t \notin ApiTasks
      BY <2>2, ZoneStoreAssumption
    <3>3. step \in {"signRead", "signSet"}
      BY <3>1, <3>2, WhoSteps
    <3>4. ReadForSigning(t)
      BY <1>7, <2>2, <3>1, <3>3 DEF Step, ReadZones, SetZones, LogToDisk, LogToMemory,
                  TruncateFile, WriteFile, RemoveFile, DiskFails, Acknowledge, LoadZones, Does
    <3> QED  BY <1>5, <2>2, <3>4
  <2>3. CASE t \notin Timers /\ ~SetSigned(t)
    BY <1>6, <1>7, <2>3
  <2> QED  BY <2>1, <2>2, <2>3
<1>8. CASE Restart
  <2>1. lock' = NoTask /\ signed' = SignedOf(live') /\ task' = [t \in Tasks |-> Idle]
    BY <1>8 DEF Restart
  <2>2. \A z \in Signed : signed'[z] = live'[z]
    BY <1>0, <2>1 DEF SignedOf
  <2>3. \A u \in Tasks : task'[u].todo = <<>>
    BY <2>1 DEF Idle
  <2>4. \A u \in Timers : \A i \in 1..Len(task'[u].todo) : FALSE
    BY <2>3, SMT DEF Tasks
  <2> QED  BY <2>2, <2>3, <2>4 DEF SignedInOrder, UpToDate, Does
<1>9. CASE UNCHANGED vars
  <2>1. UNCHANGED <<live, signed, lock, task, up, late, overtaken>>
    BY <1>9 DEF vars
  <2>2. SignedInOrder
    BY <2>1 DEF SignedInv
  <2> QED  BY <2>1, <2>2 DEF SignedInOrder, Pending, Writing, UpToDate, Does
<1>10. CASE Request
  BY <1>2, <1>10 DEF Request, OnlyApiWrites
<1> QED  BY <1>4, <1>7, <1>8, <1>9, <1>10 DEF Next

(*****************************************************************************)
(* With API writers and the re-sign timers beside them, the signatures       *)
(* served with nobody writing are those of the zones served: after_change    *)
(* re-signs before the reply, and a timer does no harm unless it stores what *)
(* it read before another task stored.                                       *)
(*****************************************************************************)
THEOREM QuietSignaturesMatch == OnlyApiWrites => (Spec => []SignaturesMatchLive)
<1> SUFFICES ASSUME OnlyApiWrites PROVE Spec => []SignaturesMatchLive
  OBVIOUS
<1>1. Spec => []ApiInv
  BY ApiInvariant
<1>2. Init => SignedInv
  BY SignedInit
<1>3. ApiInv /\ SignedInv /\ [Next]_vars => SignedInv'
  BY SignedStep
<1>4. ApiInv /\ SignedInv => SignaturesMatchLive
  <2> SUFFICES ASSUME ApiInv, SignedInOrder, up, Quiet, ~late, NEW z \in Signed, live[z] # NoContent
               PROVE  signed[z] = live[z]
    BY DEF SignedInv, SignaturesMatchLive
  <2>1. lock = NoTask
    <3> SUFFICES ASSUME lock # NoTask PROVE FALSE
      OBVIOUS
    <3>1. lock \in Tasks /\ Len(task[lock].todo) >= 1
      BY DEF ApiInv, InOrder, WriterOK, Tasks
    <3>2. task[lock].todo = <<>>
      BY <3>1 DEF Quiet, IsIdle
    <3> QED  BY <3>1, <3>2, SMT
  <2> QED  BY <2>1 DEF SignedInOrder, Pending, Writing, UpToDate
<1> QED  BY <1>1, <1>2, <1>3, <1>4, PTL DEF Spec

----------------------------------------------------------------------------
(* The contents that are ever built for a zone. *)
Built == [serial : Nat, edits : SUBSET Nat]

(* The deltas between two contents out of m. *)
Deltas(m) == {Diff(o, n) : o \in m, n \in m}

(* What is served, stored and recorded of a zone was built for it. *)
ZoneMade(z) ==
    /\ live[z] \in made[z] \cup {NoContent}
    /\ file[z] \in made[z] \cup {NoContent, Torn}
    /\ served[z] \subseteq made[z]
    /\ z \in Listed => Original \in made[z]
    /\ log[z] \in Seq(Deltas(made[z])) /\ logFile[z] \in Seq(Deltas(made[z]))

HasLog(s) == \E i \in 1..Len(s) : s[i] \in {"logDisk", "logMem"}

(* So was what a task holds; a task that will record a delta has both its ends. *)
JobMade(j, m) ==
    /\ \A z \in Zones : j.snap[z] \in m[z] \cup {NoContent}
    /\ j.zone \in Zones => j.new \in m[j.zone] \cup {NoContent}
    /\ HasLog(j.todo) => j.zone \in Zones /\ j.old \in m[j.zone] /\ j.new \in m[j.zone]

(* The invariant behind JournalSound, whoever writes. *)
MadeInv ==
    /\ made \in [Zones -> SUBSET Built] /\ DOMAIN log = Zones /\ DOMAIN logFile = Zones
    /\ \A z \in Zones : ZoneMade(z)
    /\ \A t \in Tasks : JobMade(task[t], made)

INSTANCE WellFoundedInduction

(* A set of natural numbers has a least one. *)
LEMMA LeastOf ==
    ASSUME NEW S \in SUBSET Nat, S # {}
    PROVE  \E m \in S : \A y \in S : m <= y
<1>1. \E x \in S : \A y \in S : ~(<<y, x>> \in OpToRel(<, Nat))
  BY NatLessThanWellFounded, WFMin
<1>2. \A x \in Nat, y \in Nat : y < x => <<y, x>> \in OpToRel(<, Nat)
  BY DEF OpToRel
<1>3. \A x \in Nat, y \in Nat : ~(y < x) => x <= y
  BY SMT
<1> QED  BY <1>1, <1>2, <1>3

(* r is what Replay computes in n steps. *)
ReplayUpTo(r, n, ds, c, target) ==
    r = [i \in 0..n |-> IF i = 0 THEN c ELSE Follow(ds, r[i - 1], target)]

(*****************************************************************************)
(* There is such an r for every n: the one for a least n without it could be *)
(* built from the one before.                                                *)
(*****************************************************************************)
LEMMA ReplayExists ==
    ASSUME NEW ds, NEW c, NEW target
    PROVE  \A n \in Nat : \E r : ReplayUpTo(r, n, ds, c, target)
<1> DEFINE S == {n \in Nat : ~\E r : ReplayUpTo(r, n, ds, c, target)}
<1> SUFFICES ASSUME S # {} PROVE FALSE
  OBVIOUS
<1>1. PICK m \in S : \A y \in S : m <= y
  BY LeastOf
<1>2. m \in Nat /\ ~\E r : ReplayUpTo(r, m, ds, c, target)
  BY <1>1
<1>3. CASE m = 0
  <2> DEFINE r == [i \in 0..0 |-> c]
  <2>1. r = [i \in 0..0 |-> IF i = 0 THEN c ELSE Follow(ds, r[i - 1], target)]
    BY SMT
  <2> QED  BY <1>2, <1>3, <2>1 DEF ReplayUpTo
<1>4. CASE m # 0
  <2>1. m - 1 \in Nat /\ ~(m <= m - 1)
    BY <1>2, <1>4, SMT
  <2>2. m - 1 \notin S
    BY <1>1, <2>1
  <2>3. PICK r : r = [i \in 0..(m - 1) |-> IF i = 0 THEN c ELSE Follow(ds, r[i - 1], target)]
    BY <2>1, <2>2 DEF ReplayUpTo
  <2> DEFINE q == [i \in 0..m |-> IF i = m THEN Follow(ds, r[m - 1], target) ELSE r[i]]
  <2>4. \A i \in 0..m : q[i] = IF i = 0 THEN c ELSE Follow(ds, q[i - 1], target)
    <3> SUFFICES ASSUME NEW i \in 0..m
                 PROVE  q[i] = IF i = 0 THEN c ELSE Follow(ds, q[i - 1], target)
      OBVIOUS
    <3>1. CASE i = 0
      <4>1. 0 \in 0..(m - 1) /\ 0 \in 0..m
        BY <1>2, <1>4, SMT
      <4>2. r[0] = c
        BY <2>3, <4>1
      <4> QED  BY <1>4, <3>1, <4>1, <4>2
    <3>2. CASE i # 0
      <4>1. i - 1 \in 0..m /\ i - 1 # m
        BY <1>2, <3>2, SMT
      <4>2. q[i - 1] = r[i - 1]
        BY <4>1
      <4>3. i # m => i \in 0..(m - 1)
        BY <1>2, SMT
      <4>4. i # m => r[i] = Follow(ds, r[i - 1], target)
        BY <2>3, <3>2, <4>3
      <4> HIDE DEF q
      <4>5. q[i] = IF i = m THEN Follow(ds, r[m - 1], target) ELSE r[i]
        BY DEF q
      <4> QED  BY <3>2, <4>2, <4>4, <4>5
    <3> QED  BY <3>1, <3>2
  <2>5. q = [i \in 0..m |-> q[i]]
    OBVIOUS
  <2> HIDE DEF q
  <2>6. q = [i \in 0..m |-> IF i = 0 THEN c ELSE Follow(ds, q[i - 1], target)]
    BY <2>4, <2>5
  <2> QED  BY <1>2, <2>6 DEF ReplayUpTo
<1> QED  BY <1>3, <1>4

(* Replay's recursion is well defined. *)
LEMMA ReplayUnfolds ==
    ASSUME NEW ds, NEW c, NEW target
    PROVE  \E r : /\ Replay(ds, c, target) = r[JournalDepth] /\ r[0] = c
                  /\ \A i \in 1..JournalDepth : r[i] = Follow(ds, r[i - 1], target)
<1>1. JournalDepth \in Nat
  BY ZoneStoreAssumption
<1> DEFINE r == CHOOSE f : f = [i \in 0..JournalDepth |-> IF i = 0 THEN c ELSE Follow(ds, f[i - 1], target)]
<1>2. r = [i \in 0..JournalDepth |-> IF i = 0 THEN c ELSE Follow(ds, r[i - 1], target)]
  <2>1. \E f : f = [i \in 0..JournalDepth |-> IF i = 0 THEN c ELSE Follow(ds, f[i - 1], target)]
    <3>1. \E f : ReplayUpTo(f, JournalDepth, ds, c, target)
      BY <1>1, ReplayExists
    <3> QED  BY <3>1 DEF ReplayUpTo
  <2> QED  BY <2>1
<1>3. Replay(ds, c, target) = r[JournalDepth]
  BY DEF Replay
<1> HIDE DEF r
<1>4. 0 \in 0..JournalDepth /\ \A i \in 1..JournalDepth : i \in 0..JournalDepth /\ i # 0
  BY <1>1, SMT
<1>5. r[0] = c
  BY <1>2, <1>4
<1>6. \A i \in 1..JournalDepth : r[i] = Follow(ds, r[i - 1], target)
  BY <1>2, <1>4
<1> QED  BY <1>3, <1>5, <1>6

(* Along the journal, a copy that was built leads to one that was built. *)
LEMMA FollowMade ==
    ASSUME NEW m \in SUBSET Built, \A a, b \in m : a.serial = b.serial => a = b,
           NEW ds \in Seq(Deltas(m)), NEW target, NEW p \in m \cup {NoContent}
    PROVE  Follow(ds, p, target) \in m \cup {NoContent}
<1> DEFINE first == {j \in DOMAIN ds : /\ ds[j].from = p.serial
                                      /\ \A k \in 1..(j - 1) : ds[k].from # p.serial}
           j == CHOOSE k \in first : TRUE
<1>1. CASE p.serial = target \/ p = NoContent \/ first = {}
  BY <1>1 DEF Follow
<1>2. CASE ~(p.serial = target \/ p = NoContent \/ first = {})
  <2>1. p \in m
    BY <1>2
  <2>2. j \in first
    BY <1>2
  <2>3. j \in DOMAIN ds /\ ds[j].from = p.serial
    BY <2>2
  <2>4. Follow(ds, p, target) = Zone(ds[j].to, (p.edits \ ds[j].deleted) \cup ds[j].added)
    BY <1>2 DEF Follow
  <2> HIDE DEF j, first
  <2>5. ds[j] \in Deltas(m)
    BY <2>3, SMT
  <2>6. PICK o \in m, n \in m : ds[j] = Diff(o, n)
    BY <2>5, SMT DEF Deltas
  <2>7. o.serial = p.serial
    BY <2>3, <2>6, SMT DEF Diff
  <2>8. o = p
    BY <2>1, <2>6, <2>7
  <2>9. n \in Built /\ p \in Built
    BY <2>1, <2>6
  <2>10. Follow(ds, p, target) = n
    <3>1. /\ ds[j].to = n.serial /\ ds[j].deleted = p.edits \ n.edits
          /\ ds[j].added = n.edits \ p.edits
      BY <2>6, <2>8, SMT DEF Diff
    <3>2. (p.edits \ (p.edits \ n.edits)) \cup (n.edits \ p.edits) = n.edits
      OBVIOUS
    <3>3. Follow(ds, p, target) = [serial |-> n.serial, edits |-> n.edits]
      BY <2>4, <3>1, <3>2 DEF Zone
    <3> QED  BY <2>9, <3>3 DEF Built
  <2> QED  BY <2>6, <2>10
<1> QED  BY <1>1, <1>2

(*****************************************************************************)
(* What a client ends up with was built, or there is no chain; shown for the *)
(* least step that would leave what was built.                               *)
(*****************************************************************************)
LEMMA ReplayMade ==
    ASSUME NEW m \in SUBSET Built, \A a, b \in m : a.serial = b.serial => a = b,
           NEW ds \in Seq(Deltas(m)), NEW target, NEW c \in m
    PROVE  Replay(ds, c, target) \in m \cup {NoContent}
<1>1. JournalDepth \in Nat
  BY ZoneStoreAssumption
<1>2. PICK r : /\ Replay(ds, c, target) = r[JournalDepth] /\ r[0] = c
               /\ \A i \in 1..JournalDepth : r[i] = Follow(ds, r[i - 1], target)
  BY ReplayUnfolds, SMT
<1> DEFINE S == {i \in 0..JournalDepth : r[i] \notin m \cup {NoContent}}
<1>3. S = {}
  <2> SUFFICES ASSUME S # {} PROVE FALSE
    OBVIOUS
  <2>1. S \in SUBSET Nat
    BY <1>1, SMT
  <2>2. PICK k \in S : \A y \in S : k <= y
    BY <2>1, LeastOf
  <2>3. k # 0
    BY <1>2, <2>2
  <2>4. k \in 1..JournalDepth /\ k - 1 \in 0..JournalDepth /\ ~(k <= k - 1)
    BY <1>1, <2>2, <2>3, SMT
  <2>5. r[k - 1] \in m \cup {NoContent}
    BY <2>2, <2>4
  <2>6. Follow(ds, r[k - 1], target) \in m \cup {NoContent}
    BY <2>5, FollowMade
  <2>7. r[k] \in m \cup {NoContent}
    BY <1>2, <2>4, <2>6
  <2> QED  BY <2>2, <2>7
<1>4. JournalDepth \in 0..JournalDepth
  BY <1>1, SMT
<1> QED  BY <1>2, <1>3, <1>4

(*****************************************************************************)
(* With one content per serial, a chain to the serial that is served ends at *)
(* the zone that is served.                                                  *)
(*****************************************************************************)
LEMMA MadeIsSound == MadeInv => JournalSound
<1> SUFFICES ASSUME MadeInv, NEW z \in Zones, SerialsUnique(z), live[z] # NoContent,
                    NEW c \in served[z],
                    Replay(log[z], c, live[z].serial).serial = live[z].serial
             PROVE  Replay(log[z], c, live[z].serial) = live[z]
  BY DEF JournalSound, ChainRight
<1>1. PICK m, ds : /\ m = made[z] /\ ds = log[z] /\ m \in SUBSET Built /\ ds \in Seq(Deltas(m))
                   /\ c \in m /\ live[z] \in m
  BY DEF MadeInv, ZoneMade
<1>2. \A a, b \in m : a.serial = b.serial => a = b
  BY <1>1 DEF SerialsUnique
<1>3. PICK r : r = Replay(ds, c, live[z].serial)
  OBVIOUS
<1>4. r \in m \cup {NoContent} /\ r.serial = live[z].serial
  BY <1>1, <1>2, <1>3, ReplayMade
<1>5. live[z].serial \in Nat
  BY <1>1 DEF Built
<1>6. r # NoContent
  BY <1>4, <1>5, SMT DEF NoContent
<1>7. r = live[z]
  BY <1>1, <1>2, <1>4, <1>6
<1> QED  BY <1>1, <1>3, <1>7

(* Dropping the oldest deltas leaves deltas. *)
LEMMA LastOfType ==
    ASSUME NEW T, NEW ds \in Seq(T)
    PROVE  LastOf(ds) \in Seq(T)
<1>1. Len(ds) \in Nat /\ JournalDepth \in Nat
  BY ZoneStoreAssumption, SMT
<1>2. CASE Len(ds) <= JournalDepth
  BY <1>2 DEF LastOf
<1>3. CASE ~(Len(ds) <= JournalDepth)
  <2>1. /\ Len(ds) - JournalDepth + 1 \in Nat /\ Len(ds) - JournalDepth + 1 >= 1
    BY <1>1, <1>3, SMT
  <2>2. SubSeq(ds, Len(ds) - JournalDepth + 1, Len(ds)) \in Seq(T)
    BY <1>1, <2>1, SMT
  <2> QED  BY <1>3, <2>2 DEF LastOf
<1> QED  BY <1>2, <1>3

(* Recording the step from one content to another leaves deltas. *)
LEMMA RecordedType ==
    ASSUME NEW m, NEW ds \in Seq(Deltas(m)), NEW old \in m, NEW new \in m
    PROVE  Recorded(ds, old, new) \in Seq(Deltas(m))
<1>1. Diff(old, new) \in Deltas(m)
  BY SMT DEF Deltas
<1>2. Append(ds, Diff(old, new)) \in Seq(Deltas(m))
  BY <1>1, SMT
<1> QED  BY <1>2 DEF Recorded

(* More was built: what was built before still was. *)
LEMMA DeltasGrow ==
    ASSUME NEW m, NEW n, m \subseteq n, NEW ds \in Seq(Deltas(m))
    PROVE  ds \in Seq(Deltas(n))
<1>1. Deltas(m) \subseteq Deltas(n)
  BY SMT DEF Deltas
<1> QED  BY <1>1, LongerSeq

LEMMA JobGrows ==
    ASSUME NEW j, NEW m, NEW n, JobMade(j, m), \A z \in Zones : m[z] \subseteq n[z]
    PROVE  JobMade(j, n)
BY DEF JobMade

(* A task with nothing to do holds nothing. *)
LEMMA IdleMade == ASSUME NEW m PROVE JobMade(Idle, m)
<1>1. Idle.todo = <<>> /\ Idle.new = NoContent /\ \A z \in Zones : Idle.snap[z] = NoContent
  BY DEF Idle
<1>2. ~HasLog(<<>>)
  BY SMT DEF HasLog
<1> QED  BY <1>1, <1>2 DEF JobMade

(* A change is started: its new content is built, and one task is given the job. *)
LEMMA ChangeStarts ==
    ASSUME ServedInv, MadeInv, NEW t \in Tasks, NEW z \in Zones, NEW new \in Built,
           made' = [made EXCEPT ![z] = @ \cup {new}], NEW job, task' = [task EXCEPT ![t] = job],
           JobMade(job, made'), UNCHANGED <<live, file, served, log, logFile>>
    PROVE  MadeInv'
<1>1. made \in [Zones -> SUBSET Built] /\ DOMAIN task = Tasks
  BY DEF MadeInv, ServedInv
<1>2. made' \in [Zones -> SUBSET Built] /\ \A y \in Zones : made[y] \subseteq made'[y]
  BY <1>1, SMT
<1>3. ASSUME NEW y \in Zones PROVE ZoneMade(y)'
  <2>1. ZoneMade(y) /\ made[y] \subseteq made'[y]
    BY <1>2 DEF MadeInv
  <2>2. log[y] \in Seq(Deltas(made'[y])) /\ logFile[y] \in Seq(Deltas(made'[y]))
    BY <2>1, DeltasGrow DEF ZoneMade
  <2> QED  BY <2>1, <2>2 DEF ZoneMade
<1>4. task'[t] = job /\ \A v \in Tasks \ {t} : task'[v] = task[v]
  BY <1>1
<1>5. \A v \in Tasks : JobMade(task'[v], made')
  <2>1. \A v \in Tasks : JobMade(task[v], made')
    BY <1>2, JobGrows DEF MadeInv
  <2> QED  BY <1>4, <2>1
<1> QED  BY <1>2, <1>3, <1>5 DEF MadeInv

(* One task goes on with a rest of its plan, holding what was built. *)
LEMMA TaskGoesOn ==
    ASSUME ServedInv, MadeInv, NEW t \in Tasks, NEW u, NEW d, Drops(task[t].todo, u, d),
           \/ Finish(t, u)
           \/ \E snap : /\ u = Tail(task[t].todo) /\ Holding(t, snap)
                        /\ \A z \in Zones : snap[z] \in made[z] \cup {NoContent}
    PROVE  \A v \in Tasks : JobMade(task'[v], made)
<1>1. task[t] \in JobType /\ DOMAIN task = Tasks /\ JobMade(task[t], made)
  BY DEF ServedInv, JobOK, MadeInv
<1>2. HasLog(u) => HasLog(task[t].todo)
  <2> SUFFICES ASSUME NEW i \in 1..Len(u), u[i] \in {"logDisk", "logMem"}
               PROVE  \E k \in 1..Len(task[t].todo) : task[t].todo[k] \in {"logDisk", "logMem"}
    BY DEF HasLog
  <2>1. i + d \in 1..Len(task[t].todo) /\ u[i] = task[t].todo[i + d]
    BY SMT DEF Drops
  <2> QED  BY <2>1
<1>3. \A v \in Tasks \ {t} : task'[v] = task[v]
  BY <1>1 DEF Finish, Holding
<1>4. JobMade(task'[t], made)
  <2>1. CASE Finish(t, u) /\ u = <<>>
    <3>1. task'[t] = Idle
      BY <1>1, <2>1 DEF Finish
    <3> QED  BY <3>1, IdleMade
  <2>2. CASE Finish(t, u) /\ u # <<>>
    <3>1. task'[t] = [task[t] EXCEPT !.todo = u]
      BY <1>1, <2>2 DEF Finish
    <3>2. /\ task'[t].todo = u /\ task'[t].zone = task[t].zone /\ task'[t].old = task[t].old
          /\ task'[t].new = task[t].new /\ task'[t].snap = task[t].snap
      BY <1>1, <3>1 DEF JobType
    <3> QED  BY <1>1, <1>2, <3>2 DEF JobMade
  <2>3. ASSUME NEW snap, u = Tail(task[t].todo), Holding(t, snap),
               \A z \in Zones : snap[z] \in made[z] \cup {NoContent}
        PROVE  JobMade(task'[t], made)
    <3>1. /\ task'[t].todo = u /\ task'[t].zone = task[t].zone /\ task'[t].old = task[t].old
          /\ task'[t].new = task[t].new /\ task'[t].snap = snap
      BY <1>1, <2>3 DEF Holding, JobType
    <3> QED  BY <1>1, <1>2, <2>3, <3>1 DEF JobMade
  <2> QED  BY <2>1, <2>2, <2>3
<1> QED  BY <1>3, <1>4 DEF MadeInv

(* What the files hold was built, when they load. *)
LEMMA LoadedMade ==
    ASSUME MadeInv, Loadable
    PROVE  \A z \in Zones : OnDisk[z] \in made[z] \cup {NoContent}
BY DEF Loadable, OnDisk, MadeInv, ZoneMade

(* At start a zone was built if it is served, and the journals are empty. *)
LEMMA MadeInit == Init => MadeInv
<1> SUFFICES ASSUME Init PROVE MadeInv
  OBVIOUS
<1>1. Original \in Built /\ Original # NoContent
  BY SMT DEF Original, Built, Zone, NoContent
<1>2. /\ log = [z \in Zones |-> <<>>] /\ logFile = [z \in Zones |-> <<>>]
      /\ task = [t \in Tasks |-> Idle] /\ live = OnDisk /\ made = served
      /\ served = [z \in Zones |-> {OnDisk[z]} \ {NoContent}]
      /\ file = [z \in Zones |-> IF z \in Filed THEN Original ELSE NoContent]
  BY DEF Init
<1>3. \A z \in Zones : /\ file[z] \in {Original, NoContent}
                       /\ OnDisk[z] = IF z \in Listed THEN Original ELSE file[z]
  BY <1>2 DEF OnDisk
<1>4. made \in [Zones -> SUBSET Built]
  BY <1>1, <1>2, <1>3
<1>5. ASSUME NEW z \in Zones PROVE ZoneMade(z)
  <2>1. live[z] \in made[z] \cup {NoContent} /\ served[z] \subseteq made[z]
    BY <1>2
  <2>2. z \in Listed => Original \in made[z]
    BY <1>1, <1>2, <1>3
  <2>3. file[z] \in made[z] \cup {NoContent, Torn}
    <3>1. CASE z \in Listed
      <4>1. z \notin Filed
        BY <3>1, ZoneStoreAssumption
      <4> QED  BY <1>2, <4>1
    <3>2. CASE z \notin Listed
      BY <1>2, <1>3, <3>2
    <3> QED  BY <3>1, <3>2
  <2>4. log[z] \in Seq(Deltas(made[z])) /\ logFile[z] \in Seq(Deltas(made[z]))
    BY <1>2, SMT
  <2> QED  BY <2>1, <2>2, <2>3, <2>4 DEF ZoneMade
<1>6. \A t \in Tasks : JobMade(task[t], made)
  BY <1>2, IdleMade
<1> QED  BY <1>2, <1>4, <1>5, <1>6 DEF MadeInv

(* Every action of every task preserves the invariant. *)
LEMMA MadeStep == ServedInv /\ MadeInv /\ [Next]_vars => MadeInv'
<1> SUFFICES ASSUME ServedInv, MadeInv, [Next]_vars PROVE MadeInv'
  OBVIOUS
<1>0. /\ edits \in Nat /\ DOMAIN task = Tasks /\ made \in [Zones -> SUBSET Built]
      /\ DOMAIN log = Zones /\ DOMAIN logFile = Zones
      /\ live \in [Zones -> Content] /\ file \in [Zones -> Content]
  BY DEF ServedInv, MadeInv
<1>1. ASSUME NEW z \in Zones
      PROVE  /\ live[z] \in made[z] \cup {NoContent} /\ made[z] \subseteq Built
             /\ \A n \in Nat, b \in Built : Edited(b, n, edits + 1) \in Built
             /\ \A n \in Nat : Zone(n, {edits + 1}) \in Built
             /\ \A b \in Built : b.serial \in Nat /\ b.serial + 1 \in Nat
  <2>1. \A n \in Nat, b \in Built : Edited(b, n, edits + 1) \in Built
    BY <1>0, SMT DEF Edited, Zone, Built
  <2>2. \A n \in Nat : Zone(n, {edits + 1}) \in Built
    BY <1>0, SMT DEF Zone, Built
  <2>3. \A b \in Built : b.serial \in Nat /\ b.serial + 1 \in Nat
    BY SMT DEF Built
  <2> QED  BY <1>0, <2>1, <2>2, <2>3 DEF MadeInv, ZoneMade
<1>2. ASSUME NEW t \in Tasks, NEW z \in Zones, NEW new \in Built, NEW plan, NEW old, NEW snap,
             Start(t, Job(plan, z, old, new, snap)), made' = [made EXCEPT ![z] = @ \cup {new}],
             HasLog(plan) => old \in made[z],
             snap \in {[live EXCEPT ![z] = new], Idle.snap},
             UNCHANGED <<live, file, served, log, logFile>>
      PROVE  MadeInv'
  <2>0. PICK job : job = Job(plan, z, old, new, snap)
    OBVIOUS
  <2>1. /\ task' = [task EXCEPT ![t] = job]
        /\ job.todo = plan /\ job.zone = z /\ job.old = old /\ job.new = new /\ job.snap = snap
    <3>1. task' = [task EXCEPT ![t] = job]
      BY <1>2, <2>0 DEF Start
    <3> QED  BY <2>0, <3>1, SMT DEF Job
  <2>2. new \in made'[z] /\ made[z] \subseteq made'[z] /\ \A y \in Zones \ {z} : made'[y] = made[y]
    BY <1>0, <1>2
  <2>3. \A y \in Zones : snap[y] \in made'[y] \cup {NoContent}
    <3>1. CASE snap = Idle.snap
      BY <3>1 DEF Idle
    <3>2. CASE snap = [live EXCEPT ![z] = new]
      <4>1. snap[z] = new /\ \A y \in Zones \ {z} : snap[y] = live[y]
        BY <1>0, <3>2
      <4> QED  BY <1>1, <2>2, <4>1
    <3> QED  BY <1>2, <3>1, <3>2
  <2>4. JobMade(job, made')
    BY <1>2, <2>1, <2>2, <2>3 DEF JobMade
  <2> QED  BY <1>2, <2>1, <2>4, ChangeStarts
<1>3. ASSUME NEW t \in ApiTasks, NEW z \in Zones, NEW n \in ClientSerials \cup {live[z].serial},
             Patch(t, z, n)
      PROVE  MadeInv'
  <2>1. PICK new : /\ new = Edited(live[z], n, edits + 1) /\ live[z] # NoContent
                   /\ made' = [made EXCEPT ![z] = @ \cup {new}]
                   /\ Start(t, Job(PatchPlan(z), z, live[z], new, [live EXCEPT ![z] = new]))
                   /\ UNCHANGED <<live, file, served, log, logFile>>
    BY <1>3 DEF Patch, NewEdit, ApiStart, disk
  <2>2. live[z] \in made[z] /\ n \in Nat /\ t \in Tasks
    BY <1>1, <2>1, ZoneStoreAssumption DEF Tasks
  <2>3. new \in Built
    BY <1>1, <2>1, <2>2
  <2> QED  BY <1>2, <2>1, <2>2, <2>3
<1>4. ASSUME NEW t \in ApiTasks, NEW z \in Zones, NEW n \in ClientSerials, Create(t, z, n)
      PROVE  MadeInv'
  <2>1. PICK new : /\ new = Zone(n, {edits + 1}) /\ made' = [made EXCEPT ![z] = @ \cup {new}]
                   /\ Start(t, Job(CreatePlan(z), z, NoContent, new, [live EXCEPT ![z] = new]))
                   /\ UNCHANGED <<live, file, served, log, logFile>>
    BY <1>4 DEF Create, NewEdit, ApiStart, disk
  <2>2. n \in Nat /\ t \in Tasks
    BY ZoneStoreAssumption DEF Tasks
  <2>3. new \in Built
    BY <1>1, <2>1, <2>2
  <2>4. ~HasLog(CreatePlan(z))
    BY SMT DEF CreatePlan, HasLog
  <2> QED  BY <1>2, <2>1, <2>2, <2>3, <2>4
<1>5. ASSUME NEW t \in Tasks, NEW job, task' = [task EXCEPT ![t] = job], JobMade(job, made),
             UNCHANGED <<live, file, served, log, logFile, made>>
      PROVE  MadeInv'
  <2>1. task'[t] = job /\ \A v \in Tasks \ {t} : task'[v] = task[v]
    BY <1>0, <1>5
  <2>2. \A v \in Tasks : JobMade(task'[v], made)
    BY <1>5, <2>1 DEF MadeInv
  <2>3. \A z \in Zones : ZoneMade(z)'
    BY <1>5 DEF MadeInv, ZoneMade
  <2> QED  BY <1>0, <1>5, <2>2, <2>3 DEF MadeInv
<1>6. ASSUME NEW t \in ApiTasks, NEW z \in Zones, Delete(t, z) PROVE MadeInv'
  <2>1. PICK snap : /\ snap = [live EXCEPT ![z] = NoContent]
                    /\ task' = [task EXCEPT ![t] = Job(DeletePlan, z, live[z], NoContent, snap)]
                    /\ UNCHANGED <<live, file, served, log, logFile, made>>
    BY <1>6 DEF Delete, ApiStart, Start, disk
  <2>2. ~HasLog(DeletePlan) /\ t \in Tasks
    BY SMT DEF DeletePlan, HasLog, Tasks
  <2>3. \A y \in Zones : snap[y] \in made[y] \cup {NoContent}
    <3>1. snap[z] = NoContent /\ \A y \in Zones \ {z} : snap[y] = live[y]
      BY <1>0, <2>1
    <3> QED  BY <1>1, <3>1
  <2>4. JobMade(Job(DeletePlan, z, live[z], NoContent, snap), made)
    BY <2>2, <2>3 DEF JobMade, Job
  <2> QED  BY <1>5, <2>1, <2>2, <2>4
<1>7. ASSUME NEW t \in UpdateTasks, NEW z \in Zones, Update(t, z) PROVE MadeInv'
  <2>1. PICK new : /\ new = Edited(live[z], live[z].serial, edits + 1) /\ live[z] # NoContent
                   /\ made' = [made EXCEPT ![z] = @ \cup {new}]
                   /\ Start(t, Job(UpdatePlan(z), z, live[z], new, Idle.snap))
                   /\ UNCHANGED <<live, file, served, log, logFile>>
    BY <1>7 DEF Update, NewEdit, shared, disk
  <2>2. live[z] \in made[z] /\ t \in Tasks
    BY <1>1, <2>1 DEF Tasks
  <2>3. new \in Built
    BY <1>1, <2>1, <2>2
  <2> QED  BY <1>2, <2>1, <2>2, <2>3
<1>8. ASSUME NEW t \in Transfers, NEW z \in Zones, Transfer(t, z) PROVE MadeInv'
  <2>1. PICK n, new : /\ n = IF live[z] = NoContent THEN 1 ELSE live[z].serial + 1
                      /\ new = Zone(n, {edits + 1}) /\ made' = [made EXCEPT ![z] = @ \cup {new}]
                      /\ Start(t, Job(TransferPlan, z, NoContent, new, Idle.snap))
                      /\ UNCHANGED <<live, file, served, log, logFile>>
    BY <1>8 DEF Transfer, NewEdit, shared, disk
  <2>2. n \in Nat /\ t \in Tasks
    <3>1. 1 \in Nat
      BY SMT
    <3> QED  BY <1>1, <2>1, <3>1 DEF Tasks
  <2>3. new \in Built
    BY <1>1, <2>1, <2>2
  <2>4. ~HasLog(TransferPlan)
    BY SMT DEF TransferPlan, HasLog
  <2> QED  BY <1>2, <2>1, <2>2, <2>3, <2>4
<1>9. ASSUME NEW t \in Tasks, TimerFires(t) \/ Hangup(t) PROVE MadeInv'
  <2>1. PICK plan \in {TimerPlan, ReloadPlan} :
            /\ task' = [task EXCEPT ![t] = [Idle EXCEPT !.todo = plan]]
            /\ UNCHANGED <<live, file, served, log, logFile, made>>
    BY <1>9 DEF TimerFires, Hangup, Start, shared, disk, history
  <2>2. ~HasLog(plan)
    BY <2>1, SMT DEF TimerPlan, ReloadPlan, HasLog
  <2>3. JobMade([Idle EXCEPT !.todo = plan], made)
    BY <2>2 DEF JobMade, Idle
  <2> QED  BY <1>5, <2>1, <2>3
<1>10. ASSUME NEW t \in Tasks, Step(t) PROVE MadeInv'
  <2> DEFINE j == task[t]
  <2>1. PICK step \in Steps : Does(t, step)
    BY <1>10 DEF Step, ReadZones, SetZones, LogToDisk, LogToMemory, ReadForSigning, SetSigned,
                 TruncateFile, WriteFile, RemoveFile, DiskFails, Acknowledge, LoadZones, Steps
  <2>2. /\ Drops(j.todo, Tail(j.todo), 1) /\ j.todo \in Seq(Steps) /\ j.todo[1] = step
        /\ 1 \in 1..Len(j.todo) /\ Head(j.todo) = step
    BY <2>1, AtHead DEF Does
  <2>3. JobMade(j, made) /\ \A z \in Zones : ZoneMade(z)
    BY DEF MadeInv
  <2>4. ASSUME made' = made, \A v \in Tasks : JobMade(task'[v], made),
               DOMAIN log' = Zones, DOMAIN logFile' = Zones,
               \A z \in Zones : /\ live'[z] \in made[z] \cup {NoContent}
                                /\ file'[z] \in made[z] \cup {NoContent, Torn}
                                /\ served'[z] \subseteq made[z]
                                /\ log'[z] \in Seq(Deltas(made[z])) /\ logFile'[z] \in Seq(Deltas(made[z]))
        PROVE  MadeInv'
    <3>1. \A z \in Zones : ZoneMade(z)'
      BY <2>3, <2>4 DEF ZoneMade
    <3> QED  BY <1>0, <2>4, <3>1 DEF MadeInv
  <2>5. CASE ReadZones(t)
    <3>1. PICK snap : /\ snap = [live EXCEPT ![j.zone] = j.new] /\ Holding(t, snap)
                      /\ UNCHANGED <<live, file, served, log, logFile, made>>
      BY <2>5 DEF ReadZones, shared, disk, history
    <3>2. \A z \in Zones : snap[z] \in made[z] \cup {NoContent}
      BY <1>0, <1>1, <2>3, <3>1 DEF JobMade
    <3>3. \A v \in Tasks : JobMade(task'[v], made)
      BY <2>2, <3>1, <3>2, TaskGoesOn
    <3> QED  BY <1>0, <2>3, <2>4, <3>1, <3>3 DEF ZoneMade
  <2>6. CASE SetZones(t)
    <3>1. /\ live' = j.snap /\ served' = [z \in Zones |-> served[z] \cup ({live'[z]} \ {NoContent})]
          /\ Finish(t, Tail(j.todo)) /\ UNCHANGED <<file, log, logFile, made>>
      BY <2>6 DEF SetZones, Done, disk
    <3>2. \A v \in Tasks : JobMade(task'[v], made)
      BY <2>2, <3>1, TaskGoesOn
    <3>3. \A z \in Zones : live'[z] \in made[z] \cup {NoContent} /\ served'[z] \subseteq made[z]
      BY <2>3, <3>1 DEF JobMade, ZoneMade
    <3> QED  BY <1>0, <2>3, <2>4, <3>1, <3>2, <3>3 DEF ZoneMade
  <2>7. ASSUME Finish(t, Tail(j.todo)), Does(t, "logDisk") \/ Does(t, "logMem"),
               NEW nd, NEW lf \in {log, logFile},
               nd = Recorded(lf[j.zone], j.old, j.new)
        PROVE  /\ j.zone \in Zones /\ nd \in Seq(Deltas(made[j.zone]))
               /\ LastOf(nd) \in Seq(Deltas(made[j.zone]))
               /\ \A v \in Tasks : JobMade(task'[v], made)
    <3>1. HasLog(j.todo)
      BY <2>1, <2>2, <2>7 DEF HasLog, Does
    <3>2. j.zone \in Zones /\ j.old \in made[j.zone] /\ j.new \in made[j.zone]
      BY <2>3, <3>1 DEF JobMade
    <3>3. lf[j.zone] \in Seq(Deltas(made[j.zone]))
      BY <2>3, <2>7, <3>2 DEF ZoneMade
    <3>4. nd \in Seq(Deltas(made[j.zone]))
      BY <2>7, <3>2, <3>3, RecordedType
    <3>5. LastOf(nd) \in Seq(Deltas(made[j.zone]))
      BY <3>4, LastOfType
    <3>6. \A v \in Tasks : JobMade(task'[v], made)
      BY <2>2, <2>7, TaskGoesOn
    <3> QED  BY <3>2, <3>4, <3>5, <3>6
  <2>8. CASE LogToDisk(t)
    <3>1. PICK nd : /\ nd = Recorded(logFile[j.zone], j.old, j.new) /\ Does(t, "logDisk")
                    /\ logFile' = [logFile EXCEPT ![j.zone] = nd]
                    /\ Finish(t, Tail(j.todo)) /\ UNCHANGED <<live, file, served, log, made>>
      BY <2>8 DEF LogToDisk, Done, shared, history
    <3>2. /\ j.zone \in Zones /\ nd \in Seq(Deltas(made[j.zone]))
          /\ \A v \in Tasks : JobMade(task'[v], made)
      <4>1. Finish(t, Tail(j.todo)) /\ Does(t, "logDisk") /\ logFile \in {log, logFile}
        BY <3>1
      <4> QED  BY <2>7, <3>1, <4>1
    <3>3. DOMAIN logFile' = Zones /\ \A z \in Zones : logFile'[z] = IF z = j.zone THEN nd ELSE logFile[z]
      BY <1>0, <3>1
    <3> QED  BY <1>0, <2>3, <2>4, <3>1, <3>2, <3>3 DEF ZoneMade
  <2>9. CASE LogToMemory(t)
    <3>1. PICK nd : /\ nd = Recorded(log[j.zone], j.old, j.new) /\ Does(t, "logMem")
                    /\ log' = [log EXCEPT ![j.zone] = LastOf(nd)]
                    /\ Finish(t, Tail(j.todo)) /\ UNCHANGED <<live, file, served, logFile, made>>
      BY <2>9 DEF LogToMemory, Done, shared, disk, history
    <3>2. /\ j.zone \in Zones /\ LastOf(nd) \in Seq(Deltas(made[j.zone]))
          /\ \A v \in Tasks : JobMade(task'[v], made)
      <4>1. Finish(t, Tail(j.todo)) /\ Does(t, "logMem") /\ log \in {log, logFile}
        BY <3>1
      <4> QED  BY <2>7, <3>1, <4>1
    <3>3. DOMAIN log' = Zones /\ \A z \in Zones : log'[z] = IF z = j.zone THEN LastOf(nd) ELSE log[z]
      BY <1>0, <3>1
    <3> QED  BY <1>0, <2>3, <2>4, <3>1, <3>2, <3>3 DEF ZoneMade
  <2>10. CASE ReadForSigning(t) \/ SetSigned(t) \/ Acknowledge(t)
    <3>1. /\ UNCHANGED <<live, file, served, log, logFile, made>>
          /\ Finish(t, Tail(j.todo)) \/ Holding(t, live)
      BY <2>10 DEF ReadForSigning, SetSigned, Acknowledge, Done, shared, disk, history
    <3>2. \A v \in Tasks : JobMade(task'[v], made)
      BY <1>1, <2>2, <3>1, TaskGoesOn
    <3> QED  BY <1>0, <2>3, <2>4, <3>1, <3>2 DEF ZoneMade
  <2>11. CASE TruncateFile(t) \/ WriteFile(t) \/ RemoveFile(t)
    <3>1. PICK c \in {Torn, j.new, NoContent} :
              /\ file' = [file EXCEPT ![j.zone] = c] /\ Finish(t, Tail(j.todo))
              /\ UNCHANGED <<live, served, log, logFile, made>>
      BY <2>11 DEF TruncateFile, WriteFile, RemoveFile, Done, shared, history
    <3>2. \A v \in Tasks : JobMade(task'[v], made)
      BY <2>2, <3>1, TaskGoesOn
    <3>3. \A z \in Zones : file'[z] \in made[z] \cup {NoContent, Torn}
      <4>1. \A z \in Zones : file'[z] = IF z = j.zone THEN c ELSE file[z]
        BY <1>0, <3>1
      <4> QED  BY <2>3, <3>1, <4>1 DEF JobMade, ZoneMade
    <3> QED  BY <1>0, <2>3, <2>4, <3>1, <3>2, <3>3 DEF ZoneMade
  <2>12. CASE DiskFails(t) \/ LoadZones(t)
    <3>1. UNCHANGED <<live, file, served, log, logFile, made>>
      BY <2>12 DEF DiskFails, LoadZones, shared, disk, history
    <3>2. \/ Finish(t, Tail(j.todo))
          \/ Finish(t, Tail(Tail(j.todo))) /\ step \in {"truncate", "load"}
          \/ Holding(t, OnDisk) /\ Loadable
      BY <2>1, <2>2, <2>12 DEF DiskFails, LoadZones, Does
    <3>3. \A v \in Tasks : JobMade(task'[v], made)
      <4>1. CASE Finish(t, Tail(j.todo))
        BY <2>2, <4>1, TaskGoesOn
      <4>2. CASE Finish(t, Tail(Tail(j.todo))) /\ step \in {"truncate", "load"}
        <5>1. Shape(j.todo)
          BY DEF ServedInv, JobOK
        <5>2. 1 + 1 \in 1..Len(j.todo)
          BY <2>2, <4>2, <5>1 DEF Shape
        <5>3. Drops(j.todo, Tail(Tail(j.todo)), 2)
          <6>1. 1 + 1 = 2
            BY SMT
          <6> QED  BY <2>2, <5>2, <6>1, DropTwo
        <5> QED  BY <4>2, <5>3, TaskGoesOn
      <4>3. CASE Holding(t, OnDisk) /\ Loadable
        BY <2>2, <4>3, LoadedMade, TaskGoesOn
      <4> QED  BY <3>2, <4>1, <4>2, <4>3
    <3> QED  BY <1>0, <2>3, <2>4, <3>1, <3>3 DEF ZoneMade
  <2> QED  BY <1>10, <2>5, <2>6, <2>8, <2>9, <2>10, <2>11, <2>12 DEF Step
<1>11. CASE Restart
  <2>1. /\ task' = [t \in Tasks |-> Idle] /\ made' = made /\ UNCHANGED <<file, logFile>>
        /\ live' = IF Loadable THEN OnDisk ELSE [z \in Zones |-> NoContent]
        /\ log' = [z \in Zones |-> LastOf(logFile[z])]
        /\ served' = [z \in Zones |-> served[z] \cup ({live'[z]} \ {NoContent})]
    BY <1>11 DEF Restart, disk
  <2>2. \A z \in Zones : live'[z] \in made[z] \cup {NoContent}
    BY <2>1, LoadedMade
  <2>3. \A z \in Zones : served'[z] \subseteq made[z] /\ log'[z] \in Seq(Deltas(made[z]))
    <3>1. \A z \in Zones : served[z] \subseteq made[z] /\ logFile[z] \in Seq(Deltas(made[z]))
      BY DEF MadeInv, ZoneMade
    <3> QED  BY <2>1, <2>2, <3>1, LastOfType
  <2>4. \A z \in Zones : ZoneMade(z)'
    BY <2>1, <2>2, <2>3 DEF MadeInv, ZoneMade
  <2>5. \A t \in Tasks : JobMade(task'[t], made')
    BY <2>1, IdleMade
  <2> QED  BY <1>0, <2>1, <2>4, <2>5 DEF MadeInv
<1>12. CASE UNCHANGED vars
  <2>1. UNCHANGED <<live, file, served, log, logFile, made, task>>
    BY <1>12 DEF vars
  <2>2. \A z \in Zones : ZoneMade(z)'
    BY <2>1 DEF MadeInv, ZoneMade
  <2> QED  BY <1>0, <2>1, <2>2 DEF MadeInv
<1>13. CASE Request
  BY <1>3, <1>4, <1>6, <1>7, <1>8, <1>9, <1>13 DEF Request, Tasks
<1> QED  BY <1>9, <1>10, <1>11, <1>12, <1>13 DEF Next, Tasks

(*****************************************************************************)
(* Whoever writes, deletes, fails, crashes or restarts: as long as no serial *)
(* was given to two contents of a zone, the chain of deltas the journal      *)
(* gives a client leads to the zone that is served and to nothing else.      *)
(*****************************************************************************)
THEOREM JournalNeverMisleads == Spec => []JournalSound
<1>1. Init => ServedInv /\ MadeInv
  BY ServedInit, MadeInit
<1>2. ServedInv /\ MadeInv /\ [Next]_vars => ServedInv' /\ MadeInv'
  BY ServedStep, MadeStep
<1>3. MadeInv => JournalSound
  BY MadeIsSound
<1> QED  BY <1>1, <1>2, <1>3, PTL DEF Spec
=============================================================================
