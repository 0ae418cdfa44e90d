----------------------------- MODULE ZoneStore -----------------------------
(***************************************************************************)
(* The authoritative data of the server and everybody who writes it: the   *)
(* live zone set and the signed zones, each behind a lock of its own; the  *)
(* zone files and the journal files; and the tasks that change them: API   *)
(* requests, dynamic updates, secondary transfers, the re-sign timer and   *)
(* the SIGHUP handler.  Only API requests take the API's write lock.       *)
(*                                                                         *)
(* A task is the list of the steps it still has to do.  A step is what it  *)
(* does under one lock or in one file operation; between two steps of a    *)
(* task any other task may run, for they run on different threads.         *)
(***************************************************************************)
EXTENDS Integers, Sequences

CONSTANTS
    Zones,           \* origins
    Listed,          \* those whose zone file is in the configured list ...
    Filed,           \* ... and those whose zone file is in zone_dir
    Signed,          \* the origins DNSSEC signs
    ApiTasks, UpdateTasks, Transfers, Timers, Reloaders,
    ApiOps,          \* the API requests made: "patch", "create", "delete"
    ClientSerials,   \* the serials of the SOAs that API clients send
    JournalDepth,
    DiskMayFail,     \* may a file operation fail (a full disk)
    MaxEdits,        \* bound on the number of changes
    MaxCrashes,      \* bound on the number of restarts
    NoTask, NoZone

Tasks == ApiTasks \cup UpdateTasks \cup Transfers \cup Timers \cup Reloaders

ASSUME ZoneStoreAssumption ==
    /\ Listed \subseteq Zones /\ Filed \subseteq Zones /\ Signed \subseteq Zones
    /\ Listed \cap Filed = {}
    /\ DiskMayFail \in BOOLEAN
    /\ {JournalDepth, MaxEdits, MaxCrashes} \subseteq Nat /\ ClientSerials \subseteq Nat
    /\ NoTask \notin Tasks
    /\ ApiTasks \cap Timers = {}

VARIABLES
    live,       \* Resolver.zones
    signed,     \* Resolver.signed: the zone contents that were signed
    file,       \* zone_dir, per origin
    log,        \* Journal.zones, per origin
    logFile,    \* journal_dir, per origin
    lock,       \* ApiCtx.write_lock
    task,       \* per task, what it still has to do and what it holds
    up,         \* FALSE once the server fails to start
    edits,      \* how many changes were made so far; also names them
    crashes,
    acked,      \* history: the changes reported as done (see Promised)
    made,       \* history: every content that was built for a zone
    served,     \* history: every content a zone was served with
    stale,      \* history: the zones whose last file operation failed
    overtaken,  \* history: the tasks that read for signing and then saw
                \* another one store its signatures first
    late        \* history: the last to store signatures was one of them

shared == <<live, signed, lock>>
disk == <<file, logFile>>
counts == <<edits, crashes>>
signing == <<overtaken, late>>
history == <<counts, acked, made, served, stale, signing>>
vars == <<live, signed, file, log, logFile, lock, task, up, edits, crashes,
          acked, made, served, stale, overtaken, late>>

----------------------------------------------------------------------------
(***************************************************************************)
(* A zone is its SOA serial and the changes that are in it.  A file is     *)
(* Torn between std::fs::write's truncation and its write.                 *)
(***************************************************************************)
Zone(n, es) == [serial |-> n, edits |-> es]
NoContent == [serial |-> -1, edits |-> {}]
Torn == [serial |-> -2, edits |-> {}]

Original == Zone(1, {})

(* Zone::bump_serial after the records were changed; n is the serial then, *)
(* which a PATCH that replaces the SOA rrset has set.                      *)
Edited(z, n, e) == Zone(n + 1, z.edits \cup {e})

(* Mutant of Diff: the two directions are swapped. *)
DiffSwapped(old, new) ==
    [from |-> old.serial, to |-> new.serial,
     deleted |-> new.edits \ old.edits, added |-> old.edits \ new.edits]

(* Journal::record's delta between two zones. *)
Diff(old, new) ==
    [from |-> old.serial, to |-> new.serial,
     deleted |-> old.edits \ new.edits, added |-> new.edits \ old.edits]

Recorded(ds, old, new) ==
    IF old.serial = new.serial THEN ds ELSE Append(ds, Diff(old, new))

LastOf(ds) ==
    IF Len(ds) <= JournalDepth THEN ds
    ELSE SubSeq(ds, Len(ds) - JournalDepth + 1, Len(ds))

(* load_zones: no file may be unreadable, and no origin may come twice. *)
Loadable ==
    /\ \A z \in Zones : file[z] # Torn
    /\ \A z \in Listed : file[z] = NoContent

OnDisk == [z \in Zones |-> IF z \in Listed THEN Original ELSE file[z]]

SignedOf(zones) == [z \in Zones |-> IF z \in Signed THEN zones[z] ELSE NoContent]

----------------------------------------------------------------------------
(* What each kind of task does, in the order in which the code does it. *)
(* Mutants of PatchPlan: the reply goes out first; nothing is signed. *)
PatchPlanAckFirst(z) ==
    IF z \in Signed
    THEN <<"set", "logDisk", "logMem", "signRead", "signSet", "ack", "truncate", "write">>
    ELSE <<"set", "logDisk", "logMem", "ack", "truncate", "write">>
PatchPlanUnsigned(z) ==
    <<"set", "logDisk", "logMem", "truncate", "write", "ack">>

PatchPlan(z) ==
    IF z \in Signed
    THEN <<"set", "logDisk", "logMem", "signRead", "signSet", "truncate", "write", "ack">>
    ELSE <<"set", "logDisk", "logMem", "truncate", "write", "ack">>

CreatePlan(z) ==
    IF z \in Signed THEN <<"set", "signRead", "signSet", "truncate", "write", "ack">>
                    ELSE <<"set", "truncate", "write", "ack">>

DeletePlan == <<"set", "unlink", "ack">>

(* Mutant of UpdatePlan: the new zone is not swapped in. *)
UpdatePlanUnserved(z) == <<"logDisk", "logMem", "truncate", "write", "ack">>

UpdatePlan(z) ==
    IF z \in Signed
    THEN <<"logDisk", "logMem", "read", "set", "truncate", "write", "signRead", "signSet", "ack">>
    ELSE <<"logDisk", "logMem", "read", "set", "truncate", "write", "ack">>

TransferPlan == <<"read", "set">>
TimerPlan == <<"signRead", "signSet">>
ReloadPlan == <<"load", "set", "signRead", "signSet">>

Idle == [todo |-> <<>>, zone |-> NoZone, old |-> NoContent, new |-> NoContent,
         snap |-> [z \in Zones |-> NoContent]]

Job(todo, z, old, new, snap) ==
    [todo |-> todo, zone |-> z, old |-> old, new |-> new, snap |-> snap]

IsIdle(t) == task[t].todo = <<>>

Start(t, job) == up /\ IsIdle(t) /\ task' = [task EXCEPT ![t] = job]

Init ==
    /\ file = [z \in Zones |-> IF z \in Filed THEN Original ELSE NoContent]
    /\ live = OnDisk
    /\ signed = SignedOf(OnDisk)
    /\ log = [z \in Zones |-> <<>>]
    /\ logFile = [z \in Zones |-> <<>>]
    /\ lock = NoTask
    /\ task = [t \in Tasks |-> Idle]
    /\ up = TRUE
    /\ edits = 0 /\ crashes = 0 /\ acked = {}
    /\ served = [z \in Zones |-> {OnDisk[z]} \ {NoContent}]
    /\ made = served
    /\ stale = {} /\ overtaken = {} /\ late = FALSE

(***************************************************************************)
(* API requests: with the write lock held, take a snapshot of the zones    *)
(* and prepare the new set from it.  Requests that are refused (404, 409,  *)
(* 400) change nothing.                                                    *)
(***************************************************************************)
NewEdit(z, new) ==
    /\ edits < MaxEdits /\ edits' = edits + 1
    /\ made' = [made EXCEPT ![z] = @ \cup {new}]

(* Mutant of ApiStart: the write lock is not waited for. *)
ApiStartUnlocked(t, job) ==
    /\ lock' = t
    /\ Start(t, job)
    /\ UNCHANGED <<live, signed, log, disk, up, crashes, served, stale, signing>>

ApiStart(t, job) ==
    /\ lock = NoTask
    /\ lock' = t
    /\ Start(t, job)
    /\ UNCHANGED <<live, signed, log, disk, up, crashes, served, stale, signing>>

Patch(t, z, n) ==
    LET new == Edited(live[z], n, edits + 1)
    IN  /\ "patch" \in ApiOps
        /\ live[z] # NoContent
        /\ NewEdit(z, new)
        /\ ApiStart(t, Job(PatchPlan(z), z, live[z], new, [live EXCEPT ![z] = new]))
        /\ UNCHANGED acked

Create(t, z, n) ==
    LET new == Zone(n, {edits + 1})
    IN  /\ "create" \in ApiOps
        /\ live[z] = NoContent
        /\ NewEdit(z, new)
        /\ ApiStart(t, Job(CreatePlan(z), z, NoContent, new, [live EXCEPT ![z] = new]))
        /\ UNCHANGED acked

Delete(t, z) ==
    /\ "delete" \in ApiOps
    /\ live[z] # NoContent
    /\ ApiStart(t, Job(DeletePlan, z, live[z], NoContent,
                       [live EXCEPT ![z] = NoContent]))
    /\ acked' = {a \in acked : a[1] # z}
    /\ UNCHANGED <<edits, made>>

(* handle_update: look the zone up in a snapshot and change a copy of it. *)
Update(t, z) ==
    LET new == Edited(live[z], live[z].serial, edits + 1)
    IN  /\ live[z] # NoContent
        /\ NewEdit(z, new)
        /\ Start(t, Job(UpdatePlan(z), z, live[z], new, Idle.snap))
        /\ UNCHANGED <<shared, log, disk, up, crashes, acked, served, stale, signing>>

(* run_secondary has pulled the zone from a primary, which knows nothing of *)
(* changes made here, because it is newer or not here at all.               *)
Transfer(t, z) ==
    LET new == Zone(IF live[z] = NoContent THEN 1 ELSE live[z].serial + 1, {edits + 1})
    IN  /\ NewEdit(z, new)
        /\ Start(t, Job(TransferPlan, z, NoContent, new, Idle.snap))
        /\ UNCHANGED <<shared, log, disk, up, crashes, acked, served, stale, signing>>

TimerFires(t) ==
    /\ Start(t, [Idle EXCEPT !.todo = TimerPlan])
    /\ UNCHANGED <<shared, log, disk, up, history>>

Hangup(t) ==
    /\ Start(t, [Idle EXCEPT !.todo = ReloadPlan])
    /\ UNCHANGED <<shared, log, disk, up, history>>

----------------------------------------------------------------------------
(* One step of a task: the first of what it has to do is done. *)
Does(t, step) == up /\ task[t].todo # <<>> /\ Head(task[t].todo) = step

Finish(t, todo) ==
    task' = [task EXCEPT ![t] = IF todo = <<>> THEN Idle ELSE [@ EXCEPT !.todo = todo]]

Done(t) == Finish(t, Tail(task[t].todo))

Holding(t, snap) ==
    task' = [task EXCEPT ![t] = [task[t] EXCEPT !.todo = Tail(@), !.snap = snap]]

(* upsert_zone, first half: clone the current set and put the zone into it. *)
ReadZones(t) ==
    /\ Does(t, "read")
    /\ Holding(t, [live EXCEPT ![task[t].zone] = task[t].new])
    /\ UNCHANGED <<shared, log, disk, up, history>>

(* set_zones *)
SetZones(t) ==
    /\ Does(t, "set")
    /\ live' = task[t].snap
    /\ served' = [z \in Zones |-> served[z] \cup ({live'[z]} \ {NoContent})]
    /\ Done(t)
    /\ UNCHANGED <<signed, lock, log, disk, up, counts, acked, made, stale, signing>>

(* Journal::record: append to the file, then to the map under its mutex. *)
LogToDisk(t) ==
    LET z == task[t].zone
    IN  /\ Does(t, "logDisk")
        /\ logFile' = [logFile EXCEPT ![z] = Recorded(@, task[t].old, task[t].new)]
        /\ Done(t)
        /\ UNCHANGED <<shared, log, file, up, history>>

LogToMemory(t) ==
    LET z == task[t].zone
    IN  /\ Does(t, "logMem")
        /\ log' = [log EXCEPT ![z] = LastOf(Recorded(@, task[t].old, task[t].new))]
        /\ Done(t)
        /\ UNCHANGED <<shared, disk, up, history>>

(* resign: sign a snapshot of the zones, then replace the whole signed set. *)
ReadForSigning(t) ==
    /\ Does(t, "signRead")
    /\ Holding(t, live)
    /\ UNCHANGED <<shared, log, disk, up, history>>

(* Mutant of SetSigned: what is signed already is left alone. *)
SetSignedOnce(t) ==
    /\ Does(t, "signSet")
    /\ signed' = [z \in Zones |-> IF signed[z] # NoContent THEN signed[z]
                                  ELSE SignedOf(task[t].snap)[z]]
    /\ overtaken' = {u \in Tasks \ {t} : u \in overtaken \/ Does(u, "signSet")}
    /\ late' = (t \in overtaken)
    /\ Done(t)
    /\ UNCHANGED <<live, lock, log, disk, up, counts, acked, made, served, stale>>

SetSigned(t) ==
    /\ Does(t, "signSet")
    /\ signed' = SignedOf(task[t].snap)
    /\ overtaken' = {u \in Tasks \ {t} : u \in overtaken \/ Does(u, "signSet")}
    /\ late' = (t \in overtaken)
    /\ Done(t)
    /\ UNCHANGED <<live, lock, log, disk, up, counts, acked, made, served, stale>>

(* std::fs::write of the zone file: truncate it, then fill it. *)
TruncateFile(t) ==
    /\ Does(t, "truncate")
    /\ file' = [file EXCEPT ![task[t].zone] = Torn]
    /\ Done(t)
    /\ UNCHANGED <<shared, log, logFile, up, history>>

(* Mutant of WriteFile: the zone before the change. *)
WriteFileOld(t) ==
    /\ Does(t, "write")
    /\ file' = [file EXCEPT ![task[t].zone] = task[t].old]
    /\ stale' = stale \ {task[t].zone}
    /\ Done(t)
    /\ UNCHANGED <<shared, log, logFile, up, counts, acked, made, served, signing>>
WriteFile(t) ==
    /\ Does(t, "write")
    /\ file' = [file EXCEPT ![task[t].zone] = task[t].new]
    /\ stale' = stale \ {task[t].zone}
    /\ Done(t)
    /\ UNCHANGED <<shared, log, logFile, up, counts, acked, made, served, signing>>

RemoveFile(t) ==
    /\ Does(t, "unlink")
    /\ file' = [file EXCEPT ![task[t].zone] = NoContent]
    /\ stale' = stale \ {task[t].zone}
    /\ Done(t)
    /\ UNCHANGED <<shared, log, logFile, up, counts, acked, made, served, signing>>

(***************************************************************************)
(* A file operation fails: a warning is logged and the task goes on.  An   *)
(* fs::write that cannot open the file never gets to write it.             *)
(***************************************************************************)
DiskFails(t) ==
    LET todo == task[t].todo
    IN  /\ DiskMayFail
        /\ \E step \in {"truncate", "write", "unlink", "logDisk"} : Does(t, step)
        /\ Finish(t, IF Head(todo) = "truncate" THEN Tail(Tail(todo)) ELSE Tail(todo))
        /\ stale' = IF Head(todo) = "logDisk" THEN stale ELSE stale \cup {task[t].zone}
        /\ UNCHANGED <<shared, log, disk, up, counts, acked, made, served, signing>>

(* The reply goes out; an API request gives the write lock back. *)
Acknowledge(t) ==
    LET z == task[t].zone
        new == task[t].new
    IN  /\ Does(t, "ack")
        /\ acked' = acked \cup {<<z, e>> : e \in new.edits \ task[t].old.edits}
        /\ lock' = IF lock = t THEN NoTask ELSE lock
        /\ Done(t)
        /\ UNCHANGED <<live, signed, log, disk, up, counts, made, served, stale, signing>>

(* SIGHUP: a zone set that does not load leaves the current one in place. *)
LoadZones(t) ==
    /\ Does(t, "load")
    /\ IF Loadable
       THEN Holding(t, OnDisk)
       ELSE Finish(t, Tail(Tail(task[t].todo)))
    /\ UNCHANGED <<shared, log, disk, up, history>>

(***************************************************************************)
(* What is left of the promises after a restart: a change reported as done *)
(* is to survive it, unless a warning said that its zone was not written.  *)
(* Deleting a zone takes the promises about it back.                       *)
(***************************************************************************)
Promised == {a \in acked : a[1] \in stale => a[2] \in file[a[1]].edits}

(***************************************************************************)
(* The process dies and is started again: memory is rebuilt from the zone  *)
(* files and the journal files, or the server does not come up.            *)
(***************************************************************************)
Restart ==
    /\ up /\ crashes < MaxCrashes
    /\ crashes' = crashes + 1
    /\ up' = Loadable
    /\ task' = [t \in Tasks |-> Idle]
    /\ lock' = NoTask
    /\ live' = IF Loadable THEN OnDisk ELSE [z \in Zones |-> NoContent]
    /\ signed' = SignedOf(live')
    /\ log' = [z \in Zones |-> LastOf(logFile[z])]
    /\ served' = [z \in Zones |-> served[z] \cup ({live'[z]} \ {NoContent})]
    /\ acked' = Promised
    /\ stale' = {} /\ overtaken' = {} /\ late' = FALSE
    /\ UNCHANGED <<disk, edits, made>>

Step(t) ==
    \/ ReadZones(t) \/ SetZones(t) \/ LogToDisk(t) \/ LogToMemory(t)
    \/ ReadForSigning(t) \/ SetSigned(t)
    \/ TruncateFile(t) \/ WriteFile(t) \/ RemoveFile(t) \/ DiskFails(t)
    \/ Acknowledge(t) \/ LoadZones(t)

Request ==
    \/ \E t \in ApiTasks, z \in Zones :
          \/ \E n \in ClientSerials \cup {live[z].serial} : Patch(t, z, n)
          \/ \E n \in ClientSerials : Create(t, z, n)
          \/ Delete(t, z)
    \/ \E t \in UpdateTasks, z \in Zones : Update(t, z)
    \/ \E t \in Transfers, z \in Zones : Transfer(t, z)
    \/ \E t \in Reloaders : Hangup(t)

Next ==
    \/ Request
    \/ \E t \in Timers : TimerFires(t)
    \/ \E t \in Tasks : Step(t)
    \/ Restart

Spec == Init /\ [][Next]_vars

(***************************************************************************)
(* The re-sign timer ticks for ever and its task is run: this much is all  *)
(* that is asked of the runtime.  Nobody has to make a request, and        *)
(* nothing has to crash.  A timer that is up can always go on, so this is  *)
(* weak fairness of its steps.                                             *)
(***************************************************************************)
FairSpec == Spec /\ \A t \in Timers : []<>~up \/ []<><<task'[t] # task[t]>>_vars

----------------------------------------------------------------------------
ZoneContents == [serial : Nat, edits : SUBSET (1..MaxEdits)]

Diffs == [from : Int, to : Int, deleted : SUBSET (1..MaxEdits), added : SUBSET (1..MaxEdits)]

TypeOK ==
    /\ live \in [Zones -> ZoneContents \cup {NoContent}]
    /\ signed \in [Zones -> ZoneContents \cup {NoContent}]
    /\ file \in [Zones -> ZoneContents \cup {NoContent, Torn}]
    /\ \A z \in Zones : /\ log[z] \in Seq(Diffs) /\ Len(log[z]) <= JournalDepth
                        /\ logFile[z] \in Seq(Diffs)
                        /\ served[z] \subseteq made[z] /\ made[z] \subseteq ZoneContents
    /\ lock \in ApiTasks \cup {NoTask}
    /\ up \in BOOLEAN /\ edits \in 0..MaxEdits /\ crashes \in 0..MaxCrashes
    /\ acked \subseteq Zones \X (1..MaxEdits)
    /\ stale \subseteq Zones /\ overtaken \subseteq Tasks /\ late \in BOOLEAN

Quiet == \A t \in Tasks : IsIdle(t)

(***************************************************************************)
(* An edit that was reported as done is in the zone that is served: no     *)
(* other writer undoes it ("Serializes writers", api.rs:50).               *)
(***************************************************************************)
AckedEditsLive ==
    up => \A a \in acked : a[2] \in live[a[1]].edits

(***************************************************************************)
(* While the server runs, an edit that was reported as done is in the zone *)
(* file, so that it survives restarts and reloads (api.rs:12-14), except   *)
(* that a request has just truncated that file and writes it next, or that *)
(* the last attempt to write it failed with a warning.  (A crash between   *)
(* truncating and writing leaves no zone file at all: see StartsAgain.)    *)
(***************************************************************************)
AckedEditsOnDisk ==
    up => \A a \in acked :
            \/ a[2] \in file[a[1]].edits
            \/ a[1] \in stale
            \/ \E t \in Tasks : task[t].zone = a[1] /\ Does(t, "write")

(* Without the last exception: what is reported as done is saved, which a   *)
(* full disk refutes (MCZoneDiskFull).                                      *)
AckedMeansSaved ==
    up => \A a \in acked :
            \/ a[2] \in file[a[1]].edits
            \/ \E t \in Tasks : task[t].zone = a[1] /\ Does(t, "write")

(***************************************************************************)
(* With nobody writing, the zone files load, so that a SIGHUP or a restart *)
(* finds what was persisted (api.rs:12-14), and hold exactly what is       *)
(* served, but for the zones whose last file operation failed ...          *)
(***************************************************************************)
DiskMatchesLive ==
    up /\ Quiet => /\ stale = {} => Loadable
                   /\ \A z \in Zones \ (Listed \cup stale) : file[z] = live[z]

(***************************************************************************)
(* ... and the signatures are those of what is served: re-signed on change *)
(* and on reload (README, Online signing), with the re-sign timer running  *)
(* beside the requests, unless the last to store its signatures had read   *)
(* the zones before another one stored.                                    *)
(***************************************************************************)
SignaturesMatchLive ==
    up /\ Quiet /\ ~late => \A z \in Signed : live[z] # NoContent => signed[z] = live[z]

(* Without that exception (MCZoneStaleSigs shows how it fails). *)
SignaturesAlwaysMatch ==
    up /\ Quiet => \A z \in Signed : live[z] # NoContent => signed[z] = live[z]

(* Journal::chain: on a client's copy p, apply the first delta that starts  *)
(* at its serial; with none there is no chain.                              *)
Follow(ds, p, target) ==
    LET first == {j \in DOMAIN ds : /\ ds[j].from = p.serial
                                   /\ \A k \in 1..(j - 1) : ds[k].from # p.serial}
        j == CHOOSE k \in first : TRUE
    IN  IF p.serial = target \/ p = NoContent THEN p
        ELSE IF first = {} THEN NoContent
        ELSE Zone(ds[j].to, (p.edits \ ds[j].deleted) \cup ds[j].added)

(* ... at most JournalDepth times. *)
Replay(ds, c, target) ==
    LET r[i \in 0..JournalDepth] == IF i = 0 THEN c ELSE Follow(ds, r[i - 1], target)
    IN  r[JournalDepth]

(* A client with any content this server ever served, at an older serial,  *)
(* that is sent the chain of deltas up to the current serial (xfr lib.rs   *)
(* 138-139), ends up with the zone that is served.                         *)
ChainRight(z) ==
    live[z] # NoContent =>
        \A c \in served[z] : c.serial # live[z].serial =>
            LET r == Replay(log[z], c, live[z].serial)
            IN  r.serial = live[z].serial => r = live[z]

(* For every client: false where serials are used twice (MCZoneJournal). *)
ChainReachesLive == up => \A z \in Zones : ChainRight(z)

(***************************************************************************)
(* Whoever writes, deletes, fails or crashes, and whatever the journal has *)
(* dropped: the chain never misleads a client as long as no serial was     *)
(* given to two contents of a zone.  A zone re-created or patched with an  *)
(* old serial, a crash between the journal and the zone file, and two      *)
(* writers at once give one twice, and then it may (MCZoneJournal).        *)
(***************************************************************************)
SerialsUnique(z) == \A a, b \in made[z] : a.serial = b.serial => a = b

JournalSound == up => \A z \in Zones : SerialsUnique(z) => ChainRight(z)

(***************************************************************************)
(* Whoever else writes, reloads or crashes: a change is reported as done   *)
(* only after a zone that contains it was served.                          *)
(***************************************************************************)
AckedEditsWereServed ==
    \A a \in acked : \E c \in served[a[1]] : a[2] \in c.edits

(***************************************************************************)
(* Whatever order concurrent re-signings finish in, the timer repairs it:  *)
(* once nobody changes zones any more, the signatures become those of the  *)
(* zones served and stay so.                                               *)
(***************************************************************************)
SignaturesCatchUp ==
    <>[](\A t \in Tasks \ Timers : IsIdle(t))
        => <>[](up => \A z \in Signed : live[z] # NoContent => signed[z] = live[z])

(***************************************************************************)
(* The server can be started again after a crash, on the files it wrote    *)
(* itself (api.rs:12-14: changes are persisted so they survive restarts).  *)
(***************************************************************************)
StartsAgain == up
=============================================================================
