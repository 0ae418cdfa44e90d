--------------------------- MODULE ResolverProofs ---------------------------
(***************************************************************************)
(* Proofs, for any number of clients and keys, that the singleflight of    *)
(* module Resolver elects one leader per key and never leaves a follower   *)
(* behind, and that only validated data is cached or called secure; that   *)
(* the stack and the delegation cache of Recursor stay in bounds, for      *)
(* names of any length, any limits, and servers that answer anything; and  *)
(* that Secondary never rolls back and heeds every NOTIFY, for every       *)
(* serial width, any list of primaries and any number of changes, failures *)
(* and reloads.                                                            *)
(***************************************************************************)
EXTENDS Resolver, Recursor, Secondary, TLAPS

(* A type invariant of every step that leaves the cache to its contract. *)
LEMMA StoreTyped ==
    ASSUME Store!TypeOK,
           \/ UNCHANGED cache
           \/ Store!Decay
           \/ \E k \in Keys, r \in Results : Store!Insert(k, r)
    PROVE  Store!TypeOK'
  BY Zenon DEF Store!TypeOK, Store!Decay, Store!Insert

(* What a fresh or stale key holds is a result. *)
LEMMA HeldIsResult ==
    ASSUME Store!TypeOK, NEW k \in Keys, Store!Fresh(k) \/ Store!Stale(k)
    PROVE  cache[k].resp \in Results
  BY DEF Store!TypeOK, Store!Contents, Store!Nothing, Store!Held, Store!Fresh, Store!Stale

(* Where a task is says what it holds. *)
Holds ==
    \A c \in Clients :
        /\ task[c].pc \in {"validate", "insert"} => task[c].got \in Results
        /\ task[c].pc \in {"begin", "wait"} => task[c].round < Rounds

TypeInv == TypeOK /\ Holds

(* Replacing one task by a well-typed one that holds what its pc promises. *)
LEMMA TaskReplaced ==
    ASSUME TypeInv, NEW c \in Clients, NEW t \in Tasks,
           task' = [task EXCEPT ![c] = t],
           t.pc # "idle" => t.key \in Keys,
           t.pc \in {"validate", "insert"} => t.got \in Results,
           t.pc \in {"begin", "wait"} => t.round < Rounds,
           Store!TypeOK', inflight' \in [Keys -> Clients \cup {NoClient}]
    PROVE  TypeInv'
  BY Zenon DEF TypeInv, TypeOK, Holds

LEMMA TypeInit == Init => TypeInv
  BY ResolverAssumption
  DEF Init, TypeInv, TypeOK, Holds, Store!Init, Store!TypeOK, Store!Contents,
      Idle, Tasks, Rounds, Leading, Pcs, Endings

LEMMA TypeStep == TypeInv /\ [Next]_vars => TypeInv'
<1> SUFFICES ASSUME TypeInv, [Next]_vars PROVE TypeInv'
  BY Zenon
<1>a. inflight \in [Keys -> Clients \cup {NoClient}] /\ Store!TypeOK
  BY Zenon DEF TypeInv, TypeOK
<1>b. \A c \in Clients : /\ task[c] \in Tasks
                         /\ task[c].pc # "idle" => task[c].key \in Keys
  BY Zenon DEF TypeInv, TypeOK
<1>c. UNCHANGED cache => Store!TypeOK'
  BY <1>a, Zenon DEF Store!TypeOK
<1>1. ASSUME NEW c \in Clients, NEW k \in Keys, Ask(c, k) PROVE TypeInv'
  <2>1. [task[c] EXCEPT !.pc = "local", !.key = k] \in Tasks
    BY <1>b, Zenon DEF Tasks, Pcs
  <2> QED
    BY <1>1, <1>a, <1>b, <1>c, <2>1, TaskReplaced, Zenon DEF Ask, Tasks
<1>2. ASSUME NEW c \in Clients, NEW how \in Endings, NEW r \in Results \cup {NoResult},
             NEW phase \in {"remove", "answer", "outage"}, Ended(c, phase, how, r),
             task[c].pc # "idle", UNCHANGED inflight, Store!TypeOK'
      PROVE TypeInv'
  <2>1. [task[c] EXCEPT !.pc = phase, !.how = how, !.got = r] \in Tasks
    BY <1>b, Zenon DEF Tasks, Pcs, Leading
  <2> QED
    BY <1>2, <1>a, <1>b, <2>1, TaskReplaced, Zenon DEF Ended, Tasks
<1>3. ASSUME NEW c \in Clients, LocalHit(c) \/ LookupHit(c) \/ ServeStale(c) PROVE TypeInv'
  <2>1. cache[task[c].key].resp \in Results
    BY <1>3, <1>a, <1>b, HeldIsResult, Zenon DEF LocalHit, LookupHit, ServeStale
  <2> QED
    BY <1>2, <1>3, <1>c, <2>1, Zenon DEF LocalHit, LookupHit, ServeStale, Endings
<1>4. ASSUME NEW c \in Clients, FetchFails(c) \/ DirectFails(c) \/ ServFail(c) PROVE TypeInv'
  BY <1>2, <1>4, <1>c, Zenon DEF FetchFails, DirectFails, ServFail, Endings
<1>5. ASSUME NEW c \in Clients, DirectAnswers(c) PROVE TypeInv'
  BY <1>2, <1>5, <1>c, Zenon DEF DirectAnswers, Endings, Result, Results
<1>6. ASSUME NEW c \in Clients, InsertAnswer(c) PROVE TypeInv'
  <2>1. task[c].got \in Results /\ task[c].key \in Keys
    BY <1>6, <1>b, Zenon DEF InsertAnswer, TypeInv, Holds
  <2>2. Store!TypeOK'
    BY <1>6, <1>a, <2>1, StoreTyped, Zenon DEF InsertAnswer
  <2> QED
    BY <1>2, <1>6, <2>1, <2>2, Zenon DEF InsertAnswer, Endings
<1>7. ASSUME NEW c \in Clients, LocalMiss(c) \/ LookupMiss(c) PROVE TypeInv'
  <2>1. \A p \in {"lookup", "begin"} : [task[c] EXCEPT !.pc = p] \in Tasks
    BY <1>b, Zenon DEF Tasks, Pcs
  <2> QED
    BY <1>7, <1>a, <1>b, <1>c, <2>1, TaskReplaced, Zenon DEF LocalMiss, LookupMiss, Goto, Tasks
<1>8. ASSUME NEW c \in Clients, BeginLeader(c) \/ RemoveFlight(c) PROVE TypeInv'
  <2>1. \A p \in {"fetch", "send"} : [task[c] EXCEPT !.pc = p] \in Tasks
    BY <1>b, Zenon DEF Tasks, Pcs, Leading
  <2>2. inflight' \in [Keys -> Clients \cup {NoClient}]
    BY <1>8, <1>a, Zenon DEF BeginLeader, RemoveFlight
  <2> QED
    BY <1>8, <1>b, <1>c, <2>1, <2>2, TaskReplaced, Zenon DEF BeginLeader, RemoveFlight, Goto, Tasks
<1>9. ASSUME NEW c \in Clients, BeginFollower(c) PROVE TypeInv'
  <2> DEFINE t == [task[c] EXCEPT !.pc = "wait", !.on = inflight[task[c].key]]
  <2>1. t \in Tasks
    BY <1>9, <1>a, <1>b, Zenon DEF BeginFollower, Tasks, Pcs
  <2>2. task[c].round < Rounds
    BY <1>9, Zenon DEF BeginFollower, TypeInv, Holds
  <2> QED
    BY <1>9, <1>a, <1>b, <1>c, <2>1, <2>2, TaskReplaced, Zenon DEF BeginFollower, Tasks
<1>10. ASSUME NEW c \in Clients, WakeFollower(c) PROVE TypeInv'
  <2>1. task[c].round \in 0..Rounds /\ task[c].round < Rounds
    BY <1>10, <1>b, Zenon DEF WakeFollower, TypeInv, Holds, Tasks
  <2>2. task[c].round + 1 \in 0..Rounds
    BY <2>1 DEF Rounds
  <2>3. [task[c] EXCEPT !.pc = "lookup", !.round = task[c].round + 1] \in Tasks
    BY <1>b, <2>2, Zenon DEF Tasks, Pcs
  <2> QED
    BY <1>10, <1>a, <1>b, <1>c, <2>3, TaskReplaced, Zenon DEF WakeFollower, Tasks
<1>11. ASSUME NEW c \in Clients, NEW phase \in {"validate", "insert"}, NEW r \in Results,
              Got(c, phase, r), task[c].pc # "idle", UNCHANGED <<cache, inflight>>
       PROVE TypeInv'
  <2>1. [task[c] EXCEPT !.pc = phase, !.got = r] \in Tasks
    BY <1>b, Zenon DEF Tasks, Pcs, Leading
  <2> QED
    BY <1>11, <1>a, <1>b, <1>c, <2>1, TaskReplaced, Zenon DEF Got, Tasks
<1>12. ASSUME NEW c \in Clients, FetchAnswers(c) PROVE TypeInv'
  BY <1>11, <1>12, Zenon DEF FetchAnswers, Result, Results
<1>13. ASSUME NEW c \in Clients, Validate(c) PROVE TypeInv'
  <2>1. task[c].got \in Results
    BY <1>13, Zenon DEF Validate, TypeInv, Holds
  <2>2. CASE task[c].got.msg.verdict = "Bogus"
    BY <1>2, <1>13, <1>c, <2>2, Zenon DEF Validate, Endings
  <2>3. CASE task[c].got.msg.verdict # "Bogus"
    <3>1. Result(task[c].got.msg, task[c].got.msg.verdict = "Secure") \in Results
      BY <2>1, Zenon DEF Result, Results
    <3> QED
      BY <1>11, <1>13, <2>3, <3>1, Zenon DEF Validate
  <2> QED
    BY <2>2, <2>3, Zenon
<1>14. ASSUME NEW c \in Clients, SendDone(c) PROVE TypeInv'
  BY <1>14, <1>a, <1>b, <1>c DEF SendDone, Resume, TypeInv, TypeOK, Holds, Tasks, Pcs
<1>15. ASSUME NEW c \in Clients, Reply(c) PROVE TypeInv'
  <2>1. Idle \in Tasks
    BY DEF Idle, Tasks, Pcs, Endings, Rounds
  <2> QED
    BY <1>15, <1>a, <1>c, <2>1, TaskReplaced, Zenon DEF Reply, Idle
<1>16. CASE CacheDecays
  <2>1. Store!TypeOK'
    BY <1>16, <1>a, StoreTyped, Zenon DEF CacheDecays
  <2> QED
    BY <1>16, <2>1, Zenon DEF CacheDecays, TypeInv, TypeOK, Holds
<1>17. CASE UNCHANGED vars
  BY <1>17, <1>c, Zenon DEF vars, TypeInv, TypeOK, Holds
<1> QED
  BY <1>1, <1>3, <1>4, <1>5, <1>6, <1>7, <1>8, <1>9, <1>10, <1>12, <1>13, <1>14, <1>15, <1>16, <1>17, Zenon
  DEF Next, Progress, Lead

(* Every task and the cache keep their types for ever. *)
THEOREM TypeCorrect == Spec => []TypeOK
<1>1. Spec => []TypeInv
  BY TypeInit, TypeStep, PTL DEF Spec
<1> QED
  BY <1>1, PTL DEF TypeInv

----------------------------------------------------------------------------
(***************************************************************************)
(* The inductive invariant of the flight: a key is registered exactly      *)
(* while its leader holds the guard, and whoever waits, waits for a task   *)
(* that leads that key or has just removed it and is about to send.        *)
(***************************************************************************)
Holding == Leading \ {"send"}

FlightInv ==
    /\ \A c \in Clients :
           task[c].pc \in Holding => inflight[task[c].key] = c
    /\ \A k \in Keys : inflight[k] # NoClient =>
           task[inflight[k]].pc \in Holding /\ task[inflight[k]].key = k
    /\ \A c \in Clients : task[c].on # NoClient =>
           /\ task[c].pc = "wait"
           /\ task[task[c].on].pc \in Leading
           /\ task[task[c].on].key = task[c].key

LEMMA FlightInit == Init => FlightInv
  BY ResolverAssumption DEF Init, FlightInv, Idle, Holding, Leading

(* A step of one task that neither enters nor leaves the flight. *)
LEMMA OutsideFlight ==
    ASSUME TypeOK, FlightInv, NEW c \in Clients, NEW t \in Tasks,
           task' = [task EXCEPT ![c] = t], UNCHANGED inflight,
           task[c].on = NoClient, t.on = NoClient,
           t.pc \in Holding <=> task[c].pc \in Holding,
           t.pc = "send" <=> task[c].pc = "send",
           task[c].pc \in Leading => t.key = task[c].key
    PROVE  FlightInv'
<1>a. /\ task \in [Clients -> Tasks] /\ inflight \in [Keys -> Clients \cup {NoClient}]
      /\ \A d \in Clients : task[d].on \in Clients \cup {NoClient}
  BY Zenon DEF TypeOK, Tasks
<1>b. /\ task'[c] = t
      /\ \A d \in Clients \ {c} : task'[d] = task[d]
  BY <1>a, Zenon
<1>1. ASSUME NEW d \in Clients, task'[d].pc \in Holding
      PROVE  inflight'[task'[d].key] = d
  BY <1>1, <1>b DEF FlightInv, Holding
<1>2. ASSUME NEW k \in Keys, inflight'[k] # NoClient
      PROVE  task'[inflight'[k]].pc \in Holding /\ task'[inflight'[k]].key = k
  BY <1>2, <1>a, <1>b DEF FlightInv, Holding
<1>3. ASSUME NEW d \in Clients, task'[d].on # NoClient
      PROVE  /\ task'[d].pc = "wait"
             /\ task'[task'[d].on].pc \in Leading
             /\ task'[task'[d].on].key = task'[d].key
  BY <1>3, <1>a, <1>b DEF FlightInv, Holding, Leading
<1> QED
  BY <1>1, <1>2, <1>3, Zenon DEF FlightInv

LEMMA FlightStep == TypeInv /\ FlightInv /\ [Next]_vars => FlightInv'
<1> SUFFICES ASSUME TypeInv, FlightInv, [Next]_vars PROVE FlightInv'
  BY Zenon
<1> USE ResolverAssumption
<1>a. TypeOK /\ TypeInv'
  BY TypeStep, Zenon DEF TypeInv
<1>b. /\ task \in [Clients -> Tasks] /\ task' \in [Clients -> Tasks]
      /\ inflight \in [Keys -> Clients \cup {NoClient}]
      /\ \A c \in Clients : /\ task[c].pc # "idle" => task[c].key \in Keys
                            /\ task[c].on \in Clients \cup {NoClient}
  BY <1>a, Zenon DEF TypeInv, TypeOK, Tasks
<1>c. \A c \in Clients : task[c].pc # "wait" => task[c].on = NoClient
  BY Zenon DEF FlightInv
<1>1. ASSUME NEW c \in Clients, NEW k \in Keys, Ask(c, k) PROVE FlightInv'
  <2>1. task'[c] \in Tasks /\ task'[c].on = task[c].on /\ task'[c].pc = "local"
    BY <1>1, <1>b DEF Ask, Tasks
  <2> QED
    BY <1>1, <1>a, <1>b, <1>c, <2>1, OutsideFlight, Zenon DEF Ask, Holding, Leading
<1>2. ASSUME NEW c \in Clients, NEW phase, NEW how, NEW r, Ended(c, phase, how, r),
             task[c].pc # "wait", task[c].pc # "send", phase # "send",
             phase \in Holding <=> task[c].pc \in Holding, UNCHANGED inflight
      PROVE FlightInv'
  <2>1. /\ task'[c] \in Tasks /\ task'[c].on = task[c].on /\ task'[c].pc = phase
        /\ task'[c].key = task[c].key
    BY <1>2, <1>b DEF Ended, Tasks
  <2>2. task' = [task EXCEPT ![c] = task'[c]] /\ task[c].on = NoClient
    BY <1>2, <1>b, <1>c, Zenon DEF Ended
  <2> QED
    BY <1>2, <1>a, <2>1, <2>2, OutsideFlight, Zenon
<1>3. ASSUME NEW c \in Clients,
             \/ LocalHit(c) \/ LookupHit(c) \/ ServeStale(c) \/ ServFail(c)
             \/ FetchFails(c) \/ DirectFails(c) \/ DirectAnswers(c) \/ InsertAnswer(c)
      PROVE FlightInv'
  BY <1>2, <1>3, Zenon DEF LocalHit, LookupHit, ServeStale, ServFail, FetchFails, DirectFails,
                    DirectAnswers, InsertAnswer, Holding, Leading
<1>4. ASSUME NEW c \in Clients, NEW phase, NEW r, Got(c, phase, r),
             task[c].pc \in Holding, phase \in Holding, UNCHANGED inflight
      PROVE FlightInv'
  <2>1. /\ task'[c] \in Tasks /\ task'[c].on = task[c].on /\ task'[c].pc = phase
        /\ task'[c].key = task[c].key
    BY <1>4, <1>b DEF Got, Tasks
  <2> QED
    BY <1>4, <1>a, <1>b, <1>c, <2>1, OutsideFlight, ZenonT(60) DEF Got, Holding, Leading
<1>5. ASSUME NEW c \in Clients, FetchAnswers(c) \/ Validate(c) PROVE FlightInv'
  BY <1>2, <1>4, <1>5, Zenon DEF FetchAnswers, Validate, Holding, Leading
<1>6. ASSUME NEW c \in Clients, LocalMiss(c) \/ LookupMiss(c) \/ WakeFollower(c) PROVE FlightInv'
  <2>1. task[c].on = NoClient /\ task[c].pc \notin Leading /\ UNCHANGED inflight
    BY <1>6, <1>c, Zenon DEF LocalMiss, LookupMiss, WakeFollower, Leading
  <2>2. task'[c].pc \in {"lookup", "begin"} /\ task'[c].on = task[c].on
    <3>1. CASE LocalMiss(c) \/ LookupMiss(c)
      BY <3>1, <1>b DEF LocalMiss, LookupMiss, Goto, Tasks
    <3>2. CASE WakeFollower(c)
      BY <3>2, <1>b DEF WakeFollower, Tasks
    <3> QED
      BY <1>6, <3>1, <3>2, Zenon
  <2>3. task' = [task EXCEPT ![c] = task'[c]] /\ task'[c] \in Tasks
    BY <1>6, <1>b, Zenon DEF LocalMiss, LookupMiss, WakeFollower, Goto
  <2> QED
    BY <1>a, <2>1, <2>2, <2>3, OutsideFlight, Zenon DEF Holding, Leading
<1>7. ASSUME NEW c \in Clients, Reply(c) PROVE FlightInv'
  <2>1. Idle \in Tasks /\ task' = [task EXCEPT ![c] = Idle] /\ UNCHANGED inflight
    BY <1>7, <1>b, Zenon DEF Reply
  <2>2. task[c].pc = "answer" /\ task[c].on = NoClient
    BY <1>7, <1>c, Zenon DEF Reply
  <2>3. Idle.pc = "idle" /\ Idle.on = NoClient
    BY Zenon DEF Idle
  <2> QED
    BY <1>a, <2>1, <2>2, <2>3, OutsideFlight, Zenon DEF Holding, Leading
<1>8. ASSUME NEW c \in Clients, BeginLeader(c) PROVE FlightInv'
  <2>1. /\ task'[c].pc = "fetch" /\ task'[c].key = task[c].key /\ task'[c].on = task[c].on
        /\ \A d \in Clients \ {c} : task'[d] = task[d]
        /\ inflight'[task[c].key] = c /\ task[c].key \in Keys
        /\ \A k \in Keys \ {task[c].key} : inflight'[k] = inflight[k]
        /\ task[c].pc = "begin"
    BY <1>8, <1>b, Zenon DEF BeginLeader, Goto, Tasks
  <2>2. ASSUME NEW d \in Clients, task'[d].pc \in Holding
        PROVE  inflight'[task'[d].key] = d
    BY <1>8, <1>b, <2>1, <2>2 DEF BeginLeader, FlightInv, Holding, Leading
  <2>3. ASSUME NEW k \in Keys, inflight'[k] # NoClient
        PROVE  task'[inflight'[k]].pc \in Holding /\ task'[inflight'[k]].key = k
    BY <1>b, <2>1, <2>3 DEF FlightInv, Holding, Leading
  <2>4. ASSUME NEW d \in Clients, task'[d].on # NoClient
        PROVE  /\ task'[d].pc = "wait"
               /\ task'[task'[d].on].pc \in Leading
               /\ task'[task'[d].on].key = task'[d].key
    BY <1>b, <1>c, <2>1, <2>4 DEF FlightInv, Leading
  <2> QED
    BY <2>2, <2>3, <2>4, Zenon DEF FlightInv
<1>9. ASSUME NEW c \in Clients, BeginFollower(c) PROVE FlightInv'
  <2>1. /\ task'[c].pc = "wait" /\ task'[c].key = task[c].key
        /\ task'[c].on = inflight[task[c].key] /\ inflight[task[c].key] # NoClient
        /\ \A d \in Clients \ {c} : task'[d] = task[d]
        /\ UNCHANGED inflight /\ task[c].key \in Keys /\ task[c].pc = "begin"
    BY <1>9, <1>b, Zenon DEF BeginFollower, Tasks
  <2>2. ASSUME NEW d \in Clients, task'[d].pc \in Holding
        PROVE  inflight'[task'[d].key] = d
    BY <2>1, <2>2 DEF FlightInv, Holding, Leading
  <2>3. ASSUME NEW k \in Keys, inflight'[k] # NoClient
        PROVE  task'[inflight'[k]].pc \in Holding /\ task'[inflight'[k]].key = k
    BY <1>b, <2>1, <2>3 DEF FlightInv, Holding, Leading
  <2>4. ASSUME NEW d \in Clients, task'[d].on # NoClient
        PROVE  /\ task'[d].pc = "wait"
               /\ task'[task'[d].on].pc \in Leading
               /\ task'[task'[d].on].key = task'[d].key
    BY <1>b, <2>1, <2>4 DEF FlightInv, Holding, Leading
  <2> QED
    BY <2>2, <2>3, <2>4, Zenon DEF FlightInv
<1>10. ASSUME NEW c \in Clients, RemoveFlight(c) PROVE FlightInv'
  <2>1. /\ task'[c].pc = "send" /\ task'[c].key = task[c].key /\ task'[c].on = task[c].on
        /\ \A d \in Clients \ {c} : task'[d] = task[d]
        /\ inflight'[task[c].key] = NoClient /\ task[c].key \in Keys
        /\ \A k \in Keys \ {task[c].key} : inflight'[k] = inflight[k]
        /\ task[c].pc = "remove"
    BY <1>10, <1>b DEF RemoveFlight, Goto, Tasks
  <2>2. ASSUME NEW d \in Clients, task'[d].pc \in Holding
        PROVE  inflight'[task'[d].key] = d
    <3>1. d # c /\ task[d].pc \in Holding /\ task[d].key \in Keys
      BY <1>b, <2>1, <2>2, Zenon DEF Holding, Leading
    <3>2. task[d].key # task[c].key
      BY <2>1, <3>1 DEF FlightInv, Holding, Leading
    <3> QED
      BY <2>1, <3>1, <3>2 DEF FlightInv
  <2>3. ASSUME NEW k \in Keys, inflight'[k] # NoClient
        PROVE  task'[inflight'[k]].pc \in Holding /\ task'[inflight'[k]].key = k
    BY <1>b, <2>1, <2>3 DEF FlightInv, Holding, Leading
  <2>4. ASSUME NEW d \in Clients, task'[d].on # NoClient
        PROVE  /\ task'[d].pc = "wait"
               /\ task'[task'[d].on].pc \in Leading
               /\ task'[task'[d].on].key = task'[d].key
    BY <1>b, <1>c, <2>1, <2>4 DEF FlightInv, Leading
  <2> QED
    BY <2>2, <2>3, <2>4, Zenon DEF FlightInv
<1>11. ASSUME NEW c \in Clients, SendDone(c) PROVE FlightInv'
  <2>1. /\ task[c].pc = "send" /\ UNCHANGED inflight
        /\ task'[c].pc \notin Leading /\ task'[c].on = task[c].on
        /\ \A d \in Clients \ {c} :
              /\ task'[d].pc = task[d].pc /\ task'[d].key = task[d].key
              /\ task'[d].on = IF task[d].on = c THEN NoClient ELSE task[d].on
    BY <1>11, <1>b DEF SendDone, Resume, Tasks, Leading
  <2>2. ASSUME NEW d \in Clients, task'[d].pc \in Holding
        PROVE  inflight'[task'[d].key] = d
    BY <2>1, <2>2 DEF FlightInv, Holding
  <2>3. ASSUME NEW k \in Keys, inflight'[k] # NoClient
        PROVE  task'[inflight'[k]].pc \in Holding /\ task'[inflight'[k]].key = k
    BY <1>b, <2>1, <2>3 DEF FlightInv, Holding
  <2>4. ASSUME NEW d \in Clients, task'[d].on # NoClient
        PROVE  /\ task'[d].pc = "wait"
               /\ task'[task'[d].on].pc \in Leading
               /\ task'[task'[d].on].key = task'[d].key
    BY <1>b, <1>c, <2>1, <2>4 DEF FlightInv
  <2> QED
    BY <2>2, <2>3, <2>4, Zenon DEF FlightInv
<1>12. CASE CacheDecays \/ UNCHANGED vars
  BY <1>12, Zenon DEF CacheDecays, vars, FlightInv
<1> QED
  BY <1>1, <1>3, <1>5, <1>6, <1>7, <1>8, <1>9, <1>10, <1>11, <1>12, Zenon DEF Next, Progress, Lead

(***************************************************************************)
(* However many tasks look the same key up at the same time, at most one   *)
(* of them queries upstream under the flight, and nobody ever waits on a   *)
(* channel that will not be sent on again.                                 *)
(***************************************************************************)
THEOREM FlightCorrect == Spec => []FlightSound
<1>1. TypeInv /\ FlightInv => FlightSound
  BY DEF FlightInv, FlightSound, OneLeaderPerKey, NoOrphanedFollower, Holding
<1>2. Spec => [](TypeInv /\ FlightInv)
  BY TypeInit, TypeStep, FlightInit, FlightStep, PTL DEF Spec
<1> QED
  BY <1>1, <1>2, PTL

----------------------------------------------------------------------------
(***************************************************************************)
(* The inductive invariant of authenticity: what is stored, and what a     *)
(* leader is about to store or has stored, went through validation.        *)
(***************************************************************************)
Sound(r) ==
    /\ Validating => r.msg.verdict # "Bogus"
    /\ r.secure => Validating /\ r.msg.verdict = "Secure"

SoundStore == \A k \in Keys : cache[k].age # "gone" => Sound(cache[k].resp)

AuthInv ==
    /\ SoundStore
    /\ \A c \in Clients :
           /\ task[c].pc = "insert" => Sound(task[c].got)
           /\ task[c].pc = "validate" => Validating
           /\ task[c].pc \in {"remove", "send", "answer"} /\ task[c].got # NoResult
                  => (task[c].got.secure =>
                         Validating /\ task[c].got.msg.verdict = "Secure")

LEMMA AuthInit == Init => AuthInv
  BY DEF Init, AuthInv, SoundStore, Store!Init, Store!Nothing, Idle

(* The cache only ever forgets what it was given. *)
LEMMA StoreStaysSound ==
    ASSUME SoundStore,
           \/ UNCHANGED cache
           \/ Store!Decay
           \/ \E k \in Keys, r \in Results : Store!Insert(k, r) /\ Sound(r)
    PROVE  SoundStore'
<1>1. CASE UNCHANGED cache
  BY <1>1, Zenon DEF SoundStore
<1>2. ASSUME NEW e, e.age # "gone" => Sound(e.resp), NEW f \in Store!Decayed(e), f.age # "gone"
      PROVE  Sound(f.resp)
  BY <1>2 DEF Store!Decayed, Store!Nothing, Store!Held
<1>3. CASE Store!Decay
  BY <1>2, <1>3, Zenon DEF Store!Decay, SoundStore
<1>4. ASSUME NEW k \in Keys, NEW r \in Results, Store!Insert(k, r), Sound(r) PROVE SoundStore'
  <2>1. Store!Held("fresh", r).resp = r
    BY Zenon DEF Store!Held
  <2>2. ASSUME cache'[k].age # "gone" PROVE Sound(cache'[k].resp)
    BY <1>2, <1>4, <2>1, <2>2, Zenon DEF Store!Insert
  <2>3. ASSUME NEW j \in Keys \ {k}, cache'[j].age # "gone" PROVE Sound(cache'[j].resp)
    BY <1>2, <1>4, <2>3, Zenon DEF Store!Insert, SoundStore
  <2> QED
    BY <2>2, <2>3, Zenon DEF SoundStore
<1> QED
  BY <1>1, <1>3, <1>4, Zenon

LEMMA AuthStep == TypeInv /\ AuthInv /\ [Next]_vars => AuthInv'
<1> SUFFICES ASSUME TypeInv, AuthInv, [Next]_vars PROVE AuthInv'
  BY Zenon
<1> USE ResolverAssumption
<1>a. /\ task \in [Clients -> Tasks] /\ SoundStore
      /\ \A c \in Clients : task[c].pc # "idle" => task[c].key \in Keys
  BY Zenon DEF TypeInv, TypeOK, AuthInv
<1>b. UNCHANGED cache => SoundStore'
  BY <1>a, StoreStaysSound, Zenon
<1>1. ASSUME NEW c \in Clients, NEW phase \in {"remove", "answer", "outage"}, NEW how, NEW r,
             Ended(c, phase, how, r), SoundStore',
             r # NoResult => (r.secure => Validating /\ r.msg.verdict = "Secure")
      PROVE AuthInv'
  <2>1. /\ task'[c].pc = phase /\ task'[c].got = r
        /\ \A d \in Clients \ {c} : task'[d] = task[d]
    BY <1>1, <1>a, Zenon DEF Ended, Tasks
  <2> QED
    BY <1>1, <2>1, Zenon DEF AuthInv
<1>2. ASSUME NEW c \in Clients, LocalHit(c) \/ LookupHit(c) \/ ServeStale(c) PROVE AuthInv'
  <2>1. Sound(cache[task[c].key].resp)
    BY <1>2, <1>a, Zenon DEF LocalHit, LookupHit, ServeStale, Store!Fresh, Store!Stale, SoundStore
  <2> QED
    BY <1>1, <1>2, <1>b, <2>1, Zenon DEF LocalHit, LookupHit, ServeStale, Sound
<1>3. ASSUME NEW c \in Clients, FetchFails(c) \/ DirectFails(c) \/ ServFail(c) PROVE AuthInv'
  BY <1>1, <1>3, <1>b, Zenon DEF FetchFails, DirectFails, ServFail
<1>4. ASSUME NEW c \in Clients, DirectAnswers(c) PROVE AuthInv'
  BY <1>1, <1>4, <1>b, Zenon DEF DirectAnswers, Result
<1>5. ASSUME NEW c \in Clients, InsertAnswer(c) PROVE AuthInv'
  <2>1. task[c].got \in Results /\ Sound(task[c].got) /\ task[c].key \in Keys
    BY <1>5, <1>a, Zenon DEF InsertAnswer, TypeInv, Holds, AuthInv
  <2>2. SoundStore'
    BY <1>5, <1>a, <2>1, StoreStaysSound, Zenon DEF InsertAnswer
  <2> QED
    BY <1>1, <1>5, <2>1, <2>2, Zenon DEF InsertAnswer, Sound
<1>6. ASSUME NEW c \in Clients, NEW phase \in {"validate", "insert"}, NEW r, Got(c, phase, r),
             UNCHANGED cache, phase = "insert" => Sound(r), phase = "validate" => Validating
      PROVE AuthInv'
  <2>1. /\ task'[c].pc = phase /\ task'[c].got = r
        /\ \A d \in Clients \ {c} : task'[d] = task[d]
    BY <1>6, <1>a, Zenon DEF Got, Tasks
  <2> QED
    BY <1>6, <1>b, <2>1, Zenon DEF AuthInv
<1>7. ASSUME NEW c \in Clients, FetchAnswers(c) PROVE AuthInv'
  BY <1>6, <1>7, Zenon DEF FetchAnswers, Result, Sound
<1>8. ASSUME NEW c \in Clients, Validate(c) PROVE AuthInv'
  <2>1. Validating
    BY <1>8, Zenon DEF Validate, AuthInv
  <2>2. CASE task[c].got.msg.verdict = "Bogus"
    BY <1>1, <1>8, <1>b, <2>2, Zenon DEF Validate
  <2>3. CASE task[c].got.msg.verdict # "Bogus"
    <3>1. Sound(Result(task[c].got.msg, task[c].got.msg.verdict = "Secure"))
      BY <2>1, <2>3, Zenon DEF Sound, Result
    <3> QED
      BY <1>6, <1>8, <2>3, <3>1, Zenon DEF Validate
  <2> QED
    BY <2>2, <2>3, Zenon
<1>9. ASSUME NEW c \in Clients, NEW phase \in {"lookup", "begin", "fetch", "send"},
             task[c].pc = "remove" \/ phase # "send", Goto(c, phase), UNCHANGED cache
      PROVE AuthInv'
  <2>1. /\ task'[c].pc = phase /\ task'[c].got = task[c].got
        /\ \A d \in Clients \ {c} : task'[d] = task[d]
    BY <1>9, <1>a, Zenon DEF Goto, Tasks
  <2> QED
    BY <1>9, <1>b, <2>1 DEF AuthInv
<1>10. ASSUME NEW c \in Clients,
              LocalMiss(c) \/ LookupMiss(c) \/ BeginLeader(c) \/ RemoveFlight(c)
       PROVE AuthInv'
  BY <1>9, <1>10, Zenon DEF LocalMiss, LookupMiss, BeginLeader, RemoveFlight
<1>11. ASSUME NEW c \in Clients,
              (\E k \in Keys : Ask(c, k)) \/ BeginFollower(c) \/ WakeFollower(c) \/ Reply(c)
       PROVE AuthInv'
  <2>1. /\ task'[c].pc \in {"local", "wait", "lookup", "idle"} /\ UNCHANGED cache
        /\ \A d \in Clients \ {c} : task'[d] = task[d]
    <3>1. CASE \E k \in Keys : Ask(c, k)
      BY <1>a, <3>1 DEF Ask, Tasks
    <3>2. CASE BeginFollower(c)
      BY <1>a, <3>2, Zenon DEF BeginFollower, Tasks
    <3>3. CASE WakeFollower(c)
      BY <1>a, <3>3, Zenon DEF WakeFollower, Tasks
    <3>4. CASE Reply(c)
      BY <1>a, <3>4, Zenon DEF Reply, Idle
    <3> QED
      BY <1>11, <3>1, <3>2, <3>3, <3>4, Zenon
  <2> QED
    BY <1>b, <2>1, Zenon DEF AuthInv
<1>12. ASSUME NEW c \in Clients, SendDone(c) PROVE AuthInv'
  <2>1. /\ task[c].pc = "send" /\ task'[c].pc \in {"outage", "answer"}
        /\ task'[c].got = task[c].got /\ UNCHANGED cache
        /\ \A d \in Clients \ {c} : task'[d].pc = task[d].pc /\ task'[d].got = task[d].got
    BY <1>12, <1>a, Zenon DEF SendDone, Resume, Tasks
  <2> QED
    BY <1>b, <2>1, Zenon DEF AuthInv
<1>13. CASE CacheDecays
  <2>1. SoundStore'
    BY <1>13, <1>a, StoreStaysSound, Zenon DEF CacheDecays
  <2> QED
    BY <1>13, <2>1, Zenon DEF CacheDecays, AuthInv
<1>14. CASE UNCHANGED vars
  BY <1>14, <1>b, Zenon DEF vars, AuthInv
<1> QED
  BY <1>2, <1>3, <1>4, <1>5, <1>7, <1>8, <1>10, <1>11, <1>12, <1>13, <1>14, Zenon
  DEF Next, Progress, Lead

(***************************************************************************)
(* With a validator nothing bogus is cached, and no answer is called       *)
(* secure that was not validated as secure, whichever of the ways through  *)
(* resolve_external it took.                                               *)
(***************************************************************************)
THEOREM AuthenticityHolds == Spec => []AuthenticData
<1>1. TypeInv /\ AuthInv => AuthenticData
  BY Zenon DEF AuthInv, SoundStore, Sound, AuthenticData
<1>2. Spec => [](TypeInv /\ AuthInv)
  BY TypeInit, TypeStep, AuthInit, AuthStep, PTL DEF Spec
<1> QED
  BY <1>1, <1>2, PTL

----------------------------------------------------------------------------
(* Frames of resolve_depth: a DS frame is above the name it asks about, and *)
(* a referral whose name servers are being resolved is one to be followed.  *)
Types == {q[2] : q \in Questions} \cup {"A"}

FrameType ==
    [pc : {"enter", "ask", "alias", "addrs"}, name : Names, type : Types, zone : Names,
     cut : Nat, minimize : BOOLEAN, hops : 0..MaxReferrals, ns : Seq(Names), owner : Names]

Below(z, by) == EndsWith(z, by) /\ Len(z) > Len(by)

Frames ==
    {f \in FrameType :
        /\ f.type = "DS" /\ f.pc # "enter" /\ f.name # Root => f.zone # f.name
        /\ f.pc = "addrs" =>
              /\ Len(f.ns) > 0 /\ Below(f.owner, f.zone)
              /\ ~(f.type = "DS" /\ f.owner = f.name)}

(* Only the call that returns at once is deeper than MAX_DEPTH. *)
StackInv ==
    /\ stack \in Seq(Frames)
    /\ Len(stack) <= MaxDepth + 2
    /\ \A i \in 1..Len(stack) : stack[i].pc # "enter" => i <= MaxDepth + 1

CacheInv ==
    /\ delegations \subseteq Cuts
    /\ \A d \in delegations : Below(d.zone, d.by)

RecInv ==
    /\ CacheInv
    /\ answers \in [Questions -> Rcodes \cup {NoAnswer}]
    /\ StackInv
    /\ nested \in 0..MaxNested
    /\ outcome \in Replies \cup {Timeout, NoOutcome}

(* What the three operations on a stack do to its elements. *)
LEMMA ReplaceLast ==
    ASSUME NEW S, NEW s \in Seq(S), s # <<>>, NEW f \in S
    PROVE  LET t == [s EXCEPT ![Len(s)] = f] IN
           /\ t \in Seq(S) /\ Len(t) = Len(s) /\ t[Len(s)] = f
           /\ \A i \in 1..(Len(s) - 1) : t[i] = s[i]
<1> DEFINE t == [s EXCEPT ![Len(s)] = f]
<1>1. PICK n \in Nat : n = Len(s) /\ n >= 1 /\ s \in [1..n -> S]
  OBVIOUS
<1>2. t \in [1..n -> S] /\ t[n] = f /\ \A i \in 1..(n - 1) : t[i] = s[i]
  <2>1. t = [s EXCEPT ![n] = f]
    BY <1>1, Zenon
  <2> HIDE DEF t
  <2>2. n >= 1
    BY <1>1, Zenon
  <2>3. n \in 1..n
    BY <2>2
  <2>4. \A i \in 1..(n - 1) : i # n /\ i \in 1..n
    BY <2>2
  <2> QED  BY <1>1, <2>1, <2>3, <2>4, Zenon
<1> HIDE DEF t
<1>3. t \in Seq(S) /\ Len(t) = n
  BY <1>2
<1> QED  BY <1>1, <1>2, <1>3, Zenon DEF t

LEMMA PushLast ==
    ASSUME NEW S, NEW s \in Seq(S), NEW g \in S
    PROVE  LET t == Append(s, g) IN
           /\ t \in Seq(S) /\ Len(t) = Len(s) + 1 /\ t[Len(s) + 1] = g
           /\ \A i \in 1..Len(s) : t[i] = s[i]
OBVIOUS

LEMMA PopLast ==
    ASSUME NEW S, NEW s \in Seq(S), s # <<>>
    PROVE  LET t == SubSeq(s, 1, Len(s) - 1) IN
           /\ t \in Seq(S) /\ Len(t) = Len(s) - 1
           /\ \A i \in 1..(Len(s) - 1) : t[i] = s[i]
<1>1. PICK n \in Nat : n = Len(s) /\ n >= 1
  OBVIOUS
<1>2. SubSeq(s, 1, n - 1) \in Seq(S) /\ Len(SubSeq(s, 1, n - 1)) = n - 1
  BY <1>1
<1>3. \A i \in 1..(n - 1) : SubSeq(s, 1, n - 1)[i] = s[i]
  BY <1>1
<1> QED  BY <1>1, <1>2, <1>3, Zenon

(* The innermost frame, and the stack after each of the operations. *)
LEMMA TopFrame ==
    ASSUME StackInv, stack # <<>>
    PROVE  Top \in Frames /\ (Top.pc # "enter" => Len(stack) <= MaxDepth + 1)
           /\ Len(stack) \in Nat \ {0} /\ MaxDepth \in Nat
<1>1. Len(stack) \in Nat /\ Len(stack) >= 1 /\ MaxDepth \in Nat
  BY RecursorAssumption DEF StackInv
<1> QED  BY <1>1 DEF StackInv, Top

LEMMA StackReplaced ==
    ASSUME StackInv, stack # <<>>, NEW f \in Frames, Replace(f),
           Len(stack) <= MaxDepth + 1
    PROVE  StackInv'
<1>1. /\ stack' \in Seq(Frames) /\ Len(stack') = Len(stack)
      /\ \A i \in 1..(Len(stack) - 1) : stack'[i] = stack[i]
  BY ReplaceLast DEF Replace, StackInv
<1>2. Len(stack) \in Nat /\ MaxDepth \in Nat
  BY TopFrame, Zenon
<1>3. Frames' = Frames
  BY Zenon DEF Frames, FrameType, Below, EndsWith
<1> QED  BY <1>1, <1>2, <1>3 DEF StackInv

LEMMA StackCalled ==
    ASSUME StackInv, stack # <<>>, NEW f \in Frames, NEW n \in Names,
           NEW ty \in Types, Call(f, n, ty), Len(stack) <= MaxDepth + 1
    PROVE  StackInv'
<1> DEFINE t == [stack EXCEPT ![Len(stack)] = f]
<1>1. NewFrame(n, ty) \in Frames /\ NewFrame(n, ty).pc = "enter"
  BY RecursorAssumption DEF NewFrame, Frames, FrameType, Root
<1>2. /\ t \in Seq(Frames) /\ Len(t) = Len(stack)
      /\ \A i \in 1..(Len(stack) - 1) : t[i] = stack[i]
  BY ReplaceLast DEF StackInv
<1>3. stack' = Append(t, NewFrame(n, ty))
  BY Zenon DEF Call
<1> HIDE DEF t
<1>4. /\ stack' \in Seq(Frames) /\ Len(stack') = Len(t) + 1
      /\ stack'[Len(t) + 1] = NewFrame(n, ty)
      /\ \A i \in 1..Len(t) : stack'[i] = t[i]
  BY <1>1, <1>2, <1>3, PushLast
<1>5. Len(stack) \in Nat /\ MaxDepth \in Nat
  BY TopFrame, Zenon
<1>6. Frames' = Frames
  BY Zenon DEF Frames, FrameType, Below, EndsWith
<1> QED  BY <1>1, <1>2, <1>4, <1>5, <1>6 DEF StackInv

LEMMA StackPopped ==
    ASSUME StackInv, stack # <<>>, Pop
    PROVE  StackInv'
<1>1. /\ stack' \in Seq(Frames) /\ Len(stack') = Len(stack) - 1
      /\ \A i \in 1..(Len(stack) - 1) : stack'[i] = stack[i]
  BY PopLast, Zenon DEF Pop, StackInv
<1>2. Len(stack) \in Nat /\ MaxDepth \in Nat
  BY TopFrame, Zenon
<1>3. Frames' = Frames
  BY Zenon DEF Frames, FrameType, Below, EndsWith
<1> QED  BY <1>1, <1>2, <1>3 DEF StackInv

LEMMA StackKept ==
    ASSUME StackInv, UNCHANGED stack
    PROVE  StackInv'
BY Zenon DEF StackInv, Frames, FrameType, Below, EndsWith

(* cache_delegation of a cut below the zone that announced it. *)
LEMMA CutCached ==
    ASSUME CacheInv, NEW z \in Names, NEW by \in Names, Below(z, by), CacheDelegation(z, by)
    PROVE  CacheInv'
<1>1. delegations' \subseteq Cuts
  BY DEF CacheDelegation, Cuts, CacheInv
<1>2. \A d \in delegations' : d \in delegations \/ (d.zone = z /\ d.by = by)
  BY DEF CacheDelegation
<1> QED  BY <1>1, <1>2, Zenon DEF CacheInv, Cuts, Below, EndsWith

(* cached_start begins at a zone, which for a DS is not its own name. *)
LEMMA StartAbove ==
    ASSUME CacheInv, NEW f \in Frames, NEW z \in CachedStart(f)
    PROVE  z \in Names /\ (f.type = "DS" /\ f.name # Root => z # f.name)
<1>1. f.name \in Seq(STRING) /\ Len(f.name) \in Nat
  BY RecursorAssumption DEF Frames, FrameType
<1>2. CASE z = Root
  BY <1>2, RecursorAssumption, Zenon
<1>3. CASE z # Root
  <2>1. PICK k \in 1..(Len(f.name) - (IF f.type = "DS" THEN 1 ELSE 0)) :
           z = Last_(f.name, k) /\ \E d \in delegations : d.zone = z
    BY <1>3, Zenon DEF CachedStart
  <2>2. z \in Names
    BY <2>1, Zenon DEF CacheInv, Cuts
  <2>3. ASSUME f.type = "DS" PROVE z # f.name
    <3>1. k \in Nat /\ k >= 1 /\ k < Len(f.name)
      BY <1>1, <2>1, <2>3
    <3>2. z = SubSeq(f.name, Len(f.name) - k + 1, Len(f.name))
      <4>1. ~(k >= Len(f.name))
        BY <1>1, <3>1
      <4> QED  BY <2>1, <4>1, Zenon DEF Last_
    <3>3. Len(z) = k
      BY <1>1, <3>1, <3>2
    <3> QED  BY <3>1, <3>3
  <2> QED  BY <2>2, <2>3, Zenon
<1> QED  BY <1>2, <1>3, Zenon

(* Another name that ends with this one is strictly longer. *)
LEMMA ProperSuffix ==
    ASSUME NEW z \in Names, NEW by \in Names, z # by, EndsWith(z, by)
    PROVE  Below(z, by)
<1>1. z \in Seq(STRING) /\ by \in Seq(STRING) /\ Len(z) \in Nat /\ Len(by) \in Nat
  BY RecursorAssumption
<1>2. SubSeq(z, 1, Len(z)) = z
  BY <1>1
<1>3. ASSUME Len(z) = Len(by) PROVE FALSE
  <2>1. Len(z) - Len(by) + 1 = 1
    BY <1>1, <1>3
  <2> QED  BY <1>2, <2>1, Zenon DEF EndsWith
<1>4. Len(z) >= Len(by)  BY Zenon DEF EndsWith
<1>5. Len(z) > Len(by)  BY <1>1, <1>3, <1>4
<1> QED  BY <1>5, Zenon DEF Below

(* The frame after one more query, and after following a referral. *)
LEMMA AskedFrame ==
    ASSUME StackInv, Asking
    PROVE  /\ stack # <<>> /\ Len(stack) <= MaxDepth + 1 /\ outcome = NoOutcome
           /\ Top \in Frames /\ Top.pc = "ask" /\ Asked \in Frames
           /\ Asked.pc = "ask" /\ Asked.name = Top.name /\ Asked.type = Top.type
           /\ Asked.zone = Top.zone /\ Asked.cut = Top.cut
<1>1. stack # <<>> /\ Top.pc = "ask" /\ Top.hops < MaxReferrals /\ outcome = NoOutcome
  BY Zenon DEF Asking, At, Running
<1>2. Top \in Frames /\ Len(stack) <= MaxDepth + 1
  BY <1>1, TopFrame, Zenon
<1>3. Top.hops + 1 \in 0..MaxReferrals
  BY <1>1, <1>2, RecursorAssumption DEF Frames, FrameType
<1>4. Asked \in FrameType
  BY <1>2, <1>3, Zenon DEF Asked, Frames, FrameType
<1>5. /\ Asked.pc = "ask" /\ Asked.name = Top.name /\ Asked.type = Top.type
      /\ Asked.zone = Top.zone /\ Asked.cut = Top.cut
  BY <1>1, <1>2, Zenon DEF Asked, Frames, FrameType
<1>6. Asked \in Frames
  BY <1>1, <1>2, <1>4, <1>5, Zenon DEF Frames
<1> QED  BY <1>1, <1>2, <1>5, <1>6, Zenon

LEMMA FollowedFrame ==
    ASSUME NEW f \in Frames, NEW owner \in Names, f.pc # "enter",
           ~(f.type = "DS" /\ owner = f.name)
    PROVE  LET g == Followed(f, owner) IN
           /\ g \in Frames /\ [g EXCEPT !.ns = <<>>, !.owner = Root] \in Frames
<1> DEFINE g == Followed(f, owner)
<1>1. Larger(Len(owner), f.cut + 1) \in Nat
  BY RecursorAssumption DEF Larger, Frames, FrameType
<1>2. /\ g \in FrameType /\ g.pc = "ask" /\ g.zone = owner /\ g.name = f.name
      /\ g.type = f.type
  BY <1>1, Zenon DEF Followed, Frames, FrameType
<1> HIDE DEF g
<1>3. g \in Frames
  BY <1>2, Zenon DEF Frames
<1> DEFINE h == [g EXCEPT !.ns = <<>>, !.owner = Root]
<1>4. /\ h \in FrameType /\ h.pc = "ask" /\ h.zone = owner /\ h.name = f.name
      /\ h.type = f.type
  <2>1. <<>> \in Seq(Names) /\ Root \in Names
    BY RecursorAssumption
  <2> QED  BY <1>2, <2>1, Zenon DEF FrameType
<1> HIDE DEF h
<1>5. h \in Frames
  BY <1>2, <1>4, Zenon DEF Frames
<1> QED  BY <1>3, <1>5, Zenon DEF g, h

LEMMA RecInit == RecursionInit => RecInv
BY RecursorAssumption DEF RecursionInit, RecInv, StackInv, CacheInv

(* One step per action; a return, and a retry with the full name, are shared. *)
LEMMA RecStep == RecInv /\ [RecursionNext]_recursionVars => RecInv'
<1> SUFFICES ASSUME RecInv, [RecursionNext]_recursionVars PROVE RecInv'
  BY Zenon
<1>0. StackInv /\ CacheInv
  BY Zenon DEF RecInv
<1>a. ASSUME UNCHANGED delegations PROVE CacheInv'
  BY <1>a, <1>0, Zenon DEF CacheInv, Cuts, Below, EndsWith
<1>b. ASSUME UNCHANGED <<delegations, answers, nested>>, StackInv',
             outcome' \in Replies \cup {Timeout, NoOutcome}
      PROVE  RecInv'
  BY <1>a, <1>b, Zenon DEF RecInv, Rcodes, NoAnswer, Replies, Timeout, NoOutcome
<1>c. ASSUME NEW r \in Replies \cup {Timeout}, stack # <<>>, Return(r),
             UNCHANGED <<delegations, answers, nested>>
      PROVE  RecInv'
  <2>1. Pop /\ outcome' = r
    BY <1>c, Zenon DEF Return
  <2> QED  BY <1>b, <1>c, <2>1, <1>0, StackPopped, Zenon
<1>1. ASSUME NEW q \in Questions, Resolve(q) PROVE RecInv'
  <2>1. NewFrame(q[1], q[2]) \in Frames /\ NewFrame(q[1], q[2]).pc = "enter"
    BY RecursorAssumption DEF NewFrame, Frames, FrameType, Root, Types
  <2>2. stack' = <<NewFrame(q[1], q[2])>> /\ nested' = 0 /\ MaxDepth \in Nat /\ MaxNested \in Nat
        /\ UNCHANGED <<delegations, answers, outcome>>
    BY <1>1, RecursorAssumption, Zenon DEF Resolve
  <2>3. stack' \in Seq(Frames) /\ Len(stack') = 1 /\ stack'[1].pc = "enter"
    BY <2>1, <2>2
  <2>4. Frames' = Frames
    BY Zenon DEF Frames, FrameType, Below, EndsWith
  <2>5. StackInv'
    BY <2>2, <2>3, <2>4 DEF StackInv
  <2> QED  BY <1>a, <2>2, <2>5 DEF RecInv
<1>2. ASSUME Finish PROVE RecInv'
  <2>1. /\ outcome # NoOutcome /\ outcome' = NoOutcome /\ nested' = 0 /\ MaxNested \in Nat
        /\ UNCHANGED <<delegations, stack>>
    BY <1>2, RecursorAssumption, Zenon DEF Finish
  <2>2. outcome # Timeout => outcome.rcode \in Rcodes
    BY <2>1, Zenon DEF RecInv, Replies
  <2>3. answers' \in [Questions -> Rcodes \cup {NoAnswer}]
    BY <1>2, <2>2, Zenon DEF Finish, RecInv
  <2> QED  BY <1>a, <1>0, <2>1, <2>3, StackKept DEF RecInv
<1>3. ASSUME NEW q \in Questions, ExpireAnswer(q) PROVE RecInv'
  <2>1. answers' \in [Questions -> Rcodes \cup {NoAnswer}]
    BY <1>3, Zenon DEF ExpireAnswer, RecInv
  <2> QED  BY <1>a, <1>0, <1>3, <2>1, StackKept, Zenon DEF RecInv, ExpireAnswer
<1>4. ASSUME ExpireDelegation PROVE RecInv'
  <2>1. CacheInv'
    BY <1>0, <1>4, Zenon DEF ExpireDelegation, CacheInv, Cuts, Below, EndsWith
  <2> QED  BY <1>0, <1>4, <2>1, StackKept, Zenon DEF RecInv, ExpireDelegation
<1>5. ASSUME NEW z \in Names, NEW by \in Names, Learn(z, by) PROVE RecInv'
  <2>1. Below(z, by)
    BY <1>5, ProperSuffix, Zenon DEF Learn
  <2>2. CacheInv'
    BY <1>0, <1>5, <2>1, CutCached, Zenon DEF Learn
  <2> QED  BY <1>0, <1>5, <2>2, StackKept, Zenon DEF RecInv, Learn
<1>6. ASSUME Enter PROVE RecInv'
  <2>1. stack # <<>> /\ Top.pc = "enter" /\ UNCHANGED <<delegations, answers>>
    BY <1>6, Zenon DEF Enter, At, Running
  <2>2. Top \in Frames /\ Len(stack) \in Nat \ {0} /\ MaxDepth \in Nat
    BY <1>0, <2>1, TopFrame, Zenon
  <2>3. CASE Depth > MaxDepth
    BY <1>c, <1>6, <2>1, <2>3, Zenon DEF Enter
  <2>4. CASE ~(Depth > MaxDepth)
    <3>1. PICK z \in CachedStart(Top) :
             Replace([Top EXCEPT !.pc = "ask", !.zone = z, !.cut = Len(z)])
      BY <1>6, <2>4, Zenon DEF Enter
    <3>2. z \in Names /\ (Top.type = "DS" /\ Top.name # Root => z # Top.name)
      BY <1>0, <2>2, StartAbove, Zenon
    <3>3. Len(z) \in Nat
      BY <3>2, RecursorAssumption
    <3>4. [Top EXCEPT !.pc = "ask", !.zone = z, !.cut = Len(z)] \in Frames
      BY <2>2, <3>2, <3>3, Zenon DEF Frames, FrameType
    <3>5. Len(stack) <= MaxDepth + 1
      BY <2>2, <2>4 DEF Depth
    <3>6. StackInv'
      BY <1>0, <2>1, <3>1, <3>4, <3>5, StackReplaced, Zenon
    <3>7. nested' \in 0..MaxNested
      <4>1. nested' = (IF Depth > 0 THEN Smaller(nested + 1, MaxNested) ELSE 0)
        BY <1>6, <2>4, Zenon DEF Enter
      <4>2. nested \in 0..MaxNested /\ MaxNested \in Nat
        BY RecursorAssumption, Zenon DEF RecInv
      <4> HIDE DEF Depth
      <4> QED  BY <4>1, <4>2 DEF Smaller
    <3>8. UNCHANGED outcome
      BY <1>6, <2>4, Zenon DEF Enter
    <3> QED  BY <1>a, <2>1, <3>6, <3>7, <3>8, Zenon DEF RecInv
  <2> QED  BY <2>3, <2>4, Zenon
<1>7. ASSUME Exhausted \/ NoReply PROVE RecInv'
  BY <1>c, <1>7, Zenon DEF Exhausted, NoReply, Asking, At, Running
<1>8. ASSUME NEW r \in Replies, NEW owner \in Names, Finalize(r) \/ DsReferral(owner, r)
      PROVE  RecInv'
  BY <1>c, <1>8, Zenon DEF Finalize, DsReferral, Asking, At, Running
<1>9. ASSUME NEW target \in Names, Alias(target) PROVE RecInv'
  <2>1. /\ Asking /\ Call([Asked EXCEPT !.pc = "alias"], target, Top.type)
        /\ UNCHANGED <<delegations, answers, outcome, nested>>
    BY <1>9, Zenon DEF Alias
  <2>2. /\ stack # <<>> /\ Len(stack) <= MaxDepth + 1 /\ Top \in Frames /\ Asked \in Frames
        /\ Asked.pc = "ask"
    BY <1>0, <2>1, AskedFrame, Zenon
  <2>3. [Asked EXCEPT !.pc = "alias"] \in Frames /\ Top.type \in Types
    BY <2>2, Zenon DEF Frames, FrameType
  <2>4. StackInv'
    BY <1>0, <2>1, <2>2, <2>3, StackCalled, Zenon
  <2> QED  BY <1>b, <2>1, <2>4, Zenon DEF RecInv
<1>10. ASSUME ResumeAlias PROVE RecInv'
  <2>1. StackInv'
    BY <1>0, <1>10, StackPopped, Zenon DEF ResumeAlias
  <2> QED  BY <1>b, <1>10, <2>1, Zenon DEF RecInv, ResumeAlias
<1>d. ASSUME Asking, Replace([Asked EXCEPT !.minimize = FALSE]),
             UNCHANGED <<delegations, answers, outcome, nested>>
      PROVE  RecInv'
  <2>1. stack # <<>> /\ Len(stack) <= MaxDepth + 1 /\ Asked \in Frames
    BY <1>0, <1>d, AskedFrame, Zenon
  <2>2. [Asked EXCEPT !.minimize = FALSE] \in Frames
    BY <2>1, Zenon DEF Frames, FrameType
  <2>3. StackInv'
    BY <1>0, <1>d, <2>1, <2>2, StackReplaced, Zenon
  <2> QED  BY <1>b, <1>d, <2>3, Zenon DEF RecInv
<1>11. ASSUME MinimizedNxdomain PROVE RecInv'
  BY <1>d, <1>11, Zenon DEF MinimizedNxdomain
<1>12. ASSUME MinimizedNodata PROVE RecInv'
  <2>1. /\ Asking /\ UNCHANGED <<delegations, answers, outcome, nested>>
        /\ Replace([Asked EXCEPT !.cut = @ + 1, !.minimize = Top.cut + 1 < Len(Top.name)])
    BY <1>12, Zenon DEF MinimizedNodata
  <2>2. stack # <<>> /\ Len(stack) <= MaxDepth + 1 /\ Asked \in Frames
    BY <1>0, <2>1, AskedFrame, Zenon
  <2>3. Asked.cut + 1 \in Nat /\ (Top.cut + 1 < Len(Top.name)) \in BOOLEAN
    BY <2>2 DEF Frames, FrameType
  <2>4. [Asked EXCEPT !.cut = @ + 1, !.minimize = Top.cut + 1 < Len(Top.name)] \in Frames
    BY <2>2, <2>3, Zenon DEF Frames, FrameType
  <2>5. StackInv'
    BY <1>0, <2>1, <2>2, <2>4, StackReplaced, Zenon
  <2> QED  BY <1>b, <2>1, <2>5, Zenon DEF RecInv
<1>13. ASSUME NEW owner \in Names, NEW r \in Replies, StrayReferral(owner, r) PROVE RecInv'
  <2>1. stack # <<>>
    BY <1>13, Zenon DEF StrayReferral, Asking, At, Running
  <2>2. CASE Top.minimize /\ ~Full(Top)
    BY <1>d, <1>13, <2>2, Zenon DEF StrayReferral
  <2>3. CASE ~(Top.minimize /\ ~Full(Top))
    BY <1>c, <1>13, <2>1, <2>3, Zenon DEF StrayReferral
  <2> QED  BY <2>2, <2>3, Zenon
<1>14. ASSUME NEW owner \in Names, NEW ns \in NsLists, GluedReferral(owner, ns) PROVE RecInv'
  <2>1. /\ Asking /\ ~AtDsParent(owner) /\ InBailiwick(owner)
        /\ Replace(Followed(Asked, owner)) /\ CacheDelegation(owner, Top.zone)
        /\ UNCHANGED <<answers, outcome, nested>>
    BY <1>14, Zenon DEF GluedReferral
  <2>2. /\ stack # <<>> /\ Len(stack) <= MaxDepth + 1 /\ Top \in Frames /\ Asked \in Frames
        /\ Asked.pc = "ask" /\ Asked.name = Top.name /\ Asked.type = Top.type
    BY <1>0, <2>1, AskedFrame, Zenon
  <2>3. Top.zone \in Names /\ Below(owner, Top.zone)
    BY <2>1, <2>2, Zenon DEF Frames, FrameType, InBailiwick, Below
  <2>4. CacheInv'
    BY <1>0, <2>1, <2>3, CutCached, Zenon
  <2>5. Followed(Asked, owner) \in Frames
    BY <2>1, <2>2, FollowedFrame, Zenon DEF AtDsParent
  <2>6. StackInv'
    BY <1>0, <2>1, <2>2, <2>5, StackReplaced, Zenon
  <2> QED  BY <2>1, <2>4, <2>6, Zenon DEF RecInv
<1>15. ASSUME NEW owner \in Names, NEW ns \in NsLists, GluelessReferral(owner, ns) PROVE RecInv'
  <2>1. /\ Asking /\ ~AtDsParent(owner) /\ InBailiwick(owner)
        /\ UNCHANGED <<delegations, answers, nested>>
    BY <1>15, Zenon DEF GluelessReferral
  <2>2. /\ stack # <<>> /\ Len(stack) <= MaxDepth + 1 /\ Top \in Frames /\ Asked \in Frames
        /\ Asked.pc = "ask" /\ Asked.name = Top.name /\ Asked.type = Top.type
        /\ Asked.zone = Top.zone
    BY <1>0, <2>1, AskedFrame, Zenon
  <2>3. CASE Depth >= MaxDepth
    BY <1>c, <1>15, <2>1, <2>2, <2>3, Zenon DEF GluelessReferral
  <2>4. CASE ~(Depth >= MaxDepth)
    <3> DEFINE g == [Asked EXCEPT !.pc = "addrs", !.ns = ns, !.owner = owner]
    <3>1. ns \in Seq(Names) /\ Len(ns) > 0 /\ ns[1] \in Names
      BY RecursorAssumption
    <3>2. /\ g \in FrameType /\ g.pc = "addrs" /\ g.ns = ns /\ g.owner = owner
          /\ g.zone = Top.zone /\ g.name = Top.name /\ g.type = Top.type
      BY <2>2, <3>1, Zenon DEF Frames, FrameType
    <3>3. Call(g, ns[1], "A") /\ UNCHANGED outcome
      BY <1>15, <2>4, Zenon DEF GluelessReferral
    <3> HIDE DEF g
    <3>4. Top.name # Root /\ Top.type = "DS" => Top.zone # Top.name
      BY <2>2, Zenon DEF Frames
    <3>5. g \in Frames
      BY <2>1, <3>1, <3>2, <3>4, Zenon DEF Frames, InBailiwick, AtDsParent, Below
    <3>6. StackInv'
      <4>1. "A" \in Types
        BY Zenon DEF Types
      <4> QED  BY <1>0, <2>2, <3>1, <3>3, <3>5, <4>1, StackCalled, Zenon
    <3> QED  BY <1>b, <2>1, <3>3, <3>6, Zenon DEF RecInv
  <2> QED  BY <2>3, <2>4, Zenon
<1>e. ASSUME stack # <<>>, Top.pc = "addrs"
      PROVE  /\ Top \in Frames /\ Len(stack) <= MaxDepth + 1
             /\ Top.owner \in Names /\ Top.zone \in Names /\ Below(Top.owner, Top.zone)
             /\ ~(Top.type = "DS" /\ Top.owner = Top.name)
             /\ Top.ns \in Seq(Names)
  <2>1. Top \in Frames /\ Len(stack) <= MaxDepth + 1
    BY <1>0, <1>e, TopFrame, Zenon
  <2> QED  BY <1>e, <2>1, Zenon DEF Frames, FrameType
<1>16. ASSUME NsFound PROVE RecInv'
  <2>1. /\ stack # <<>> /\ Top.pc = "addrs"
        /\ Replace([Followed(Top, Top.owner) EXCEPT !.ns = <<>>, !.owner = Root])
        /\ CacheDelegation(Top.owner, Top.zone)
        /\ outcome' = NoOutcome /\ UNCHANGED <<answers, nested>>
    BY <1>16, Zenon DEF NsFound
  <2>2. CacheInv'
    BY <1>0, <1>e, <2>1, CutCached, Zenon
  <2>3. [Followed(Top, Top.owner) EXCEPT !.ns = <<>>, !.owner = Root] \in Frames
    BY <1>e, <2>1, FollowedFrame, Zenon
  <2>4. StackInv'
    BY <1>0, <1>e, <2>1, <2>3, StackReplaced, Zenon
  <2> QED  BY <2>1, <2>2, <2>4, Zenon DEF RecInv
<1>17. ASSUME NsMissing PROVE RecInv'
  <2>1. stack # <<>> /\ Top.pc = "addrs" /\ UNCHANGED <<delegations, answers, nested>>
    BY <1>17, Zenon DEF NsMissing
  <2>2. CASE Len(Top.ns) > 1
    <3> DEFINE g == [Top EXCEPT !.ns = Tail(@)]
    <3>1. Call(g, Top.ns[2], "A") /\ outcome' = NoOutcome
      BY <1>17, <2>2, Zenon DEF NsMissing
    <3>2. Tail(Top.ns) \in Seq(Names) /\ Len(Tail(Top.ns)) > 0 /\ Top.ns[2] \in Names
      <4>1. PICK s \in Seq(Names) : s = Top.ns /\ Len(s) > 1
        BY <1>e, <2>1, <2>2, Zenon
      <4>2. Len(Tail(s)) = Len(s) - 1 /\ Tail(s) \in Seq(Names) /\ s[2] \in Names
        BY <4>1
      <4>3. Len(Tail(s)) > 0
        BY <4>1, <4>2
      <4> QED  BY <4>1, <4>2, <4>3, Zenon
    <3>3. g \in Frames
      BY <1>e, <2>1, <3>2, Zenon DEF Frames, FrameType
    <3>4. StackInv'
      <4>1. "A" \in Types /\ Len(stack) <= MaxDepth + 1
        BY <1>e, <2>1, Zenon DEF Types
      <4> HIDE DEF g
      <4> QED  BY <1>0, <2>1, <3>1, <3>2, <3>3, <4>1, StackCalled, Zenon
    <3> QED  BY <1>b, <2>1, <3>1, <3>4, Zenon
  <2>3. CASE ~(Len(Top.ns) > 1)
    BY <1>c, <1>17, <2>1, <2>3, Zenon DEF NsMissing
  <2> QED  BY <2>2, <2>3, Zenon
<1>18. CASE UNCHANGED recursionVars
  BY <1>b, <1>0, <1>18, StackKept, Zenon DEF recursionVars, RecInv
<1>19. CASE Step
  <2>1. Root \in Names
    BY RecursorAssumption, Zenon
  <2> QED
    BY <1>19, <2>1, <1>2, <1>6, <1>7, <1>8, <1>9, <1>10, <1>11, <1>12, <1>13, <1>14, <1>15, <1>16, <1>17, Zenon
       DEF Step
<1> QED  BY <1>1, <1>3, <1>4, <1>5, <1>18, <1>19, Zenon DEF RecursionNext

LEMMA RecInvariant == RecursionSpec => []RecInv
BY RecInit, RecStep, PTL DEF RecursionSpec

(***************************************************************************)
(* The recursor's state keeps its types and bounds, whatever servers       *)
(* answer: no more than MAX_DEPTH + 2 frames of resolve_depth, no more     *)
(* than MAX_REFERRALS queries in each.                                     *)
(***************************************************************************)
THEOREM RecursionBounded == RecursionSpec => []RecursionTypeOK
<1>1. ASSUME RecInv PROVE RecursionTypeOK
  <2>1. \A i \in DOMAIN stack : stack[i] \in Frames
    BY <1>1 DEF RecInv, StackInv
  <2>2. \A i \in DOMAIN stack : stack[i].hops <= MaxReferrals /\ stack[i].zone \in Names
    BY <2>1, RecursorAssumption DEF Frames, FrameType
  <2>3. \A q \in Questions : answers[q] \in Rcodes \cup {NoAnswer}
    BY <1>1, Zenon DEF RecInv
  <2> QED  BY <1>1, <2>2, <2>3, Zenon DEF RecursionTypeOK, RecInv, StackInv, CacheInv
<1>2. RecInv => RecursionTypeOK
  BY <1>1, Zenon
<1> QED  BY <1>2, RecInvariant, PTL

(***************************************************************************)
(* A DS query never goes to the servers of the zone it is about, whatever  *)
(* is cached (cached_start's min_skip) and whatever is referred to.        *)
(***************************************************************************)
THEOREM DsAlwaysAskedAtParent == RecursionSpec => []DsAskedAtParent
<1>1. ASSUME RecInv PROVE DsAskedAtParent
  <2>1. \A i \in DOMAIN stack : stack[i] \in Frames
    BY <1>1 DEF RecInv, StackInv
  <2> QED  BY <2>1, Zenon DEF DsAskedAtParent, Frames
<1>2. RecInv => DsAskedAtParent
  BY <1>1, Zenon
<1> QED  BY <1>2, RecInvariant, PTL

(***************************************************************************)
(* No server gets a zone cut into the delegation cache that is not below   *)
(* the zone it was asked for: the bailiwick test of resolve_depth, also    *)
(* when the cut is cached only after its name servers were resolved.       *)
(***************************************************************************)
THEOREM DelegationsAlwaysInBailiwick == RecursionSpec => []DelegationsInBailiwick
<1>1. RecInv => DelegationsInBailiwick
  BY Zenon DEF DelegationsInBailiwick, RecInv, CacheInv, Below
<1> QED  BY <1>1, RecInvariant, PTL

----------------------------------------------------------------------------
(* Subtraction modulo m, where the operands are already reduced. *)
LEMMA ModOfSmall ==
    ASSUME NEW m \in Nat \ {0}, NEW x \in Int, -m < x, x < m
    PROVE  x % m = IF x >= 0 THEN x ELSE x + m
  OBVIOUS

LEMMA Division ==
    ASSUME NEW m \in Nat \ {0}, NEW a \in Nat
    PROVE  /\ a \div m \in Int
           /\ a % m \in 0..(m - 1)
           /\ a = m * (a \div m) + (a % m)
<1>1. a % m \in 0..(m - 1)  OBVIOUS
<1>2. a \div m \in Int  OBVIOUS
<1>3. a = m * (a \div m) + (a % m)  BY <1>1, <1>2, SMTT(30)
<1> QED  BY <1>1, <1>2, <1>3, Zenon

(* A difference that is a multiple of m and smaller than m is no difference. *)
LEMMA SmallMultiple ==
    ASSUME NEW m \in Nat \ {0}, NEW q \in Int, -m < m * q, m * q < m
    PROVE  q = 0
<1>1. CASE q >= 1
  <2>1. m * q >= m  BY <1>1, SMTT(30)
  <2> QED  BY <2>1
<1>2. CASE q <= -1
  <2>1. m * q <= -m  BY <1>2, SMTT(30)
  <2> QED  BY <2>1
<1> QED  BY <1>1, <1>2

(***************************************************************************)
(* serial_gt orders the serials of two versions as the versions are        *)
(* ordered, wherever they lie in the serial space, as long as they are     *)
(* less than half of it apart.                                             *)
(***************************************************************************)
THEOREM SerialOrder ==
    ASSUME NEW a \in Nat, NEW b \in Nat, a - b < Half, b - a < Half
    PROVE  serial_gt(Serial(a), Serial(b)) <=> a > b
<1> DEFINE m == 2 * Half
           ra == a % m
           rb == b % m
           d == a - b
           w == (a \div m) - (b \div m)
<1>0. Half \in Nat \ {0} /\ m \in Nat \ {0}  BY SecondaryAssumption
<1>1. /\ a \div m \in Int /\ ra \in 0..(m - 1)
      /\ a = m * (a \div m) + ra
  BY <1>0, Division, Zenon
<1>2. /\ b \div m \in Int /\ rb \in 0..(m - 1)
      /\ b = m * (b \div m) + rb
  BY <1>0, Division, Zenon
<1>3. w \in Int /\ m * w = m * (a \div m) - m * (b \div m)
  BY <1>0, <1>1, <1>2, SMTT(30)
<1> HIDE DEF ra, rb, m, w
<1>4. m * w = d - (ra - rb) /\ m * w \in Int
  BY <1>0, <1>1, <1>2, <1>3
<1>5. (ra - rb) % m = IF ra - rb >= 0 THEN ra - rb ELSE ra - rb + m
  <2> DEFINE x == ra - rb
  <2>1. x \in Int /\ -m < x /\ x < m  BY <1>0, <1>1, <1>2
  <2> HIDE DEF x
  <2>2. x % m = IF x >= 0 THEN x ELSE x + m  BY <1>0, <2>1, ModOfSmall, Zenon
  <2> QED  BY <2>2, Zenon DEF x
<1>6. serial_gt(Serial(a), Serial(b)) <=> ra # rb /\ (ra - rb) % m < Half
  BY Zenon DEF serial_gt, Serial, ra, rb, m
<1>7. ra - rb \in {d, d - m, d + m}
  <2>1. m * (w - 1) = m * w - m /\ m * (w + 1) = m * w + m
    BY <1>0, <1>3, SMTT(30)
  <2>2. CASE -m < m * w /\ m * w < m
    <3>1. w = 0  BY <1>0, <1>3, <2>2, SmallMultiple, Zenon
    <3>2. m * w = 0  BY <1>0, <3>1
    <3> QED  BY <3>2, <1>4, <1>1, <1>2
  <2>3. CASE m * w >= m
    <3>1. -m < m * (w - 1) /\ m * (w - 1) < m
      BY <2>1, <2>3, <1>4, <1>0, <1>1, <1>2 DEF m
    <3>2. w - 1 = 0  BY <1>0, <1>3, <3>1, SmallMultiple
    <3>3. m * w = m  BY <1>0, <1>3, <3>2
    <3> QED  BY <3>3, <1>4, <1>0, <1>1, <1>2
  <2>4. CASE m * w <= -m
    <3>1. -m < m * (w + 1) /\ m * (w + 1) < m
      BY <2>1, <2>4, <1>4, <1>0, <1>1, <1>2 DEF m
    <3>2. w + 1 = 0  BY <1>0, <1>3, <3>1, SmallMultiple
    <3>3. m * w = -m  BY <1>0, <1>3, <3>2, <2>1
    <3> QED  BY <3>3, <1>4, <1>0, <1>1, <1>2
  <2> QED  BY <2>2, <2>3, <2>4, <1>0, <1>4
<1> QED  BY <1>0, <1>1, <1>2, <1>5, <1>6, <1>7 DEF m

----------------------------------------------------------------------------
(***************************************************************************)
(* Versions in use are less than half the serial space behind the newest   *)
(* one.  Once a primary was found to be newer, it stays so until the       *)
(* transfer, and what is served is what was compared with, or nothing.     *)
(***************************************************************************)
SpreadInv ==
    /\ latest \in Nat
    /\ ver \in [Index -> Nat]
    /\ at \in Index
    /\ pc \in {"top", "sleep"} \cup Refreshing
    /\ held \in Nat \cup {Missing} /\ current \in Nat \cup {Missing}
    /\ got \in Nat \cup {Missing}
    /\ \A i \in Index : ver[i] <= latest /\ latest - ver[i] < Half
    /\ held # Missing => held <= latest /\ latest - held < Half
    /\ got # Missing => got <= latest /\ latest - got < Half
    /\ pc \in {"answer", "store"} <=> got # Missing
    /\ pc = "answer" => got <= ver[at]
    /\ pc = "store" => current < got
    /\ pc \in Refreshing =>
           /\ held \in {Missing, current}
           /\ current # Missing => current <= latest /\ latest - current < Half
    /\ pc = "pull" => current < ver[at]

LEMMA SpreadInit == SecondaryInit => SpreadInv
  BY SecondaryAssumption DEF SecondaryInit, SpreadInv, Index, Missing, Refreshing

LEMMA SpreadStep == SpreadInv /\ [SecondaryNext]_secondaryVars => SpreadInv'
<1> SUFFICES ASSUME SpreadInv, [SecondaryNext]_secondaryVars PROVE SpreadInv'
  BY Zenon
<1> USE SecondaryAssumption DEF SpreadInv, Missing, Refreshing
<1>0. 1 \in Index /\ (at < Len(Primaries) => at + 1 \in Index)
  BY DEF Index
<1>1. ASSUME NEW i \in Index, Publish(i) PROVE SpreadInv'
  <2>1. \A j \in Index : latest + 1 - ver[j] < Half
    BY <1>1, Zenon DEF Publish, InUse
  <2>2. held # Missing => latest + 1 - held < Half
    BY <1>1, Zenon DEF Publish, InUse
  <2>8. got # Missing => latest + 1 - got < Half
    BY <1>1, Zenon DEF Publish, InUse
  <2>3. pc \in Refreshing /\ current # Missing => latest + 1 - current < Half
    BY <1>1, Zenon DEF Publish, InUse
  <2>4. /\ latest' = latest + 1 /\ latest' \in Nat
        /\ ver' = [ver EXCEPT ![i] = latest + 1]
        /\ UNCHANGED <<held, pc, current, at, got>>
    BY <1>1 DEF Publish, loop
  <2>5. ver' \in [Index -> Nat] /\ \A j \in Index : ver[j] <= ver'[j]
    BY <2>4
  <2>6. \A j \in Index : ver'[j] <= latest' /\ latest' - ver'[j] < Half
    <3> TAKE j \in Index
    <3>1. ver[j] \in Nat /\ ver'[j] = IF j = i THEN latest + 1 ELSE ver[j]
      BY <2>4, Zenon
    <3>2. ver[j] <= latest /\ latest + 1 - ver[j] < Half
      BY <2>1, Zenon
    <3> QED  BY <3>1, <3>2, <2>4, SMTT(30)
  <2>7. /\ pc' = "pull" => current' < ver'[at']
        /\ pc' = "answer" => got' <= ver'[at']
    BY <2>4, <2>5
  <2> QED  BY <2>2, <2>3, <2>4, <2>5, <2>6, <2>7, <2>8
<1>2. ASSUME NEW i \in Index, CatchUp(i) PROVE SpreadInv'
  BY <1>2 DEF CatchUp, loop
<1>3. ASSUME NEW i \in Index, LoseNotify(i) \/ DeliverNotify(i) PROVE SpreadInv'
  BY <1>3, Zenon DEF LoseNotify, DeliverNotify, loop
<1>4. CASE ReadCurrent
  BY <1>0, <1>4, Zenon DEF ReadCurrent, world
<1>5. CASE SoaOutdated
  <2>1. got \in Nat /\ got <= ver[at]
    BY <1>5, Zenon DEF SoaOutdated
  <2>2. current < got
    <3>1. CASE current = Missing
      BY <2>1, <3>1
    <3>2. CASE current # Missing
      <4>1. current \in Nat /\ current - got < Half /\ got - current < Half
        BY <1>5, <2>1, <3>2 DEF SoaOutdated
      <4>2. serial_gt(Serial(got), Serial(current))
        BY <1>5, <3>2, Zenon DEF SoaOutdated, Outdated
      <4> QED  BY <2>1, <4>1, <4>2, SerialOrder, Zenon
    <3> QED  BY <3>1, <3>2, Zenon
  <2> QED  BY <1>5, <2>1, <2>2 DEF SoaOutdated, world
<1>6. CASE SoaUpToDate
  BY <1>6, Zenon DEF SoaUpToDate, world
<1>7. CASE ExchangeFails
  BY <1>0, <1>7, Zenon DEF ExchangeFails, TryNext, world
<1>8. CASE SoaReply
  BY <1>8 DEF SoaReply, world
<1>14. CASE Transfer
  BY <1>14 DEF Transfer, world
<1>13. CASE StoreZone
  BY <1>13, Zenon DEF StoreZone, world
<1>9. CASE WakeByTimer \/ WakeByNotify
  BY <1>9, Zenon DEF WakeByTimer, WakeByNotify, world
<1>10. CASE Reload
  BY <1>10, Zenon DEF Reload, world, loop
<1>11. CASE Restart
  BY <1>0, <1>11, Zenon DEF Restart, world
<1>12. CASE UNCHANGED secondaryVars
  BY <1>12, Zenon DEF secondaryVars
<1> QED
  BY <1>1, <1>2, <1>3, <1>4, <1>5, <1>6, <1>7, <1>8, <1>9, <1>10, <1>11, <1>12, <1>13, <1>14, Zenon
     DEF SecondaryNext, Refresh

LEMMA NoStepBack == SpreadInv /\ [SecondaryNext]_secondaryVars => (held' # Missing => held' >= held)
<1> SUFFICES ASSUME SpreadInv, [SecondaryNext]_secondaryVars, held' # Missing PROVE held' >= held
  BY Zenon
<1>1. CASE StoreZone
  BY <1>1 DEF StoreZone, SpreadInv, Missing, Refreshing
<1>2. CASE UNCHANGED held
  BY <1>2 DEF SpreadInv, Missing
<1> QED
  BY <1>1, <1>2, Zenon DEF SecondaryNext, Refresh, Publish, CatchUp, LoseNotify, DeliverNotify,
     ReadCurrent, SoaReply, SoaOutdated, Transfer, SoaUpToDate, ExchangeFails, WakeByTimer,
     WakeByNotify, Reload, Restart, secondaryVars

(***************************************************************************)
(* run_secondary never replaces the zone by an older version, for every    *)
(* serial width and any number of primaries, failures and reloads.         *)
(***************************************************************************)
THEOREM RollbackFree == SecondarySpec => NeverRollsBack
<1>1. SecondaryInit => SpreadInv  BY SpreadInit, Zenon
<1>2. SpreadInv /\ [SecondaryNext]_secondaryVars => SpreadInv'  BY SpreadStep, Zenon
<1>3. SpreadInv /\ [SecondaryNext]_secondaryVars => [held' # Missing => held' >= held]_secondaryVars
  BY NoStepBack, Zenon
<1> QED  BY <1>1, <1>2, <1>3, PTL DEF SecondarySpec, NeverRollsBack

----------------------------------------------------------------------------
(***************************************************************************)
(* While nothing failed and nothing was dropped, the first primary is the  *)
(* one that is asked, what is served is what it is compared with, and a    *)
(* version that is travelling is overtaken only with a NOTIFY under way or *)
(* a permit stored.                                                        *)
(***************************************************************************)
Undisturbed == failures = 0 /\ drops = 0

Untold == ~permit /\ 1 \notin notes

HeedInv ==
    /\ failures \in Nat /\ drops \in Nat
    /\ Undisturbed =>
           /\ at = 1
           /\ pc \in Refreshing => held = current
           /\ Untold /\ pc \in {"answer", "store"} => got >= ver[1]
           /\ Untold /\ pc = "sleep" => held >= ver[1]

LEMMA HeedInit == SecondaryInit => HeedInv
  BY DEF SecondaryInit, HeedInv, Refreshing

LEMMA HeedStep == SpreadInv /\ HeedInv /\ [SecondaryNext]_secondaryVars => HeedInv'
<1> SUFFICES ASSUME SpreadInv, HeedInv, [SecondaryNext]_secondaryVars PROVE HeedInv'
  BY Zenon
<1> USE DEF HeedInv, Undisturbed, Untold, Refreshing
<1>0. 1 \in Index
  BY SecondaryAssumption DEF Index
<1>1. ASSUME NEW i \in Index, Publish(i) \/ CatchUp(i) PROVE HeedInv'
  <2>1. /\ UNCHANGED <<held, pc, current, at, got, permit, failures, drops>>
        /\ notes' = notes \cup {i} /\ (i # 1 => ver'[1] = ver[1])
    BY <1>0, <1>1, Zenon DEF Publish, CatchUp, loop, SpreadInv
  <2>2. Untold' => Untold /\ ver'[1] = ver[1]
    BY <2>1, Zenon
  <2> QED  BY <2>1, <2>2, Zenon
<1>2. ASSUME NEW i \in Index, LoseNotify(i) PROVE HeedInv'
  BY <1>2 DEF LoseNotify, loop
<1>3. ASSUME NEW i \in Index, DeliverNotify(i) PROVE HeedInv'
  BY <1>3, Zenon DEF DeliverNotify, loop
<1>4. CASE ReadCurrent
  BY <1>4, Zenon DEF ReadCurrent, world
<1>5. CASE SoaReply \/ Transfer
  BY <1>0, <1>5 DEF SoaReply, Transfer, world, SpreadInv
<1>6. CASE SoaOutdated
  BY <1>6, Zenon DEF SoaOutdated, world
<1>7. CASE SoaUpToDate
  <2>1. current \in Nat /\ got \in Nat
    BY <1>7, Zenon DEF SoaUpToDate, Outdated, SpreadInv, Missing
  <2>2. current >= got
    <3>1. ~serial_gt(Serial(got), Serial(current))
      BY <1>7, Zenon DEF SoaUpToDate, Outdated
    <3>2. got - current < Half /\ current - got < Half
      BY <1>7, <2>1, SecondaryAssumption DEF SoaUpToDate, SpreadInv, Missing
    <3> QED  BY <2>1, <3>1, <3>2, SerialOrder
  <2>3. ver[1] \in Nat
    BY <1>0, Zenon DEF SpreadInv
  <2>4. Undisturbed /\ Untold => held >= ver[1]
    BY <1>7, <2>1, <2>2, <2>3 DEF SoaUpToDate
  <2> QED  BY <1>7, <2>4, Zenon DEF SoaUpToDate, world
<1>8. CASE ExchangeFails
  BY <1>8 DEF ExchangeFails
<1>9. CASE StoreZone
  BY <1>9, Zenon DEF StoreZone, world
<1>10. CASE WakeByTimer \/ WakeByNotify
  BY <1>10, Zenon DEF WakeByTimer, WakeByNotify, world
<1>11. CASE Reload \/ Restart
  BY <1>11 DEF Reload, Restart
<1>12. CASE UNCHANGED secondaryVars
  BY <1>12, Zenon DEF secondaryVars
<1> QED
  BY <1>1, <1>2, <1>3, <1>4, <1>5, <1>6, <1>7, <1>8, <1>9, <1>10, <1>11, <1>12, Zenon
     DEF SecondaryNext, Refresh

(***************************************************************************)
(* run_secondary does not sleep over a change of its first primary that it *)
(* was told of, whenever the NOTIFY arrives, for every serial width, any   *)
(* number of primaries and of changes.                                     *)
(***************************************************************************)
THEOREM NotifyAlwaysHeeded == SecondarySpec => []NotifyHeeded
<1>1. SpreadInv /\ HeedInv => NotifyHeeded
  BY Zenon DEF HeedInv, NotifyHeeded, Undisturbed, Untold
<1> QED  BY <1>1, SpreadInit, SpreadStep, HeedInit, HeedStep, PTL DEF SecondarySpec
=============================================================================
