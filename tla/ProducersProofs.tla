--------------------------- MODULE ProducersProofs ---------------------------
(***************************************************************************)
(* Proofs about the producers, for every number of instances, children,     *)
(* calls, commands and happenings: the manager has what runs, stop() takes  *)
(* the child, commands come once and in order, and a producer that stopped  *)
(* is quiet. What a step does is first put into the terms of the manager:   *)
(* an instance is built, stopped, or its loop goes on.                      *)
(***************************************************************************)
EXTENDS ProducersProperties, WellFoundedInduction, TLAPS

-----------------------------------------------------------------------------
(* Facts about the constants and the choices of the smallest.               *)

LEMMA KnownNames ==
    /\ {Terminal, "file_watcher", "clipboard", "webhook", "cron"} \subseteq Names
    /\ StreamNames \subseteq Names /\ None \notin Names
    /\ \A h : ~Streams(None, h) /\ ~DBus(None, h)
<1>1. Names = {"clipboard", "file_watcher", "terminal_monitor", "webhook", "cron",
               "system_log", "desktop_events"}
  BY DEF Names, REGISTRY
<1>2. None \notin Names BY ProducersAssumption DEF BaseAssumption
<1> QED BY <1>1, <1>2 DEF Terminal, StreamNames, Streams, DBus

LEMMA NoneIsNoNumber == None \notin Instances /\ None \notin Children
<1>1. MaxStarts \in Nat /\ None \notin Nat
  BY ProducersAssumption DEF BaseAssumption
<1>2. MaxStarts + MaxExits + MaxErrors \in Nat
  BY ProducersAssumption DEF BaseAssumption, StreamAssumption
<1> QED BY <1>1, <1>2 DEF Instances, Children

LEMMA Smallest ==
    ASSUME NEW S \in SUBSET Nat, S # {}
    PROVE  \E m \in S : \A i \in S : m <= i
<1>1. PICK m \in S : \A i \in S : <<i, m>> \notin OpToRel(<, Nat)
  BY NatLessThanWellFounded, WFMin
<1>2. ASSUME NEW i \in S, i < m PROVE FALSE
  <2>1. <<i, m>> \in Nat \X Nat /\ <<i, m>>[1] < <<i, m>>[2]
    BY <1>2
  <2>2. <<i, m>> \in OpToRel(<, Nat)
    BY <2>1 DEF OpToRel
  <2> QED BY <1>1, <2>2
<1>3. \A i \in S : m <= i BY <1>2
<1> QED BY <1>3

LEMMA FreshIsUnbuilt ==
    ASSUME Unbuilt # {} PROVE Fresh \in Instances /\ name[Fresh] = None
<1>1. Unbuilt \in SUBSET Nat BY DEF Unbuilt, Instances
<1>2. \E i \in Unbuilt : \A j \in Unbuilt : i <= j BY <1>1, Smallest
<1>3. Fresh \in Unbuilt BY <1>2 DEF Fresh
<1> QED BY <1>3 DEF Unbuilt

LEMMA NextChildIsFree ==
    ASSUME \E c \in Children : child[c] = "none"
    PROVE  NextChild \in Children /\ child[NextChild] = "none"
<1> DEFINE S == {c \in Children : child[c] = "none"}
<1>1. S \in SUBSET Nat /\ S # {} BY DEF Children
<1>2. PICK m \in S : \A i \in S : m <= i BY <1>1, Smallest
<1>3. \A d \in 1 .. m - 1 : child[d] # "none"
  BY <1>2, ProducersAssumption DEF Children, BaseAssumption, StreamAssumption
<1>4. \E c \in Children : /\ child[c] = "none"
                          /\ \A d \in 1 .. c - 1 : child[d] # "none"
  BY <1>2, <1>3
<1> QED BY <1>4 DEF NextChild

-----------------------------------------------------------------------------
(* What a step does, in the terms of the manager.                           *)

\* The first step of the loop of a producer, if it has one.
StartsAt(n, step) ==
    \/ Streams(n, used.host) /\ step = "spawn"
    \/ DBus(n, used.host) /\ step = "connect"
    \/ n = Terminal /\ step = "check"
    \/ n = "clipboard" /\ step = "poll"
    \/ n = "file_watcher" /\ step = "open"
    \/ n \in {"webhook", "cron"} /\ step = "none"

\* enable() has built i: it runs and the table has it, or it is idle there, or
\* start() raised.
Builds(n, i) ==
    /\ name[i] = None /\ name' = [name EXCEPT ![i] = n] /\ ~IsRunning(n)
    /\ UNCHANGED <<cancelled, call, used, process, late, unsafe, happenings, dbus>>
    /\ \/ /\ _producers' = [_producers EXCEPT ![n] = i]
          /\ running' = [running EXCEPT ![i] = TRUE]
          /\ \E step \in Steps : task' = [task EXCEPT ![i] = step] /\ StartsAt(n, step)
       \/ /\ _producers' = [_producers EXCEPT ![n] = i]
          /\ UNCHANGED <<running, task>> /\ n \in {Terminal, "file_watcher", "clipboard"}
       \/ /\ _producers' = [_producers EXCEPT ![n] = None]
          /\ running' = [running EXCEPT ![i] = (n = Terminal)]
          /\ UNCHANGED task /\ n \in {Terminal, "cron"}
    /\ \/ UNCHANGED terminal /\ (n = Terminal => UNCHANGED task)
       \/ n = Terminal /\ TerminalStart(i)
    /\ \/ UNCHANGED scheduler
       \/ n = "cron" /\ running' = [running EXCEPT ![i] = TRUE]
          /\ scheduler' = [scheduler EXCEPT ![i] = "on"]

LEMMA EnableBuilds ==
    ASSUME NEW n \in Names, Enable(n)
    PROVE  \E i \in Instances : Builds(n, i)
<1>1. Unbuilt # {} BY DEF Enable, EnableStream, EnableSimple, EnableIdle,
        EnableRaises, EnableTerminal, EnableCron, EnableDBus, Starts, Build
<1>2. Fresh \in Instances /\ name[Fresh] = None BY <1>1, FreshIsUnbuilt
<1>3. /\ Terminal # "cron" /\ Terminal # "clipboard" /\ Terminal # "file_watcher"
      /\ Terminal # "webhook" /\ ~Streams(Terminal, used.host) /\ ~DBus(Terminal, used.host)
  BY DEF Terminal, Streams, DBus
<1>4. CASE EnableStream(n)
  <2>1. n # Terminal BY <1>3, <1>4 DEF EnableStream
  <2>2. Builds(n, Fresh)
    BY <1>2, <1>4, <2>1 DEF EnableStream, Starts, Build, Go, StartsAt, Builds, parts,
         stream, process, told, cron, Steps
  <2> QED BY <1>2, <2>2
<1>5. CASE n = Terminal /\ EnableTerminal
  <2>1. Builds(n, Fresh)
    BY <1>2, <1>5 DEF EnableTerminal, Starts, Build, Go, StartsAt, Builds, stream, process,
         told, cron, Steps
  <2> QED BY <1>2, <2>1
<1>6. CASE n = "desktop_events" /\ EnableDBus
  <2>1. n # Terminal BY <1>6 DEF Terminal
  <2>2. Builds(n, Fresh)
    BY <1>2, <1>6, <2>1 DEF EnableDBus, Starts, Build, Go, StartsAt, Builds, parts, stream,
         process, told, cron, Steps, DBusSteps
  <2> QED BY <1>2, <2>2
<1>7. CASE n = "cron" /\ EnableCron
  <2>1. n # Terminal BY <1>7 DEF Terminal
  <2>2. Builds(n, Fresh)
    BY <1>2, <1>7, <2>1 DEF EnableCron, CronStart, Starts, Build, Go, StartsAt, Builds,
         stream, process, Steps
  <2> QED BY <1>2, <2>2
<1>8. CASE EnableSimple(n)
  <2>1. n # Terminal BY <1>8 DEF EnableSimple, Terminal
  <2>2. Builds(n, Fresh)
    BY <1>2, <1>8, <2>1 DEF EnableSimple, Starts, Build, Go, StartsAt, Builds, parts,
         stream, process, told, cron, Steps
  <2> QED BY <1>2, <2>2
<1>9. CASE EnableIdle(n)
  <2>1. Builds(n, Fresh)
    BY <1>2, <1>9 DEF EnableIdle, Build, Builds, parts, stream, process, told, cron
  <2> QED BY <1>2, <2>1
<1>10. CASE EnableRaises(n)
  <2>1. Builds(n, Fresh)
    BY <1>2, <1>10 DEF EnableRaises, Build, Builds, parts, stream, process, told, cron
  <2> QED BY <1>2, <2>1
<1> QED BY <1>4, <1>5, <1>6, <1>7, <1>8, <1>9, <1>10 DEF Enable

\* disable() has begun the stop() of i, which the table had under n.
StopsStream(d, i) ==
    \/ Terminate(i) /\ Wait(d, i, "wait") /\ waited' = [waited EXCEPT ![d] = held[i]]
    \/ StopUnspawned(i) /\ Wait(d, i, "join") /\ UNCHANGED waited
    \/ StopRaises(i) /\ UNCHANGED call

Stops(d, n, i) ==
    /\ _producers[n] = i /\ i # None /\ running[i]
    /\ pc[d] = "idle" /\ _producers' = [_producers EXCEPT ![n] = None]
    /\ running' = [running EXCEPT ![i] = FALSE]
    /\ UNCHANGED <<name, task, taker, used>>
    /\ \/ cancelled' = [cancelled EXCEPT ![i] = TRUE]
       \/ UNCHANGED cancelled /\ n \notin {Terminal, "file_watcher"} /\ ~DBus(n, used.host)
    /\ \/ UNCHANGED call
       \/ \E step \in {"wait", "join"} : Wait(d, i, step)
    /\ \/ Streams(n, used.host) /\ StopsStream(d, i)
       \/ ~Streams(n, used.host) /\ UNCHANGED <<stream, waited>>
    /\ \/ n = Terminal /\ TerminalStop(i)
       \/ n # Terminal /\ UNCHANGED terminal
    /\ fate' \in [AllHappenings -> Fates]
    /\ \A o \in AllHappenings : fate'[o] = "none" => fate[o] = "none"
    /\ \/ DBus(n, used.host) /\ Disconnect(i)
       \/ ~DBus(n, used.host) /\ UNCHANGED open
    /\ \/ n = "cron" /\ scheduler' = [scheduler EXCEPT ![i] = "closing"]
       \/ n # "cron" /\ UNCHANGED scheduler

LEMMA WhatCancelledDoes ==
    ASSUME fate \in [AllHappenings -> Fates], NEW i, NEW begun, Cancelled(i, begun)
    PROVE  /\ fate' \in [AllHappenings -> Fates] /\ taker' = taker
           /\ \A o \in AllHappenings : fate'[o] = "none" => fate[o] = "none"
BY DEF Cancelled, Fates

\* The entry is out of the table; nothing else has changed.
TakesOut(n) ==
    /\ ~IsRunning(n) /\ _producers' = [_producers EXCEPT ![n] = None]
    /\ UNCHANGED <<base, parts, call, used>>

LEMMA DisableStops ==
    ASSUME NEW n \in Names, NEW d \in Calls, Disable(d, n),
           fate \in [AllHappenings -> Fates]
    PROVE  TakesOut(n) \/ Stops(d, n, _producers[n])
<1> DEFINE i == _producers[n]
<1>1. pc[d] = "idle" /\ i # None /\ UNCHANGED used BY DEF Disable
<1>2. CASE NothingToStop(n)
  BY <1>1, <1>2 DEF NothingToStop, TakeOut, TakesOut
<1>3. CASE StopStream(d, n)
  <2>1. /\ Streams(n, used.host) /\ running[i] /\ UNCHANGED <<terminal, told>>
        /\ _producers' = [_producers EXCEPT ![n] = None]
    BY <1>3 DEF StopStream, IsRunning, TakeOut
  <2>2. /\ n # Terminal /\ n # "file_watcher" /\ n # "cron" /\ ~DBus(n, used.host)
    BY <2>1 DEF Streams, DBus, Terminal
  <2>3. StopsStream(d, i)
    BY <1>3 DEF StopStream, StopsStream
  <2>4. /\ running' = [running EXCEPT ![i] = FALSE] /\ UNCHANGED <<name, task>>
        /\ cancelled' = [cancelled EXCEPT ![i] = TRUE] \/ UNCHANGED cancelled
        /\ UNCHANGED call \/ \E step \in {"wait", "join"} : Wait(d, i, step)
    BY <2>3 DEF StopsStream, Terminate, StopUnspawned, StopRaises, Stopping
  <2> HIDE DEF i
  <2>5. UNCHANGED <<fate, taker, open, scheduler>>
    BY <2>1 DEF told, happenings, dbus, cron
  <2>6. Stops(d, n, i)
    BY <1>1, <2>1, <2>2, <2>3, <2>4, <2>5 DEF Stops, i
  <2> QED BY <2>6 DEF i
<1>4. CASE StopLoop(d, n)
  <2>1. /\ running[i] /\ _producers' = [_producers EXCEPT ![n] = None]
        /\ Wait(d, i, "join") /\ UNCHANGED waited
    BY <1>4 DEF StopLoop, IsRunning, TakeOut
  <2>2. \/ n = Terminal /\ TerminalStop(i) /\ UNCHANGED <<stream, told>>
        \/ n = "clipboard" /\ ClipboardStop(i)
           /\ UNCHANGED <<stream, terminal, happenings, dbus, cron>>
        \/ n = "file_watcher" /\ FileWatcherStop(i)
           /\ UNCHANGED <<stream, terminal, clipboard, dbus, cron>>
        \/ DBus(n, used.host) /\ DBusStop(i)
           /\ UNCHANGED <<stream, terminal, clipboard, cron>>
    BY <1>4 DEF StopLoop
  <2> HIDE DEF i
  <2>3. /\ running' = [running EXCEPT ![i] = FALSE] /\ UNCHANGED <<name, task>>
        /\ cancelled' = [cancelled EXCEPT ![i] = TRUE] /\ UNCHANGED stream
    BY <2>2 DEF TerminalStop, ClipboardStop, FileWatcherStop, DBusStop
  <2>4. ~Streams(n, used.host) /\ n # "cron" /\ UNCHANGED scheduler
    BY <2>2 DEF Streams, DBus, Terminal, told, cron
  <2>5. fate' \in [AllHappenings -> Fates] /\ taker' = taker
        /\ \A o \in AllHappenings : fate'[o] = "none" => fate[o] = "none"
    <3>1. CASE Cancelled(i, {o \in InHand(i) : InHand(i) = {o}})
      BY <3>1, WhatCancelledDoes
    <3>2. CASE UNCHANGED happenings BY <3>2 DEF happenings
    <3> QED BY <2>2, <3>1, <3>2 DEF FileWatcherStop, DBusStop, told
  <2>6. \/ n = Terminal /\ TerminalStop(i)
        \/ n # Terminal /\ UNCHANGED terminal
    BY <2>2 DEF Terminal, DBus
  <2>7. \/ DBus(n, used.host) /\ Disconnect(i)
        \/ ~DBus(n, used.host) /\ UNCHANGED open
    BY <2>2 DEF Terminal, DBus, DBusStop, told, dbus
  <2>8. Stops(d, n, i)
    BY <1>1, <2>1, <2>3, <2>4, <2>5, <2>6, <2>7 DEF Stops, i
  <2> QED BY <2>8 DEF i
<1>5. CASE StopAtOnce(n)
  <2>1. /\ running[i] /\ _producers' = [_producers EXCEPT ![n] = None]
        /\ UNCHANGED <<stream, terminal, clipboard, dbus, call>>
    BY <1>5 DEF StopAtOnce, IsRunning, TakeOut
  <2>2. \/ n = "webhook" /\ WebhookStop(i) /\ UNCHANGED cron
        \/ n = "cron" /\ CronStop(i)
    BY <1>5 DEF StopAtOnce
  <2> HIDE DEF i
  <2>3. /\ running' = [running EXCEPT ![i] = FALSE] /\ UNCHANGED <<name, task, cancelled>>
        /\ UNCHANGED happenings
    BY <2>2 DEF WebhookStop, CronStop
  <2>4. /\ n \notin {Terminal, "file_watcher"}
        /\ ~Streams(n, used.host) /\ ~DBus(n, used.host)
    BY <2>2 DEF Streams, DBus, Terminal
  <2>5. \/ n = "cron" /\ scheduler' = [scheduler EXCEPT ![i] = "closing"]
        \/ n # "cron" /\ UNCHANGED scheduler
    BY <2>2 DEF CronStop, cron
  <2>6. Stops(d, n, i)
    BY <1>1, <2>1, <2>3, <2>4, <2>5 DEF Stops, i, happenings, dbus, call
  <2> QED BY <2>6 DEF i
<1> QED BY <1>2, <1>3, <1>4, <1>5 DEF Disable

\* The event loop has resumed a coroutine of i: the manager has no part in it,
\* and a loop that is over stays over.
LoopsOn(i) ==
    /\ UNCHANGED <<name, running, cancelled, _producers, call, used>>
    /\ \/ UNCHANGED task
       \/ Loops(i) /\ \E step \in Steps \ {"none"} : task' = [task EXCEPT ![i] = step]

LEMMA LoopGoesOn == ASSUME NEW i, Loop(i) PROVE LoopsOn(i)
<1> USE DEF Loops, Go, Resumes, Fails, Unwind, Wake, Steps, DBusSteps, LoopsOn, Raises
<1>0. UNCHANGED <<_producers, call, used>> BY DEF Loop
<1>1. CASE StreamLoop(i)
  BY <1>0, <1>1 DEF StreamLoop, Spawn, SpawnRaises, TakeLine, Published, LineRaises, Eof
<1>2. CASE TerminalLoop(i)
  BY <1>0, <1>2 DEF TerminalLoop, CheckNewCommands, NothingNew, PublishCommand,
       CommandRaises
<1>3. CASE ClipboardLoop(i)
  BY <1>0, <1>3 DEF ClipboardLoop, ReadNew, ReadNothing, ClipboardRaises, ContentPublished
<1>4. CASE FileWatcherLoop(i)
  BY <1>0, <1>4 DEF FileWatcherLoop, Watch, Batch, PublishChange, WatchRaises, Watches
<1>5. CASE DBusLoop(i)
  BY <1>0, <1>5 DEF DBusLoop, Connect, Handle, ListenRaises, Handed, LostWithIt,
       MessagePublished, MessageRaises, base
<1>6. CASE WebhookSteps(i)
  BY <1>0, <1>6 DEF WebhookSteps, BodyArrives, HookPublished, HookRaises, base
<1>7. CASE CronSteps(i)
  BY <1>0, <1>7 DEF CronSteps, JobPublished, JobRaises, ShutDown, base
<1> QED BY <1>1, <1>2, <1>3, <1>4, <1>5, <1>6, <1>7 DEF Loop

\* What is no business of the manager's.
Elsewhere == UNCHANGED <<base, _producers, call, used>>

LEMMA OthersAreElsewhere ==
    ASSUME \/ \E c \in Children : Child(c)
           \/ World \/ Endpoint \/ Rests \/ UNCHANGED vars
    PROVE  Elsewhere
<1> USE DEF Elsewhere
<1>1. ASSUME NEW c \in Children, Child(c) PROVE Elsewhere
  BY <1>1 DEF Child, Emit, Exit, Reap
<1>2. CASE World
  BY <1>2 DEF World, Write, Copy, Change, Message, Fire
<1>3. CASE Endpoint
  BY <1>3 DEF Endpoint, Receive, AddJob, RemoveJob
<1>4. CASE Rests \/ UNCHANGED vars
  BY <1>4 DEF Rests, vars
<1> QED BY <1>1, <1>2, <1>3, <1>4

-----------------------------------------------------------------------------
(* The manager. *)

LEMMA ManagerInit == Init => ManagerInv
BY KnownNames, NoneIsNoNumber
   DEF Init, BaseInit, ManagerInv, ManagerType, OwnsWhatRuns, Steps, Loops

\* What building an instance does to the loops' flags and places.
LEMMA WhatIsBuilt ==
    ASSUME ManagerInv, NEW n \in Names, NEW i \in Instances, Builds(n, i)
    PROVE  /\ name[i] = None /\ name' = [name EXCEPT ![i] = n]
           /\ task[i] = "none" /\ ~running[i]
           /\ \E e \in {i, None} : _producers' = [_producers EXCEPT ![n] = e]
           /\ \E b \in BOOLEAN : running' = [running EXCEPT ![i] = b]
           /\ \E step \in Steps : task' = [task EXCEPT ![i] = step]
           /\ \/ /\ running' = [running EXCEPT ![i] = TRUE]
                 /\ \E step \in Steps : /\ task' = [task EXCEPT ![i] = step]
                                       /\ StartsAt(n, step)
              \/ UNCHANGED task /\ n \notin StreamNames
<1>1. /\ name[i] = None /\ name' = [name EXCEPT ![i] = n]
      /\ task[i] = "none" /\ ~running[i]
  BY DEF Builds, ManagerInv
<1>2. \/ /\ _producers' = [_producers EXCEPT ![n] = i]
         /\ running' = [running EXCEPT ![i] = TRUE]
         /\ \E step \in Steps : task' = [task EXCEPT ![i] = step] /\ StartsAt(n, step)
      \/ /\ _producers' = [_producers EXCEPT ![n] = i]
         /\ UNCHANGED <<running, task>> /\ n \in {Terminal, "file_watcher", "clipboard"}
      \/ /\ _producers' = [_producers EXCEPT ![n] = None]
         /\ running' = [running EXCEPT ![i] = (n = Terminal)]
         /\ UNCHANGED task /\ n \in {Terminal, "cron"}
  BY DEF Builds
<1>3. /\ running = [running EXCEPT ![i] = FALSE] /\ task = [task EXCEPT ![i] = "none"]
      /\ "none" \in Steps /\ (n = Terminal) \in BOOLEAN
  BY <1>1 DEF ManagerInv, ManagerType, Steps
<1>4. {Terminal, "file_watcher", "clipboard", "cron"} \cap StreamNames = {}
  BY DEF Terminal, StreamNames
<1> QED BY <1>1, <1>2, <1>3, <1>4

LEMMA BuildKeepsManager ==
    ASSUME ManagerInv, NEW n \in Names, NEW i \in Instances, Builds(n, i)
    PROVE  ManagerInv'
<1> USE KnownNames, NoneIsNoNumber
<1>1. /\ name[i] = None /\ name' = [name EXCEPT ![i] = n] /\ ~IsRunning(n)
      /\ UNCHANGED <<cancelled, pc, target, waited>>
  BY DEF Builds, call
<1>2. \E e \in {i, None} : _producers' = [_producers EXCEPT ![n] = e]
  BY WhatIsBuilt
<1>3. \E b \in BOOLEAN : running' = [running EXCEPT ![i] = b]
  BY WhatIsBuilt
<1>4. \E step \in Steps : task' = [task EXCEPT ![i] = step]
  BY WhatIsBuilt
<1>5. ManagerType'
  BY <1>1, <1>2, <1>3, <1>4 DEF ManagerInv, ManagerType
<1>6. \A m \in Names : _producers'[m] # None => name'[_producers'[m]] = m
  BY <1>1, <1>2 DEF ManagerInv, ManagerType
<1>7. \A j \in Instances :
          /\ name'[j] = None => task'[j] = "none" /\ ~running'[j] /\ ~cancelled'[j]
          /\ cancelled'[j] => ~running'[j]
  BY <1>1, <1>3, <1>4 DEF ManagerInv, ManagerType
<1>8. OwnsWhatRuns'
  <2> SUFFICES ASSUME NEW j \in Instances, running'[j],
                      Loops(j)' \/ name'[j] \in {"webhook", "cron"}
               PROVE  _producers'[name'[j]] = j
    BY DEF OwnsWhatRuns
  <2>1. CASE j = i
    BY <1>1, <2>1 DEF Builds, ManagerInv, ManagerType, Loops, Terminal, StartsAt
  <2>2. CASE j # i
    <3>1. running[j] /\ task'[j] = task[j] /\ name'[j] = name[j]
      BY <1>1, <1>3, <1>4, <2>2 DEF ManagerInv, ManagerType
    <3>2. _producers[name[j]] = j /\ name[j] \in Names
      BY <3>1 DEF ManagerInv, ManagerType, OwnsWhatRuns, Loops
    <3>3. name[j] # n BY <1>1, <3>1, <3>2 DEF IsRunning
    <3> QED BY <1>2, <3>1, <3>2, <3>3 DEF ManagerInv, ManagerType
  <2> QED BY <2>1, <2>2
<1>9. \A d \in Calls : pc'[d] # "idle" =>
          /\ target'[d] \in Instances /\ name'[target'[d]] # None
          /\ ~running'[target'[d]]
          /\ \A m \in Names : _producers'[m] # target'[d]
          /\ \A e \in Calls : pc'[e] # "idle" /\ target'[e] = target'[d] => e = d
  BY <1>1, <1>2, <1>3 DEF ManagerInv, ManagerType
<1> QED BY <1>5, <1>6, <1>7, <1>8, <1>9 DEF ManagerInv

LEMMA TakingOutKeepsManager ==
    ASSUME ManagerInv, NEW n \in Names, TakesOut(n)
    PROVE  ManagerInv'
<1> USE KnownNames, NoneIsNoNumber
<1>1. /\ _producers' = [_producers EXCEPT ![n] = None] /\ ~IsRunning(n)
      /\ UNCHANGED <<name, running, task, cancelled, pc, target, waited>>
  BY DEF TakesOut, base, call
<1>2. ManagerType' BY <1>1 DEF ManagerInv, ManagerType
<1>3. OwnsWhatRuns'
  <2> SUFFICES ASSUME NEW j \in Instances, running[j],
                      Loops(j) \/ name[j] \in {"webhook", "cron"}
               PROVE  _producers'[name[j]] = j
    BY <1>1 DEF OwnsWhatRuns, Loops
  <2>1. _producers[name[j]] = j /\ name[j] \in Names
    BY DEF ManagerInv, ManagerType, OwnsWhatRuns
  <2>2. name[j] # n BY <1>1, <2>1 DEF IsRunning
  <2> QED BY <1>1, <2>1, <2>2 DEF ManagerInv, ManagerType
<1> QED BY <1>1, <1>2, <1>3 DEF ManagerInv, ManagerType

LEMMA StopKeepsManager ==
    ASSUME ManagerInv, ChildInv, NEW n \in Names, NEW d \in Calls, NEW i, Stops(d, n, i)
    PROVE  ManagerInv'
<1> USE KnownNames, NoneIsNoNumber
<1>1. /\ i \in Instances /\ _producers[n] = i /\ name[i] = n /\ running[i]
      /\ pc[d] = "idle" /\ _producers' = [_producers EXCEPT ![n] = None]
      /\ running' = [running EXCEPT ![i] = FALSE]
      /\ UNCHANGED <<name, task>>
  BY DEF Stops, ManagerInv, ManagerType
<1>2. cancelled' \in [Instances -> BOOLEAN]
  <2>1. cancelled' = [cancelled EXCEPT ![i] = TRUE] \/ UNCHANGED cancelled
    BY DEF Stops
  <2> QED BY <2>1 DEF ManagerInv, ManagerType
<1>3. \/ UNCHANGED <<pc, target>>
      \/ /\ \E step \in {"wait", "join"} : pc' = [pc EXCEPT ![d] = step]
         /\ target' = [target EXCEPT ![d] = i]
  BY DEF Stops, call, Wait
<1>4. waited' \in [Calls -> Children \cup {None}]
  <2>1. held[i] \in Children \cup {None} BY <1>1 DEF ChildInv, StreamType
  <2>2. UNCHANGED waited \/ waited' = [waited EXCEPT ![d] = held[i]]
    BY DEF Stops, StopsStream, call
  <2> QED BY <2>1, <2>2 DEF ManagerInv, ManagerType
<1>5. ManagerType'
  <2>1. pc' \in [Calls -> {"idle", "wait", "join"}]
    BY <1>3 DEF ManagerInv, ManagerType
  <2>2. target' \in [Calls -> Instances \cup {None}]
    BY <1>1, <1>3 DEF ManagerInv, ManagerType
  <2> QED BY <1>1, <1>2, <1>4, <2>1, <2>2 DEF ManagerInv, ManagerType
<1>6. \A m \in Names : _producers'[m] # None => name'[_producers'[m]] = m
  BY <1>1 DEF ManagerInv, ManagerType
<1>7. \A j \in Instances :
          /\ name'[j] = None => task'[j] = "none" /\ ~running'[j] /\ ~cancelled'[j]
          /\ cancelled'[j] => ~running'[j]
  <2>1. cancelled' = [cancelled EXCEPT ![i] = TRUE] \/ UNCHANGED cancelled
    BY DEF Stops
  <2>2. n # None BY <1>1
  <2>3. \A j \in Instances : j # i => cancelled'[j] = cancelled[j] /\ running'[j] = running[j]
    BY <1>1, <2>1 DEF ManagerInv, ManagerType
  <2>4. ~running'[i] /\ name[i] # None BY <1>1, <2>2 DEF ManagerInv, ManagerType
  <2> QED BY <1>1, <2>3, <2>4 DEF ManagerInv
<1>8. OwnsWhatRuns'
  <2> SUFFICES ASSUME NEW j \in Instances, running'[j],
                      Loops(j)' \/ name'[j] \in {"webhook", "cron"}
               PROVE  _producers'[name'[j]] = j
    BY DEF OwnsWhatRuns
  <2>1. j # i /\ running[j] BY <1>1 DEF ManagerInv, ManagerType
  <2>2. _producers[name[j]] = j /\ name[j] \in Names
    BY <1>1, <2>1 DEF ManagerInv, ManagerType, OwnsWhatRuns, Loops
  <2> QED BY <1>1, <2>1, <2>2 DEF ManagerInv, ManagerType
<1>9. \A e \in Calls : pc'[e] # "idle" =>
          /\ target'[e] \in Instances /\ name'[target'[e]] # None
          /\ ~running'[target'[e]]
          /\ \A m \in Names : _producers'[m] # target'[e]
          /\ \A f \in Calls : pc'[f] # "idle" /\ target'[f] = target'[e] => f = e
  <2>1. CASE UNCHANGED <<pc, target>>
    BY <1>1, <2>1 DEF ManagerInv, ManagerType
  <2>2. CASE \E step \in {"wait", "join"} :
                 pc' = [pc EXCEPT ![d] = step] /\ target' = [target EXCEPT ![d] = i]
    <3>1. \A e \in Calls : pc[e] # "idle" => target[e] # i
      BY <1>1 DEF ManagerInv
    <3>2. \A m \in Names : _producers'[m] # i
      BY <1>1 DEF ManagerInv, ManagerType
    <3> SUFFICES ASSUME NEW e \in Calls, pc'[e] # "idle"
                 PROVE  /\ target'[e] \in Instances /\ name'[target'[e]] # None
                        /\ ~running'[target'[e]]
                        /\ \A m \in Names : _producers'[m] # target'[e]
                        /\ \A f \in Calls :
                               pc'[f] # "idle" /\ target'[f] = target'[e] => f = e
      OBVIOUS
    <3>3. CASE e = d
      BY <1>1, <2>2, <3>1, <3>2, <3>3 DEF ManagerInv, ManagerType
    <3>4. CASE e # d
      BY <1>1, <2>2, <3>1, <3>2, <3>4 DEF ManagerInv, ManagerType
    <3> QED BY <3>3, <3>4
  <2> QED BY <1>3, <2>1, <2>2
<1> QED BY <1>5, <1>6, <1>7, <1>8, <1>9 DEF ManagerInv

LEMMA ResumeKeepsManager ==
    ASSUME ManagerInv, NEW d \in Calls, Resume(d)
    PROVE  ManagerInv'
<1>1. /\ pc[d] # "idle" /\ \E step \in {"join", "idle"} : pc' = [pc EXCEPT ![d] = step]
      /\ UNCHANGED <<name, running, task, _producers, target, waited>>
      /\ cancelled' = cancelled \/ cancelled' = [cancelled EXCEPT ![target[d]] = TRUE]
  <2>1. CASE WaitEnds(d)
    <3>1. /\ pc[d] = "wait" /\ UNCHANGED <<_producers, target, waited>>
          /\ pc' = [pc EXCEPT ![d] = "join"] \/ pc' = [pc EXCEPT ![d] = "idle"]
      BY <2>1 DEF WaitEnds, Return
    <3>2. \/ Waited(target[d], waited[d]) \/ Kill(target[d], waited[d])
          \/ KillRaises(target[d], waited[d])
      BY <2>1 DEF WaitEnds
    <3> QED BY <3>1, <3>2 DEF Waited, Kill, KillRaises, base
  <2>2. CASE Join(d)
    BY <2>2 DEF Join, Return, base
  <2> QED BY <2>1, <2>2 DEF Resume
<1>2. ManagerType'
  <2>1. pc' \in [Calls -> {"idle", "wait", "join"}]
    BY <1>1 DEF ManagerInv, ManagerType
  <2>2. cancelled' \in [Instances -> BOOLEAN]
    <3>1. cancelled \in [Instances -> BOOLEAN] BY DEF ManagerInv, ManagerType
    <3> QED BY <1>1, <3>1
  <2> QED BY <1>1, <2>1, <2>2 DEF ManagerInv, ManagerType
<1>3. OwnsWhatRuns' BY <1>1 DEF ManagerInv, OwnsWhatRuns, Loops
<1> QED BY <1>1, <1>2, <1>3 DEF ManagerInv, ManagerType

LEMMA LoopKeepsManager ==
    ASSUME ManagerInv, NEW i \in Instances, LoopsOn(i)
    PROVE  ManagerInv'
<1>1. /\ UNCHANGED <<name, running, cancelled, _producers, pc, target, waited>>
      /\ \/ UNCHANGED task
         \/ Loops(i) /\ \E step \in Steps \ {"none"} : task' = [task EXCEPT ![i] = step]
  BY DEF LoopsOn, call
<1>2. ManagerType' BY <1>1 DEF ManagerInv, ManagerType
<1>3. OwnsWhatRuns' BY <1>1 DEF ManagerInv, ManagerType, OwnsWhatRuns, Loops
<1>4. \A j \in Instances :
          /\ name'[j] = None => task'[j] = "none" /\ ~running'[j] /\ ~cancelled'[j]
          /\ cancelled'[j] => ~running'[j]
  BY <1>1 DEF ManagerInv, ManagerType, Loops
<1> QED BY <1>1, <1>2, <1>3, <1>4 DEF ManagerInv

LEMMA ElsewhereKeepsManager == ManagerInv /\ Elsewhere => ManagerInv'
BY DEF ManagerInv, ManagerType, OwnsWhatRuns, Loops, Elsewhere, base, call

-----------------------------------------------------------------------------
(* The loops. *)

LEMMA LoopsInit == Init => LoopsInv
BY KnownNames DEF Init, BaseInit, LoopsInv, Loops, DBusSteps, StreamNames, Terminal

LEMMA BuildKeepsLoops ==
    ASSUME ManagerInv, LoopsInv, NEW n \in Names, NEW i \in Instances, Builds(n, i)
    PROVE  LoopsInv'
<1> USE KnownNames DEF DBusSteps, StreamNames, Streams, DBus, Terminal
<1>1. /\ name[i] = None /\ name' = [name EXCEPT ![i] = n] /\ task[i] = "none"
      /\ UNCHANGED <<cancelled, used>>
  BY DEF Builds, ManagerInv
<1>2. \/ /\ running' = [running EXCEPT ![i] = TRUE]
         /\ \E step \in Steps : task' = [task EXCEPT ![i] = step] /\ StartsAt(n, step)
      \/ /\ \E b \in BOOLEAN : running' = [running EXCEPT ![i] = b]
         /\ UNCHANGED task
  BY WhatIsBuilt
<1>3. CASE UNCHANGED task
  BY <1>1, <1>2, <1>3 DEF ManagerInv, ManagerType, LoopsInv, Loops, StopCancels
<1>4. ASSUME NEW step \in Steps, running' = [running EXCEPT ![i] = TRUE],
             task' = [task EXCEPT ![i] = step], StartsAt(n, step)
      PROVE  LoopsInv'
  BY <1>1, <1>4 DEF ManagerInv, ManagerType, LoopsInv, Loops, StopCancels, StartsAt
<1> QED BY <1>2, <1>3, <1>4

LEMMA StopKeepsLoops ==
    ASSUME ManagerInv, LoopsInv, NEW n \in Names, NEW d \in Calls, NEW i, Stops(d, n, i)
    PROVE  LoopsInv'
<1>1. /\ i \in Instances /\ name[i] = n /\ UNCHANGED <<name, task, used>>
      /\ running' = [running EXCEPT ![i] = FALSE]
      /\ \/ cancelled' = [cancelled EXCEPT ![i] = TRUE]
         \/ UNCHANGED cancelled /\ n \notin {Terminal, "file_watcher"} /\ ~DBus(n, used.host)
  BY KnownNames, NoneIsNoNumber DEF Stops, ManagerInv, ManagerType
<1> QED BY <1>1 DEF ManagerInv, ManagerType, LoopsInv, Loops, StopCancels

LEMMA ResumeKeepsLoops ==
    ASSUME ManagerInv, LoopsInv, NEW d \in Calls, Resume(d)
    PROVE  LoopsInv'
<1>1. /\ UNCHANGED <<name, running, task, used>>
      /\ cancelled' = cancelled \/ cancelled' = [cancelled EXCEPT ![target[d]] = TRUE]
  BY DEF Resume, WaitEnds, Waited, Kill, KillRaises, Join, base
<1> QED BY <1>1 DEF ManagerInv, ManagerType, LoopsInv, Loops, StopCancels

\* A loop keeps to the steps of its kind.
LEMMA LoopsKeepToTheirKind ==
    ASSUME NEW i, Loop(i), name[i] \in StreamNames
    PROVE  \/ UNCHANGED task
           \/ \E step : /\ task' = [task EXCEPT ![i] = step]
                        /\ \/ step = "done"
                           \/ /\ step \in {"spawn", "read", "publish", "sleep"}
                              /\ task[i] \in {"spawn", "read", "publish", "sleep"}
                           \/ step \in DBusSteps /\ task[i] \in DBusSteps
<1> USE DEF Go, Resumes, Fails, Unwind, Wake, DBusSteps, Raises
<1>1. CASE StreamLoop(i)
  BY <1>1 DEF StreamLoop, Spawn, SpawnRaises, TakeLine, Published, LineRaises, Eof
<1>2. CASE DBusLoop(i)
  BY <1>2 DEF DBusLoop, Connect, Handle, ListenRaises, Handed, LostWithIt,
       MessagePublished, MessageRaises, base
<1>3. CASE TerminalLoop(i) \/ ClipboardLoop(i) \/ FileWatcherLoop(i) \/ WebhookSteps(i)
           \/ CronSteps(i)
  BY <1>3 DEF TerminalLoop, ClipboardLoop, FileWatcherLoop, WebhookSteps, CronSteps,
       StreamNames, Terminal
<1> QED BY <1>1, <1>2, <1>3 DEF Loop

LEMMA LoopKeepsLoops ==
    ASSUME ManagerInv, LoopsInv, NEW i \in Instances, Loop(i)
    PROVE  LoopsInv'
<1> USE DEF DBusSteps
<1>1. LoopsOn(i) BY LoopGoesOn
<1>2. /\ UNCHANGED <<name, running, cancelled, used>>
      /\ \/ UNCHANGED task
         \/ Loops(i) /\ \E step \in Steps \ {"none"} : task' = [task EXCEPT ![i] = step]
  BY <1>1 DEF LoopsOn
<1>3. \A j \in Instances : Loops(j)' => Loops(j)
  BY <1>2 DEF ManagerInv, ManagerType, Loops
<1>4. ASSUME NEW j \in Instances, name[j] \in StreamNames
      PROVE  /\ task'[j] \in {"spawn", "read", "publish", "sleep"}
                   => task[j] \in {"spawn", "read", "publish", "sleep"}
             /\ task'[j] \in DBusSteps => task[j] \in DBusSteps
  <2>1. CASE j = i
    BY <1>4, <2>1, LoopsKeepToTheirKind DEF ManagerInv, ManagerType
  <2>2. CASE j # i
    BY <1>2, <2>2 DEF ManagerInv, ManagerType
  <2> QED BY <2>1, <2>2
<1> QED BY <1>2, <1>3, <1>4 DEF LoopsInv, StopCancels, StreamNames

LEMMA ElsewhereKeepsLoops == LoopsInv /\ Elsewhere => LoopsInv'
BY DEF LoopsInv, Loops, StopCancels, Elsewhere, base

-----------------------------------------------------------------------------
(* The subprocesses. *)

LEMMA ChildInit == Init => ChildInv
BY KnownNames, NoneIsNoNumber
   DEF Init, BaseInit, StreamInit, ChildInv, StreamType, Lives

\* The stream producers and their children are as they were.
LEMMA StreamsAsTheyWere ==
    ASSUME ChildInv, NEW S \in SUBSET Instances,
           UNCHANGED <<held, reading, owner, child, late, unsafe, used>>,
           \A i \in S :
               /\ ~Streams(name[i], used.host)
               /\ Streams(name'[i], used.host) => running'[i],
           \A i \in Instances \ S :
               /\ name'[i] = name[i] /\ running'[i] = running[i]
               /\ task'[i] = task[i] /\ cancelled'[i] = cancelled[i],
           \A d \in Calls : pc[d] = "wait" =>
               pc'[d] = "wait" /\ target'[d] = target[d] /\ waited'[d] = waited[d]
    PROVE  ChildInv'
<1>1. StreamType' BY DEF ChildInv, StreamType
<1>2. ASSUME NEW c \in Children, child'[c] # "none"
      PROVE  /\ owner'[c] = owner[c] /\ owner[c] \in Instances \ S
             /\ Streams(name'[owner[c]], used'.host)
  BY <1>2 DEF ChildInv
<1>3. ASSUME NEW c \in Children, Lives(c)', ~unsafe'[owner'[c]]
      PROVE  Attended(c)'
  <2>1. Lives(c) /\ owner[c] \in Instances \ S /\ owner'[c] = owner[c]
    BY <1>2, <1>3 DEF Lives
  <2>2. Attended(c) BY <1>3, <2>1 DEF ChildInv
  <2>3. Awaited(c) => Awaited(c)' BY DEF Awaited
  <2> QED BY <2>1, <2>2, <2>3 DEF Attended
<1>4. ASSUME NEW i \in Instances
      PROVE  /\ held'[i] # None => child'[held'[i]] # "none"
             /\ Streams(name'[i], used'.host) /\ task'[i] = "spawn" /\ ~running'[i]
                   => cancelled'[i] \/ unsafe'[i]
             /\ late'[i] # 0
                   => /\ late'[i] = 1 /\ ~running'[i]
                      /\ Streams(name'[i], used'.host) /\ task'[i] # "publish"
  BY DEF ChildInv
<1> QED BY <1>1, <1>2, <1>3, <1>4 DEF ChildInv

LEMMA BuildKeepsChild ==
    ASSUME ManagerInv, ChildInv, NEW n \in Names, NEW i \in Instances, Builds(n, i)
    PROVE  ChildInv'
<1>1. /\ UNCHANGED <<held, reading, owner, child, late, unsafe, used, cancelled>>
      /\ UNCHANGED <<pc, target, waited>>
      /\ name[i] = None /\ name' = [name EXCEPT ![i] = n] /\ task[i] = "none"
  BY DEF Builds, process, call, ManagerInv
<1>2. /\ Streams(n, used.host) => running' = [running EXCEPT ![i] = TRUE]
      /\ \E b \in BOOLEAN : running' = [running EXCEPT ![i] = b]
      /\ \E step \in Steps : task' = [task EXCEPT ![i] = step]
  BY WhatIsBuilt DEF Streams, StreamNames
<1>3. ~Streams(name[i], used.host) BY <1>1, KnownNames
<1>4. \A j \in {i} : /\ ~Streams(name[j], used.host)
                     /\ Streams(name'[j], used.host) => running'[j]
  BY <1>1, <1>2, <1>3 DEF ManagerInv, ManagerType
<1>5. \A j \in Instances \ {i} :
          /\ name'[j] = name[j] /\ running'[j] = running[j]
          /\ task'[j] = task[j] /\ cancelled'[j] = cancelled[j]
  BY <1>1, <1>2 DEF ManagerInv, ManagerType
<1>6. \A d \in Calls : pc[d] = "wait" =>
          pc'[d] = "wait" /\ target'[d] = target[d] /\ waited'[d] = waited[d]
  BY <1>1
<1>7. {i} \in SUBSET Instances OBVIOUS
<1> QED BY <1>1, <1>4, <1>5, <1>6, <1>7, StreamsAsTheyWere

LEMMA UntouchedKeepsChild ==
    ASSUME ChildInv, UNCHANGED <<held, reading, owner, child, late, unsafe, used>>,
           UNCHANGED <<name, running, task, cancelled>>,
           \A d \in Calls : pc[d] = "wait" =>
               pc'[d] = "wait" /\ target'[d] = target[d] /\ waited'[d] = waited[d]
    PROVE  ChildInv'
<1> DEFINE S == {}
<1>1. /\ S \in SUBSET Instances
      /\ \A i \in S : /\ ~Streams(name[i], used.host)
                      /\ Streams(name'[i], used.host) => running'[i]
      /\ \A i \in Instances \ S :
             /\ name'[i] = name[i] /\ running'[i] = running[i]
             /\ task'[i] = task[i] /\ cancelled'[i] = cancelled[i]
  OBVIOUS
<1> HIDE DEF S
<1> QED BY <1>1, StreamsAsTheyWere

LEMMA TakingOutKeepsChild ==
    ASSUME ChildInv, NEW n, TakesOut(n) PROVE ChildInv'
<1>1. /\ UNCHANGED <<held, reading, owner, child, late, unsafe, used>>
      /\ UNCHANGED <<pc, target, waited, name, running, task, cancelled>>
  BY DEF TakesOut, base, parts, stream, process, call
<1> QED BY <1>1, UntouchedKeepsChild

\* stop() at a stream producer.
LEMMA StopStreamKeepsChild ==
    ASSUME ManagerInv, ChildInv, NEW i \in Instances, NEW d \in Calls, pc[d] = "idle",
           running[i], StopsStream(d, i), UNCHANGED used
    PROVE  ChildInv'
<1>1. /\ Stopping(i) /\ UNCHANGED <<name, task, held, reading, owner, lines, late>>
      /\ \/ /\ held[i] # None /\ UNCHANGED cancelled
            /\ child' = [child EXCEPT ![held[i]] = IF @ = "up" THEN "asked" ELSE @]
            /\ Wait(d, i, "wait") /\ waited' = [waited EXCEPT ![d] = held[i]]
         \/ /\ held[i] = None /\ cancelled' = [cancelled EXCEPT ![i] = TRUE]
            /\ UNCHANGED <<child, waited>> /\ Wait(d, i, "join")
         \/ /\ held[i] # None /\ child[held[i]] = "reaped"
            /\ UNCHANGED <<child, cancelled, call>>
  BY DEF StopsStream, Terminate, StopUnspawned, StopRaises, process
<1>2. /\ running' = [running EXCEPT ![i] = FALSE]
      /\ unsafe' = [unsafe EXCEPT ![i] = @ \/ (held[i] # None /\ task[i] = "spawn")]
  BY <1>1 DEF Stopping
<1>3. StreamType'
  BY <1>1, <1>2 DEF ChildInv, StreamType
<1>4. ASSUME NEW c \in Children
      PROVE  (child'[c] # "none" => child[c] # "none") /\ (Lives(c)' => Lives(c))
  BY <1>1 DEF Lives, ChildInv, StreamType
<1>5. ASSUME NEW c \in Children, Lives(c)', ~unsafe'[owner'[c]]
      PROVE  Attended(c)'
  <2>1. /\ Lives(c) /\ owner[c] \in Instances /\ owner'[c] = owner[c]
        /\ ~unsafe[owner[c]]
    BY <1>1, <1>2, <1>4, <1>5 DEF Lives, ChildInv, StreamType
  <2>2. Attended(c) BY <2>1 DEF ChildInv
  <2>3. CASE owner[c] # i
    <3>1. Awaited(c) => Awaited(c)'
      BY <1>1, <2>1, <2>3 DEF Awaited, Wait, call, ManagerInv, ManagerType
    <3> QED BY <1>1, <1>2, <2>1, <2>2, <2>3, <3>1
            DEF Attended, ManagerInv, ManagerType
  <2>4. CASE owner[c] = i
    <3>1. held[i] = c /\ c # None BY <2>2, <2>4, NoneIsNoNumber DEF Attended
    <3>2. child[c] # "reaped" BY <2>1 DEF Lives
    <3>3. /\ UNCHANGED cancelled /\ Wait(d, i, "wait")
          /\ waited' = [waited EXCEPT ![d] = c]
      BY <1>1, <3>1, <3>2
    <3>4. Awaited(c)'
      BY <2>1, <2>4, <3>3 DEF Awaited, Wait, ManagerInv, ManagerType
    <3> QED BY <1>1, <2>2, <2>1, <3>3, <3>4 DEF Attended
  <2> QED BY <2>3, <2>4
<1>6. ASSUME NEW j \in Instances
      PROVE  /\ held'[j] # None => child'[held'[j]] # "none"
             /\ Streams(name'[j], used'.host) /\ task'[j] = "spawn" /\ ~running'[j]
                   => cancelled'[j] \/ unsafe'[j]
             /\ late'[j] # 0
                   => /\ late'[j] = 1 /\ ~running'[j]
                      /\ Streams(name'[j], used'.host) /\ task'[j] # "publish"
  BY <1>1, <1>2 DEF ChildInv, StreamType, ManagerInv, ManagerType
<1> QED BY <1>1, <1>3, <1>4, <1>5, <1>6 DEF ChildInv

LEMMA StopKeepsChild ==
    ASSUME ManagerInv, ChildInv, NEW n \in Names, NEW d \in Calls, NEW i, Stops(d, n, i)
    PROVE  ChildInv'
<1>0. \/ Streams(n, used.host) /\ StopsStream(d, i)
      \/ ~Streams(n, used.host) /\ UNCHANGED <<stream, waited>>
  BY DEF Stops
<1>1. /\ i \in Instances /\ name[i] = n /\ UNCHANGED <<name, task, used>>
      /\ running[i] /\ pc[d] = "idle" /\ running' = [running EXCEPT ![i] = FALSE]
      /\ cancelled' = [cancelled EXCEPT ![i] = TRUE] \/ UNCHANGED cancelled
      /\ UNCHANGED call \/ \E step \in {"wait", "join"} : Wait(d, i, step)
  BY KnownNames, NoneIsNoNumber DEF Stops, ManagerInv, ManagerType
<1>2. CASE Streams(n, used.host) /\ StopsStream(d, i)
  BY <1>1, <1>2, StopStreamKeepsChild
<1>3. CASE ~Streams(n, used.host) /\ UNCHANGED <<stream, waited>>
  <2>1. UNCHANGED <<held, reading, owner, child, late, unsafe, used>>
    BY <1>1, <1>3 DEF stream, process
  <2>2. \A j \in {i} : /\ ~Streams(name[j], used.host)
                       /\ Streams(name'[j], used.host) => running'[j]
    BY <1>1, <1>3
  <2>3. \A j \in Instances \ {i} :
            /\ name'[j] = name[j] /\ running'[j] = running[j]
            /\ task'[j] = task[j] /\ cancelled'[j] = cancelled[j]
    BY <1>1 DEF ManagerInv, ManagerType
  <2>4. \A e \in Calls : pc[e] = "wait" =>
            pc'[e] = "wait" /\ target'[e] = target[e] /\ waited'[e] = waited[e]
    BY <1>1, <1>3 DEF Wait, call, ManagerInv, ManagerType
  <2>5. {i} \in SUBSET Instances BY <1>1
  <2> QED BY <1>1, <2>1, <2>2, <2>3, <2>4, <2>5, StreamsAsTheyWere
<1> QED BY <1>0, <1>2, <1>3

LEMMA WaitEndsKeepsChild ==
    ASSUME ManagerInv, ChildInv, NEW d \in Calls, WaitEnds(d)
    PROVE  ChildInv'
<1> DEFINE i == target[d]
<1>1. /\ pc[d] = "wait" /\ i \in Instances /\ ~running[i]
      /\ \A e \in Calls : pc[e] = "wait" /\ target[e] = i => e = d
  BY DEF WaitEnds, ManagerInv
<1>2. /\ \E step \in {"join", "idle"} : pc' = [pc EXCEPT ![d] = step]
      /\ UNCHANGED <<target, waited, used>>
  BY DEF WaitEnds, Return
<1>3. \/ Waited(i, waited[d]) \/ Kill(i, waited[d]) \/ KillRaises(i, waited[d])
  BY DEF WaitEnds
<1> HIDE DEF i
<1>4. /\ UNCHANGED <<name, running, task, reading, owner, late, unsafe>>
      /\ held' = held \/ held' = [held EXCEPT ![i] = None]
      /\ cancelled' = cancelled \/ cancelled' = [cancelled EXCEPT ![i] = TRUE]
      /\ child' = child \/ child' = [child EXCEPT ![held[i]] = "dead"]
  BY <1>3 DEF Waited, Kill, KillRaises, base, stream, process
<1>5. StreamType'
  BY <1>4 DEF ChildInv, StreamType
<1>6. ASSUME NEW c \in Children
      PROVE  (child'[c] # "none" <=> child[c] # "none") /\ (Lives(c)' => Lives(c))
  BY <1>1, <1>4, NoneIsNoNumber DEF Lives, ChildInv, StreamType
<1>7. ASSUME NEW c \in Children, Lives(c)', ~unsafe'[owner'[c]]
      PROVE  Attended(c)'
  <2>1. /\ Lives(c) /\ owner[c] \in Instances /\ owner'[c] = owner[c] /\ Attended(c)
    BY <1>4, <1>6, <1>7 DEF Lives, ChildInv, StreamType
  <2>2. owner[c] # i
    <3> SUFFICES ASSUME owner[c] = i PROVE FALSE OBVIOUS
    <3>1. held[i] = c /\ Awaited(c) BY <1>1, <2>1 DEF Attended
    <3>2. waited[d] = c BY <1>1, <3>1 DEF Awaited
    <3>3. child[held[i]] # "reaped" BY <2>1, <3>1 DEF Lives
    <3>4. Kill(i, c) BY <1>3, <2>1, <3>2, <3>3 DEF Waited, KillRaises
    <3>5. child'[c] = "dead" BY <3>1, <3>4 DEF Kill, ChildInv, StreamType
    <3> QED BY <1>7, <3>5 DEF Lives
  <2>3. Awaited(c) => Awaited(c)'
    BY <1>2, <2>1, <2>2 DEF Awaited, ManagerInv, ManagerType, i
  <2>4. held'[owner[c]] = held[owner[c]]
    BY <1>4, <2>1, <2>2 DEF ChildInv, StreamType
  <2>5. cancelled'[owner[c]] = cancelled[owner[c]]
    BY <1>4, <2>1, <2>2 DEF ManagerInv, ManagerType
  <2>6. UNCHANGED <<running, task, reading>> BY <1>4
  <2> QED BY <2>1, <2>3, <2>4, <2>5, <2>6 DEF Attended
<1>8. ASSUME NEW j \in Instances
      PROVE  /\ held'[j] # None => child'[held'[j]] # "none"
             /\ Streams(name'[j], used'.host) /\ task'[j] = "spawn" /\ ~running'[j]
                   => cancelled'[j] \/ unsafe'[j]
             /\ late'[j] # 0
                   => /\ late'[j] = 1 /\ ~running'[j]
                      /\ Streams(name'[j], used'.host) /\ task'[j] # "publish"
  <2>1. held'[j] # None => held'[j] = held[j] /\ held[j] \in Children
    BY <1>4 DEF ChildInv, StreamType
  <2>2. cancelled[j] => cancelled'[j]
    BY <1>4 DEF ManagerInv, ManagerType
  <2> QED BY <1>2, <1>4, <1>6, <2>1, <2>2 DEF ChildInv
<1> QED BY <1>2, <1>4, <1>5, <1>6, <1>7, <1>8 DEF ChildInv

LEMMA ResumeKeepsChild ==
    ASSUME ManagerInv, ChildInv, NEW d \in Calls, Resume(d)
    PROVE  ChildInv'
<1>1. CASE Join(d)
  <2>1. /\ UNCHANGED <<held, reading, owner, child, late, unsafe, used>>
        /\ UNCHANGED <<name, running, task, cancelled, target, waited>>
        /\ pc[d] = "join" /\ pc' = [pc EXCEPT ![d] = "idle"]
    BY <1>1 DEF Join, Return, base, parts, stream, process
  <2>2. \A e \in Calls : pc[e] = "wait" =>
            pc'[e] = "wait" /\ target'[e] = target[e] /\ waited'[e] = waited[e]
    BY <2>1 DEF ManagerInv, ManagerType
  <2> QED BY <2>1, <2>2, UntouchedKeepsChild
<1> QED BY <1>1, WaitEndsKeepsChild DEF Resume

\* A step of a child, or of nothing that concerns the streams.
LEMMA ChildKeepsChild ==
    ASSUME ChildInv, NEW c \in Children, Child(c) PROVE ChildInv'
<1>1. /\ UNCHANGED <<held, reading, owner, late, unsafe, used>>
      /\ UNCHANGED <<name, running, task, cancelled, pc, target, waited>>
      /\ \/ UNCHANGED child
         \/ child[c] # "none"
            /\ \E state \in {"dead", "reaped"} : child' = [child EXCEPT ![c] = state]
  BY DEF Child, Emit, Exit, Reap, base, call
<1>2. \A b \in Children : /\ child'[b] # "none" <=> child[b] # "none"
                          /\ Lives(b)' => Lives(b)
  BY <1>1 DEF Lives, ChildInv, StreamType
<1>3. StreamType' BY <1>1 DEF ChildInv, StreamType
<1> QED BY <1>1, <1>2, <1>3 DEF ChildInv, StreamType, Attended, Awaited

LEMMA ElsewhereKeepsChild ==
    ASSUME ChildInv, Elsewhere, UNCHANGED stream PROVE ChildInv'
<1>1. /\ UNCHANGED <<held, reading, owner, child, late, unsafe, used>>
      /\ UNCHANGED <<name, running, task, cancelled, pc, target, waited>>
  BY DEF Elsewhere, base, stream, process, call
<1> QED BY <1>1, UntouchedKeepsChild

\* A loop that keeps the child it has, or has lost it.
LEMMA LoopStepKeepsChild ==
    ASSUME ManagerInv, ChildInv, NEW i \in Instances, NEW step,
           UNCHANGED <<held, reading, owner, child, used>>,
           UNCHANGED <<name, running, cancelled, pc, target, waited>>,
           task' = [task EXCEPT ![i] = step], step = "spawn" => running[i],
           \A c \in Children : Lives(c) /\ owner[c] = i /\ ~unsafe'[i] /\ Attended(c)
                                   => step \in {"read", "publish", "done"},
           unsafe' \in [Instances -> BOOLEAN], late' \in [Instances -> Nat],
           \A j \in Instances : /\ unsafe[j] => unsafe'[j]
                                /\ j # i => late'[j] = late[j],
           late'[i] # 0 => /\ late'[i] = 1 /\ ~running[i]
                           /\ Streams(name[i], used.host) /\ step # "publish"
    PROVE  ChildInv'
<1>1. StreamType' BY DEF ChildInv, StreamType
<1>2. \A j \in Instances : task'[j] = IF j = i THEN step ELSE task[j]
  BY DEF ManagerInv, ManagerType
<1>3. ASSUME NEW c \in Children, Lives(c)', ~unsafe'[owner'[c]]
      PROVE  Attended(c)'
  <2>1. /\ Lives(c) /\ owner[c] \in Instances /\ Attended(c)
    BY <1>3 DEF Lives, ChildInv
  <2>2. task'[owner[c]] \in {"read", "publish", "done"}
    BY <1>2, <1>3, <2>1 DEF Attended
  <2>3. Awaited(c)' = Awaited(c) BY DEF Awaited
  <2> QED BY <2>1, <2>2, <2>3 DEF Attended
<1>4. ASSUME NEW j \in Instances
      PROVE  /\ held'[j] # None => child'[held'[j]] # "none"
             /\ Streams(name'[j], used'.host) /\ task'[j] = "spawn" /\ ~running'[j]
                   => cancelled'[j] \/ unsafe'[j]
             /\ late'[j] # 0
                   => /\ late'[j] = 1 /\ ~running'[j]
                      /\ Streams(name'[j], used'.host) /\ task'[j] # "publish"
  BY <1>2 DEF ChildInv
<1> QED BY <1>1, <1>3, <1>4 DEF ChildInv

LEMMA SpawnKeepsChild ==
    ASSUME ManagerInv, LoopsInv, ChildInv, NEW i \in Instances, LoopsOn(i),
           name[i] \in StreamNames, Spawn(i)
    PROVE  ChildInv'
<1> DEFINE k == NextChild
<1>1. /\ UNCHANGED <<name, running, cancelled, pc, target, waited, used>>
      /\ task[i] = "spawn" /\ ~cancelled[i] /\ task' = [task EXCEPT ![i] = "read"]
      /\ held' = [held EXCEPT ![i] = k] /\ reading' = [reading EXCEPT ![i] = k]
      /\ owner' = [owner EXCEPT ![k] = i] /\ child' = [child EXCEPT ![k] = "up"]
      /\ UNCHANGED <<late, unsafe>>
  BY DEF Spawn, LoopsOn, call, Resumes, Go
<1>2. k \in Children /\ child[k] = "none"
  BY NextChildIsFree DEF Spawn
<1> HIDE DEF k
<1>3. Streams(name[i], used.host) BY <1>1 DEF LoopsInv
<1>4. StreamType' BY <1>1, <1>2 DEF ChildInv, StreamType
<1>5. ASSUME NEW c \in Children, child'[c] # "none"
      PROVE  owner'[c] \in Instances /\ Streams(name'[owner'[c]], used'.host)
  BY <1>1, <1>2, <1>3, <1>5 DEF ChildInv, StreamType
<1>6. ASSUME NEW c \in Children, Lives(c)', ~unsafe'[owner'[c]]
      PROVE  Attended(c)'
  <2>1. CASE c = k
    <3>1. owner'[c] = i /\ held'[i] = c /\ reading'[i] = c /\ task'[i] = "read"
      BY <1>1, <1>2, <2>1 DEF ChildInv, StreamType, ManagerInv, ManagerType
    <3>2. ~cancelled'[i] /\ running'[i]
      BY <1>1, <1>3, <1>6, <3>1 DEF ChildInv
    <3> QED BY <3>1, <3>2 DEF Attended
  <2>2. CASE c # k
    <3>1. Lives(c) /\ owner'[c] = owner[c] /\ owner[c] \in Instances /\ ~unsafe[owner[c]]
      BY <1>1, <1>6, <2>2 DEF Lives, ChildInv, StreamType
    <3>2. Attended(c) BY <3>1 DEF ChildInv
    <3>3. owner[c] # i BY <1>1, <3>2 DEF Attended
    <3>4. Awaited(c)' = Awaited(c) BY <1>1, <3>1 DEF Awaited
    <3> QED BY <1>1, <3>1, <3>2, <3>3, <3>4
            DEF Attended, ChildInv, StreamType, ManagerInv, ManagerType
  <2> QED BY <2>1, <2>2
<1>7. ASSUME NEW j \in Instances
      PROVE  /\ held'[j] # None => child'[held'[j]] # "none"
             /\ Streams(name'[j], used'.host) /\ task'[j] = "spawn" /\ ~running'[j]
                   => cancelled'[j] \/ unsafe'[j]
             /\ late'[j] # 0
                   => /\ late'[j] = 1 /\ ~running'[j]
                      /\ Streams(name'[j], used'.host) /\ task'[j] # "publish"
  BY <1>1, <1>2 DEF ChildInv, StreamType, ManagerInv, ManagerType
<1> QED BY <1>4, <1>5, <1>6, <1>7 DEF ChildInv

LEMMA StreamLoopKeepsChild ==
    ASSUME ManagerInv, LoopsInv, ChildInv, NEW i \in Instances, LoopsOn(i), StreamLoop(i)
    PROVE  ChildInv'
<1>0. /\ name[i] \in StreamNames
      /\ UNCHANGED <<name, running, cancelled, pc, target, waited, used>>
  BY DEF StreamLoop, LoopsOn, call
<1>1. /\ late \in [Instances -> Nat] /\ unsafe \in [Instances -> BOOLEAN]
      /\ late[i] # 0 => /\ late[i] = 1 /\ ~running[i]
                        /\ Streams(name[i], used.host) /\ task[i] # "publish"
  BY DEF ChildInv, StreamType
<1>2. CASE Spawn(i) BY <1>0, <1>2, SpawnKeepsChild
<1>3. CASE SpawnRaises(i)
  <2>1. /\ UNCHANGED <<held, reading, owner, child, late, unsafe>> /\ task[i] = "spawn"
        /\ \E step \in {"sleep", "done"} : task' = [task EXCEPT ![i] = step]
    BY <1>3 DEF SpawnRaises, stream, process, Fails, Go, Resumes
  <2>2. \A c \in Children : ~(owner[c] = i /\ Attended(c))
    BY <2>1 DEF Attended
  <2>3. PICK step \in {"sleep", "done"} : task' = [task EXCEPT ![i] = step]
    BY <2>1
  <2> QED BY <1>0, <1>1, <2>1, <2>2, <2>3, LoopStepKeepsChild
<1>4. CASE TakeLine(i)
  <2>1. /\ UNCHANGED <<held, reading, owner, child, late, unsafe>>
        /\ \E step \in {"read", "publish", "done"} :
               task' = [task EXCEPT ![i] = step] /\ (step = "publish" => running[i])
    BY <1>4 DEF TakeLine, Go
  <2> QED BY <1>0, <1>1, <2>1, LoopStepKeepsChild
<1>5. CASE Published(i)
  <2>1. /\ UNCHANGED <<held, reading, owner, child, unsafe>>
        /\ task[i] = "publish" /\ task' = [task EXCEPT ![i] = "read"]
        /\ late' = [late EXCEPT ![i] = IF running[i] THEN @ ELSE @ + 1]
    BY <1>5 DEF Published, process, Go, Resumes
  <2>2. Streams(name[i], used.host) /\ late[i] = 0
    BY <1>0, <1>1, <2>1 DEF LoopsInv
  <2>3. /\ late' \in [Instances -> Nat] /\ late'[i] = IF running[i] THEN 0 ELSE 1
        /\ \A j \in Instances : j # i => late'[j] = late[j]
    BY <1>1, <2>1, <2>2
  <2> QED BY <1>0, <1>1, <2>1, <2>2, <2>3, LoopStepKeepsChild
<1>6. CASE LineRaises(i)
  <2>1. /\ UNCHANGED <<held, reading, owner, child, late>>
        /\ \E step \in {"sleep", "done"} : task' = [task EXCEPT ![i] = step]
        /\ unsafe' = [unsafe EXCEPT ![i] = @ \/ Lives(reading[i])]
    BY <1>6 DEF LineRaises, Fails, Go
  <2>2. /\ unsafe' \in [Instances -> BOOLEAN]
        /\ \A j \in Instances : unsafe[j] => unsafe'[j]
        /\ Lives(reading[i]) => unsafe'[i]
    BY <1>1, <2>1 DEF Lives
  <2>3. \A c \in Children : ~(Lives(c) /\ owner[c] = i /\ ~unsafe'[i] /\ Attended(c))
    BY <2>2 DEF Attended
  <2> QED BY <1>0, <1>1, <2>1, <2>2, <2>3, LoopStepKeepsChild
<1>7. CASE Eof(i)
  <2>1. /\ UNCHANGED <<held, reading, owner, child, late, unsafe>> /\ ~Lives(reading[i])
        /\ \E step \in {"sleep", "done"} : task' = [task EXCEPT ![i] = step]
    BY <1>7 DEF Eof, stream, process, Go
  <2>2. \A c \in Children : ~(Lives(c) /\ owner[c] = i /\ Attended(c))
    BY <2>1 DEF Attended
  <2> QED BY <1>0, <1>1, <2>1, <2>2, LoopStepKeepsChild
<1>8. CASE Wake(i, "spawn") /\ UNCHANGED stream
  <2>1. /\ UNCHANGED <<held, reading, owner, child, late, unsafe>> /\ task[i] = "sleep"
        /\ \E step \in {"spawn", "done"} :
               task' = [task EXCEPT ![i] = step] /\ (step = "spawn" => running[i])
    BY <1>8 DEF Wake, stream, process, Go, Resumes
  <2>2. \A c \in Children : ~(owner[c] = i /\ Attended(c))
    BY <2>1 DEF Attended
  <2> QED BY <1>0, <1>1, <2>1, <2>2, LoopStepKeepsChild
<1>9. CASE Unwind(i) /\ UNCHANGED stream
  <2>1. /\ UNCHANGED <<held, reading, owner, child, late, unsafe>>
        /\ task' = [task EXCEPT ![i] = "done"]
    BY <1>9 DEF Unwind, stream, process, Go
  <2> QED BY <1>0, <1>1, <2>1, LoopStepKeepsChild
<1> QED BY <1>2, <1>3, <1>4, <1>5, <1>6, <1>7, <1>8, <1>9 DEF StreamLoop

LEMMA LoopKeepsChild ==
    ASSUME ManagerInv, LoopsInv, ChildInv, NEW i \in Instances, Loop(i)
    PROVE  ChildInv'
<1>0. LoopsOn(i) BY LoopGoesOn
<1>1. UNCHANGED <<name, running, cancelled, pc, target, waited, used>>
  BY <1>0 DEF LoopsOn, call
<1>2. CASE StreamLoop(i) BY <1>0, <1>2, StreamLoopKeepsChild
<1>3. CASE ~StreamLoop(i)
  <2>1. UNCHANGED <<held, reading, owner, child, late, unsafe>>
    BY <1>3 DEF Loop, stream, process
  <2>2. \/ name[i] \notin StreamNames \/ DBusLoop(i)
    BY <1>3 DEF Loop, TerminalLoop, ClipboardLoop, FileWatcherLoop, WebhookSteps,
         CronSteps, StreamNames, Terminal
  <2>3. CASE ~Streams(name[i], used.host)
    <3>1. \A j \in {i} : /\ ~Streams(name[j], used.host)
                         /\ Streams(name'[j], used.host) => running'[j]
      BY <1>1, <2>3
    <3>2. \A j \in Instances \ {i} :
              /\ name'[j] = name[j] /\ running'[j] = running[j]
              /\ task'[j] = task[j] /\ cancelled'[j] = cancelled[j]
      BY <1>0 DEF LoopsOn, ManagerInv, ManagerType
    <3>3. {i} \in SUBSET Instances OBVIOUS
    <3> QED BY <1>1, <2>1, <3>1, <3>2, <3>3, StreamsAsTheyWere
  <2>4. CASE Streams(name[i], used.host)
    <3>1. DBusLoop(i) /\ ~DBus(name[i], used.host)
      BY <2>2, <2>4 DEF Streams, StreamNames, DBus
    <3>2. task[i] \notin DBusSteps BY <3>1 DEF LoopsInv, DBusLoop
    <3>3. Unwind(i) \/ UNCHANGED task
      BY <3>1, <3>2 DEF DBusLoop, Connect, Handle, ListenRaises, Handed, LostWithIt,
           MessagePublished, MessageRaises, DBusSteps, Resumes, base
    <3>4. CASE Unwind(i)
      <4>1. task' = [task EXCEPT ![i] = "done"]
        BY <3>4 DEF Unwind, Go
      <4>2. late \in [Instances -> Nat] /\ unsafe \in [Instances -> BOOLEAN]
            /\ (late[i] # 0 => /\ late[i] = 1 /\ ~running[i]
                               /\ Streams(name[i], used.host) /\ task[i] # "publish")
        BY DEF ChildInv, StreamType
      <4> QED BY <1>1, <2>1, <4>1, <4>2, LoopStepKeepsChild
    <3>5. CASE UNCHANGED task
      BY <1>1, <2>1, <3>5, UntouchedKeepsChild
    <3> QED BY <3>3, <3>4, <3>5
  <2> QED BY <2>3, <2>4
<1> QED BY <1>2, <1>3

-----------------------------------------------------------------------------
(* The terminal monitor. *)

LEMMA TerminalStarts == Init => TerminalInv
BY DEF Init, BaseInit, TerminalInit, TerminalInv, FileInv, OnceInOrder, Watching, Loops

LEMMA RestOf ==
    ASSUME NEW s \in Seq(Nat), NEW m \in 0 .. Len(s)
    PROVE  LET t == SubSeq(s, m + 1, Len(s))
           IN  /\ t \in Seq(Nat) /\ Len(t) = Len(s) - m
               /\ \A j \in 1 .. Len(t) : t[j] = s[j + m]
<1>1. Len(s) \in Nat /\ m \in Nat /\ m <= Len(s) OBVIOUS
<1> DEFINE t == SubSeq(s, m + 1, Len(s))
<1>2. t = [j \in 1 .. Len(s) - m |-> s[j + m]] BY <1>1
<1>3. \A j \in 1 .. Len(s) - m : s[j + m] \in Nat BY <1>1
<1>4. t \in Seq(Nat) /\ Len(t) = Len(s) - m BY <1>1, <1>2, <1>3
<1>5. \A j \in 1 .. Len(s) - m : t[j] = s[j + m] BY <1>2
<1> QED BY <1>4, <1>5

\* Whatever the shell does, no line is typed twice and what was dropped stays so.
LEMMA ShellMoves ==
    ASSUME FileInv, Type \/ Trim \/ UNCHANGED shell
    PROVE  FileInv' /\ typed <= typed' /\ Gone \in Nat /\ Gone' \in Nat /\ Gone <= Gone'
<1>1. Gone \in Nat BY DEF FileInv, Gone
<1>2. CASE Type
  BY <1>1, <1>2 DEF Type, FileInv, Gone
<1>3. CASE Trim
  <2>1. PICK n \in 1 .. Len(history) : history' = SubSeq(history, n + 1, Len(history))
    BY <1>3 DEF Trim, Suffix
  <2>2. /\ history' \in Seq(Nat) /\ Len(history') = Len(history) - n
        /\ \A j \in 1 .. Len(history') : history'[j] = history[j + n]
    <3>1. history \in Seq(Nat) /\ n \in 0 .. Len(history) BY <2>1 DEF FileInv
    <3>2. LET t == SubSeq(history, n + 1, Len(history))
          IN  /\ t \in Seq(Nat) /\ Len(t) = Len(history) - n
              /\ \A j \in 1 .. Len(t) : t[j] = history[j + n]
      BY <3>1, RestOf
    <3> QED BY <2>1, <3>2
  <2>3. typed' = typed /\ typed \in Nat /\ Len(history) \in Nat /\ Len(history) <= typed
    BY <1>3 DEF Trim, FileInv
  <2>4. Gone' = Gone + n /\ Len(history') <= typed'
    <3>1. Len(history') = Len(history) - n /\ n \in Nat BY <2>2, <2>3
    <3> QED BY <2>3, <3>1 DEF Gone
  <2>5. \A j \in 1 .. Len(history') : history'[j] = Gone' + j
    BY <1>1, <2>1, <2>2, <2>4 DEF FileInv
  <2> QED BY <1>1, <2>1, <2>2, <2>3, <2>4, <2>5 DEF FileInv
<1>4. CASE UNCHANGED shell
  BY <1>1, <1>4 DEF shell, FileInv, Gone
<1> QED BY <1>2, <1>3, <1>4

\* What a check will publish: the last lines of the file behind line n.
LEMMA BatchIsBehind ==
    ASSUME NEW h \in Seq(Nat), NEW n \in Nat, NEW gone \in Nat,
           \A j \in 1 .. Len(h) : h[j] = gone + j
    PROVE  LET new == LastOf(Suffix(h, n), Cap)
           IN  /\ new \in Seq(Nat)
               /\ \A j \in 1 .. Len(new) :
                     /\ gone + n < new[j] /\ new[j] <= gone + Len(h)
                     /\ \A k \in 1 .. j - 1 : new[k] < new[j]
<1> DEFINE rest == Suffix(h, n)
           new == LastOf(rest, Cap)
<1>0. Cap \in Nat /\ Cap > 0 BY ProducersAssumption DEF TerminalAssumption
<1>1. /\ rest \in Seq(Nat) /\ Len(rest) = IF n < Len(h) THEN Len(h) - n ELSE 0
      /\ \A j \in 1 .. Len(rest) : rest[j] = gone + n + j
  BY DEF Suffix
<1> HIDE DEF rest
<1>2. \E m \in Nat : /\ new \in Seq(Nat) /\ Len(new) = Len(rest) - m
                     /\ \A j \in 1 .. Len(new) : new[j] = rest[j + m]
  <2>1. CASE Len(rest) > Cap
    <3> DEFINE m == Len(rest) - Cap
    <3>0. Len(rest) \in Nat BY <1>1
    <3>1. Len(rest) \in Nat /\ m \in 1 .. Len(rest)
      BY <1>0, <2>1, <3>0
    <3>2. new = SubSeq(rest, m + 1, Len(rest))
      BY <2>1 DEF LastOf, Suffix
    <3> HIDE DEF m, new
    <3>3. /\ new \in Seq(Nat) /\ Len(new) = Len(rest) - m
          /\ \A j \in 1 .. Len(new) : new[j] = rest[j + m]
      <4>1. rest \in Seq(Nat) /\ m \in 0 .. Len(rest) BY <1>1, <3>1
      <4>2. LET t == SubSeq(rest, m + 1, Len(rest))
            IN  /\ t \in Seq(Nat) /\ Len(t) = Len(rest) - m
                /\ \A j \in 1 .. Len(t) : t[j] = rest[j + m]
        BY <4>1, RestOf
      <4> QED BY <3>2, <4>2
    <3>4. m \in Nat BY <3>1
    <3> QED BY <3>3, <3>4
  <2>2. CASE ~(Len(rest) > Cap)
    <3>1. new = rest BY <2>2 DEF LastOf
    <3> HIDE DEF new
    <3>2. 0 \in Nat /\ Len(new) = Len(rest) - 0 /\ \A j \in 1 .. Len(new) : new[j] = rest[j + 0]
      BY <1>1, <3>1
    <3> QED BY <1>1, <3>1, <3>2
  <2> QED BY <2>1, <2>2
<1>3. \A j \in 1 .. Len(new) :
          /\ gone + n < new[j] /\ new[j] <= gone + Len(h)
          /\ \A k \in 1 .. j - 1 : new[k] < new[j]
  <2>1. PICK m \in Nat : /\ new \in Seq(Nat) /\ Len(new) = Len(rest) - m
                         /\ \A j \in 1 .. Len(new) : new[j] = rest[j + m]
    BY <1>2
  <2> HIDE DEF new
  <2>2. Len(new) \in Nat /\ Len(rest) \in Nat BY <1>1, <2>1
  <2>3. \A j \in 1 .. Len(new) : new[j] = gone + n + (j + m)
    BY <1>1, <2>1, <2>2
  <2>4. Len(new) > 0 => n < Len(h) /\ Len(new) + m = Len(h) - n
    BY <1>1, <2>1, <2>2
  <2> SUFFICES ASSUME NEW j \in 1 .. Len(new)
               PROVE  /\ gone + n < new[j] /\ new[j] <= gone + Len(h)
                      /\ \A k \in 1 .. j - 1 : new[k] < new[j]
    OBVIOUS
  <2>5. j \in Nat /\ Len(h) \in Nat /\ j <= Len(new) /\ Len(new) > 0 BY <2>2
  <2>6. new[j] = gone + n + (j + m) /\ j + m <= Len(h) - n
    BY <2>2, <2>3, <2>4, <2>5
  <2>7. \A k \in 1 .. j - 1 : new[k] = gone + n + (k + m)
    BY <2>2, <2>3, <2>5
  <2> QED BY <2>5, <2>6, <2>7
<1> QED BY <1>2, <1>3 DEF rest

\* Only the instance the table has is watching.
LEMMA OneWatches ==
    ASSUME ManagerInv, LoopsInv, NEW i \in Instances, Watching(i)
    PROVE  running[i] /\ _producers[Terminal] = i
BY DEF Watching, LoopsInv, StopCancels, ManagerInv, OwnsWhatRuns

\* A watching monitor keeps its place while the shell moves on.
LEMMA StaysAhead ==
    ASSUME TerminalInv, NEW i \in Instances, Ahead(i), Type \/ Trim \/ UNCHANGED shell,
           task'[i] = "publish" => task[i] = "publish",
           last_line_count'[i] = last_line_count[i], new_commands'[i] = new_commands[i],
           published' = published
    PROVE  Ahead(i)'
<1>1. FileInv' /\ typed <= typed' /\ typed \in Nat /\ typed' \in Nat /\ Gone \in Nat
      /\ Gone' \in Nat /\ Gone <= Gone'
  BY ShellMoves DEF TerminalInv, FileInv
<1>2. /\ last_line_count[i] \in Nat /\ new_commands[i] \in Seq(Nat) /\ published \in Seq(Nat)
  BY DEF TerminalInv
<1>3. \A j \in 1 .. Len(published) : published[j] \in Nat
  BY <1>2
<1>4. \A j \in 1 .. Len(new_commands[i]) : new_commands[i][j] \in Nat
  BY <1>2
<1>5. \A v \in Nat : /\ v <= Gone + last_line_count[i] => v <= Gone' + last_line_count'[i]
                     /\ v <= typed => v <= typed'
  BY <1>1, <1>2
<1> QED BY <1>3, <1>4, <1>5 DEF Ahead

\* Nobody begins to watch, or to publish, and nothing is published.
LEMMA NobodyElseWatches ==
    ASSUME TerminalInv, Type \/ Trim \/ UNCHANGED shell,
           UNCHANGED <<last_line_count, new_commands, published>>,
           \A i \in Instances : Watching(i)' =>
               Watching(i) /\ (task'[i] = "publish" => task[i] = "publish")
    PROVE  TerminalInv'
<1>1. FileInv' /\ typed <= typed' /\ typed \in Nat /\ typed' \in Nat
  BY ShellMoves DEF TerminalInv, FileInv
<1>2. \A i \in Instances : Watching(i)' => Ahead(i)'
  <2> SUFFICES ASSUME NEW i \in Instances, Watching(i)' PROVE Ahead(i)'
    OBVIOUS
  <2>1. Watching(i) /\ Ahead(i) /\ (task'[i] = "publish" => task[i] = "publish")
    BY DEF TerminalInv
  <2> QED BY <2>1, StaysAhead
<1>3. published \in Seq(Nat) /\ \A j \in 1 .. Len(published) : published[j] <= typed'
  BY <1>1 DEF TerminalInv
<1> QED BY <1>1, <1>2, <1>3 DEF TerminalInv, OnceInOrder

LEMMA BuildKeepsTerminal ==
    ASSUME ManagerInv, TerminalInv, NEW n \in Names, NEW i \in Instances, Builds(n, i)
    PROVE  TerminalInv'
<1>1. /\ name' = [name EXCEPT ![i] = n] /\ task[i] = "none" /\ UNCHANGED cancelled
      /\ \E b \in BOOLEAN : running' = [running EXCEPT ![i] = b]
      /\ \E step \in Steps : task' = [task EXCEPT ![i] = step]
      /\ \/ \E step \in Steps : task' = [task EXCEPT ![i] = step] /\ StartsAt(n, step)
         \/ UNCHANGED task
  BY WhatIsBuilt DEF Builds
<1>2. \A j \in Instances \ {i} : name'[j] = name[j] /\ task'[j] = task[j]
  BY <1>1 DEF ManagerInv, ManagerType
<1>3. \A j \in Instances \ {i} : Watching(j)' = Watching(j)
  BY <1>1, <1>2 DEF Watching, Loops
<1>4. CASE UNCHANGED terminal /\ (n = Terminal => UNCHANGED task)
  <2>1. ~Watching(i)'
    BY <1>1, <1>4 DEF Watching, Loops, ManagerInv, ManagerType
  <2>2. /\ UNCHANGED shell /\ UNCHANGED <<last_line_count, new_commands, published>>
    BY <1>4 DEF terminal
  <2> QED BY <1>2, <1>3, <2>1, <2>2, NobodyElseWatches
<1>5. CASE n = Terminal /\ TerminalStart(i)
  <2>1. /\ Type \/ Trim \/ UNCHANGED shell
        /\ last_line_count' = [last_line_count EXCEPT ![i] = Len(history')]
        /\ UNCHANGED <<new_commands, published>>
    BY <1>5 DEF TerminalStart
  <2>2. /\ FileInv' /\ typed <= typed' /\ typed \in Nat /\ typed' \in Nat
        /\ Len(history') \in Nat
    BY <2>1, ShellMoves DEF TerminalInv, FileInv
  <2>3. \A j \in 1 .. Len(published) : published[j] \in Nat /\ published[j] <= typed'
    BY <2>2 DEF TerminalInv
  <2>4. task'[i] # "publish"
    BY <1>1, <1>5 DEF StartsAt, Streams, DBus, Terminal, ManagerInv, ManagerType
  <2>5. last_line_count' \in [Instances -> Nat] /\ last_line_count'[i] = Len(history')
    BY <2>1, <2>2 DEF TerminalInv
  <2>6. Ahead(i)'
    BY <2>1, <2>2, <2>3, <2>4, <2>5 DEF Ahead, Gone
  <2>7. ASSUME NEW j \in Instances \ {i}, Watching(j)' PROVE Ahead(j)'
    <3>1. Ahead(j) BY <1>3, <2>7 DEF TerminalInv
    <3>2. last_line_count'[j] = last_line_count[j] BY <2>1 DEF TerminalInv
    <3> QED BY <1>2, <2>1, <3>1, <3>2, StaysAhead
  <2> QED BY <2>1, <2>2, <2>3, <2>5, <2>6, <2>7 DEF TerminalInv, OnceInOrder
<1> QED BY <1>4, <1>5 DEF Builds

\* The first command of the batch is published.
LEMMA OneMoreInOrder ==
    ASSUME TerminalInv, NEW i \in Instances, Ahead(i), task[i] = "publish", Record(i)
    PROVE  /\ published' \in Seq(Nat) /\ OnceInOrder'
           /\ Len(new_commands[i]) > 0 /\ Head(new_commands[i]) = new_commands[i][1]
           /\ \A j \in 1 .. Len(published') :
                 /\ published'[j] <= typed /\ published'[j] <= new_commands[i][1]
                 /\ published'[j] <= Gone + last_line_count[i]
<1> DEFINE k == new_commands[i][1]
<1>1. /\ new_commands[i] \in Seq(Nat) /\ new_commands[i] # <<>> /\ published \in Seq(Nat)
      /\ last_line_count[i] \in Nat /\ FileInv
  BY DEF TerminalInv, Ahead
<1>2. Len(new_commands[i]) > 0 /\ Head(new_commands[i]) = k /\ k \in Nat
  BY <1>1
<1>3. published' = Append(published, k)
  BY <1>2 DEF Record
<1>4. /\ k <= typed /\ k <= Gone + last_line_count[i]
      /\ \A j \in 1 .. Len(published) : published[j] < k
  BY <1>1, <1>2 DEF Ahead
<1>5. \A j \in 1 .. Len(published) :
          published[j] <= typed /\ published[j] <= Gone + last_line_count[i]
  BY DEF TerminalInv, Ahead
<1> HIDE DEF k
<1>6. /\ published' \in Seq(Nat) /\ Len(published') = Len(published) + 1
      /\ published'[Len(published) + 1] = k
      /\ \A j \in 1 .. Len(published) : published'[j] = published[j]
  BY <1>1, <1>2, <1>3
<1>7. \A j \in 1 .. Len(published') : j = Len(published) + 1 \/ j \in 1 .. Len(published)
  BY <1>1, <1>6
<1>8. OnceInOrder'
  <2> SUFFICES ASSUME NEW a \in 1 .. Len(published'), NEW b \in 1 .. Len(published'), a < b
               PROVE  published'[a] < published'[b]
    BY DEF OnceInOrder
  <2>1. a \in 1 .. Len(published) BY <1>1, <1>6
  <2>2. CASE b = Len(published) + 1 BY <1>4, <1>6, <2>1, <2>2
  <2>3. CASE b \in 1 .. Len(published)
    BY <1>6, <2>1, <2>3 DEF TerminalInv, OnceInOrder
  <2> QED BY <1>7, <2>2, <2>3
<1>9. \A j \in 1 .. Len(published') :
          /\ published'[j] <= typed /\ published'[j] <= k
          /\ published'[j] <= Gone + last_line_count[i]
  <2> SUFFICES ASSUME NEW j \in 1 .. Len(published')
               PROVE  /\ published'[j] <= typed /\ published'[j] <= k
                      /\ published'[j] <= Gone + last_line_count[i]
    OBVIOUS
  <2>1. CASE j = Len(published) + 1
    <3>1. published'[j] = k BY <1>6, <2>1
    <3> QED BY <1>2, <1>4, <3>1
  <2>2. CASE j \in 1 .. Len(published)
    <3>1. published'[j] = published[j] /\ published[j] \in Nat BY <1>1, <1>6, <2>2
    <3>2. published[j] < k BY <1>4, <2>2
    <3> QED BY <1>2, <1>5, <2>2, <3>1, <3>2
  <2> QED BY <1>7, <2>1, <2>2
<1> QED BY <1>2, <1>6, <1>8, <1>9 DEF k

LEMMA StopKeepsTerminal ==
    ASSUME ManagerInv, LoopsInv, TerminalInv, NEW n \in Names, NEW d \in Calls, NEW i,
           Stops(d, n, i)
    PROVE  TerminalInv'
<1>1. /\ i \in Instances /\ name[i] = n /\ UNCHANGED <<name, task>> /\ running[i]
      /\ cancelled' = [cancelled EXCEPT ![i] = TRUE] \/ UNCHANGED cancelled
  BY KnownNames, NoneIsNoNumber DEF Stops, ManagerInv, ManagerType
<1>2. \A j \in Instances : Watching(j)' => Watching(j)
  BY <1>1 DEF Watching, Loops, ManagerInv, ManagerType
<1>3. CASE n # Terminal /\ UNCHANGED terminal
  BY <1>1, <1>2, <1>3, NobodyElseWatches DEF terminal
<1>4. CASE n = Terminal /\ TerminalStop(i)
  <2>1. /\ UNCHANGED <<last_line_count, shell>> /\ cancelled' = [cancelled EXCEPT ![i] = TRUE]
        /\ new_commands' = [new_commands EXCEPT ![i] = <<>>]
        /\ (task[i] = "publish" /\ Record(i)) \/ UNCHANGED published
    BY <1>4 DEF TerminalStop
  <2>2. \A j \in Instances : ~Watching(j)'
    <3>1. ~Watching(i)' BY <1>1, <2>1 DEF Watching, ManagerInv, ManagerType
    <3>2. _producers[Terminal] = i BY <1>4 DEF Stops
    <3> QED BY <1>2, <3>1, <3>2, OneWatches
  <2>3. UNCHANGED <<history, typed>> BY <2>1 DEF shell
  <2>4. new_commands' \in [Instances -> Seq(Nat)]
    BY <1>1, <2>1 DEF TerminalInv
  <2>5. /\ published' \in Seq(Nat) /\ OnceInOrder'
        /\ \A j \in 1 .. Len(published') : published'[j] <= typed
    <3>1. CASE UNCHANGED published BY <3>1 DEF TerminalInv, OnceInOrder
    <3>2. CASE task[i] = "publish" /\ Record(i)
      <4>1. Watching(i)
        BY <1>1, <1>4, <3>2 DEF Watching, Loops, ManagerInv
      <4>2. Ahead(i) BY <1>1, <4>1 DEF TerminalInv
      <4> QED BY <1>1, <3>2, <4>2, OneMoreInOrder
    <3> QED BY <2>1, <3>1, <3>2
  <2>6. FileInv' BY <2>3 DEF TerminalInv, FileInv, Gone
  <2> QED BY <2>1, <2>2, <2>3, <2>4, <2>5, <2>6 DEF TerminalInv
<1> QED BY <1>3, <1>4 DEF Stops

\* The only monitor that watches takes a step; nobody else does.
LEMMA OnlyItWatches ==
    ASSUME ManagerInv, LoopsInv, NEW i \in Instances, Watching(i), LoopsOn(i),
           FileInv', last_line_count' \in [Instances -> Nat],
           new_commands' \in [Instances -> Seq(Nat)], published' \in Seq(Nat),
           \A j \in 1 .. Len(published') : published'[j] <= typed',
           OnceInOrder', Ahead(i)'
    PROVE  TerminalInv'
<1>1. \A j \in Instances : Watching(j)' => j = i
  <2>1. UNCHANGED <<name, cancelled>>
        /\ \A j \in Instances : j # i => task'[j] = task[j]
    BY DEF LoopsOn, ManagerInv, ManagerType
  <2> SUFFICES ASSUME NEW j \in Instances, j # i, Watching(j)' PROVE FALSE
    OBVIOUS
  <2>2. Watching(j) BY <2>1 DEF Watching, Loops
  <2> QED BY <2>2, OneWatches
<1> QED BY <1>1 DEF TerminalInv

LEMMA MonitorKeepsTerminal ==
    ASSUME ManagerInv, LoopsInv, TerminalInv, NEW i \in Instances, LoopsOn(i),
           TerminalLoop(i)
    PROVE  TerminalInv'
<1>0. name[i] = Terminal /\ UNCHANGED <<name, cancelled>>
  BY DEF TerminalLoop, LoopsOn
<1>1. CASE CheckNewCommands(i)
  <2> DEFINE new == LastOf(Suffix(history', last_line_count[i]), Cap)
  <2>1. /\ Type \/ Trim \/ UNCHANGED shell
        /\ new_commands' = [new_commands EXCEPT ![i] = new]
        /\ task' = [task EXCEPT ![i] = IF new = <<>> THEN "sleep" ELSE "publish"]
        /\ last_line_count' = [last_line_count EXCEPT ![i] = Len(history')]
        /\ task[i] = "check" /\ ~cancelled[i] /\ UNCHANGED published
    BY <1>1 DEF CheckNewCommands, Go, Resumes
  <2>2. /\ FileInv' /\ typed <= typed' /\ typed \in Nat /\ typed' \in Nat
        /\ Gone \in Nat /\ Gone' \in Nat /\ Gone <= Gone'
        /\ history' \in Seq(Nat) /\ Len(history') \in Nat
        /\ \A j \in 1 .. Len(history') : history'[j] = Gone' + j
    BY <2>1, ShellMoves DEF TerminalInv, FileInv
  <2>3. Watching(i) /\ Ahead(i)
    BY <1>0, <2>1 DEF Watching, Loops, TerminalInv
  <2>4. last_line_count[i] \in Nat /\ published \in Seq(Nat)
    BY DEF TerminalInv
  <2>5. /\ new \in Seq(Nat)
        /\ \A j \in 1 .. Len(new) :
              /\ Gone' + last_line_count[i] < new[j] /\ new[j] <= Gone' + Len(history')
              /\ \A k \in 1 .. j - 1 : new[k] < new[j]
    <3> DEFINE h == history'
               g == Gone'
               n == last_line_count[i]
    <3>1. h \in Seq(Nat) /\ g \in Nat /\ n \in Nat
          /\ \A j \in 1 .. Len(h) : h[j] = g + j
      BY <2>2, <2>4
    <3> HIDE DEF h, g, n
    <3>2. LET all == LastOf(Suffix(h, n), Cap)
          IN  /\ all \in Seq(Nat)
              /\ \A j \in 1 .. Len(all) :
                     /\ g + n < all[j] /\ all[j] <= g + Len(h)
                     /\ \A k \in 1 .. j - 1 : all[k] < all[j]
      BY <3>1, BatchIsBehind
    <3> QED BY <3>2 DEF h, g, n
  <2> HIDE DEF new
  <2>6. /\ new_commands' \in [Instances -> Seq(Nat)] /\ new_commands'[i] = new
        /\ last_line_count' \in [Instances -> Nat] /\ last_line_count'[i] = Len(history')
        /\ task'[i] = "publish" => new # <<>>
    BY <2>1, <2>2, <2>5 DEF TerminalInv, ManagerInv, ManagerType
  <2>7. typed' = Gone' + Len(history')
    BY <2>2 DEF Gone
  <2>8. \A j \in 1 .. Len(published) :
            /\ published[j] \in Nat /\ published[j] <= typed
            /\ published[j] <= Gone + last_line_count[i]
    BY <2>3, <2>4 DEF TerminalInv, Ahead
  <2>9. \A j \in 1 .. Len(published) :
            published[j] <= typed' /\ published[j] <= Gone' + last_line_count[i]
    <3>1. \A v \in Nat : /\ v <= typed => v <= typed'
                         /\ v <= Gone + last_line_count[i]
                               => v <= Gone' + last_line_count[i]
      BY <2>2, <2>4
    <3> QED BY <2>8, <3>1
  <2>10. ASSUME NEW j \in 1 .. Len(new)
         PROVE  /\ new[j] <= typed' /\ new[j] <= Gone' + Len(history')
                /\ \A k \in 1 .. Len(published) : published[k] < new[j]
                /\ \A k \in 1 .. j - 1 : new[k] < new[j]
    <3>1. /\ new[j] \in Nat /\ Gone' + last_line_count[i] \in Nat
          /\ Gone' + last_line_count[i] < new[j]
      <4>1. new[j] \in Nat BY <2>5
      <4>2. Gone' + last_line_count[i] \in Nat BY <2>2, <2>4
      <4> QED BY <2>5, <4>1, <4>2
    <3>2. ASSUME NEW k \in 1 .. Len(published) PROVE published[k] < new[j]
      <4>1. published[k] \in Nat /\ published[k] <= Gone' + last_line_count[i]
        BY <2>8, <2>9
      <4> QED BY <3>1, <4>1
    <3> QED BY <2>5, <2>7, <3>2
  <2>11. Ahead(i)'
    BY <2>1, <2>6, <2>7, <2>9, <2>10 DEF Ahead
  <2> QED BY <2>1, <2>2, <2>3, <2>4, <2>6, <2>9, <2>11, OnlyItWatches
          DEF TerminalInv, OnceInOrder
<1>2. CASE PublishCommand(i)
  <2> DEFINE batch == new_commands[i]
  <2>1. /\ UNCHANGED <<last_line_count, history, typed>> /\ Record(i)
        /\ new_commands' = [new_commands EXCEPT ![i] = Tail(@)]
        /\ task' = [task EXCEPT ![i] = IF Len(batch) = 1 THEN "sleep" ELSE "publish"]
        /\ task[i] = "publish" /\ ~cancelled[i]
    BY <1>2 DEF PublishCommand, Go, Resumes, shell
  <2>2. Watching(i) /\ Ahead(i)
    BY <1>0, <2>1 DEF Watching, Loops, TerminalInv
  <2>3. /\ published' \in Seq(Nat) /\ OnceInOrder' /\ Len(batch) > 0
        /\ \A j \in 1 .. Len(published') :
              /\ published'[j] <= typed /\ published'[j] <= batch[1]
              /\ published'[j] <= Gone + last_line_count[i]
    BY <2>1, <2>2, OneMoreInOrder
  <2>4. /\ batch \in Seq(Nat)
        /\ \A j \in 1 .. Len(batch) :
              /\ batch[j] <= typed /\ batch[j] <= Gone + last_line_count[i]
              /\ \A k \in 1 .. j - 1 : batch[k] < batch[j]
    BY <2>1, <2>2 DEF TerminalInv, Ahead
  <2> HIDE DEF batch
  <2> DEFINE rest == Tail(batch)
  <2>5. /\ rest \in Seq(Nat) /\ Len(rest) = Len(batch) - 1
        /\ \A j \in 1 .. Len(rest) : rest[j] = batch[j + 1]
    BY <2>3, <2>4
  <2>6. /\ new_commands' \in [Instances -> Seq(Nat)] /\ new_commands'[i] = rest
        /\ task'[i] = "publish" => Len(batch) # 1
    BY <2>1, <2>5 DEF TerminalInv, ManagerInv, ManagerType, batch
  <2> HIDE DEF rest
  <2>7. task'[i] = "publish" => rest # <<>>
    BY <2>3, <2>4, <2>5, <2>6
  <2>8. ASSUME NEW j \in 1 .. Len(rest)
        PROVE  /\ rest[j] <= typed /\ rest[j] <= Gone + last_line_count[i]
               /\ \A k \in 1 .. Len(published') : published'[k] < rest[j]
               /\ \A k \in 1 .. j - 1 : rest[k] < rest[j]
    <3>1. /\ j + 1 \in 1 .. Len(batch) /\ 1 \in 1 .. (j + 1) - 1 /\ rest[j] = batch[j + 1]
      BY <2>4, <2>5
    <3>2. batch[1] < rest[j] /\ batch[1] \in Nat /\ rest[j] \in Nat
      BY <2>3, <2>4, <3>1
    <3>3. \A k \in 1 .. Len(published') : published'[k] < rest[j]
      <4>1. \A k \in 1 .. Len(published') : published'[k] \in Nat BY <2>3
      <4> QED BY <2>3, <3>2, <4>1
    <3>4. \A k \in 1 .. j - 1 : rest[k] < rest[j]
      <4> SUFFICES ASSUME NEW k \in 1 .. j - 1 PROVE rest[k] < rest[j] OBVIOUS
      <4>0. Len(rest) \in Nat /\ j \in Nat /\ k \in Nat BY <2>5
      <4>1. k + 1 \in 1 .. (j + 1) - 1 /\ k \in 1 .. Len(rest) BY <4>0
      <4>2. rest[k] = batch[k + 1] BY <2>5, <4>1
      <4> QED BY <2>4, <3>1, <4>1, <4>2
    <3> QED BY <2>4, <3>1, <3>3, <3>4
  <2>9. Gone' = Gone /\ FileInv'
    BY <2>1 DEF TerminalInv, FileInv, Gone
  <2>10. Ahead(i)'
    BY <2>1, <2>3, <2>6, <2>7, <2>8, <2>9 DEF Ahead
  <2> QED BY <2>1, <2>2, <2>3, <2>6, <2>9, <2>10, OnlyItWatches DEF TerminalInv
<1>3. CASE CommandRaises(i)
  <2>1. /\ UNCHANGED <<last_line_count, history, typed, published>>
        /\ new_commands' = [new_commands EXCEPT ![i] = <<>>]
        /\ \E step \in {"sleep", "done"} : task' = [task EXCEPT ![i] = step]
        /\ task[i] = "publish" /\ ~cancelled[i]
    BY <1>3 DEF CommandRaises, Fails, Go, Resumes, shell
  <2>2. Watching(i) /\ Ahead(i)
    BY <1>0, <2>1 DEF Watching, Loops, TerminalInv
  <2>3. Gone' = Gone /\ FileInv'
    BY <2>1 DEF TerminalInv, FileInv, Gone
  <2>4. Ahead(i)'
    BY <2>1, <2>2, <2>3 DEF Ahead, ManagerInv, ManagerType
  <2>5. new_commands' \in [Instances -> Seq(Nat)]
    BY <2>1 DEF TerminalInv
  <2>6. /\ last_line_count' \in [Instances -> Nat] /\ published' \in Seq(Nat)
        /\ OnceInOrder' /\ \A j \in 1 .. Len(published') : published'[j] <= typed'
    BY <2>1 DEF TerminalInv, OnceInOrder
  <2> QED BY <2>2, <2>3, <2>4, <2>5, <2>6, OnlyItWatches
<1>4. CASE NothingNew(i) \/ ((Wake(i, "check") \/ Unwind(i)) /\ UNCHANGED terminal)
  <2>1. /\ UNCHANGED shell /\ UNCHANGED <<last_line_count, new_commands, published>>
        /\ \E step \in {"sleep", "check", "done"} : task' = [task EXCEPT ![i] = step]
        /\ Loops(i)
    BY <1>4 DEF NothingNew, Wake, Unwind, Go, Resumes, Loops, terminal
  <2>2. \A j \in Instances : Watching(j)' =>
            Watching(j) /\ (task'[j] = "publish" => task[j] = "publish")
    BY <1>0, <2>1 DEF Watching, Loops, ManagerInv, ManagerType
  <2> QED BY <2>1, <2>2, NobodyElseWatches
<1> QED BY <1>1, <1>2, <1>3, <1>4 DEF TerminalLoop

\* Nothing has begun to watch, and the terminal monitors are as they were.
LEMMA MonitorsAsTheyWere ==
    ASSUME ManagerInv, TerminalInv, UNCHANGED <<name, task, terminal>>,
           \/ UNCHANGED cancelled
           \/ \E i : cancelled' = [cancelled EXCEPT ![i] = TRUE]
    PROVE  TerminalInv'
<1>1. \A j \in Instances : Watching(j)' => Watching(j)
  BY DEF Watching, Loops, ManagerInv, ManagerType
<1>2. UNCHANGED shell /\ UNCHANGED <<last_line_count, new_commands, published>>
  BY DEF terminal
<1> QED BY <1>1, <1>2, NobodyElseWatches

LEMMA TakingOutKeepsTerminal ==
    ASSUME ManagerInv, TerminalInv, NEW n, TakesOut(n) PROVE TerminalInv'
<1>1. UNCHANGED <<name, task, terminal, cancelled>>
  BY DEF TakesOut, base, parts
<1> QED BY <1>1, MonitorsAsTheyWere

LEMMA ResumeKeepsTerminal ==
    ASSUME ManagerInv, TerminalInv, NEW d \in Calls, Resume(d) PROVE TerminalInv'
<1>1. /\ UNCHANGED <<name, task, terminal>>
      /\ cancelled' = cancelled \/ cancelled' = [cancelled EXCEPT ![target[d]] = TRUE]
  BY DEF Resume, WaitEnds, Waited, Kill, KillRaises, Join, base, parts
<1> QED BY <1>1, MonitorsAsTheyWere

LEMMA LoopKeepsTerminal ==
    ASSUME ManagerInv, LoopsInv, TerminalInv, NEW i \in Instances, Loop(i)
    PROVE  TerminalInv'
<1>1. LoopsOn(i) BY LoopGoesOn
<1>2. CASE TerminalLoop(i) BY <1>1, <1>2, MonitorKeepsTerminal
<1>3. CASE ~TerminalLoop(i)
  <2>1. UNCHANGED terminal BY <1>3 DEF Loop
  <2>2. name[i] # Terminal
    BY <1>3 DEF Loop, StreamLoop, ClipboardLoop, FileWatcherLoop, DBusLoop, WebhookSteps,
         CronSteps, StreamNames, Terminal
  <2>3. /\ UNCHANGED <<name, cancelled>>
        /\ \A j \in Instances : j # i => task'[j] = task[j]
    BY <1>1 DEF LoopsOn, ManagerInv, ManagerType
  <2>4. \A j \in Instances : Watching(j)' =>
            Watching(j) /\ (task'[j] = "publish" => task[j] = "publish")
    BY <2>2, <2>3 DEF Watching, Loops
  <2>5. UNCHANGED shell /\ UNCHANGED <<last_line_count, new_commands, published>>
    BY <2>1 DEF terminal
  <2> QED BY <2>4, <2>5, NobodyElseWatches
<1> QED BY <1>2, <1>3

LEMMA ElsewhereKeepsTerminal ==
    ASSUME TerminalInv, Elsewhere, Write \/ UNCHANGED terminal PROVE TerminalInv'
<1>1. UNCHANGED <<name, task, cancelled>> BY DEF Elsewhere, base
<1>2. Type \/ Trim \/ UNCHANGED shell BY DEF Write, terminal
<1>3. UNCHANGED <<last_line_count, new_commands, published>> BY DEF Write, terminal
<1>4. \A j \in Instances : Watching(j)' => Watching(j) BY <1>1 DEF Watching, Loops
<1> QED BY <1>1, <1>2, <1>3, <1>4, NobodyElseWatches

LEMMA TakingOutKeepsLoops ==
    ASSUME LoopsInv, NEW n, TakesOut(n) PROVE LoopsInv'
BY DEF LoopsInv, Loops, StopCancels, TakesOut, base

-----------------------------------------------------------------------------
(* The producers that are told of things. *)

LEMMA ToldInit == Init => ToldInv
BY DEF Init, BaseInit, HappeningsInit, DBusInit, CronInit, ToldInv, Fates

\* What happens reaches a producer; nothing that has happened is undone.
LEMMA WhatIsTakenIn ==
    ASSUME ToldInv, NEW i \in Instances, NEW as \in Fates \ {"none"}, TakeIn(i, as)
    PROVE  /\ fate' \in [AllHappenings -> Fates]
           /\ taker' \in [AllHappenings -> Instances \cup {None}]
           /\ \A o \in AllHappenings : fate'[o] = "none" => taker'[o] = None
           /\ \A j \in Instances : j # i => CameTo(j)' = CameTo(j)
<1>1. PICK o \in AllHappenings : /\ fate[o] = "none" /\ fate' = [fate EXCEPT ![o] = as]
                                 /\ taker' = [taker EXCEPT ![o] = i]
  BY DEF TakeIn
<1>2. taker[o] = None /\ None \notin Instances
  BY <1>1, NoneIsNoNumber DEF ToldInv
<1>3. fate' \in [AllHappenings -> Fates]
  BY <1>1 DEF ToldInv
<1>4. taker' \in [AllHappenings -> Instances \cup {None}]
  BY <1>1 DEF ToldInv
<1>5. \A p \in AllHappenings : fate'[p] = "none" => taker'[p] = None
  BY <1>1 DEF ToldInv
<1>6. \A j \in Instances : j # i => CameTo(j)' = CameTo(j)
  BY <1>1, <1>2 DEF ToldInv, CameTo
<1> QED BY <1>3, <1>4, <1>5, <1>6

\* What has happened becomes something else; it stays with whom it came to.
LEMMA WhatBecomes ==
    ASSUME ToldInv, NEW S, NEW what \in Fates \ {"none"}, Becomes(S, what)
    PROVE  /\ fate' \in [AllHappenings -> Fates] /\ taker' = taker
           /\ \A o \in AllHappenings : fate'[o] = "none" => fate[o] = "none"
BY DEF ToldInv, Becomes

\* Who can be told of things is as before, or the producer runs.
LEMMA ToldAsBefore ==
    ASSUME ToldInv, UNCHANGED used,
           fate' \in [AllHappenings -> Fates],
           taker' \in [AllHappenings -> Instances \cup {None}],
           \A o \in AllHappenings : fate'[o] = "none" => taker'[o] = None,
           open' \in [Instances -> SUBSET Connections],
           scheduler' \in [Instances -> {"none", "on", "closing", "off"}],
           \A i \in Instances :
               /\ open'[i] # {} =>
                     \/ running'[i] /\ DBus(name'[i], used.host)
                     \/ open[i] # {} /\ running'[i] = running[i] /\ name'[i] = name[i]
               /\ scheduler'[i] = "on" =>
                     \/ running'[i] /\ name'[i] = "cron"
                     \/ scheduler[i] = "on" /\ running'[i] = running[i] /\ name'[i] = name[i]
    PROVE  ToldInv'
BY DEF ToldInv

LEMMA BuildKeepsTold ==
    ASSUME ManagerInv, ToldInv, NEW n \in Names, NEW i \in Instances, Builds(n, i)
    PROVE  ToldInv'
<1>1. /\ name[i] = None /\ name' = [name EXCEPT ![i] = n] /\ ~running[i]
      /\ UNCHANGED <<fate, taker, open, used>>
      /\ \E b \in BOOLEAN : running' = [running EXCEPT ![i] = b]
      /\ \/ UNCHANGED scheduler
         \/ n = "cron" /\ running' = [running EXCEPT ![i] = TRUE]
            /\ scheduler' = [scheduler EXCEPT ![i] = "on"]
  BY WhatIsBuilt DEF Builds, happenings, dbus
<1>2. open[i] = {} /\ scheduler[i] # "on" BY <1>1 DEF ToldInv
<1>3. \A j \in Instances \ {i} : name'[j] = name[j] /\ running'[j] = running[j]
  BY <1>1 DEF ManagerInv, ManagerType
<1>4. \A j \in Instances : open'[j] # {} =>
          open[j] # {} /\ running'[j] = running[j] /\ name'[j] = name[j]
  BY <1>1, <1>2, <1>3
<1>5. CASE UNCHANGED scheduler
  <2>1. \A j \in Instances : scheduler'[j] = "on" =>
            scheduler[j] = "on" /\ running'[j] = running[j] /\ name'[j] = name[j]
    BY <1>2, <1>3, <1>5
  <2>2. scheduler' \in [Instances -> {"none", "on", "closing", "off"}]
    BY <1>5 DEF ToldInv
  <2> QED BY <1>1, <1>4, <2>1, <2>2, ToldAsBefore DEF ToldInv
<1>6. CASE /\ n = "cron" /\ running' = [running EXCEPT ![i] = TRUE]
           /\ scheduler' = [scheduler EXCEPT ![i] = "on"]
  <2>1. \A j \in Instances : scheduler'[j] = "on" =>
            \/ running'[j] /\ name'[j] = "cron"
            \/ scheduler[j] = "on" /\ running'[j] = running[j] /\ name'[j] = name[j]
    <3>1. running'[i] /\ name'[i] = "cron"
      BY <1>1, <1>6 DEF ManagerInv, ManagerType
    <3>2. \A j \in Instances \ {i} : scheduler'[j] = scheduler[j]
      BY <1>6 DEF ToldInv
    <3> QED BY <1>3, <3>1, <3>2
  <2>2. scheduler' \in [Instances -> {"none", "on", "closing", "off"}]
    BY <1>6 DEF ToldInv
  <2> QED BY <1>1, <1>4, <2>1, <2>2, ToldAsBefore DEF ToldInv
<1> QED BY <1>1, <1>5, <1>6

LEMMA TakingOutKeepsTold ==
    ASSUME ToldInv, NEW n, TakesOut(n) PROVE ToldInv'
BY DEF ToldInv, TakesOut, base, parts, told, happenings, dbus, cron

LEMMA ResumeKeepsTold ==
    ASSUME ToldInv, NEW d \in Calls, Resume(d) PROVE ToldInv'
<1>1. UNCHANGED <<name, running, told, used>>
  BY DEF Resume, WaitEnds, Waited, Kill, KillRaises, Join, base, parts
<1> QED BY <1>1 DEF ToldInv, told, happenings, dbus, cron

LEMMA StopKeepsTold ==
    ASSUME ManagerInv, ToldInv, NEW n \in Names, NEW d \in Calls, NEW i, Stops(d, n, i)
    PROVE  ToldInv'
<1>1. /\ i \in Instances /\ name[i] = n /\ UNCHANGED <<name, taker, used>>
      /\ running' = [running EXCEPT ![i] = FALSE]
  BY KnownNames, NoneIsNoNumber DEF Stops, ManagerInv, ManagerType
<1>2. /\ fate' \in [AllHappenings -> Fates]
      /\ \A o \in AllHappenings : fate'[o] = "none" => taker'[o] = None
  BY <1>1 DEF Stops, ToldInv
<1>3. \A j \in Instances \ {i} : running'[j] = running[j]
  BY <1>1 DEF ManagerInv, ManagerType
<1>4. /\ open' \in [Instances -> SUBSET Connections]
      /\ \A j \in Instances : open'[j] # {} => j # i /\ open[j] # {}
  <2>1. CASE DBus(n, used.host) /\ Disconnect(i)
    BY <1>1, <2>1 DEF ToldInv, Disconnect
  <2>2. CASE ~DBus(n, used.host) /\ UNCHANGED open
    BY <1>1, <2>2 DEF ToldInv
  <2> QED BY <2>1, <2>2 DEF Stops
<1>5. /\ scheduler' \in [Instances -> {"none", "on", "closing", "off"}]
      /\ \A j \in Instances : scheduler'[j] = "on" => j # i /\ scheduler[j] = "on"
  <2>1. CASE n = "cron" /\ scheduler' = [scheduler EXCEPT ![i] = "closing"]
    BY <1>1, <2>1 DEF ToldInv
  <2>2. CASE n # "cron" /\ UNCHANGED scheduler
    BY <1>1, <2>2 DEF ToldInv
  <2> QED BY <2>1, <2>2 DEF Stops
<1>6. taker' \in [AllHappenings -> Instances \cup {None}] BY <1>1 DEF ToldInv
<1>7. \A j \in Instances :
          /\ open'[j] # {} => open[j] # {} /\ running'[j] = running[j] /\ name'[j] = name[j]
          /\ scheduler'[j] = "on" =>
                scheduler[j] = "on" /\ running'[j] = running[j] /\ name'[j] = name[j]
  BY <1>1, <1>3, <1>4, <1>5
<1> QED BY <1>1, <1>2, <1>4, <1>5, <1>6, <1>7, ToldAsBefore

\* A loop, a request or a job goes on: nothing new is taken in, and a connection
\* is only opened by a loop that stop() has not cancelled.
LEMMA LoopTells ==
    ASSUME ManagerInv, LoopsInv, ToldInv, NEW i \in Instances, Loop(i)
    PROVE  /\ fate' \in [AllHappenings -> Fates] /\ taker' = taker
           /\ \A o \in AllHappenings : fate'[o] = "none" => fate[o] = "none"
           /\ \/ UNCHANGED open
              \/ /\ \E c \in Connections : open' = [open EXCEPT ![i] = @ \cup {c}]
                 /\ running[i] /\ DBus(name[i], used.host)
           /\ \/ UNCHANGED scheduler
              \/ scheduler' = [scheduler EXCEPT ![i] = "off"]
<1> DEFINE Tells ==
      /\ fate' \in [AllHappenings -> Fates] /\ taker' = taker
      /\ \A o \in AllHappenings : fate'[o] = "none" => fate[o] = "none"
<1>1. ASSUME UNCHANGED happenings PROVE Tells
  BY <1>1 DEF ToldInv, happenings
<1>2. ASSUME NEW S, NEW what \in {"taken", "published", "dropped"}, Becomes(S, what)
      PROVE  Tells
  BY <1>2, WhatBecomes DEF Fates
<1>3. ASSUME NEW begun, Cancelled(i, begun) PROVE Tells
  BY <1>3, WhatCancelledDoes DEF ToldInv
<1> HIDE DEF Tells
<1>4. CASE UNCHANGED <<happenings, dbus, cron>>
  BY <1>1, <1>4 DEF Tells, dbus, cron
<1>5. CASE FileWatcherLoop(i) /\ UNCHANGED <<dbus, cron>>
  <2>1. Tells
    BY <1>1, <1>2, <1>5 DEF FileWatcherLoop, Watch, Batch, PublishChange, WatchRaises
  <2> QED BY <1>5, <2>1 DEF Tells, dbus, cron
<1>6. CASE DBusLoop(i) /\ UNCHANGED cron
  <2>1. CASE Connect(i, "connect", "monitor", "monitor")
             \/ Connect(i, "session", "signal", "match")
    <3>1. /\ UNCHANGED happenings
          /\ \E c \in Connections : open' = [open EXCEPT ![i] = @ \cup {c}]
          /\ task[i] \in DBusSteps /\ ~cancelled[i] /\ name[i] = "desktop_events"
      BY <1>6, <2>1 DEF DBusLoop, Connect, Connections, Resumes, DBusSteps
    <3>2. running[i] /\ DBus(name[i], used.host)
      BY <3>1 DEF LoopsInv, Loops, StopCancels, DBusSteps
    <3> QED BY <1>1, <1>6, <3>1, <3>2 DEF Tells, cron
  <2>2. CASE \/ Handle(i, "monitor", "monitor", "session")
             \/ Handle(i, "match", "signal", "listen")
             \/ ListenRaises(i) \/ Handed(i) \/ LostWithIt(i)
             \/ MessagePublished(i) \/ MessageRaises(i)
             \/ Unwind(i) /\ UNCHANGED <<dbus, happenings>>
    <3>1. Tells
      BY <1>1, <1>2, <2>2 DEF Handle, ListenRaises, Handed, LostWithIt,
           MessagePublished, MessageRaises
    <3>2. UNCHANGED open
      BY <2>2 DEF Handle, ListenRaises, Handed, LostWithIt, MessagePublished,
           MessageRaises, dbus
    <3> QED BY <1>6, <3>1, <3>2 DEF Tells, cron
  <2> QED BY <1>6, <2>1, <2>2 DEF DBusLoop
<1>7. CASE WebhookSteps(i) /\ UNCHANGED <<dbus, cron>>
  <2>1. Tells
    BY <1>1, <1>2, <1>7 DEF WebhookSteps, BodyArrives, HookPublished, HookRaises
  <2> QED BY <1>7, <2>1 DEF Tells, dbus, cron
<1>8. CASE CronSteps(i) /\ UNCHANGED dbus
  <2>1. Tells
    BY <1>1, <1>2, <1>3, <1>8 DEF CronSteps, JobPublished, JobRaises, ShutDown
  <2>2. UNCHANGED scheduler \/ scheduler' = [scheduler EXCEPT ![i] = "off"]
    BY <1>8 DEF CronSteps, JobPublished, JobRaises, ShutDown, cron
  <2> QED BY <1>8, <2>1, <2>2 DEF Tells, dbus
<1> QED BY <1>4, <1>5, <1>6, <1>7, <1>8 DEF Loop, told, Tells

LEMMA LoopKeepsTold ==
    ASSUME ManagerInv, LoopsInv, ToldInv, NEW i \in Instances, Loop(i)
    PROVE  ToldInv'
<1>1. UNCHANGED <<name, running, used>> BY LoopGoesOn DEF LoopsOn
<1>2. /\ fate' \in [AllHappenings -> Fates] /\ taker' = taker
      /\ \A o \in AllHappenings : fate'[o] = "none" => fate[o] = "none"
      /\ \/ UNCHANGED open
         \/ /\ \E c \in Connections : open' = [open EXCEPT ![i] = @ \cup {c}]
            /\ running[i] /\ DBus(name[i], used.host)
      /\ \/ UNCHANGED scheduler
         \/ scheduler' = [scheduler EXCEPT ![i] = "off"]
  BY LoopTells
<1>3. /\ taker' \in [AllHappenings -> Instances \cup {None}]
      /\ \A o \in AllHappenings : fate'[o] = "none" => taker'[o] = None
  BY <1>2 DEF ToldInv
<1>4. /\ open' \in [Instances -> SUBSET Connections]
      /\ \A j \in Instances : open'[j] # {} =>
             open[j] # {} \/ (running[j] /\ DBus(name[j], used.host))
  BY <1>2 DEF ToldInv
<1>5. /\ scheduler' \in [Instances -> {"none", "on", "closing", "off"}]
      /\ \A j \in Instances : scheduler'[j] = "on" => scheduler[j] = "on"
  BY <1>2 DEF ToldInv
<1> QED BY <1>1, <1>2, <1>3, <1>4, <1>5, ToldAsBefore

\* What is no business of the manager's may tell a producer of something, but
\* only one that runs.
LEMMA OnlyRunningAreTold ==
    ASSUME ManagerInv, LoopsInv, ToldInv,
           (\E c \in Children : Child(c)) \/ World \/ Endpoint \/ Rests \/ UNCHANGED vars
    PROVE  /\ UNCHANGED <<open, scheduler>>
           /\ \/ UNCHANGED happenings
              \/ \E i \in Instances, as \in Fates \ {"none"} : running[i] /\ TakeIn(i, as)
<1>1. CASE (\E c \in Children : Child(c)) \/ Rests \/ UNCHANGED vars
  BY <1>1 DEF Child, Rests, vars, parts, told, dbus, cron
<1>2. CASE World
  <2>1. CASE UNCHANGED <<happenings, dbus, cron>> BY <2>1 DEF dbus, cron
  <2>2. ASSUME NEW i \in Instances, Change(i), UNCHANGED <<dbus, cron>>
        PROVE  /\ UNCHANGED <<open, scheduler>> /\ running[i] /\ TakeIn(i, "noticed")
    BY <2>2 DEF Change, Watches, Resumes, LoopsInv, Loops, StopCancels, dbus, cron
  <2>3. ASSUME NEW i \in Instances, Message(i), UNCHANGED cron
        PROVE  /\ UNCHANGED <<open, scheduler>> /\ running[i] /\ TakeIn(i, "noticed")
    BY <2>3 DEF Message, ToldInv, dbus, cron
  <2>4. ASSUME NEW i \in Instances, NEW n \in JobNames, Fire(i, n), UNCHANGED dbus
        PROVE  /\ UNCHANGED <<open, scheduler>> /\ running[i] /\ TakeIn(i, "taken")
    BY <2>4 DEF Fire, ToldInv, dbus
  <2>5. "noticed" \in Fates \ {"none"} /\ "taken" \in Fates \ {"none"} BY DEF Fates
  <2> QED BY <1>2, <2>1, <2>2, <2>3, <2>4, <2>5 DEF World, told
<1>3. CASE Endpoint
  <2>1. ASSUME IsRunning("webhook"), Receive(_producers["webhook"]),
               UNCHANGED <<dbus, cron>>
        PROVE  /\ UNCHANGED <<open, scheduler>>
               /\ \E i \in Instances, as \in Fates \ {"none"} : running[i] /\ TakeIn(i, as)
    <3>1. _producers["webhook"] \in Instances
      BY <2>1, KnownNames DEF IsRunning, ManagerInv, ManagerType
    <3>2. "noticed" \in Fates \ {"none"} BY DEF Fates
    <3> QED BY <2>1, <3>1, <3>2 DEF Receive, dbus, cron
  <2>2. ASSUME NEW n \in JobNames, UNCHANGED dbus,
               AddJob(_producers["cron"], n) \/ RemoveJob(_producers["cron"], n)
        PROVE  UNCHANGED <<open, scheduler, happenings>>
    BY <2>2 DEF AddJob, RemoveJob, dbus
  <2> QED BY <1>3, <2>1, <2>2 DEF Endpoint
<1> QED BY <1>1, <1>2, <1>3

LEMMA ElsewhereKeepsTold ==
    ASSUME ManagerInv, LoopsInv, ToldInv,
           (\E c \in Children : Child(c)) \/ World \/ Endpoint \/ Rests \/ UNCHANGED vars
    PROVE  ToldInv'
<1>1. UNCHANGED <<name, running, used>> BY OthersAreElsewhere DEF Elsewhere, base
<1>2. /\ UNCHANGED <<open, scheduler>>
      /\ \/ UNCHANGED happenings
         \/ \E i \in Instances, as \in Fates \ {"none"} : running[i] /\ TakeIn(i, as)
  BY OnlyRunningAreTold
<1>3. CASE UNCHANGED happenings
  BY <1>1, <1>2, <1>3 DEF ToldInv, happenings
<1>4. ASSUME NEW i \in Instances, NEW as \in Fates \ {"none"}, TakeIn(i, as)
      PROVE  ToldInv'
  BY <1>1, <1>2, <1>4, WhatIsTakenIn DEF ToldInv
<1> QED BY <1>2, <1>3, <1>4

-----------------------------------------------------------------------------
(* The invariant. *)

LEMMA ProducersInvInit == Init => ProducersInv
BY ManagerInit, LoopsInit, ChildInit, TerminalStarts, ToldInit DEF ProducersInv

LEMMA EnableKeeps ==
    ASSUME ProducersInv, NEW n \in Names, Enable(n) PROVE ProducersInv'
<1>1. PICK i \in Instances : Builds(n, i) BY EnableBuilds
<1> QED BY <1>1, BuildKeepsManager, BuildKeepsLoops, BuildKeepsChild, BuildKeepsTerminal,
        BuildKeepsTold DEF ProducersInv

LEMMA DisableKeeps ==
    ASSUME ProducersInv, NEW n \in Names, NEW d \in Calls, Disable(d, n)
    PROVE  ProducersInv'
<1>1. TakesOut(n) \/ Stops(d, n, _producers[n])
  BY DisableStops DEF ProducersInv, ToldInv
<1>2. CASE TakesOut(n)
  BY <1>2, TakingOutKeepsManager, TakingOutKeepsLoops, TakingOutKeepsChild,
     TakingOutKeepsTerminal, TakingOutKeepsTold DEF ProducersInv
<1>3. CASE Stops(d, n, _producers[n])
  BY <1>3, StopKeepsManager, StopKeepsLoops, StopKeepsChild, StopKeepsTerminal,
     StopKeepsTold DEF ProducersInv
<1> QED BY <1>1, <1>2, <1>3

LEMMA ResumeKeeps ==
    ASSUME ProducersInv, NEW d \in Calls, Resume(d) PROVE ProducersInv'
BY ResumeKeepsManager, ResumeKeepsLoops, ResumeKeepsChild, ResumeKeepsTerminal,
   ResumeKeepsTold DEF ProducersInv

LEMMA LoopKeeps ==
    ASSUME ProducersInv, NEW i \in Instances, Loop(i) PROVE ProducersInv'
<1>1. LoopsOn(i) BY LoopGoesOn
<1> QED BY <1>1, LoopKeepsManager, LoopKeepsLoops, LoopKeepsChild, LoopKeepsTerminal,
        LoopKeepsTold DEF ProducersInv

LEMMA ElsewhereKeeps ==
    ASSUME ProducersInv,
           (\E c \in Children : Child(c)) \/ World \/ Endpoint \/ Rests \/ UNCHANGED vars
    PROVE  ProducersInv'
<1>1. Elsewhere BY OthersAreElsewhere
<1>2. ManagerInv' /\ LoopsInv'
  BY <1>1, ElsewhereKeepsManager, ElsewhereKeepsLoops DEF ProducersInv
<1>3. ChildInv'
  <2>1. CASE \E c \in Children : Child(c)
    BY <2>1, ChildKeepsChild DEF ProducersInv
  <2>2. CASE World \/ Endpoint \/ Rests \/ UNCHANGED vars
    <3>1. UNCHANGED stream BY <2>2 DEF World, Endpoint, Rests, vars, parts
    <3> QED BY <1>1, <3>1, ElsewhereKeepsChild DEF ProducersInv
  <2> QED BY <2>1, <2>2
<1>4. TerminalInv'
  <2>1. Write \/ UNCHANGED terminal
    BY DEF Child, World, Endpoint, Rests, vars, parts
  <2> QED BY <1>1, <2>1, ElsewhereKeepsTerminal DEF ProducersInv
<1>5. ToldInv' BY ElsewhereKeepsTold DEF ProducersInv
<1> QED BY <1>2, <1>3, <1>4, <1>5 DEF ProducersInv

\* The inductive invariant of the producers: of the API's calls, the loops, the
\* children, the shell and everything the producers are told of.
THEOREM ProducersInvariant == Spec => []ProducersInv
<1>1. ASSUME ProducersInv, [Next]_vars PROVE ProducersInv'
  BY <1>1, EnableKeeps, DisableKeeps, ResumeKeeps, LoopKeeps, ElsewhereKeeps DEF Next
<1> QED BY <1>1, ProducersInvInit, PTL DEF Spec

-----------------------------------------------------------------------------
(* Folds over a list, and the list of jobs.                                 *)

\* Induction, for the numbers of which a set tells.
LEMMA UpTo ==
    ASSUME NEW N \in Nat, NEW S, 0 \in S,
           \A k \in 1 .. N : k - 1 \in S => k \in S
    PROVE  N \in S
<1> DEFINE Bad == {k \in 0 .. N : k \notin S}
<1>1. Bad = {}
  <2> SUFFICES ASSUME Bad # {} PROVE FALSE OBVIOUS
  <2>1. Bad \in SUBSET Nat OBVIOUS
  <2>2. PICK m \in Bad : \A j \in Bad : m <= j BY <2>1, Smallest
  <2>3. m # 0 /\ m \in 0 .. N BY <2>2
  <2>4. m - 1 \in 0 .. N /\ m \in 1 .. N /\ ~(m <= m - 1) BY <2>3
  <2>5. m - 1 \in S BY <2>2, <2>4
  <2> QED BY <2>2, <2>4, <2>5
<1>2. N \in 0 .. N OBVIOUS
<1> QED BY <1>1, <1>2

LEMMA Greatest ==
    ASSUME NEW k \in Nat, NEW S \in SUBSET (1 .. k), S # {}
    PROVE  Max(S) \in S /\ \A y \in S : Max(S) >= y
<1> DEFINE T == {k - x : x \in S}
<1>0. \A x \in S : x \in Nat /\ x <= k /\ k - x \in Nat OBVIOUS
<1>1. T \in SUBSET Nat /\ T # {} BY <1>0
<1>2. PICK m \in T : \A i \in T : m <= i BY <1>1, Smallest
<1>3. PICK x \in S : m = k - x BY <1>2
<1>4. \A y \in S : x >= y
  <2> SUFFICES ASSUME NEW y \in S PROVE x >= y OBVIOUS
  <2>1. k - y \in T OBVIOUS
  <2>2. m <= k - y BY <1>2, <2>1
  <2> QED BY <1>3, <2>2
<1> HIDE DEF T
<1> QED BY <1>4 DEF Max

\* F folds G over the positions 1 .. k, from the last to the first.
FoldOf(F, k, W, b, G) ==
    /\ F \in [SUBSET (1 .. k) -> W]
    /\ \A s \in SUBSET (1 .. k) :
           F[s] = IF s = {} THEN b ELSE G[<<Max(s), F[s \ {Max(s)}]>>]

LEMMA FoldExists ==
    ASSUME NEW k \in Nat, NEW W, NEW b \in W, NEW G \in [(1 .. k) \X W -> W]
    PROVE  \E F : FoldOf(F, k, W, b, G)
<1> DEFINE Folds(j, F) == \A s \in SUBSET (1 .. j) :
                              F[s] = IF s = {} THEN b ELSE G[<<Max(s), F[s \ {Max(s)}]>>]
           Bad == {j \in 0 .. k : ~ \E F \in [SUBSET (1 .. j) -> W] : Folds(j, F)}
<1>1. Bad = {}
  <2> SUFFICES ASSUME Bad # {} PROVE FALSE OBVIOUS
  <2>1. Bad \in SUBSET Nat OBVIOUS
  <2>2. PICK m \in Bad : \A j \in Bad : m <= j BY <2>1, Smallest
  <2>3. CASE m = 0
    <3> DEFINE F == [s \in SUBSET (1 .. m) |-> b]
    <3>1. F \in [SUBSET (1 .. m) -> W] OBVIOUS
    <3>0. 1 .. m = {} BY <2>3
    <3>2. \A s \in SUBSET (1 .. m) : s = {} BY <3>0
    <3>3. Folds(m, F) BY <3>2
    <3> QED BY <3>1, <3>3
  <2>4. CASE m # 0
    <3>0. m \in 0 .. k BY <2>2
    <3>1. m - 1 \in 0 .. k /\ m - 1 \notin Bad /\ m \in 1 .. k
      <4>1. m - 1 \in 0 .. k /\ m \in 1 .. k BY <2>4, <3>0
      <4>2. ASSUME m - 1 \in Bad PROVE FALSE
        <5>1. m <= m - 1 BY <2>2, <4>2
        <5> QED BY <3>0, <5>1
      <4> QED BY <4>1, <4>2
    <3>2. PICK F \in [SUBSET (1 .. m - 1) -> W] : Folds(m - 1, F) BY <3>1
    <3> DEFINE H == [s \in SUBSET (1 .. m) |->
                         IF m \in s THEN G[<<m, F[s \ {m}]>>] ELSE F[s]]
    <3>3. \A s \in SUBSET (1 .. m) :
              /\ m \in s => s \ {m} \in SUBSET (1 .. m - 1)
              /\ m \notin s => s \in SUBSET (1 .. m - 1)
      BY <3>1
    <3>4. H \in [SUBSET (1 .. m) -> W]
      BY <3>1, <3>3
    <3>5. Folds(m, H)
      <4> SUFFICES ASSUME NEW s \in SUBSET (1 .. m)
                   PROVE  H[s] = IF s = {} THEN b ELSE G[<<Max(s), H[s \ {Max(s)}]>>]
        OBVIOUS
      <4>1. CASE m \in s
        <5>1. m \in Nat /\ s # {} BY <3>1, <4>1
        <5>2. Max(s) \in s /\ Max(s) >= m BY <4>1, <5>1, Greatest
        <5>3. Max(s) = m
          <6>1. Max(s) \in Nat /\ Max(s) <= m
            <7>1. \A x \in 1 .. m : x \in Nat /\ x <= m BY <5>1
            <7> QED BY <5>2, <7>1
          <6> QED BY <5>1, <5>2, <6>1
        <5>4. H[s \ {m}] = F[s \ {m}] BY <3>3, <4>1
        <5> QED BY <4>1, <5>1, <5>3, <5>4
      <4>2. CASE m \notin s
        <5>1. s \in SUBSET (1 .. m - 1) /\ H[s] = F[s] BY <3>3, <4>2
        <5>2. CASE s = {} BY <3>2, <5>1, <5>2
        <5>3. CASE s # {}
          <6>1. Max(s) \in s
            <7>1. m \in Nat BY <3>1
            <7> QED BY <5>3, <7>1, Greatest
          <6>2. s \ {Max(s)} \in SUBSET (1 .. m - 1) /\ m \notin s \ {Max(s)}
            BY <4>2, <5>1
          <6>3. H[s \ {Max(s)}] = F[s \ {Max(s)}]
            BY <3>3, <6>2
          <6> QED BY <3>2, <5>1, <5>3, <6>3
        <5> QED BY <5>2, <5>3
      <4> QED BY <4>1, <4>2
    <3> HIDE DEF H, Folds
    <3> QED BY <3>4, <3>5
  <2> QED BY <2>3, <2>4
<1>2. k \in 0 .. k OBVIOUS
<1>3. PICK F \in [SUBSET (1 .. k) -> W] : Folds(k, F) BY <1>1, <1>2
<1> QED BY <1>3 DEF FoldOf

\* fold is such a fold of the sets of positions, and h what it makes of 1 .. k, for
\* each k.
TakesGreatest(fold, N, W, b, G) ==
    /\ fold[{}] = b
    /\ \A t \in SUBSET (1 .. N) : t # {} /\ fold[t \ {Max(t)}] \in W
           => fold[t] = G[<<Max(t), fold[t \ {Max(t)}]>>]

StepsOf(h, fold, N, W, b, G) ==
    /\ h \in [0 .. N -> W] /\ h[0] = b /\ h[N] = fold[1 .. N]
    /\ \A k \in 1 .. N : h[k] = G[<<k, h[k - 1]>>]

LEMMA FoldSteps ==
    ASSUME NEW N \in Nat, NEW W, NEW b \in W, NEW G \in [(1 .. N) \X W -> W],
           NEW fold, TakesGreatest(fold, N, W, b, G)
    PROVE  \E h : StepsOf(h, fold, N, W, b, G)
<1> DEFINE h == [k \in 0 .. N |-> fold[1 .. k]]
<1>0. fold[{}] = b /\ \A t \in SUBSET (1 .. N) : t # {} /\ fold[t \ {Max(t)}] \in W
                            => fold[t] = G[<<Max(t), fold[t \ {Max(t)}]>>]
  BY DEF TakesGreatest
<1>1. h[0] = b /\ h[N] = fold[1 .. N]
  <2>1. 1 .. 0 = {} /\ 0 \in 0 .. N /\ N \in 0 .. N OBVIOUS
  <2> QED BY <1>0, <2>1
<1>2. ASSUME NEW k \in 1 .. N, h[k - 1] \in W PROVE h[k] = G[<<k, h[k - 1]>>]
  <2>1. k \in Nat /\ 1 <= k /\ k <= N OBVIOUS
  <2>2. 1 .. k \in SUBSET (1 .. N) /\ 1 .. k # {} /\ k \in 1 .. k
    <3>1. \A x \in 1 .. k : x \in 1 .. N BY <2>1
    <3>2. k \in 1 .. k BY <2>1
    <3> QED BY <3>1, <3>2
  <2>3. Max(1 .. k) = k
    <3>1. Max(1 .. k) \in 1 .. k /\ Max(1 .. k) >= k BY <2>1, <2>2, Greatest
    <3> QED BY <2>1, <3>1
  <2>4. (1 .. k) \ {k} = 1 .. k - 1 /\ k \in 0 .. N /\ k - 1 \in 0 .. N
    BY <2>1
  <2>5. h[k - 1] = fold[(1 .. k) \ {k}] /\ h[k] = fold[1 .. k] BY <2>4
  <2> HIDE DEF h
  <2> QED BY <1>0, <1>2, <2>2, <2>3, <2>5
<1> HIDE DEF h
<1>3. \A k \in 0 .. N : h[k] \in W
  <2> SUFFICES ASSUME NEW k \in 0 .. N PROVE h[k] \in W OBVIOUS
  <2> DEFINE S == {j \in 0 .. k : h[j] \in W}
  <2>1. 0 \in S BY <1>1
  <2>2. \A j \in 1 .. k : j - 1 \in S => j \in S
    <3>1. \A j \in 1 .. k : j \in 1 .. N /\ j \in 0 .. k OBVIOUS
    <3> QED BY <1>2, <3>1
  <2>3. k \in Nat OBVIOUS
  <2> HIDE DEF S
  <2>4. k \in S BY <2>1, <2>2, <2>3, UpTo
  <2> QED BY <2>4 DEF S
<1>4. h \in [0 .. N -> W] BY <1>3 DEF h
<1>5. \A k \in 1 .. N : k - 1 \in 0 .. N OBVIOUS
<1>6. StepsOf(h, fold, N, W, b, G) BY <1>1, <1>2, <1>4, <1>5 DEF StepsOf
<1> QED BY <1>6

\* What the scheduler has after the jobs of a list were added in turn.
LEMMA AddedInTurn ==
    ASSUME NEW s \in Seq(Job), NEW b \in [JobNames -> Nat]
    PROVE  \E h \in [0 .. Len(s) -> [JobNames -> Nat]] :
               /\ h[0] = b /\ h[Len(s)] = FoldLeft(Scheduled, b, s)
               /\ \A k \in 1 .. Len(s) : h[k] = Scheduled(h[k - 1], s[k])
<1> DEFINE W == [JobNames -> Nat]
           N == Len(s)
           Is(F) == F = [t \in SUBSET (1 .. N) |->
                            IF t = {} THEN b ELSE Scheduled(F[t \ {Max(t)}], s[Max(t)])]
           fold == CHOOSE F : Is(F)
           G == [x \in (1 .. N) \X W |-> Scheduled(x[2], s[x[1]])]
<1>1. FoldLeft(Scheduled, b, s) = fold[1 .. N]
  <2>1. DOMAIN s = 1 .. N OBVIOUS
  <2> QED BY <2>1 DEF FoldLeft, MapThenFoldSet
<1>2. N \in Nat /\ b \in W /\ \A x \in 1 .. N : s[x] \in Job OBVIOUS
<1> HIDE DEF N
<1>3. G \in [(1 .. N) \X W -> W]
  <2> SUFFICES ASSUME NEW x \in 1 .. N, NEW v \in W PROVE Scheduled(v, s[x]) \in W
    OBVIOUS
  <2> QED BY <1>2 DEF Job, Scheduled
<1>4. \A x \in 1 .. N, v \in W : G[<<x, v>>] = Scheduled(v, s[x]) OBVIOUS
<1> HIDE DEF G, W
<1>5. \A t \in SUBSET (1 .. N) : t # {} => Max(t) \in 1 .. N /\ t \ {Max(t)} \in SUBSET (1 .. N)
  BY <1>2, Greatest
<1>6. Is(fold)
  <2>1. PICK F : FoldOf(F, N, W, b, G) BY <1>2, <1>3, FoldExists
  <2>2. /\ F \in [SUBSET (1 .. N) -> W]
        /\ \A t \in SUBSET (1 .. N) :
               F[t] = IF t = {} THEN b ELSE G[<<Max(t), F[t \ {Max(t)}]>>]
    BY <2>1 DEF FoldOf
  <2>3. ASSUME NEW t \in SUBSET (1 .. N), t # {}
        PROVE  F[t] = Scheduled(F[t \ {Max(t)}], s[Max(t)])
    <3>1. Max(t) \in 1 .. N /\ F[t \ {Max(t)}] \in W BY <1>5, <2>2, <2>3
    <3> QED BY <1>4, <2>2, <2>3, <3>1
  <2>4. Is(F) BY <2>2, <2>3
  <2> HIDE DEF Is
  <2> QED BY <2>4
<1> HIDE DEF fold
<1>7. TakesGreatest(fold, N, W, b, G)
  BY <1>4, <1>5, <1>6 DEF TakesGreatest
<1> HIDE DEF Is
<1>p. PICK h : StepsOf(h, fold, N, W, b, G) BY <1>2, <1>3, <1>7, FoldSteps
<1>8. /\ h \in [0 .. N -> W] /\ h[0] = b /\ h[N] = fold[1 .. N]
      /\ \A k \in 1 .. N : h[k] = G[<<k, h[k - 1]>>]
  BY <1>p DEF StepsOf
<1>9. \A k \in 1 .. N : h[k] = Scheduled(h[k - 1], s[k])
  <2>1. \A k \in 1 .. N : k - 1 \in 0 .. N BY <1>2
  <2> QED BY <1>4, <1>8, <2>1
<1> QED BY <1>1, <1>8, <1>9 DEF N, W

\* What is left of a list when the jobs of one name are taken out in turn.
TakesOutInTurn(h, s, n) ==
    /\ h \in [0 .. Len(s) -> Seq(Job)] /\ h[0] = <<>> /\ h[Len(s)] = Without(s, n)
    /\ \A k \in 1 .. Len(s) :
           h[k] = IF s[k].name = n THEN h[k - 1] ELSE Append(h[k - 1], s[k])

LEMMA TakenOutInTurn ==
    ASSUME NEW s \in Seq(Job), NEW n PROVE \E h : TakesOutInTurn(h, s, n)
<1> DEFINE W == Seq(Job)
           N == Len(s)
           Is(F) == F = [t \in SUBSET (1 .. N) |->
                            IF t = {} THEN <<>>
                            ELSE IF s[Max(t)].name = n THEN F[t \ {Max(t)}]
                                 ELSE Append(F[t \ {Max(t)}], s[Max(t)])]
           fold == CHOOSE F : Is(F)
           G == [x \in (1 .. N) \X W |-> IF s[x[1]].name = n THEN x[2]
                                         ELSE Append(x[2], s[x[1]])]
<1>1. Without(s, n) = fold[1 .. N]
  <2>1. DOMAIN s = 1 .. N OBVIOUS
  <2> QED BY <2>1 DEF Without, FoldLeft, MapThenFoldSet
<1>2. N \in Nat /\ <<>> \in W /\ \A x \in 1 .. N : s[x] \in Job OBVIOUS
<1> HIDE DEF N
<1>3. G \in [(1 .. N) \X W -> W]
  <2> SUFFICES ASSUME NEW x \in 1 .. N, NEW v \in W PROVE Append(v, s[x]) \in W
    OBVIOUS
  <2> QED BY <1>2
<1>4. \A x \in 1 .. N, v \in W :
          G[<<x, v>>] = IF s[x].name = n THEN v ELSE Append(v, s[x])
  OBVIOUS
<1> HIDE DEF G, W
<1>5. \A t \in SUBSET (1 .. N) : t # {} => Max(t) \in 1 .. N /\ t \ {Max(t)} \in SUBSET (1 .. N)
  BY <1>2, Greatest
<1>6. Is(fold)
  <2>1. PICK F : FoldOf(F, N, W, <<>>, G) BY <1>2, <1>3, FoldExists
  <2>2. /\ F \in [SUBSET (1 .. N) -> W]
        /\ \A t \in SUBSET (1 .. N) :
               F[t] = IF t = {} THEN <<>> ELSE G[<<Max(t), F[t \ {Max(t)}]>>]
    BY <2>1 DEF FoldOf
  <2>3. ASSUME NEW t \in SUBSET (1 .. N), t # {}
        PROVE  F[t] = IF s[Max(t)].name = n THEN F[t \ {Max(t)}]
                      ELSE Append(F[t \ {Max(t)}], s[Max(t)])
    <3>1. Max(t) \in 1 .. N /\ F[t \ {Max(t)}] \in W BY <1>5, <2>2, <2>3
    <3> QED BY <1>4, <2>2, <2>3, <3>1
  <2>4. Is(F) BY <2>2, <2>3
  <2> HIDE DEF Is
  <2> QED BY <2>4
<1> HIDE DEF fold
<1>7. TakesGreatest(fold, N, W, <<>>, G)
  BY <1>4, <1>5, <1>6 DEF TakesGreatest
<1> HIDE DEF Is
<1>p. PICK h : StepsOf(h, fold, N, W, <<>>, G) BY <1>2, <1>3, <1>7, FoldSteps
<1>8. /\ h \in [0 .. N -> W] /\ h[0] = <<>> /\ h[N] = fold[1 .. N]
      /\ \A k \in 1 .. N : h[k] = G[<<k, h[k - 1]>>]
  BY <1>p DEF StepsOf
<1>9. \A k \in 1 .. N :
          h[k] = IF s[k].name = n THEN h[k - 1] ELSE Append(h[k - 1], s[k])
  <2>1. \A k \in 1 .. N : k - 1 \in 0 .. N BY <1>2
  <2> QED BY <1>4, <1>8, <2>1
<1> QED BY <1>1, <1>8, <1>9 DEF N, W, TakesOutInTurn

LEMMA LastOfAppend ==
    ASSUME NEW l \in Seq(Job), NEW j \in Job, NEW n
    PROVE  LastListed(Append(l, j), n) =
               IF j.name = n /\ j.valid THEN j.at ELSE LastListed(l, n)
<1> DEFINE k == Len(l) + 1
           a == Append(l, j)
           Those(s) == {m \in 1 .. Len(s) : s[m].name = n /\ s[m].valid}
<1>1. /\ k \in Nat /\ Len(a) = k /\ a[k] = j
      /\ \A m \in 1 .. Len(l) : a[m] = l[m]
  OBVIOUS
<1>2. 1 .. k = (1 .. Len(l)) \cup {k} /\ k \notin 1 .. Len(l) /\ Len(l) \in Nat OBVIOUS
<1>3. LastListed(a, n) = IF Those(a) = {} THEN NoJob ELSE a[Max(Those(a))].at
  BY DEF LastListed
<1>4. LastListed(l, n) = IF Those(l) = {} THEN NoJob ELSE l[Max(Those(l))].at
  BY DEF LastListed
<1> HIDE DEF a
<1>5. CASE j.name = n /\ j.valid
  <2>1. k \in Those(a) /\ Those(a) \in SUBSET (1 .. k) BY <1>1, <1>2, <1>5
  <2>2. Max(Those(a)) \in Those(a) /\ Max(Those(a)) >= k
    <3> HIDE DEF Those
    <3> QED BY <1>1, <2>1, Greatest
  <2>3. Max(Those(a)) = k
    <3>1. \A m \in 1 .. k : m >= k => m = k BY <1>1
    <3> HIDE DEF Those, k
    <3> QED BY <2>1, <2>2, <3>1
  <2> QED BY <1>1, <1>3, <1>5, <2>1, <2>3 DEF a
<1>6. CASE ~(j.name = n /\ j.valid)
  <2>1. Those(a) = Those(l) BY <1>1, <1>2, <1>6
  <2>2. Those(l) # {} => Max(Those(l)) \in 1 .. Len(l)
    <3>1. Those(l) \in SUBSET (1 .. Len(l)) OBVIOUS
    <3> HIDE DEF Those
    <3> QED BY <1>2, <3>1, Greatest
  <2> HIDE DEF Those
  <2> QED BY <1>1, <1>3, <1>4, <1>6, <2>1, <2>2 DEF a
<1> QED BY <1>5, <1>6

Prefix(s, k) == SubSeq(s, 1, k)

\* A list is the last of its prefixes, and each prefix is the one before with one
\* more job.
LEMMA PrefixGrows ==
    ASSUME NEW s \in Seq(Job)
    PROVE  /\ Prefix(s, 0) = <<>> /\ Prefix(s, Len(s)) = s
           /\ \A k \in 1 .. Len(s) :
                 /\ Prefix(s, k - 1) \in Seq(Job) /\ s[k] \in Job
                 /\ Prefix(s, k) = Append(Prefix(s, k - 1), s[k])
<1>1. SubSeq(s, 1, 0) = <<>> /\ SubSeq(s, 1, Len(s)) = s OBVIOUS
<1>2. ASSUME NEW k \in 1 .. Len(s)
      PROVE  /\ SubSeq(s, 1, k - 1) \in Seq(Job) /\ s[k] \in Job
             /\ SubSeq(s, 1, k) = Append(SubSeq(s, 1, k - 1), s[k])
  <2>1. SubSeq(s, 1, k - 1) \in Seq(Job) /\ s[k] \in Job /\ SubSeq(s, 1, k) \in Seq(Job)
    OBVIOUS
  <2>2. /\ Len(SubSeq(s, 1, k - 1)) = k - 1 /\ Len(SubSeq(s, 1, k)) = k
        /\ \A m \in 1 .. k : SubSeq(s, 1, k)[m] = s[m]
        /\ \A m \in 1 .. k - 1 : SubSeq(s, 1, k - 1)[m] = s[m]
    OBVIOUS
  <2> DEFINE a == SubSeq(s, 1, k - 1)
             b == SubSeq(s, 1, k)
             j == s[k]
  <2>3. /\ a \in Seq(Job) /\ b \in Seq(Job) /\ j \in Job /\ k - 1 \in Nat
        /\ Len(a) = k - 1 /\ Len(b) = k /\ b[k] = j
        /\ \A m \in 1 .. k - 1 : b[m] = a[m]
    BY <2>1, <2>2
  <2> HIDE DEF a, b, j
  <2>4. /\ Append(a, j) \in Seq(Job) /\ Len(Append(a, j)) = k /\ Append(a, j)[k] = j
        /\ \A m \in 1 .. k - 1 : Append(a, j)[m] = a[m]
    BY <2>3
  <2>5. \A m \in 1 .. k : b[m] = Append(a, j)[m]
    <3>1. \A m \in 1 .. k : m = k \/ m \in 1 .. k - 1 OBVIOUS
    <3> QED BY <2>3, <2>4, <3>1
  <2>6. b = Append(a, j) BY <2>3, <2>4, <2>5
  <2> QED BY <2>3, <2>6 DEF a, b, j
<1>3. Prefix(s, 0) = <<>> /\ Prefix(s, Len(s)) = s BY <1>1 DEF Prefix
<1>4. ASSUME NEW k \in 1 .. Len(s)
      PROVE  /\ Prefix(s, k - 1) \in Seq(Job) /\ s[k] \in Job
             /\ Prefix(s, k) = Append(Prefix(s, k - 1), s[k])
  BY <1>2 DEF Prefix
<1> QED BY <1>3, <1>4

LEMMA NothingListed == ASSUME NEW n PROVE LastListed(<<>>, n) = NoJob
BY DEF LastListed

\* The scheduler has the last such job of a list added to it in turn.
LEMMA AddedIsListed ==
    ASSUME NEW s \in Seq(Job), NEW b \in [JobNames -> Nat],
           \A n \in JobNames : b[n] = NoJob
    PROVE  /\ FoldLeft(Scheduled, b, s) \in [JobNames -> Nat]
           /\ \A n \in JobNames : FoldLeft(Scheduled, b, s)[n] = LastListed(s, n)
<1> DEFINE N == Len(s)
           W == [JobNames -> Nat]
           all == FoldLeft(Scheduled, b, s)
<1>1. N \in Nat OBVIOUS
<1>2. /\ Prefix(s, 0) = <<>> /\ Prefix(s, N) = s
      /\ \A k \in 1 .. N : Prefix(s, k - 1) \in Seq(Job) /\ s[k] \in Job
                           /\ Prefix(s, k) = Append(Prefix(s, k - 1), s[k])
  BY PrefixGrows
<1>3. \E h \in [0 .. N -> W] : /\ h[0] = b /\ h[N] = all
                               /\ \A k \in 1 .. N : h[k] = Scheduled(h[k - 1], s[k])
  BY AddedInTurn
<1> HIDE DEF N, all
<1>4. PICK h \in [0 .. N -> W] : /\ h[0] = b /\ h[N] = all
                                 /\ \A k \in 1 .. N : h[k] = Scheduled(h[k - 1], s[k])
  BY <1>3
<1> DEFINE Listed(k) == \A n \in JobNames : h[k][n] = LastListed(Prefix(s, k), n)
           S == {k \in 0 .. N : Listed(k)}
<1>5. Listed(0) BY <1>2, <1>4, NothingListed
<1>6. ASSUME NEW k \in 1 .. N, Listed(k - 1) PROVE Listed(k)
  <2>1. k - 1 \in 0 .. N BY <1>1
  <2>2. h[k - 1] \in W BY <1>4, <2>1
  <2>3. Prefix(s, k) = Append(Prefix(s, k - 1), s[k]) /\ Prefix(s, k - 1) \in Seq(Job) /\ s[k] \in Job
        /\ h[k] = Scheduled(h[k - 1], s[k])
    BY <1>2, <1>4
  <2>4. ASSUME NEW n \in JobNames PROVE h[k][n] = LastListed(Prefix(s, k), n)
    <3>1. LastListed(Prefix(s, k), n) = IF s[k].name = n /\ s[k].valid THEN s[k].at
                                ELSE LastListed(Prefix(s, k - 1), n)
      BY <2>3, LastOfAppend
    <3>2. h[k][n] = IF s[k].name = n /\ s[k].valid THEN s[k].at ELSE h[k - 1][n]
      BY <2>2, <2>3 DEF Scheduled
    <3> QED BY <1>6, <3>1, <3>2
  <2> QED BY <2>4
<1> HIDE DEF Listed
<1>7. N \in S
  <2>1. 0 \in S BY <1>1, <1>5
  <2>2. \A k \in 1 .. N : k - 1 \in S => k \in S
    <3>1. \A k \in 1 .. N : k \in 0 .. N BY <1>1
    <3> QED BY <1>6, <3>1
  <2> HIDE DEF S
  <2> QED BY <1>1, <2>1, <2>2, UpTo
<1>8. all \in W BY <1>1, <1>4
<1> QED BY <1>2, <1>4, <1>7, <1>8 DEF Listed, all

\* With the jobs of one name taken out in turn, nothing of that name is listed,
\* and the last of any other name is what it was.
LEMMA TakenOutIsNotListed ==
    ASSUME NEW s \in Seq(Job), NEW n
    PROVE  /\ Without(s, n) \in Seq(Job)
           /\ \A m : LastListed(Without(s, n), m) =
                         IF m = n THEN NoJob ELSE LastListed(s, m)
<1> DEFINE N == Len(s)
           W == Seq(Job)
           rest == Without(s, n)
<1>1. N \in Nat OBVIOUS
<1>2. /\ Prefix(s, 0) = <<>> /\ Prefix(s, N) = s
      /\ \A k \in 1 .. N : Prefix(s, k - 1) \in Seq(Job) /\ s[k] \in Job
                           /\ Prefix(s, k) = Append(Prefix(s, k - 1), s[k])
  BY PrefixGrows
<1>3. PICK h : TakesOutInTurn(h, s, n) BY TakenOutInTurn
<1>4. /\ h \in [0 .. N -> W] /\ h[0] = <<>> /\ h[N] = rest
      /\ \A k \in 1 .. N :
             h[k] = IF s[k].name = n THEN h[k - 1] ELSE Append(h[k - 1], s[k])
  BY <1>3 DEF TakesOutInTurn
<1> HIDE DEF N, rest
<1> DEFINE Left(k) == \A m : LastListed(h[k], m) =
                                 IF m = n THEN NoJob ELSE LastListed(Prefix(s, k), m)
           S == {k \in 0 .. N : Left(k)}
<1>5. Left(0) BY <1>2, <1>4, NothingListed
<1>6. ASSUME NEW k \in 1 .. N, Left(k - 1) PROVE Left(k)
  <2>1. k - 1 \in 0 .. N BY <1>1
  <2>2. h[k - 1] \in Seq(Job) BY <1>4, <2>1
  <2>3. /\ Prefix(s, k) = Append(Prefix(s, k - 1), s[k]) /\ Prefix(s, k - 1) \in Seq(Job) /\ s[k] \in Job
        /\ h[k] = IF s[k].name = n THEN h[k - 1] ELSE Append(h[k - 1], s[k])
    BY <1>2, <1>4
  <2>4. ASSUME NEW m
        PROVE  LastListed(h[k], m) = IF m = n THEN NoJob ELSE LastListed(Prefix(s, k), m)
    <3>1. LastListed(Prefix(s, k), m) = IF s[k].name = m /\ s[k].valid THEN s[k].at
                                ELSE LastListed(Prefix(s, k - 1), m)
      BY <2>3, LastOfAppend
    <3>2. LastListed(Append(h[k - 1], s[k]), m) =
              IF s[k].name = m /\ s[k].valid THEN s[k].at ELSE LastListed(h[k - 1], m)
      BY <2>2, <2>3, LastOfAppend
    <3>3. LastListed(h[k - 1], m) = IF m = n THEN NoJob ELSE LastListed(Prefix(s, k - 1), m)
      BY <1>6
    <3>4. h[k] = IF s[k].name = n THEN h[k - 1] ELSE Append(h[k - 1], s[k]) BY <2>3
    <3> QED BY <3>1, <3>2, <3>3, <3>4
  <2> QED BY <2>4
<1> HIDE DEF Left
<1>7. N \in S
  <2>1. 0 \in S BY <1>1, <1>5
  <2>2. \A k \in 1 .. N : k - 1 \in S => k \in S
    <3>1. \A k \in 1 .. N : k \in 0 .. N BY <1>1
    <3> QED BY <1>6, <3>1
  <2> HIDE DEF S
  <2> QED BY <1>1, <2>1, <2>2, UpTo
<1>8. rest \in Seq(Job) BY <1>1, <1>4
<1>9. \A m : LastListed(rest, m) = IF m = n THEN NoJob ELSE LastListed(s, m)
  BY <1>2, <1>4, <1>7 DEF Left
<1> QED BY <1>8, <1>9 DEF rest

\* What leaves the jobs alone, and turns no scheduler on, keeps this.
LEMMA JobsAsBefore ==
    ASSUME JobsInv, UNCHANGED <<jobs, scheduled, edits>>,
           \A i \in Instances : name'[i] = None => name[i] = None,
           \A i \in Instances : scheduler'[i] = "on" => scheduler[i] = "on"
    PROVE  JobsInv'
<1>1. \A i \in Instances : name'[i] = None => \A n \in JobNames : scheduled'[i][n] = NoJob
  BY DEF JobsInv
<1>2. JobsAreListed' BY DEF JobsInv, JobsAreListed
<1> QED BY <1>1, <1>2 DEF JobsInv

\* So does a change of one instance, after which its list and its scheduler agree.
LEMMA JobsOfOne ==
    ASSUME ProducersInv, JobsInv, NEW i \in Instances, NEW l \in Seq(Job), NEW s \in [JobNames -> Nat],
           jobs' = [jobs EXCEPT ![i] = l], scheduled' = [scheduled EXCEPT ![i] = s],
           edits' \in Nat,
           \A j \in Instances : name'[j] = None => name[j] = None,
           \A j \in Instances \ {i} : scheduler'[j] = scheduler[j],
           name'[i] = None => \A n \in JobNames : s[n] = NoJob,
           scheduler'[i] = "on" => \A n \in JobNames : s[n] = LastListed(l, n)
    PROVE  JobsInv'
<1>1. /\ jobs' \in [Instances -> Seq(Job)] /\ scheduled' \in [Instances -> [JobNames -> Nat]]
      /\ jobs'[i] = l /\ scheduled'[i] = s
      /\ \A j \in Instances \ {i} : jobs'[j] = jobs[j] /\ scheduled'[j] = scheduled[j]
  BY DEF JobsInv
<1>2. \A j \in Instances : name'[j] = None => \A n \in JobNames : scheduled'[j][n] = NoJob
  <2> SUFFICES ASSUME NEW j \in Instances, name'[j] = None, NEW n \in JobNames
               PROVE  scheduled'[j][n] = NoJob
    OBVIOUS
  <2>1. CASE j = i BY <1>1, <2>1
  <2>2. CASE j # i BY <1>1, <2>2 DEF JobsInv
  <2> QED BY <2>1, <2>2
<1>3. JobsAreListed'
  <2> SUFFICES ASSUME NEW j \in Instances, scheduler'[j] = "on", NEW n \in JobNames
               PROVE  scheduled'[j][n] = LastListed(jobs'[j], n)
    BY DEF JobsAreListed, LastListed
  <2>1. CASE j = i BY <1>1, <2>1
  <2>2. CASE j # i BY <1>1, <2>2 DEF JobsInv, JobsAreListed
  <2> QED BY <2>1, <2>2
<1> QED BY <1>1, <1>2, <1>3 DEF JobsInv

LEMMA ConfiguredJobs == ConfigJobs \in Seq(Job) /\ MaxEdits \in Nat
BY ProducersAssumption DEF CronAssumption

LEMMA CronStartLists ==
    ASSUME ProducersInv, JobsInv, NEW i \in Instances, CronStart(i), name[i] = None,
           \A j \in Instances : name'[j] = None => name[j] = None, name'[i] # None
    PROVE  JobsInv'
<1> DEFINE all == FoldLeft(Scheduled, scheduled[i], ConfigJobs)
<1>1. scheduled[i] \in [JobNames -> Nat] /\ \A n \in JobNames : scheduled[i][n] = NoJob
  BY DEF JobsInv
<1>2. all \in [JobNames -> Nat] /\ \A n \in JobNames : all[n] = LastListed(ConfigJobs, n)
  BY <1>1, ConfiguredJobs, AddedIsListed
<1>3. jobs' = [jobs EXCEPT ![i] = ConfigJobs] /\ scheduled' = [scheduled EXCEPT ![i] = all]
  BY DEF CronStart, JobsInv
<1>4. edits' \in Nat /\ \A j \in Instances \ {i} : scheduler'[j] = scheduler[j]
  BY DEF CronStart, JobsInv, ProducersInv, ToldInv
<1> HIDE DEF all
<1> QED BY <1>2, <1>3, <1>4, ConfiguredJobs, JobsOfOne

LEMMA AddJobLists ==
    ASSUME ProducersInv, JobsInv, NEW i \in Instances, NEW n \in JobNames,
           name[i] # None, AddJob(i, n)
    PROVE  JobsInv'
<1> DEFINE j == [name |-> n, valid |-> TRUE, at |-> Len(ConfigJobs) + edits + 1]
           l == Append(jobs[i], j)
           s == Scheduled(scheduled[i], j)
<1>1. j \in Job /\ j.name = n /\ j.valid /\ edits + 1 \in Nat
  <2>1. Len(ConfigJobs) \in Nat BY ConfiguredJobs
  <2> QED BY <2>1 DEF Job, JobsInv
<1>2. /\ jobs[i] \in Seq(Job) /\ scheduled[i] \in [JobNames -> Nat]
      /\ jobs' = [jobs EXCEPT ![i] = l] /\ scheduled' = [scheduled EXCEPT ![i] = s]
      /\ edits' = edits + 1 /\ UNCHANGED <<name, scheduler>>
  BY DEF AddJob, Edit, JobsInv, base
<1> HIDE DEF j
<1>3. l \in Seq(Job) BY <1>1, <1>2
<1>4. s = [scheduled[i] EXCEPT ![n] = j.at] /\ s \in [JobNames -> Nat]
  BY <1>1, <1>2 DEF Scheduled, Job
<1>5. ASSUME scheduler'[i] = "on", NEW m \in JobNames PROVE s[m] = LastListed(l, m)
  <2>1. scheduled[i][m] = LastListed(jobs[i], m)
    BY <1>2, <1>5 DEF JobsInv, JobsAreListed
  <2>2. LastListed(l, m) = IF j.name = m /\ j.valid THEN j.at ELSE LastListed(jobs[i], m)
    BY <1>1, <1>2, LastOfAppend
  <2> HIDE DEF l
  <2> QED BY <1>1, <1>2, <1>4, <2>1, <2>2
<1>6. name'[i] # None
  BY <1>2
<1> HIDE DEF l, s
<1> QED BY <1>1, <1>2, <1>3, <1>4, <1>5, <1>6, JobsOfOne

LEMMA RemoveJobLists ==
    ASSUME ProducersInv, JobsInv, NEW i \in Instances, NEW n \in JobNames, RemoveJob(i, n)
    PROVE  JobsInv'
<1> DEFINE l == Without(jobs[i], n)
           s == [scheduled[i] EXCEPT ![n] = NoJob]
<1>1. /\ jobs[i] \in Seq(Job) /\ scheduled[i] \in [JobNames -> Nat]
      /\ jobs' = [jobs EXCEPT ![i] = l] /\ scheduled' = [scheduled EXCEPT ![i] = s]
      /\ edits' = edits + 1 /\ UNCHANGED <<name, scheduler>> /\ edits \in Nat
  BY DEF RemoveJob, Edit, JobsInv, base
<1>2. /\ l \in Seq(Job)
      /\ \A m : LastListed(l, m) = IF m = n THEN NoJob ELSE LastListed(jobs[i], m)
  BY <1>1, TakenOutIsNotListed
<1>3. s \in [JobNames -> Nat] BY <1>1 DEF NoJob
<1> HIDE DEF l
<1>4. ASSUME scheduler'[i] = "on", NEW m \in JobNames PROVE s[m] = LastListed(l, m)
  <2>1. scheduled[i][m] = LastListed(jobs[i], m)
    BY <1>1, <1>4 DEF JobsInv, JobsAreListed
  <2> QED BY <1>1, <1>2, <2>1
<1>5. name'[i] = None => \A m \in JobNames : s[m] = NoJob
  BY <1>1 DEF JobsInv
<1>6. /\ edits' \in Nat /\ \A j \in Instances : name'[j] = None => name[j] = None
      /\ \A j \in Instances \ {i} : scheduler'[j] = scheduler[j]
  BY <1>1
<1> HIDE DEF s
<1>7. scheduler'[i] = "on" => \A m \in JobNames : s[m] = LastListed(l, m) BY <1>4
<1> QED BY <1>1, <1>2, <1>3, <1>5, <1>6, <1>7, JobsOfOne

LEMMA ShutDownLists ==
    ASSUME ProducersInv, JobsInv, NEW i \in Instances, ShutDown(i) PROVE JobsInv'
<1> DEFINE s == [n \in JobNames |-> NoJob]
<1>1. /\ jobs' = [jobs EXCEPT ![i] = <<>>] /\ scheduled' = [scheduled EXCEPT ![i] = s]
      /\ scheduler' = [scheduler EXCEPT ![i] = "off"] /\ UNCHANGED <<name, edits>>
      /\ edits \in Nat
  BY DEF ShutDown, JobsInv, base
<1>2. s \in [JobNames -> Nat] /\ \A n \in JobNames : s[n] = NoJob BY DEF NoJob
<1>3. \A j \in Instances : scheduler'[j] = IF j = i THEN "off" ELSE scheduler[j]
  BY <1>1 DEF ProducersInv, ToldInv
<1>4. /\ <<>> \in Seq(Job) /\ edits' \in Nat
      /\ \A j \in Instances : name'[j] = None => name[j] = None
      /\ \A j \in Instances \ {i} : scheduler'[j] = scheduler[j]
      /\ scheduler'[i] # "on"
  BY <1>1, <1>3
<1>5. name'[i] = None => \A n \in JobNames : s[n] = NoJob BY <1>2
<1> HIDE DEF s
<1> QED BY <1>1, <1>2, <1>4, <1>5, JobsOfOne

LEMMA StepKeepsJobs ==
    ASSUME ProducersInv, JobsInv, [Next]_vars PROVE JobsInv'
<1> DEFINE Alone == /\ UNCHANGED <<jobs, scheduled, edits>>
                    /\ \A i \in Instances : name'[i] = None => name[i] = None
                    /\ \A i \in Instances : scheduler'[i] = "on" => scheduler[i] = "on"
<1>1. ASSUME Alone PROVE JobsInv' BY <1>1, JobsAsBefore
<1>2. ASSUME UNCHANGED <<cron, name>> PROVE JobsInv' BY <1>1, <1>2 DEF cron
<1> HIDE DEF Alone
<1>3. ASSUME NEW n \in Names, Enable(n) PROVE JobsInv'
  <2>1. PICK i \in Instances : Builds(n, i) BY <1>3, EnableBuilds
  <2>2. \A j \in Instances : name'[j] = None => name[j] = None
    BY <2>1 DEF Builds, ProducersInv, ManagerInv, ManagerType
  <2>3. CASE UNCHANGED cron
    BY <1>1, <2>2, <2>3 DEF Alone, cron
  <2>4. CASE n = "cron" /\ EnableCron
    <3>1. Unbuilt # {} /\ name' = [name EXCEPT ![Fresh] = n] /\ CronStart(Fresh)
      BY <2>4 DEF EnableCron, Starts, Build
    <3>2. Fresh \in Instances /\ name[Fresh] = None BY <3>1, FreshIsUnbuilt
    <3>3. name'[Fresh] # None
      BY <3>1, <3>2, KnownNames DEF ProducersInv, ManagerInv, ManagerType
    <3> QED BY <2>2, <3>1, <3>2, <3>3, CronStartLists
  <2>5. UNCHANGED cron \/ (n = "cron" /\ EnableCron)
    BY <1>3 DEF Enable, EnableStream, EnableSimple, EnableIdle, EnableRaises,
         EnableTerminal, EnableDBus, parts, told
  <2> QED BY <2>3, <2>4, <2>5
<1>4. ASSUME NEW n \in Names, NEW d \in Calls, Disable(d, n) PROVE JobsInv'
  <2>1. UNCHANGED name
    BY <1>4, DisableStops DEF ProducersInv, ToldInv, TakesOut, Stops, base
  <2>2. ASSUME CronStop(_producers[n]) PROVE Alone
    BY <2>1, <2>2 DEF CronStop, Alone, ProducersInv, ToldInv
  <2>3. UNCHANGED cron \/ CronStop(_producers[n])
    BY <1>4 DEF Disable, NothingToStop, StopStream, StopLoop, StopAtOnce, parts, told
  <2> QED BY <1>1, <1>2, <2>1, <2>2, <2>3
<1>5. ASSUME NEW d \in Calls, Resume(d) PROVE JobsInv'
  <2>1. UNCHANGED cron BY <1>5 DEF Resume, WaitEnds, Join, parts, told
  <2>2. UNCHANGED name
    BY <1>5 DEF Resume, WaitEnds, Join, Waited, Kill, KillRaises, Stopping, base
  <2> QED BY <1>2, <2>1, <2>2
<1>6. ASSUME NEW i \in Instances, Loop(i) PROVE JobsInv'
  <2>1. UNCHANGED name BY <1>6, LoopGoesOn DEF LoopsOn
  <2>2. UNCHANGED cron \/ ShutDown(i)
    BY <1>6 DEF Loop, CronSteps, JobPublished, JobRaises, told
  <2> QED BY <1>2, <2>1, <2>2, ShutDownLists
<1>7. ASSUME (\E c \in Children : Child(c)) \/ World \/ Rests \/ UNCHANGED vars
      PROVE  JobsInv'
  <2>1. UNCHANGED name BY <1>7, OthersAreElsewhere DEF Elsewhere, base
  <2>2. UNCHANGED <<jobs, scheduled, scheduler, edits>>
    BY <1>7 DEF Child, World, Fire, Rests, vars, parts, told, cron
  <2> QED BY <1>1, <2>1, <2>2 DEF Alone
<1>8. ASSUME Endpoint PROVE JobsInv'
  <2>1. CASE UNCHANGED cron
    BY <1>2, <1>8, <2>1, OthersAreElsewhere DEF Elsewhere, base
  <2>2. ASSUME IsRunning("cron"), NEW n \in JobNames,
               AddJob(_producers["cron"], n) \/ RemoveJob(_producers["cron"], n)
        PROVE  JobsInv'
    <3>1. _producers["cron"] \in Instances /\ name[_producers["cron"]] # None
      BY <2>2, KnownNames DEF IsRunning, ProducersInv, ManagerInv, ManagerType
    <3> QED BY <2>2, <3>1, AddJobLists, RemoveJobLists
  <2> QED BY <1>8, <2>1, <2>2 DEF Endpoint
<1> QED BY <1>3, <1>4, <1>5, <1>6, <1>7, <1>8 DEF Next

\* The list of jobs and the scheduler agree, through configured jobs, jobs added
\* and removed, and instances that come and go.
THEOREM JobsInvariant == Spec => []JobsInv
<1>1. Init => JobsInv
  BY ConfiguredJobs DEF Init, CronInit, BaseInit, JobsInv, JobsAreListed, NoJob
<1>2. ASSUME ProducersInv, JobsInv, [Next]_vars PROVE JobsInv'
  BY <1>2, StepKeepsJobs
<1> QED BY <1>1, <1>2, ProducersInvariant, PTL DEF Spec

-----------------------------------------------------------------------------
(* What a run checks of this. *)

\* Whatever calls of enable() and disable() come together, a producer whose loop
\* goes on, or that has none, is in the manager's table under its name
\* (manager.py enable, disable); and what the scheduler runs under a name is the
\* last such job on the list (cron.py add_job, remove_job).
THEOREM ManagerHasWhatRuns == Spec => []ManagerOwnsRunning
<1>1. ProducersInv /\ JobsInv => ManagerOwnsRunning
  BY DEF ProducersInv, ManagerInv, JobsInv, ManagerOwnsRunning
<1> QED BY <1>1, ProducersInvariant, JobsInvariant, PTL

\* A child that lives belongs to a producer that runs, or a disable() waits for
\* it, or the reason it was missed is on record (_stream_loop, stop).
THEOREM ChildIsTaken == Spec => []StopTakesTheChild
<1>1. ASSUME ProducersInv PROVE StopTakesTheChild
  <2> SUFFICES ASSUME NEW c \in Children, Lives(c), ~unsafe[owner[c]], ~running[owner[c]]
               PROVE  \E d \in Calls : pc[d] \in {"wait", "join"} /\ target[d] = owner[c]
    BY DEF StopTakesTheChild
  <2>1. Awaited(c) BY <1>1 DEF ProducersInv, ChildInv, Attended
  <2> QED BY <2>1 DEF Awaited
<1> QED BY <1>1, ProducersInvariant, PTL

\* Commands are published at most once and in the order they were typed
\* (_check_new_commands, start).
THEOREM CommandsInOrder == Spec => []OnceInOrder
<1>1. ProducersInv => OnceInOrder BY DEF ProducersInv, TerminalInv
<1> QED BY <1>1, ProducersInvariant, PTL

\* A step leaves what came to a producer that does not run as it was.
LEMMA StoppedTakesNothing ==
    ASSUME ProducersInv, [Next]_vars, NEW j \in Instances, ~running[j]
    PROVE  CameTo(j)' = CameTo(j)
<1>1. ASSUME taker' = taker PROVE CameTo(j)' = CameTo(j)
  BY <1>1 DEF CameTo
<1>2. ASSUME NEW n \in Names, Enable(n) PROVE taker' = taker
  BY <1>2, EnableBuilds DEF Builds, happenings
<1>3. ASSUME NEW n \in Names, NEW d \in Calls, Disable(d, n) PROVE taker' = taker
  BY <1>3, DisableStops
     DEF ProducersInv, ToldInv, TakesOut, Stops, parts, told, happenings
<1>4. ASSUME NEW d \in Calls, Resume(d) PROVE taker' = taker
  BY <1>4 DEF Resume, WaitEnds, Join, parts, told, happenings
<1>5. ASSUME NEW i \in Instances, Loop(i) PROVE taker' = taker
  BY <1>5, LoopTells DEF ProducersInv
<1>6. ASSUME (\E c \in Children : Child(c)) \/ World \/ Endpoint \/ Rests \/ UNCHANGED vars
      PROVE  CameTo(j)' = CameTo(j)
  <2>1. \/ UNCHANGED happenings
        \/ \E i \in Instances, as \in Fates \ {"none"} : running[i] /\ TakeIn(i, as)
    BY <1>6, OnlyRunningAreTold DEF ProducersInv
  <2>2. CASE UNCHANGED happenings BY <1>1, <2>2 DEF happenings
  <2>3. ASSUME NEW i \in Instances, NEW as \in Fates \ {"none"}, running[i], TakeIn(i, as)
        PROVE  CameTo(j)' = CameTo(j)
    BY <2>3, WhatIsTakenIn DEF ProducersInv
  <2> QED BY <2>1, <2>2, <2>3
<1> QED BY <1>1, <1>2, <1>3, <1>4, <1>5, <1>6 DEF Next

\* After stop() has begun a producer publishes at most the line it was
\* publishing, and nothing comes to it that had not come before (_stream_loop,
\* dbus.py and file_watcher.py stop).
THEOREM IsQuiet == Spec => QuietAfterStop
<1> DEFINE Quiet == \A i \in Instances :
             name[i] # None /\ ~running[i] => late'[i] <= 1 /\ CameTo(i)' = CameTo(i)
<1>1. ASSUME ProducersInv, ProducersInv', [Next]_vars PROVE [Quiet]_vars
  <2> SUFFICES ASSUME NEW i \in Instances, ~running[i]
               PROVE  late'[i] <= 1 /\ CameTo(i)' = CameTo(i)
    OBVIOUS
  <2>1. late'[i] = 0 \/ late'[i] = 1 BY <1>1 DEF ProducersInv, ChildInv
  <2> QED BY <1>1, <2>1, StoppedTakesNothing
<1>2. Spec => [][Quiet]_vars
  BY <1>1, ProducersInvariant, PTL DEF Spec
<1> QED BY <1>2 DEF QuietAfterStop
=============================================================================
