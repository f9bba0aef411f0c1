----------------------------- MODULE Producers -----------------------------
(***************************************************************************)
(* ProducerManager: the table of producers the API enables and disables,    *)
(* over all the producers of the registry. enable() runs without a          *)
(* suspension; disable() takes the producer out of the table and then waits *)
(* for its stop(). Calls of the API interleave with each other and with     *)
(* everything the producers do at every await.                              *)
(***************************************************************************)
EXTENDS StreamProducer, TerminalMonitor, Clipboard, FileWatcher, DBusBackend,
        WebhookProducer, CronProducer

CONSTANTS
    Calls,          \* bound: calls of the producers API in flight at once
    Deployments     \* bound: the machines and the producers used on them

ASSUME ProducersAssumption ==
    /\ BaseAssumption /\ StreamAssumption /\ TerminalAssumption
    /\ ClipboardAssumption /\ HappeningsAssumption /\ CronAssumption
    /\ \A u \in Deployments : u.names \subseteq Names

VARIABLES
    _producers,     \* ProducerManager: the instance of each name
    pc, target, waited,     \* locals of the disable() calls
    used            \* the machine, and the producers that are ever enabled

call  == <<pc, target, waited>>
told  == <<clipboard, happenings, dbus, cron>>
parts == <<stream, terminal, told>>
vars  == <<base, parts, _producers, call, used>>

Init ==
    /\ BaseInit /\ StreamInit /\ TerminalInit
    /\ ClipboardInit /\ HappeningsInit /\ DBusInit /\ CronInit
    /\ _producers = [n \in Names |-> None]
    /\ pc = [d \in Calls |-> "idle"]
    /\ target = [d \in Calls |-> None]
    /\ waited = [d \in Calls |-> None]
    /\ used \in Deployments

-----------------------------------------------------------------------------
(* enable(): a name that runs already is left alone, and one the machine    *)
(* cannot run, or the factory does not build, is refused.                   *)

IsRunning(n) == _producers[n] # None /\ running[_producers[n]]

Unbuilt == {i \in Instances : name[i] = None}
Fresh == CHOOSE i \in Unbuilt : \A j \in Unbuilt : i <= j

Usable(n) == n \in used.names /\ Runnable(n, used.host) /\ Buildable(n, used.host)

\* Mutant: enable() does not look whether the producer runs.
Build_Again(n) ==
    /\ Usable(n) /\ Unbuilt # {}
    /\ name' = [name EXCEPT ![Fresh] = n]
    /\ UNCHANGED <<cancelled, errors, call, used>>

Build(n) ==
    /\ Usable(n) /\ Unbuilt # {}
    /\ ~IsRunning(n)
    /\ name' = [name EXCEPT ![Fresh] = n]
    /\ UNCHANGED <<cancelled, errors, call, used>>

\* start() has set _running and created the task of the loop, if it has one.
Starts(n, first) ==
    /\ Build(n)
    /\ _producers' = [_producers EXCEPT ![n] = Fresh]
    /\ running' = [running EXCEPT ![Fresh] = TRUE]
    /\ Go(Fresh, first)

EnableStream(n) ==
    /\ Streams(n, used.host)
    /\ Starts(n, "spawn")
    /\ UNCHANGED parts

EnableTerminal ==
    /\ Starts(Terminal, "check")
    /\ TerminalStart(Fresh)
    /\ UNCHANGED <<stream, told>>

EnableDBus ==
    /\ DBus("desktop_events", used.host)
    /\ Starts("desktop_events", "connect")
    /\ UNCHANGED parts

EnableCron ==
    /\ Starts("cron", "none")
    /\ CronStart(Fresh)
    /\ UNCHANGED <<stream, terminal, clipboard, dbus>>

EnableSimple(n) ==
    /\ \/ n = "clipboard" /\ Starts(n, "poll")
       \/ n = "file_watcher" /\ Starts(n, "open")
       \/ n = "webhook" /\ Starts(n, "none")
    /\ UNCHANGED parts

\* start() finds no history file, no path that exists or no clipboard tool and
\* returns; enable() still says TRUE, and the table keeps an instance that does
\* not run.
EnableIdle(n) ==
    /\ n \in {Terminal, "file_watcher", "clipboard"}
    /\ Build(n)
    /\ _producers' = [_producers EXCEPT ![n] = Fresh]
    /\ UNCHANGED <<running, task, parts>>

\* start() raises, the terminal monitor's behind _running = True: the entry is
\* taken back.
EnableRaises(n) ==
    /\ n \in {Terminal, "cron"}
    /\ Build(n)
    /\ running' = [running EXCEPT ![Fresh] = (n = Terminal)]
    /\ _producers' = [_producers EXCEPT ![n] = None]
    /\ UNCHANGED <<task, parts>>

-----------------------------------------------------------------------------
(* disable(). stop_all() is one call that disables every name in turn. *)

\* The entry goes first, then stop() begins.
TakeOut(n) == _producers' = [_producers EXCEPT ![n] = None]

Wait(d, i, at) ==
    /\ target' = [target EXCEPT ![d] = i]
    /\ pc' = [pc EXCEPT ![d] = at]

Return(d) == pc' = [pc EXCEPT ![d] = "idle"]

\* An entry that does not run is only taken out.
NothingToStop(n) ==
    /\ ~IsRunning(n)
    /\ TakeOut(n)
    /\ UNCHANGED <<base, parts, call>>

StopStream(d, n) ==
    LET i == _producers[n]
    IN  /\ Streams(n, used.host) /\ IsRunning(n)
        /\ TakeOut(n)
        /\ \/ /\ Terminate(i)
              /\ Wait(d, i, "wait")
              /\ waited' = [waited EXCEPT ![d] = held[i]]
           \/ /\ StopUnspawned(i)
              /\ Wait(d, i, "join") /\ UNCHANGED waited
           \/ /\ StopRaises(i)
              /\ UNCHANGED call
        /\ UNCHANGED <<terminal, told>>

\* The stop() that cancels the loop and waits for it.
StopLoop(d, n) ==
    LET i == _producers[n]
    IN  /\ IsRunning(n)
        /\ \/ /\ n = Terminal /\ TerminalStop(i)
              /\ UNCHANGED <<stream, told>>
           \/ /\ n = "clipboard" /\ ClipboardStop(i)
              /\ UNCHANGED <<stream, terminal, happenings, dbus, cron>>
           \/ /\ n = "file_watcher" /\ FileWatcherStop(i)
              /\ UNCHANGED <<stream, terminal, clipboard, dbus, cron>>
           \/ /\ DBus(n, used.host) /\ DBusStop(i)
              /\ UNCHANGED <<stream, terminal, clipboard, cron>>
        /\ TakeOut(n)
        /\ Wait(d, i, "join")
        /\ UNCHANGED waited

\* The stop() without an await.
StopAtOnce(n) ==
    LET i == _producers[n]
    IN  /\ IsRunning(n)
        /\ \/ n = "webhook" /\ WebhookStop(i) /\ UNCHANGED cron
           \/ n = "cron" /\ CronStop(i)
        /\ TakeOut(n)
        /\ UNCHANGED <<stream, terminal, clipboard, dbus, call>>

Disable(d, n) ==
    /\ pc[d] = "idle" /\ _producers[n] # None
    /\ NothingToStop(n) \/ StopStream(d, n) \/ StopLoop(d, n) \/ StopAtOnce(n)
    /\ UNCHANGED used

\* Mutant: stop() waits for the child without a timeout.
WaitEnds_Forever(d) ==
    /\ pc[d] = "wait"
    /\ Waited(target[d], waited[d])
    /\ pc' = [pc EXCEPT ![d] = "join"]
    /\ UNCHANGED <<terminal, told, _producers, target, waited, used>>

\* stop() behind wait_for(self._proc.wait(), 3.0).
WaitEnds(d) ==
    /\ pc[d] = "wait"
    /\ \/ /\ Waited(target[d], waited[d]) \/ Kill(target[d], waited[d])
          /\ pc' = [pc EXCEPT ![d] = "join"]
       \/ /\ KillRaises(target[d], waited[d])
          /\ Return(d)
    /\ UNCHANGED <<terminal, told, _producers, target, waited, used>>

\* await self._task: the loop has unwound.
Join(d) ==
    /\ pc[d] = "join" /\ ~Loops(target[d])
    /\ Return(d)
    /\ UNCHANGED <<base, parts, _producers, target, waited, used>>

-----------------------------------------------------------------------------
Enable(n) ==
    \/ EnableStream(n) \/ EnableSimple(n) \/ EnableIdle(n) \/ EnableRaises(n)
    \/ n = Terminal /\ EnableTerminal
    \/ n = "cron" /\ EnableCron
    \/ n = "desktop_events" /\ EnableDBus

\* What the event loop resumes of instance i.
Loop(i) ==
    /\ \/ StreamLoop(i) /\ UNCHANGED <<terminal, told>>
       \/ TerminalLoop(i) /\ UNCHANGED <<stream, told>>
       \/ ClipboardLoop(i) /\ UNCHANGED <<stream, terminal, happenings, dbus, cron>>
       \/ FileWatcherLoop(i) /\ UNCHANGED <<stream, terminal, clipboard, dbus, cron>>
       \/ DBusLoop(i) /\ UNCHANGED <<stream, terminal, clipboard, cron>>
       \/ WebhookSteps(i) /\ UNCHANGED <<stream, terminal, clipboard, dbus, cron>>
       \/ CronSteps(i) /\ UNCHANGED <<stream, terminal, clipboard, dbus>>
    /\ UNCHANGED <<_producers, call, used>>

Child(c) ==
    /\ Emit(c) \/ Exit(c) \/ Reap(c)
    /\ UNCHANGED <<terminal, told, _producers, call, used>>

\* What happens on the machine: the user, its programs, other hosts, time.
World ==
    /\ \/ Terminal \in used.names /\ Write /\ UNCHANGED <<stream, told>>
       \/ /\ "clipboard" \in used.names /\ Copy
          /\ UNCHANGED <<stream, terminal, happenings, dbus, cron>>
       \/ /\ \E i \in Instances : Change(i)
          /\ UNCHANGED <<stream, terminal, clipboard, dbus, cron>>
       \/ /\ \E i \in Instances : Message(i)
          /\ UNCHANGED <<stream, terminal, clipboard, cron>>
       \/ /\ \E i \in Instances, n \in JobNames : Fire(i, n)
          /\ UNCHANGED <<stream, terminal, clipboard, dbus>>
    /\ UNCHANGED <<_producers, call, used>>

\* The endpoints of the producers that have some; they look the producer up.
Endpoint ==
    /\ \/ /\ IsRunning("webhook") /\ Receive(_producers["webhook"])
          /\ UNCHANGED <<stream, terminal, clipboard, dbus, cron>>
       \/ /\ IsRunning("cron")
          /\ \E n \in JobNames :
                 AddJob(_producers["cron"], n) \/ RemoveJob(_producers["cron"], n)
          /\ UNCHANGED <<stream, terminal, clipboard, dbus>>
    /\ UNCHANGED <<_producers, call, used>>

Resume(d) == WaitEnds(d) \/ Join(d)

\* Nothing can be enabled any more and everything is disabled. A loop still
\* there reads a child that stop() missed.
Rests ==
    /\ Unbuilt = {} \/ \A n \in Names : ~Usable(n)
    /\ \A n \in Names : _producers[n] = None
    /\ \A d \in Calls : pc[d] = "idle"
    /\ \A i \in Instances : Loops(i) => unsafe[i]
    /\ UNCHANGED vars

Next ==
    \/ \E n \in Names : Enable(n) \/ \E d \in Calls : Disable(d, n)
    \/ \E d \in Calls : Resume(d)
    \/ \E i \in Instances : Loop(i)
    \/ \E c \in Children : Child(c)
    \/ World \/ Endpoint
    \/ Rests

Spec == Init /\ [][Next]_vars

\* The event loop resumes every coroutine whose await is over, and asyncio
\* learns of every exit; nobody has to print, die, type or call.
FairSpec ==
    /\ Spec
    /\ \A i \in Instances : WF_vars(Loop(i))
    /\ \A d \in Calls : WF_vars(Resume(d))
    /\ WF_vars(\E c \in Children : Reap(c) /\ UNCHANGED <<terminal, told, _producers,
                                                        call, used>>)
=============================================================================
