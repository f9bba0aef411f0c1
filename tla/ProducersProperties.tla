------------------------ MODULE ProducersProperties ------------------------
(* What the producers must keep, whatever order the API's calls, the loops, *)
(* the subprocesses and the shell take their steps in.                      *)
EXTENDS Producers

\* The last job of that name on the list that could be scheduled.
LastListed(list, n) ==
    LET those == {k \in 1 .. Len(list) : list[k].name = n /\ list[k].valid}
    IN  IF those = {} THEN NoJob ELSE list[Max(those)].at

JobsAreListed ==
    \A i \in Instances : scheduler[i] = "on" =>
        \A n \in JobNames : scheduled[i][n] = LastListed(jobs[i], n)

\* The table has what runs, unless its loop is over.
OwnsWhatRuns ==
    \A i \in Instances :
        running[i] /\ (Loops(i) \/ name[i] \in {"webhook", "cron"})
            => _producers[name[i]] = i

\* Everything that is meant to go on belongs to the instance the manager has
\* under that name, so the API can see it and stop it: neither a second enable()
\* during a disable() nor a start() that raises leaves a producer running that
\* nobody can reach (manager.py enable, disable); and what the scheduler will
\* run under a name is the last such job on the list the API shows, after any
\* sequence of jobs added and removed (cron.py add_job, remove_job).
ManagerOwnsRunning == OwnsWhatRuns /\ JobsAreListed

\* After stop() has begun, a stream producer publishes at most the line it was
\* publishing: whatever is still buffered is dropped, also when stop() raised
\* and the loop was never cancelled (_stream_loop, "if not self._running"). To
\* the producers that are told of things nothing comes any more, wherever their
\* loop was when stop() came (dbus.py stop, file_watcher.py stop): what they
\* still publish had reached them before, the D-Bus messages in the sockets that
\* disconnect() shut down among it.
QuietAfterStop ==
    [][\A i \in Instances :
           name[i] # None /\ ~running[i] => late'[i] <= 1 /\ CameTo(i)' = CameTo(i)]_vars

\* When disable() has returned no child of the producer lives, unless an error
\* in a line had made the loop leave a live child behind, or stop() met the
\* loop while it was replacing a child (_stream_loop, stop).
StopTakesTheChild ==
    \A c \in Children :
        Lives(c) =>
            LET i == owner[c]
            IN  \/ running[i] \/ unsafe[i]
                \/ \E d \in Calls : pc[d] \in {"wait", "join"} /\ target[d] = i

\* A command is published at most once and commands are published in the order
\* they were typed, across checks, publishes that raise, history files that are
\* shortened, a write between stat and read, and monitors that are disabled and
\* enabled again (_check_new_commands, start).
OnceInOrder ==
    \A j, k \in 1 .. Len(published) : j < k => published[j] < published[k]

-----------------------------------------------------------------------------
Reads(i) ==
    /\ name[i] \in StreamNames /\ task[i] \in {"read", "publish"}
    /\ Lives(reading[i])

\* A system log producer that is enabled comes back to reading a live child,
\* however its children die and its publishes fail, until it is disabled
\* (_stream_loop).
Respawns ==
    LET on == {i \in Instances : name[i] \in StreamNames \ HelperNames /\ running[i]}
    IN  on # {} ~> on = {} \/ \E i \in on : Reads(i)

\* What a producer has taken in is published, or given up because its own
\* publish() raised, the watcher's loop broke or the producer was stopped: a
\* batch is published to its end and the task of a D-Bus message, a request or
\* a job is not forgotten (_watch_loop, monitor_handler, receive_webhook,
\* _fire_event). A text that stays on the clipboard is shown by every producer
\* that runs long enough, unless a read or a publish() failed (_poll_loop).
NothingTakenIsLost ==
    LET taken == \E o \in AllHappenings : fate[o] = "taken"
        on == {i \in Instances : name[i] = "clipboard" /\ running[i]}
    IN  /\ taken ~> ~taken
        /\ on # {} ~> \/ on = {} \/ errors > 0
                     \/ clip = TooShort \/ \E i \in on : shown[i] = clip

\* Every disable() comes to an end, and with it the shutdown's stop_all(), whatever the
\* children and the loops do (stop's wait_for and the cancelled task).
DisableReturns == \A d \in Calls : pc[d] # "idle" ~> pc[d] = "idle"

\* A command typed while the monitor runs is published unless Cap later ones
\* crowd it out, the monitor is disabled, a publish raises or the shell
\* shortens the file (_check_new_commands).
NewestIsPublished ==
    \A k \in Commands :
        LET on == {i \in Instances : name[i] = Terminal /\ running[i] /\ Loops(i)}
        IN  (typed >= k /\ \E i \in on : last_line_count[i] < k)
            ~> \/ \E j \in 1 .. Len(published) : published[j] = k
               \/ typed >= k + Cap
               \/ on = {} \/ errors > 0 \/ trims > 0

-----------------------------------------------------------------------------
(* The inductive invariant of the producers, in parts.                      *)

DBusSteps == {"connect", "monitor", "session", "match", "listen"}
Steps == {"none", "done", "sleep", "spawn", "read", "publish", "check", "poll",
          "open", "watch"} \cup DBusSteps

ManagerType ==
    /\ name \in [Instances -> Names \cup {None}]
    /\ running \in [Instances -> BOOLEAN]
    /\ task \in [Instances -> Steps]
    /\ cancelled \in [Instances -> BOOLEAN]
    /\ _producers \in [Names -> Instances \cup {None}]
    /\ pc \in [Calls -> {"idle", "wait", "join"}]
    /\ target \in [Calls -> Instances \cup {None}]
    /\ waited \in [Calls -> Children \cup {None}]

\* What the table knows runs, and what a call stops is out of it; no two calls
\* stop one instance.
ManagerInv ==
    /\ ManagerType
    /\ \A n \in Names : _producers[n] # None => name[_producers[n]] = n
    /\ \A i \in Instances :
          /\ name[i] = None => task[i] = "none" /\ ~running[i] /\ ~cancelled[i]
          /\ cancelled[i] => ~running[i]
    /\ OwnsWhatRuns
    /\ \A d \in Calls : pc[d] # "idle" =>
          /\ target[d] \in Instances /\ name[target[d]] # None
          /\ ~running[target[d]]
          /\ \A n \in Names : _producers[n] # target[d]
          /\ \A e \in Calls : pc[e] # "idle" /\ target[e] = target[d] => e = d

\* The loops of desktop_events are told apart by the machine; a loop that stop()
\* always cancels goes on only while its producer runs.
StopCancels(i) == name[i] \in {Terminal, "file_watcher"} \/ DBus(name[i], used.host)

LoopsInv ==
    \A i \in Instances :
        /\ name[i] \in StreamNames /\ task[i] \in {"spawn", "read", "publish", "sleep"}
              => Streams(name[i], used.host)
        /\ name[i] = "desktop_events" /\ task[i] \in DBusSteps => DBus(name[i], used.host)
        /\ Loops(i) /\ ~cancelled[i] /\ StopCancels(i) => running[i]

StreamType ==
    /\ held \in [Instances -> Children \cup {None}]
    /\ reading \in [Instances -> Children \cup {None}]
    /\ owner \in [Children -> Instances \cup {None}]
    /\ child \in [Children -> {"none", "up", "asked", "dead", "reaped"}]
    /\ late \in [Instances -> Nat]
    /\ unsafe \in [Instances -> BOOLEAN]

\* A call waits for c to go before it cancels the loop of c's producer.
Awaited(c) == \E d \in Calls : pc[d] = "wait" /\ target[d] = owner[c] /\ waited[d] = c

\* c is the child its producer holds and reads, and that runs or is being stopped.
Attended(c) ==
    /\ held[owner[c]] = c /\ reading[owner[c]] = c
    /\ ~cancelled[owner[c]] /\ task[owner[c]] \in {"read", "publish", "done"}
    /\ running[owner[c]] \/ Awaited(c)

\* Every living child is attended to, unless a reason is on record; a stop() that
\* meets the loop before a spawn() cancels it or puts that on record; and what
\* is published late is the one line that was being published.
ChildInv ==
    /\ StreamType
    /\ \A c \in Children :
          /\ child[c] # "none"
                => owner[c] \in Instances /\ Streams(name[owner[c]], used.host)
          /\ Lives(c) /\ ~unsafe[owner[c]] => Attended(c)
    /\ \A i \in Instances :
          /\ held[i] # None => child[held[i]] # "none"
          /\ Streams(name[i], used.host) /\ task[i] = "spawn" /\ ~running[i]
                => cancelled[i] \/ unsafe[i]
          /\ late[i] # 0
                => /\ late[i] = 1 /\ ~running[i]
                   /\ Streams(name[i], used.host) /\ task[i] # "publish"

\* The lines the shell has dropped from the file's start.
Gone == typed - Len(history)

\* The file has the lines typed last.
FileInv ==
    /\ typed \in Nat /\ history \in Seq(Nat) /\ Len(history) <= typed
    /\ \A j \in 1 .. Len(history) : history[j] = Gone + j

\* What monitor i has still to publish comes behind everything published, in
\* order, and the lines it will look at next come behind that.
Ahead(i) ==
    /\ \A j \in 1 .. Len(published) : published[j] <= Gone + last_line_count[i]
    /\ task[i] = "publish" =>
          /\ new_commands[i] # <<>>
          /\ \A j \in 1 .. Len(new_commands[i]) :
                /\ new_commands[i][j] <= typed
                /\ new_commands[i][j] <= Gone + last_line_count[i]
                /\ \A k \in 1 .. Len(published) : published[k] < new_commands[i][j]
                /\ \A k \in 1 .. j - 1 : new_commands[i][k] < new_commands[i][j]

Watching(i) == name[i] = Terminal /\ Loops(i) /\ ~cancelled[i]

TerminalInv ==
    /\ FileInv
    /\ last_line_count \in [Instances -> Nat]
    /\ new_commands \in [Instances -> Seq(Nat)]
    /\ published \in Seq(Nat) /\ \A j \in 1 .. Len(published) : published[j] <= typed
    /\ OnceInOrder
    /\ \A i \in Instances : Watching(i) => Ahead(i)

Fates == {"none", "noticed", "taken", "published", "dropped"}

\* A producer that is told of things runs as long as it can be told.
ToldInv ==
    /\ fate \in [AllHappenings -> Fates]
    /\ taker \in [AllHappenings -> Instances \cup {None}]
    /\ \A o \in AllHappenings : fate[o] = "none" => taker[o] = None
    /\ open \in [Instances -> SUBSET Connections]
    /\ \A i \in Instances : open[i] # {} => running[i] /\ DBus(name[i], used.host)
    /\ scheduler \in [Instances -> {"none", "on", "closing", "off"}]
    /\ \A i \in Instances : scheduler[i] = "on" => running[i] /\ name[i] = "cron"

\* An instance that was not built yet has no job in a scheduler.
JobsInv ==
    /\ jobs \in [Instances -> Seq(Job)]
    /\ scheduled \in [Instances -> [JobNames -> Nat]]
    /\ edits \in Nat
    /\ \A i \in Instances : name[i] = None => \A n \in JobNames : scheduled[i][n] = NoJob
    /\ JobsAreListed

ProducersInv == ManagerInv /\ LoopsInv /\ ChildInv /\ TerminalInv /\ ToldInv
=============================================================================
