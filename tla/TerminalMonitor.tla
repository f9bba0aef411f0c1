-------------------------- MODULE TerminalMonitor --------------------------
(***************************************************************************)
(* The terminal monitor polls the shell's history file. It remembers the    *)
(* size and the number of lines it has seen, and publishes the lines beyond *)
(* that number, the last Cap of them, once the file has grown. The shell    *)
(* appends commands and, at its history limit, drops the oldest lines.      *)
(* Commands are numbered in the order they are typed.                       *)
(***************************************************************************)
EXTENDS BaseProducer

CONSTANTS
    Cap,            \* commands published per check (10)
    LongLines,      \* the commands that take twice the bytes of the others
    MaxCommands,    \* bound: commands typed
    MaxTrims        \* bound: times the shell shortens the file

Terminal == "terminal_monitor"

Commands == 1 .. MaxCommands

TerminalAssumption ==
    /\ {Cap, MaxCommands, MaxTrims} \subseteq Nat /\ Cap > 0
    /\ LongLines \subseteq Commands

VARIABLES
    last_size, last_line_count,     \* each instance
    new_commands,                   \* each instance: those still to publish
    history, typed, trims,          \* environment: the file and the shell
    published                       \* history: the commands, as published

shell    == <<history, typed, trims>>
terminal == <<last_size, last_line_count, new_commands, shell, published>>

TerminalInit ==
    /\ last_size = [i \in Instances |-> 0]
    /\ last_line_count = [i \in Instances |-> 0]
    /\ new_commands = [i \in Instances |-> <<>>]
    /\ history = <<>> /\ typed = 0 /\ trims = 0
    /\ published = <<>>

FileSize(h) == Len(h) + Len(SelectSeq(h, LAMBDA k : k \in LongLines))

Suffix(h, n) == SubSeq(h, n + 1, Len(h))

\* The shell appends a command.
Type ==
    /\ typed < MaxCommands
    /\ typed' = typed + 1
    /\ history' = Append(history, typed + 1)
    /\ UNCHANGED trims

\* The shell writes the file anew without its oldest lines.
Trim ==
    /\ trims < MaxTrims
    /\ trims' = trims + 1
    /\ \E n \in 1 .. Len(history) : history' = Suffix(history, n)
    /\ UNCHANGED typed

\* start() skips everything the file holds. Here and in every check the size is
\* taken before the lines are read, and the shell may write between the two.
TerminalStart(i) ==
    /\ Type \/ Trim \/ UNCHANGED shell
    /\ last_size' = [last_size EXCEPT ![i] = FileSize(history)]
    /\ last_line_count' = [last_line_count EXCEPT ![i] = Len(history')]
    /\ UNCHANGED <<new_commands, published>>

\* Mutant: the first commands of the batch are kept.
LastOf_First(h, n) == IF Len(h) > n THEN SubSeq(h, 1, n) ELSE h
LastOf(h, n) == IF Len(h) > n THEN Suffix(h, Len(h) - n) ELSE h

\* _check_new_commands up to the first publish().
CheckNewCommands(i) ==
    /\ Resumes(i, "check")
    /\ FileSize(history) > last_size[i]
    /\ Type \/ Trim \/ UNCHANGED shell
    /\ LET new == LastOf(Suffix(history', last_line_count[i]), Cap)
       IN  /\ new_commands' = [new_commands EXCEPT ![i] = new]
           /\ Go(i, IF new = <<>> THEN "sleep" ELSE "publish")
    /\ last_line_count' = [last_line_count EXCEPT ![i] = Len(history')]
    /\ last_size' = [last_size EXCEPT ![i] = FileSize(history)]
    /\ UNCHANGED <<name, running, cancelled, errors, published>>

\* Mutant: a file that shrank is read again from its start.
NothingNew_Rewinds(i) ==
    LET shrank == FileSize(history) < last_size[i]
    IN  /\ Resumes(i, "check")
        /\ FileSize(history) <= last_size[i]
        /\ Go(i, "sleep")
        /\ last_size' = [last_size EXCEPT ![i] = FileSize(history)]
        /\ last_line_count' = [last_line_count EXCEPT ![i] = IF shrank THEN 0 ELSE @]
        /\ UNCHANGED <<name, running, cancelled, errors, new_commands, shell,
                       published>>

\* The file has not grown.
NothingNew(i) ==
    /\ Resumes(i, "check")
    /\ FileSize(history) <= last_size[i]
    /\ Go(i, "sleep")
    /\ UNCHANGED <<name, running, cancelled, errors, terminal>>

Record(i) == published' = Append(published, Head(new_commands[i]))

PublishCommand(i) ==
    /\ Resumes(i, "publish")
    /\ Record(i)
    /\ new_commands' = [new_commands EXCEPT ![i] = Tail(@)]
    /\ Go(i, IF Len(new_commands[i]) = 1 THEN "sleep" ELSE "publish")
    /\ UNCHANGED <<name, running, cancelled, errors, last_size,
                   last_line_count, shell>>

\* publish() raises: the commands of this check are given up.
CommandRaises(i) ==
    /\ Resumes(i, "publish")
    /\ Fails(i)
    /\ new_commands' = [new_commands EXCEPT ![i] = <<>>]
    /\ UNCHANGED <<name, running, cancelled, last_size, last_line_count, shell,
                   published>>

\* stop() cancels the loop. In publish(), the event was stored by then or never
\* will be.
TerminalStop(i) ==
    /\ running' = [running EXCEPT ![i] = FALSE]
    /\ cancelled' = [cancelled EXCEPT ![i] = TRUE]
    /\ (task[i] = "publish" /\ Record(i)) \/ UNCHANGED published
    /\ new_commands' = [new_commands EXCEPT ![i] = <<>>]
    /\ UNCHANGED <<name, task, errors, last_size, last_line_count, shell>>

TerminalLoop(i) ==
    /\ name[i] = Terminal
    /\ \/ CheckNewCommands(i) \/ NothingNew(i) \/ PublishCommand(i)
       \/ CommandRaises(i)
       \/ (Wake(i, "check") \/ Unwind(i)) /\ UNCHANGED terminal

Write == (Type \/ Trim) /\ UNCHANGED <<base, last_size, last_line_count,
                                       new_commands, published>>
=============================================================================
