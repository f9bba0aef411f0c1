---------------------------- MODULE WebSocketHub ----------------------------
(***************************************************************************)
(* The hub of the dashboards' sockets. broadcast iterates over the dict of   *)
(* subscribers and awaits every send, so that others register, unregister    *)
(* and broadcast in between. The dict is CPython's: its entries stand in a   *)
(* table in the order they came, one that is removed leaves a hole, and a    *)
(* full table is replaced by one without holes. An iterator goes by the      *)
(* place in the table; it raises when the number of entries is not what it   *)
(* was at its start, but does not notice a new table.                        *)
(***************************************************************************)
EXTENDS Naturals, Sequences, FiniteSets, FiniteSetsExt

CONSTANTS
    Broadcasts,
    Channels,       \* what a message can be about; a subscription is a set of them,
                    \* the wildcards ("events:*") spelt out
    DefaultChannels,
    MaxSubscribers, \* sockets that ever connect
    Usable          \* environment: entries that a table has room for which was made
                    \* for so many (CPython's smallest has five)

ASSUME HubAssumption ==
    /\ DefaultChannels \subseteq Channels /\ MaxSubscribers \in Nat
    /\ Usable \in [0 .. MaxSubscribers -> Nat]
    /\ \A n \in 0 .. MaxSubscribers : n < Usable[n]

VARIABLES
    entries,        \* _subscribers: its table, the ids registered and 0 for a hole
    room,           \* _subscribers: how many entries its table can have
    channels,       \* each id registered: its subscription
    _counter,
    closed,         \* environment: ids whose socket is closed
    orphans,        \* ids whose endpoint is gone: nobody will unregister them
    sending,        \* each broadcast: "idle", "sending", "returned" or "raised"
    about,          \* each broadcast: its channel
    to,             \* each broadcast: the id whose send is awaited
    place, size, rest,  \* each broadcast: of its iterator, the next place, the size and
                    \* how many entries are left
    failed,         \* each broadcast: dead
    sent,           \* history: each broadcast: ids it tried
    owed,           \* history: each broadcast: ids subscribed since it began
    moved           \* history: broadcasts under which a table with holes was replaced

dict     == <<entries, room>>
iterator == <<to, place, size, rest>>
hub == <<dict, channels, _counter, closed, orphans, sending, about, iterator, failed, sent,
         owed, moved>>

Ids == 1 .. MaxSubscribers

Places == DOMAIN entries
Taken  == {k \in Places : entries[k] # 0}

\* The keys of the dict.
_subscribers == {entries[k] : k \in Taken}

HubInit ==
    /\ entries = << >> /\ room = Usable[0]
    /\ _counter = 0 /\ closed = {} /\ orphans = {} /\ moved = {}
    /\ channels = [i \in Ids |-> {}]
    /\ sending = [b \in Broadcasts |-> "idle"]
    /\ about = [b \in Broadcasts |-> CHOOSE c \in Channels : TRUE]
    /\ to = [b \in Broadcasts |-> 0] /\ place = [b \in Broadcasts |-> 0]
    /\ size = [b \in Broadcasts |-> 0] /\ rest = [b \in Broadcasts |-> 0]
    /\ failed = [b \in Broadcasts |-> {}]
    /\ sent = [b \in Broadcasts |-> {}]
    /\ owed = [b \in Broadcasts |-> {}]

-----------------------------------------------------------------------------
(* The subscribers. *)

\* What is left of owed when the subscribers are these with these channels.
StillOwed(subscribers, subscribed) ==
    owed' = [b \in Broadcasts |-> {i \in owed[b] : /\ i \in subscribers
                                                   /\ about[b] \in subscribed[i]}]

Drop(ids) ==
    /\ entries' = [k \in Places |-> IF entries[k] \in ids THEN 0 ELSE entries[k]]
    /\ channels' = [i \in Ids |-> IF i \in ids THEN {} ELSE channels[i]]
    /\ UNCHANGED room

\* An entry is put behind the last one, as long as the table has room or its
\* successor has the same entries at the same places.
Insert(id) ==
    /\ Len(entries) < room \/ Taken = Places
    /\ entries' = Append(entries, id)
    /\ room' = IF Len(entries) < room THEN room ELSE Usable[Len(entries)]
    /\ UNCHANGED moved

\* The table is full and has holes: those behind them move up.
InsertAnew(id) ==
    LET n == Cardinality(Taken)
    IN  /\ Len(entries) >= room /\ Taken # Places
        /\ \E old \in [1 .. n -> Taken] :
              /\ \A k \in 1 .. n : \A j \in 1 .. k - 1 : old[j] < old[k]
              /\ entries' = Append([k \in 1 .. n |-> entries[old[k]]], id)
        /\ room' = Usable[n]
        /\ moved' = moved \cup {b \in Broadcasts : sending[b] = "sending"}

\* accept and register.
Register ==
    /\ _counter < MaxSubscribers
    /\ _counter' = _counter + 1
    /\ Insert(_counter') \/ InsertAnew(_counter')
    /\ channels' = [channels EXCEPT ![_counter'] = DefaultChannels]
    /\ UNCHANGED <<closed, orphans, sending, about, iterator, failed, sent, owed>>

\* A message of a client: subscribe replaces its channels, unsubscribe takes some
\* away; a client that a broadcast has unregistered is not asked any more.
UpdateChannels ==
    \E i \in _subscribers \ (closed \cup orphans), new \in SUBSET Channels :
        /\ new # channels[i]
        /\ channels' = [channels EXCEPT ![i] = new]
        /\ StillOwed(_subscribers, channels')
        /\ UNCHANGED <<dict, _counter, closed, orphans, sending, about, iterator, failed,
                       sent, moved>>

\* The socket closes. The endpoint notices later, and unregisters.
Close ==
    /\ \E i \in 1 .. _counter : i \notin closed /\ closed' = closed \cup {i}
    /\ UNCHANGED <<dict, channels, _counter, orphans, sending, about, iterator, failed, sent,
                   owed, moved>>

\* JSON that is no object: the endpoint raises past its only except clause, and
\* the socket is closed without an unregister.
EndpointRaises ==
    /\ \E i \in (1 .. _counter) \ (closed \cup orphans) :
          orphans' = orphans \cup {i} /\ closed' = closed \cup {i}
    /\ UNCHANGED <<dict, channels, _counter, sending, about, iterator, failed, sent, owed,
                   moved>>

Unregister ==
    \E i \in (_subscribers \cap closed) \ orphans :
        /\ Drop({i})
        /\ StillOwed(_subscribers \ {i}, channels)
        /\ UNCHANGED <<_counter, closed, orphans, sending, about, iterator, failed, sent,
                       moved>>

-----------------------------------------------------------------------------
(* broadcast. *)

\* Mutant: the dead are left to the endpoints.
Bury_None(dead) == UNCHANGED <<dict, channels>>
\* Those whose send failed are unregistered after the loop.
Bury(dead) == Drop(dead)

Ends(b, how) ==
    /\ sending' = [sending EXCEPT ![b] = how]
    /\ to' = [to EXCEPT ![b] = 0] /\ place' = [place EXCEPT ![b] = 0]
    /\ rest' = [rest EXCEPT ![b] = 0]

\* The send to the entry at place k is awaited, with `left` entries to come.
SendTo(b, k, left) ==
    /\ sending' = [sending EXCEPT ![b] = "sending"]
    /\ to' = [to EXCEPT ![b] = entries[k]] /\ place' = [place EXCEPT ![b] = k + 1]
    /\ rest' = [rest EXCEPT ![b] = left]

\* The places of the subscribers of channel c.
Listening(c) == {k \in Taken : c \in channels[entries[k]]}

\* The iterator goes on at place `from` with `left` entries to come, up to the next
\* subscriber of the channel or the end.
Advance(b, c, from, used, left, dead) ==
    LET ahead == {k \in Taken : k >= from}
        match == {k \in Listening(c) : k >= from}
        read  == IF match = {} THEN ahead ELSE {k \in ahead : k <= Min(match)}
    IN  IF Cardinality(Taken) # used \/ Cardinality(read) > left
          THEN Ends(b, "raised") /\ UNCHANGED <<dict, channels, owed>>
        ELSE IF match = {}
          THEN /\ Ends(b, "returned")
               /\ Bury(dead)
               /\ StillOwed(_subscribers \ dead, channels)
        ELSE SendTo(b, Min(match), left - Cardinality(read)) /\ UNCHANGED <<dict, channels, owed>>

\* Up to the first send.
Broadcast(b) ==
    /\ sending[b] = "idle"
    /\ \E c \in Channels :
          LET match == Listening(c)
          IN  /\ about' = [about EXCEPT ![b] = c]
              /\ size' = [size EXCEPT ![b] = Cardinality(Taken)]
              /\ owed' = [owed EXCEPT ![b] = {entries[k] : k \in match}]
              /\ IF match = {} THEN Ends(b, "returned")
                 ELSE SendTo(b, Min(match), Cardinality({k \in Taken : k > Min(match)}))
    /\ UNCHANGED <<dict, channels, _counter, closed, orphans, failed, sent, moved>>

\* send_text returns, or raises because the socket is closed.
Sent(b) ==
    /\ sending[b] = "sending"
    /\ LET dead == failed[b] \cup ({to[b]} \cap closed)
       IN  /\ Advance(b, about[b], place[b], size[b], rest[b], dead)
           /\ failed' = [failed EXCEPT ![b] = dead]
    /\ sent' = [sent EXCEPT ![b] = @ \cup {to[b]}]
    /\ UNCHANGED <<_counter, closed, orphans, about, size, moved>>

\* The process is gone, and with it all of this.
HubGone ==
    /\ entries' = << >> /\ room' = Usable[0]
    /\ _counter' = 0 /\ closed' = {} /\ orphans' = {} /\ moved' = {}
    /\ channels' = [i \in Ids |-> {}]
    /\ sending' = [b \in Broadcasts |-> "idle"]
    /\ failed' = [b \in Broadcasts |-> {}]
    /\ sent' = [b \in Broadcasts |-> {}]
    /\ owed' = [b \in Broadcasts |-> {}]
    /\ UNCHANGED <<about, iterator>>

Clients == Register \/ UpdateChannels \/ Close \/ EndpointRaises \/ Unregister
=============================================================================
