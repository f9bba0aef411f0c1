--------------------------- MODULE DaemonProofs ---------------------------
(***************************************************************************)
(* Proofs about the installed daemon: its unit resolves the files of the     *)
(* shell that installed it, its broadcasts skip nobody, and a daemon that    *)
(* serves has its whole schema and seed. The three invariants are of three   *)
(* parts of the state; the last one needs the first, because a service can   *)
(* only be started from a unit.                                              *)
(***************************************************************************)
EXTENDS DaemonProperties, SequenceTheorems, FiniteSetTheorems, WellFoundedInduction, TLAPS

-----------------------------------------------------------------------------
(* The hub. *)

\* Who comes first of a set of ids is in it, and nobody comes before.
LEMMA FirstOfIds ==
    ASSUME NEW S \in SUBSET Nat, S # {}
    PROVE  Min(S) \in S /\ \A i \in S : Min(S) <= i
<1>1. PICK m \in S : \A i \in S : <<i, m>> \notin OpToRel(<, Nat)
  BY NatLessThanWellFounded, WFMin
<1>2. ASSUME NEW i \in S, i < m PROVE FALSE
  <2>1. <<i, m>> \in Nat \X Nat /\ <<i, m>>[1] < <<i, m>>[2]
    BY <1>2
  <2>2. <<i, m>> \in OpToRel(<, Nat)
    BY <2>1 DEF OpToRel
  <2> QED BY <1>1, <2>2
<1>3. \A i \in S : m <= i
  BY <1>2
<1> QED BY <1>1, <1>3 DEF Min

\* The invariant of one broadcast.
Fair(b) ==
    /\ failed[b] \subseteq 1 .. _counter
    /\ sending[b] = "idle" => failed[b] = {}
    /\ sending[b] = "sending" =>
          /\ to[b] \in 1 .. _counter /\ place[b] \in Nat
          /\ b \notin moved => InStep(b)
    /\ sending[b] = "returned" =>
          /\ owed[b] \subseteq sent[b] \/ b \in moved
          /\ failed[b] \cap _subscribers = {}

\* The types of the hub.
HubType ==
    /\ _counter \in 0 .. MaxSubscribers
    /\ entries \in Seq(0 .. _counter)
    /\ channels \in [Ids -> SUBSET Channels]
    /\ sending \in [Broadcasts -> {"idle", "sending", "returned", "raised"}]

\* The broadcasts are functions of their own.
Tables ==
    /\ about = [b \in Broadcasts |-> about[b]] /\ to = [b \in Broadcasts |-> to[b]]
    /\ place = [b \in Broadcasts |-> place[b]]
    /\ sent = [b \in Broadcasts |-> sent[b]] /\ owed = [b \in Broadcasts |-> owed[b]]
    /\ failed = [b \in Broadcasts |-> failed[b]]

HubAll == HubType /\ Tables /\ \A b \in Broadcasts : Fair(b)

\* What broadcast b has is what it had.
Untouched(b) ==
    /\ sending'[b] = sending[b] /\ about'[b] = about[b] /\ to'[b] = to[b]
    /\ place'[b] = place[b] /\ failed'[b] = failed[b] /\ sent'[b] = sent[b]

\* Who is registered stands in the table.
LEMMA Registered ==
    ASSUME HubType
    PROVE  /\ _counter \in Nat /\ 0 .. _counter \subseteq Nat
           /\ Places = 1 .. Len(entries) /\ Len(entries) \in Nat
           /\ _subscribers \subseteq 1 .. _counter
           /\ _subscribers \subseteq Ids
<1>1. _counter \in Nat /\ _counter <= MaxSubscribers /\ entries \in Seq(0 .. _counter)
  BY HubAssumption DEF HubType
<1>2. Places = 1 .. Len(entries) /\ Len(entries) \in Nat
  BY <1>1 DEF Places
<1>3. \A k \in Places : entries[k] \in 0 .. _counter
  BY <1>1, <1>2
<1>4. \A i \in _subscribers : i \in 0 .. _counter /\ i # 0
  BY <1>3 DEF _subscribers, Taken
<1> QED BY <1>1, <1>2, <1>4, HubAssumption DEF Ids

\* A broadcast stays fair when no id is given again and it stays in step, unless
\* the table is moved.
LEMMA StaysFair ==
    ASSUME HubType, _counter' \in Nat, _counter <= _counter', NEW b \in Broadcasts, Fair(b),
           Untouched(b), owed'[b] \subseteq owed[b],
           _subscribers' \subseteq _subscribers \cup (_counter + 1 .. _counter'),
           b \in moved => b \in moved',
           sending[b] = "sending" /\ b \notin moved' /\ InStep(b) => InStep(b)'
    PROVE  Fair(b)'
<1>1. _counter \in Nat
  BY Registered
<1>2. 1 .. _counter \subseteq 1 .. _counter'
  BY <1>1
<1>3. failed'[b] \subseteq 1 .. _counter'
  BY <1>2 DEF Fair, Untouched
<1>4. failed[b] \cap _subscribers = {} => failed'[b] \cap _subscribers' = {}
  BY <1>1 DEF Fair, Untouched
<1>5. sending'[b] = "sending" =>
        /\ to'[b] \in 1 .. _counter' /\ place'[b] \in Nat
        /\ b \notin moved' => InStep(b)'
  BY <1>2 DEF Fair, Untouched
<1>6. sending'[b] = "returned" => owed'[b] \subseteq sent'[b] \/ b \in moved'
  BY DEF Fair, Untouched
<1> QED BY <1>3, <1>4, <1>5, <1>6 DEF Fair, Untouched

\* A broadcast stays in step when what it still owes stays registered, at its
\* place, with its channel.
LEMMA StaysInStep ==
    ASSUME NEW b \in Broadcasts, Untouched(b), InStep(b),
           \A i \in owed'[b] : /\ i \in owed[b] /\ i \in _subscribers'
                               /\ about[b] \in channels'[i],
           \A k \in 1 .. Len(entries') :
               entries'[k] \in owed'[b] => k \in 1 .. Len(entries) /\ entries'[k] = entries[k]
    PROVE  InStep(b)'
BY DEF InStep, Untouched

\* A broadcast that nothing changed for.
LEMMA StaysFairToTheRest ==
    ASSUME HubType, _counter' = _counter, NEW b \in Broadcasts, Fair(b), Untouched(b),
           UNCHANGED <<entries, moved>>, owed'[b] \subseteq owed[b],
           \A i \in owed'[b] : channels'[i] = channels[i] \/ about[b] \in channels'[i]
    PROVE  Fair(b)'
<1>1. _counter \in Nat /\ _counter' \in Nat /\ _counter <= _counter'
  BY Registered
<1>2. _subscribers' = _subscribers
  BY DEF _subscribers, Taken, Places
<1>3. ASSUME InStep(b) PROVE InStep(b)'
  <2>1. \A i \in owed'[b] : /\ i \in owed[b] /\ i \in _subscribers'
                            /\ about[b] \in channels'[i]
    BY <1>2, <1>3 DEF InStep
  <2> QED BY <1>3, <2>1, StaysInStep
<1> HIDE DEF HubType, Fair, Untouched
<1> QED BY <1>1, <1>2, <1>3, StaysFair

\* What is dropped leaves holes.
LEMMA DropLeavesHoles ==
    ASSUME HubType, NEW ids, Drop(ids)
    PROVE  /\ entries' \in Seq(0 .. _counter) /\ Len(entries') = Len(entries)
           /\ \A k \in 1 .. Len(entries) :
                  entries'[k] = IF entries[k] \in ids THEN 0 ELSE entries[k]
           /\ _subscribers' = _subscribers \ ids
           /\ channels' \in [Ids -> SUBSET Channels]
           /\ \A i \in _subscribers' : channels'[i] = channels[i]
<1>1. /\ entries \in Seq(0 .. _counter) /\ Places = 1 .. Len(entries) /\ Len(entries) \in Nat
      /\ _counter \in Nat /\ _subscribers \subseteq Ids
  BY Registered DEF HubType
<1>2. entries' = [k \in 1 .. Len(entries) |-> IF entries[k] \in ids THEN 0 ELSE entries[k]]
  BY <1>1 DEF Drop
<1>3. /\ entries' \in Seq(0 .. _counter) /\ Len(entries') = Len(entries)
      /\ \A k \in 1 .. Len(entries) :
             entries'[k] = IF entries[k] \in ids THEN 0 ELSE entries[k]
  BY <1>1, <1>2
<1>4. Places' = Places
  BY <1>1, <1>3 DEF Places
<1>5. _subscribers' = _subscribers \ ids
  <2>1. Taken' = {k \in Taken : entries[k] \notin ids}
    BY <1>1, <1>3, <1>4 DEF Taken
  <2>2. \A k \in Taken' : entries'[k] = entries[k]
    BY <1>1, <1>3, <2>1 DEF Taken
  <2> QED BY <2>1, <2>2 DEF _subscribers
<1>6. channels' \in [Ids -> SUBSET Channels]
  BY DEF Drop, HubType
<1>7. \A i \in _subscribers' : channels'[i] = channels[i]
  BY <1>1, <1>5 DEF Drop
<1> QED BY <1>3, <1>5, <1>6, <1>7

\* A broadcast stays fair when others are dropped.
LEMMA StaysFairToDropped ==
    ASSUME HubType, _counter' = _counter, NEW b \in Broadcasts, Fair(b), Untouched(b),
           moved' = moved, NEW ids, Drop(ids),
           owed'[b] = {i \in owed[b] : i \in _subscribers \ ids /\ about[b] \in channels[i]}
    PROVE  Fair(b)'
<1>1. /\ Len(entries') = Len(entries)
      /\ \A k \in 1 .. Len(entries) :
             entries'[k] = IF entries[k] \in ids THEN 0 ELSE entries[k]
      /\ _subscribers' = _subscribers \ ids
      /\ \A i \in _subscribers' : channels'[i] = channels[i]
  BY DropLeavesHoles
<1>2. _counter \in Nat /\ _counter' \in Nat /\ _counter <= _counter'
      /\ _subscribers \subseteq 1 .. _counter
  BY Registered
<1>3. ASSUME InStep(b) PROVE InStep(b)'
  <2>1. \A i \in owed'[b] : /\ i \in owed[b] /\ i \in _subscribers'
                            /\ about[b] \in channels'[i]
    BY <1>1
  <2>2. \A k \in 1 .. Len(entries') :
            entries'[k] \in owed'[b] => k \in 1 .. Len(entries) /\ entries'[k] = entries[k]
    <3> SUFFICES ASSUME NEW k \in 1 .. Len(entries), entries'[k] \in owed'[b]
                 PROVE  entries'[k] = entries[k]
      BY <1>1
    <3>1. entries'[k] \in 1 .. _counter
      BY <1>2
    <3>2. entries'[k] # 0
      BY <1>2, <3>1
    <3> QED BY <1>1, <3>2
  <2> HIDE DEF InStep, Untouched
  <2> QED BY <1>3, <2>1, <2>2, StaysInStep
<1>4. owed'[b] \subseteq owed[b] /\ _subscribers' \subseteq _subscribers
  BY <1>1
<1> HIDE DEF HubType, Fair, Untouched
<1> QED BY <1>2, <1>3, <1>4, StaysFair

\* What a new entry does to the table.
LEMMA InsertAtTheEnd ==
    ASSUME HubType, NEW id, id = _counter + 1, _counter' = id, Insert(id)
    PROVE  /\ entries' \in Seq(0 .. _counter') /\ Len(entries') = Len(entries) + 1
           /\ \A k \in 1 .. Len(entries) : entries'[k] = entries[k]
           /\ entries'[Len(entries) + 1] = id
           /\ _subscribers \subseteq _subscribers' /\ _subscribers' \subseteq _subscribers \cup {id}
           /\ moved' = moved
<1>1. /\ entries \in Seq(0 .. _counter) /\ Places = 1 .. Len(entries) /\ Len(entries) \in Nat
      /\ _counter \in Nat
  BY Registered DEF HubType
<1>2. entries' = Append(entries, id) /\ moved' = moved
  BY DEF Insert
<1>3. entries \in Seq(0 .. id) /\ id \in 0 .. id
  BY <1>1
<1>4. /\ entries' \in Seq(0 .. _counter') /\ Len(entries') = Len(entries) + 1
      /\ \A k \in 1 .. Len(entries) : entries'[k] = entries[k]
      /\ entries'[Len(entries) + 1] = id
  BY <1>1, <1>2, <1>3
<1>5. Places' = 1 .. Len(entries) + 1
  BY <1>4 DEF Places
<1>6. \A k \in Taken : k \in Taken' /\ entries'[k] = entries[k]
  BY <1>1, <1>4, <1>5 DEF Taken
<1>7. \A k \in Taken' : (k \in Taken /\ entries'[k] = entries[k]) \/ entries'[k] = id
  BY <1>1, <1>4, <1>5 DEF Taken
<1> QED BY <1>2, <1>4, <1>6, <1>7 DEF _subscribers

LEMMA InsertInNewTable ==
    ASSUME HubType, NEW id, id = _counter + 1, _counter' = id, InsertAnew(id)
    PROVE  /\ entries' \in Seq(0 .. _counter')
           /\ _subscribers' \subseteq _subscribers \cup {id}
           /\ moved' = moved \cup {b \in Broadcasts : sending[b] = "sending"}
<1>1. /\ entries \in Seq(0 .. _counter) /\ Places = 1 .. Len(entries) /\ Len(entries) \in Nat
      /\ _counter \in Nat
  BY Registered DEF HubType
<1> DEFINE n == Cardinality(Taken)
<1>2. n \in Nat
  <2>1. IsFiniteSet(1 .. Len(entries)) /\ Taken \subseteq 1 .. Len(entries)
    BY <1>1, FS_Interval DEF Taken
  <2> QED BY <2>1, FS_Subset, FS_CardinalityType
<1>3. PICK old \in [1 .. n -> Taken] : entries' = Append([k \in 1 .. n |-> entries[old[k]]], id)
  BY DEF InsertAnew
<1> HIDE DEF n
<1> DEFINE up == [k \in 1 .. n |-> entries[old[k]]]
<1>4. \A k \in 1 .. n : old[k] \in Taken /\ entries[old[k]] \in 0 .. id
  <2>1. \A j \in Taken : entries[j] \in 0 .. id
    BY <1>1 DEF Taken
  <2> QED BY <2>1
<1>5. up \in Seq(0 .. id) /\ Len(up) = n /\ id \in 0 .. id
  BY <1>1, <1>2, <1>4
<1>6. \A k \in 1 .. n : up[k] = entries[old[k]]
  OBVIOUS
<1> HIDE DEF up
<1>7. /\ entries' \in Seq(0 .. _counter') /\ Len(entries') = n + 1
      /\ \A k \in 1 .. n : entries'[k] = up[k]
      /\ entries'[n + 1] = id
  <2>1. entries' = Append(up, id)
    BY <1>3 DEF up
  <2> QED BY <1>2, <1>5, <2>1
<1>8. _subscribers' \subseteq _subscribers \cup {id}
  <2>1. Places' = 1 .. n + 1
    BY <1>2, <1>7 DEF Places
  <2>2. \A k \in Taken' : k \in 1 .. n \/ k = n + 1
    BY <1>2, <2>1 DEF Taken
  <2>3. \A k \in Taken' : (\E j \in Taken : entries'[k] = entries[j]) \/ entries'[k] = id
    BY <1>4, <1>6, <1>7, <2>2
  <2> QED BY <2>3 DEF _subscribers
<1> QED BY <1>7, <1>8 DEF InsertAnew

LEMMA ClientsStayFair == HubAll /\ Clients => HubAll'
<1> SUFFICES ASSUME HubAll, Clients PROVE HubAll'
  OBVIOUS
<1> USE HubAssumption DEF HubAll
<1>0. /\ _counter \in Nat /\ _counter + 1 > _counter /\ _subscribers \subseteq 1 .. _counter
      /\ _subscribers \subseteq Ids /\ _counter + 1 \notin _subscribers
      /\ _counter + 1 .. _counter + 1 = {_counter + 1}
  BY Registered
<1>1. CASE Register
  <2> DEFINE n == _counter + 1
  <2>1. /\ n \in Ids /\ _counter' = n /\ (Insert(n) \/ InsertAnew(n))
        /\ channels' = [channels EXCEPT ![n] = DefaultChannels]
        /\ UNCHANGED <<sending, about, to, place, failed, sent, owed>>
    BY <1>0, <1>1 DEF Register, Ids, iterator
  <2>2. /\ entries' \in Seq(0 .. _counter') /\ _subscribers' \subseteq _subscribers \cup {n}
        /\ \A b \in moved : b \in moved'
    BY <2>1, InsertAtTheEnd, InsertInNewTable
  <2>3. HubType'
    <3>1. channels' \in [Ids -> SUBSET Channels]
      BY <2>1 DEF HubType
    <3>2. _counter' \in 0 .. MaxSubscribers
      BY <1>0, <2>1 DEF Ids
    <3>3. sending' \in [Broadcasts -> {"idle", "sending", "returned", "raised"}]
      BY <2>1 DEF HubType
    <3> QED BY <2>2, <3>1, <3>2, <3>3 DEF HubType
  <2>4. \A i \in _subscribers : channels'[i] = channels[i]
    <3> SUFFICES ASSUME NEW i \in _subscribers PROVE channels'[i] = channels[i]
      OBVIOUS
    <3>1. i \in Ids /\ i # n
      BY <1>0
    <3> QED BY <2>1, <3>1 DEF HubType
  <2>5. Tables'
    BY <2>1 DEF Tables
  <2>6. ASSUME NEW b \in Broadcasts PROVE Fair(b)'
    <3>1. Untouched(b) /\ owed'[b] = owed[b]
      BY <2>1 DEF Untouched
    <3>2. ASSUME sending[b] = "sending", b \notin moved', InStep(b) PROVE InStep(b)'
      <4>1. Insert(n)
        BY <2>1, <3>2, InsertInNewTable
      <4>2. /\ Len(entries') = Len(entries) + 1 /\ Len(entries) \in Nat
            /\ \A k \in 1 .. Len(entries) : entries'[k] = entries[k]
            /\ entries'[Len(entries) + 1] = n
            /\ _subscribers \subseteq _subscribers'
        BY <2>1, <4>1, InsertAtTheEnd, Registered
      <4>3. \A i \in owed'[b] : /\ i \in owed[b] /\ i \in _subscribers'
                                /\ about[b] \in channels'[i]
        BY <2>4, <3>1, <3>2, <4>2 DEF InStep
      <4>4. \A k \in 1 .. Len(entries') :
                entries'[k] \in owed'[b] => k \in 1 .. Len(entries) /\ entries'[k] = entries[k]
        <5>1. n \notin owed'[b]
          BY <1>0, <3>1, <3>2 DEF InStep
        <5> HIDE DEF n
        <5> QED BY <4>2, <5>1
      <4> QED BY <3>1, <3>2, <4>3, <4>4, StaysInStep
    <3>3. /\ _counter' \in Nat /\ _counter <= _counter'
          /\ _subscribers' \subseteq _subscribers \cup (_counter + 1 .. _counter')
      BY <1>0, <2>1, <2>2
    <3> HIDE DEF n
    <3> QED BY <2>2, <3>1, <3>2, <3>3, StaysFair
  <2> QED BY <2>3, <2>5, <2>6
<1>2. CASE UpdateChannels
  <2>1. PICK i \in _subscribers, new \in SUBSET Channels :
           /\ channels' = [channels EXCEPT ![i] = new]
           /\ StillOwed(_subscribers, channels')
           /\ UNCHANGED <<entries, _counter, sending, about, to, place, failed, sent, moved>>
    BY <1>2 DEF UpdateChannels, dict, iterator
  <2>2. HubType'
    BY <2>1 DEF HubType
  <2>3. owed' = [b \in Broadcasts |-> {j \in owed[b] : /\ j \in _subscribers
                                                      /\ about[b] \in channels'[j]}]
    BY <2>1 DEF StillOwed
  <2>4. Tables'
    BY <2>1, <2>3 DEF Tables
  <2>5. ASSUME NEW b \in Broadcasts PROVE Fair(b)'
    BY <2>1, <2>3, StaysFairToTheRest DEF Untouched
  <2> QED BY <2>2, <2>4, <2>5
<1>3. CASE Close \/ EndpointRaises
  <2>1. UNCHANGED <<entries, channels, _counter, sending, about, to, place, failed, sent, owed,
                    moved>>
    BY <1>3 DEF Close, EndpointRaises, dict, iterator
  <2>2. HubType' /\ Tables'
    BY <2>1 DEF HubType, Tables
  <2>3. ASSUME NEW b \in Broadcasts PROVE Fair(b)'
    BY <2>1, StaysFairToTheRest DEF Untouched
  <2> QED BY <2>2, <2>3
<1>4. CASE Unregister
  <2>1. PICK i \in _subscribers :
           /\ Drop({i}) /\ StillOwed(_subscribers \ {i}, channels)
           /\ UNCHANGED <<_counter, sending, about, to, place, failed, sent, moved>>
    BY <1>4 DEF Unregister, iterator
  <2>2. HubType'
    BY <2>1, DropLeavesHoles DEF HubType
  <2>3. owed' = [b \in Broadcasts |-> {j \in owed[b] : /\ j \in _subscribers \ {i}
                                                      /\ about[b] \in channels[j]}]
    BY <2>1 DEF StillOwed
  <2>4. Tables'
    BY <2>1, <2>3 DEF Tables
  <2>5. ASSUME NEW b \in Broadcasts PROVE Fair(b)'
    <3>1. /\ Untouched(b) /\ _counter' = _counter /\ moved' = moved
          /\ owed'[b] = {j \in owed[b] : j \in _subscribers \ {i} /\ about[b] \in channels[j]}
      BY <2>1, <2>3 DEF Untouched
    <3> QED BY <2>1, <3>1, StaysFairToDropped
  <2> QED BY <2>2, <2>4, <2>5
<1> QED BY <1>1, <1>2, <1>3, <1>4 DEF Clients

\* Where a broadcast starts to send to the first that listens, it has passed
\* nobody else.
LEMMA FirstListener ==
    ASSUME HubType, NEW c, NEW from \in Nat, {k \in Listening(c) : k >= from} # {}
    PROVE  LET m == Min({k \in Listening(c) : k >= from})
           IN  /\ m \in Listening(c) /\ m >= from /\ m \in 1 .. Len(entries)
               /\ entries[m] \in 1 .. _counter
               /\ \A k \in Listening(c) : k >= from => m <= k
<1> DEFINE match == {k \in Listening(c) : k >= from}
           m == Min(match)
<1>1. match \in SUBSET Nat /\ Listening(c) \subseteq Taken /\ Taken \subseteq 1 .. Len(entries)
  BY Registered DEF Listening, Taken
<1>2. m \in match /\ \A k \in match : m <= k
  BY <1>1, FirstOfIds
<1> HIDE DEF m
<1>3. m \in Listening(c) /\ m >= from /\ m \in 1 .. Len(entries) /\ m \in Taken
  BY <1>1, <1>2
<1>4. entries[m] \in _subscribers
  BY <1>3 DEF _subscribers
<1>5. entries[m] \in 1 .. _counter
  BY <1>4, Registered
<1> QED BY <1>2, <1>3, <1>5 DEF m

\* The first sends of a broadcast go to the first subscriber of its channel.
LEMMA BroadcastStaysFair ==
    ASSUME HubAll, NEW b \in Broadcasts, Broadcast(b)
    PROVE  HubAll'
<1> USE DEF HubAll
<1>0. /\ _counter \in Nat /\ _subscribers \subseteq 1 .. _counter /\ Places = 1 .. Len(entries)
      /\ HubType /\ Tables
  BY Registered
<1>1. PICK c \in Channels :
        /\ about' = [about EXCEPT ![b] = c]
        /\ owed' = [owed EXCEPT ![b] = {entries[k] : k \in Listening(c)}]
        /\ IF Listening(c) = {} THEN Ends(b, "returned")
           ELSE SendTo(b, Min(Listening(c)), Cardinality({k \in Taken : k > Min(Listening(c))}))
  BY DEF Broadcast
<1> DEFINE match == Listening(c)
<1>2. /\ sending[b] = "idle" /\ failed[b] = {}
      /\ UNCHANGED <<entries, channels, _counter, failed, sent, moved>>
  BY DEF Broadcast, Fair, dict
<1>3. _subscribers' = _subscribers
  BY <1>2 DEF _subscribers, Taken, Places
<1> DEFINE Begun(how, first, at1) ==
        /\ how \in {"sending", "returned"}
        /\ about' = [about EXCEPT ![b] = c]
        /\ owed' = [owed EXCEPT ![b] = {entries[k] : k \in match}]
        /\ sending' = [sending EXCEPT ![b] = how] /\ to' = [to EXCEPT ![b] = first]
        /\ place' = [place EXCEPT ![b] = at1]
        /\ how = "returned" => match = {}
        /\ how = "sending" => /\ at1 - 1 \in 1 .. Len(entries) /\ at1 \in Nat
                              /\ first = entries[at1 - 1] /\ first \in 1 .. _counter
                              /\ \A k \in match : at1 - 1 <= k
<1>4. PICK how, first, at1 : Begun(how, first, at1)
  <2>1. CASE match = {}
    <3>1. Begun("returned", 0, 0)
      BY <1>1, <2>1 DEF Ends
    <3> HIDE DEF Begun
    <3> QED BY <3>1
  <2>2. CASE match # {}
    <3> DEFINE m == Min(match)
    <3>1. {k \in Listening(c) : k >= 0} = match
      <4>1. \A k \in Listening(c) : k \in Nat
        BY <1>0, Registered DEF Listening, Taken
      <4> QED BY <4>1
    <3>2. m \in 1 .. Len(entries) /\ entries[m] \in 1 .. _counter /\ \A k \in match : m <= k
      <4>1. \A k \in match : k >= 0
        BY <3>1
      <4>2. LET mm == Min({k \in Listening(c) : k >= 0})
            IN  /\ mm \in 1 .. Len(entries) /\ entries[mm] \in 1 .. _counter
                /\ \A k \in Listening(c) : k >= 0 => mm <= k
        BY <1>0, <2>2, <3>1, FirstListener
      <4> QED BY <3>1, <4>1, <4>2
    <3>3. /\ about' = [about EXCEPT ![b] = c]
          /\ owed' = [owed EXCEPT ![b] = {entries[k] : k \in match}]
          /\ sending' = [sending EXCEPT ![b] = "sending"]
          /\ to' = [to EXCEPT ![b] = entries[m]] /\ place' = [place EXCEPT ![b] = m + 1]
      BY <1>1, <2>2 DEF SendTo
    <3> HIDE DEF m, match
    <3>4. m + 1 - 1 = m /\ m + 1 \in Nat
      BY <3>2
    <3>5. Begun("sending", entries[m], m + 1)
      BY <2>2, <3>2, <3>3, <3>4
    <3> HIDE DEF Begun
    <3> QED BY <3>5
  <2> QED BY <2>1, <2>2
<1>5. HubType' /\ Tables'
  BY <1>2, <1>4 DEF HubType, Tables
<1>6. Fair(b)'
  <2>1. /\ about'[b] = c /\ owed'[b] = {entries[k] : k \in match} /\ sending'[b] = how
        /\ to'[b] = first /\ place'[b] = at1 /\ failed'[b] = {}
    BY <1>2, <1>4 DEF HubType, Tables
  <2>2. ASSUME how = "sending" PROVE InStep(b)'
    <3>1. ASSUME NEW i \in owed'[b] PROVE i \in _subscribers' /\ about'[b] \in channels'[i]
      BY <1>2, <1>3, <2>1, <3>1 DEF Listening, _subscribers
    <3>2. ASSUME NEW k \in 1 .. Len(entries), k < at1, entries[k] \in owed'[b]
          PROVE  entries[k] = to'[b]
      <4>1. PICK j \in match : entries[j] = entries[k]
        BY <2>1, <3>2
      <4>2. k \in match
        BY <1>0, <4>1 DEF Listening, Taken
      <4>3. at1 - 1 <= k /\ at1 \in Nat
        BY <1>4, <2>2, <4>2
      <4>4. k = at1 - 1
        BY <3>2, <4>3
      <4> QED BY <1>4, <2>1, <2>2, <4>4
    <3> QED BY <1>2, <2>1, <3>1, <3>2 DEF InStep
  <2>3. ASSUME how = "returned" PROVE owed'[b] = {}
    BY <1>4, <2>1, <2>3
  <2>4. how = "sending" => to'[b] \in 1 .. _counter' /\ place'[b] \in Nat
    BY <1>2, <1>4, <2>1
  <2>5. how \in {"sending", "returned"}
    BY <1>4
  <2> HIDE DEF Begun, match
  <2> QED BY <2>1, <2>2, <2>3, <2>4, <2>5 DEF Fair
<1>7. ASSUME NEW x \in Broadcasts \ {b} PROVE Fair(x)'
  <2>1. Untouched(x) /\ owed'[x] = owed[x]
    BY <1>2, <1>4 DEF Untouched, HubType, Tables
  <2> QED BY <1>2, <2>1, StaysFairToTheRest
<1> QED BY <1>5, <1>6, <1>7

\* A broadcast that goes on has tried whoever it owed up to where it is; one that
\* returns has nobody ahead.
LEMMA SentStaysFair ==
    ASSUME HubAll, NEW b \in Broadcasts, Sent(b)
    PROVE  HubAll'
<1> USE DEF HubAll
<1> DEFINE c == about[b]
           dead == failed[b] \cup ({to[b]} \cap closed)
           match == {k \in Listening(c) : k >= place[b]}
<1>0. /\ _counter \in Nat /\ _subscribers \subseteq 1 .. _counter /\ Places = 1 .. Len(entries)
      /\ HubType /\ Tables
  BY Registered
<1>1. /\ sending[b] = "sending" /\ failed' = [failed EXCEPT ![b] = dead]
      /\ sent' = [sent EXCEPT ![b] = @ \cup {to[b]}]
      /\ UNCHANGED <<_counter, about, moved>>
      /\ Advance(b, c, place[b], size[b], rest[b], dead)
  BY DEF Sent
<1>2. /\ to[b] \in 1 .. _counter /\ place[b] \in Nat /\ dead \subseteq 1 .. _counter
      /\ b \notin moved => InStep(b)
  BY <1>1 DEF Fair
<1>3. /\ failed'[b] = dead /\ sent'[b] = sent[b] \cup {to[b]} /\ about'[b] = about[b]
      /\ \A x \in Broadcasts \ {b} : /\ failed'[x] = failed[x] /\ sent'[x] = sent[x]
                                     /\ about'[x] = about[x]
      /\ failed' = [x \in Broadcasts |-> failed'[x]] /\ sent' = [x \in Broadcasts |-> sent'[x]]
      /\ about' = [x \in Broadcasts |-> about'[x]]
  BY <1>1 DEF Tables
<1>4. CASE Ends(b, "raised") /\ UNCHANGED <<dict, channels, owed>>
  <2>1. /\ sending' = [sending EXCEPT ![b] = "raised"] /\ to' = [to EXCEPT ![b] = 0]
        /\ place' = [place EXCEPT ![b] = 0] /\ UNCHANGED <<entries, channels, owed>>
    BY <1>4 DEF Ends, dict
  <2>2. HubType' /\ Tables'
    BY <1>1, <1>3, <2>1 DEF HubType, Tables
  <2>3. Fair(b)'
    BY <1>1, <1>2, <1>3, <2>1 DEF Fair, HubType
  <2>4. ASSUME NEW x \in Broadcasts \ {b} PROVE Fair(x)'
    <3>1. Untouched(x)
      BY <1>3, <2>1 DEF Untouched, HubType, Tables
    <3> QED BY <1>1, <2>1, <3>1, StaysFairToTheRest
  <2> QED BY <2>2, <2>3, <2>4
<1>5. CASE match = {} /\ Ends(b, "returned") /\ Bury(dead)
           /\ StillOwed(_subscribers \ dead, channels)
  <2>1. /\ sending' = [sending EXCEPT ![b] = "returned"] /\ to' = [to EXCEPT ![b] = 0]
        /\ place' = [place EXCEPT ![b] = 0] /\ Drop(dead)
        /\ owed' = [x \in Broadcasts |-> {i \in owed[x] : /\ i \in _subscribers \ dead
                                                         /\ about[x] \in channels[i]}]
    BY <1>5 DEF Ends, Bury, StillOwed
  <2>2. /\ entries' \in Seq(0 .. _counter) /\ _subscribers' = _subscribers \ dead
        /\ channels' \in [Ids -> SUBSET Channels]
    BY <1>0, <2>1, DropLeavesHoles
  <2>3. HubType'
    BY <1>1, <2>1, <2>2 DEF HubType
  <2>4. Tables'
    BY <1>1, <1>3, <2>1 DEF HubType, Tables
  <2>5. Fair(b)'
    <3>1. sending'[b] = "returned" /\ failed'[b] \cap _subscribers' = {}
      BY <1>3, <2>1, <2>2 DEF HubType
    <3>2. ASSUME NEW i \in owed'[b], b \notin moved PROVE i \in sent'[b]
      <4>1. i \in owed[b] /\ i \in _subscribers /\ c \in channels[i]
        BY <2>1
      <4>2. PICK k \in Taken : entries[k] = i
        BY <4>1 DEF _subscribers
      <4>3. k \in 1 .. Len(entries) /\ k \in Listening(c)
        BY <1>0, <4>1, <4>2 DEF Listening, Taken
      <4>4. k < place[b]
        BY <1>2, <1>5, <4>3
      <4> QED BY <1>2, <1>3, <3>2, <4>1, <4>2, <4>3, <4>4 DEF InStep
    <3>3. failed'[b] \subseteq 1 .. _counter'
      BY <1>1, <1>2, <1>3
    <3> HIDE DEF dead, match
    <3> QED BY <1>1, <3>1, <3>2, <3>3 DEF Fair
  <2>6. ASSUME NEW x \in Broadcasts \ {b} PROVE Fair(x)'
    <3>1. Untouched(x)
      BY <1>3, <2>1 DEF Untouched, HubType, Tables
    <3>2. /\ owed'[x] = {i \in owed[x] : i \in _subscribers \ dead /\ about[x] \in channels[i]}
          /\ _counter' = _counter /\ moved' = moved
      BY <1>1, <2>1
    <3> HIDE DEF dead, HubType, Fair, Untouched
    <3> QED BY <1>0, <2>1, <3>1, <3>2, StaysFairToDropped
  <2> QED BY <2>3, <2>4, <2>5, <2>6
<1>6. CASE match # {} /\ (\E left : SendTo(b, Min(match), left))
           /\ UNCHANGED <<dict, channels, owed>>
  <2> DEFINE m == Min(match)
  <2>1. /\ m >= place[b] /\ m \in 1 .. Len(entries) /\ entries[m] \in 1 .. _counter
        /\ \A k \in Listening(c) : k >= place[b] => m <= k
    BY <1>0, <1>2, <1>6, FirstListener
  <2>2. /\ sending' = [sending EXCEPT ![b] = "sending"]
        /\ to' = [to EXCEPT ![b] = entries[m]] /\ place' = [place EXCEPT ![b] = m + 1]
        /\ UNCHANGED <<entries, channels, owed>>
    BY <1>6 DEF SendTo, dict
  <2> HIDE DEF m
  <2>3. HubType' /\ Tables'
    BY <1>1, <1>3, <2>2 DEF HubType, Tables
  <2>4. _subscribers' = _subscribers
    BY <2>2 DEF _subscribers, Taken, Places
  <2>5. sending'[b] = "sending" /\ to'[b] = entries[m] /\ place'[b] = m + 1
    BY <2>2 DEF HubType, Tables
  <2>6. Fair(b)'
    <3>1. ASSUME b \notin moved PROVE InStep(b)'
      <4>1. \A i \in owed'[b] : i \in _subscribers' /\ about'[b] \in channels'[i]
        BY <1>2, <1>3, <2>2, <2>4, <3>1 DEF InStep
      <4>2. ASSUME NEW k \in 1 .. Len(entries), k < m + 1, entries[k] \in owed[b]
            PROVE  entries[k] \in sent'[b] \cup {to'[b]}
        <5>1. CASE k < place[b]
          BY <1>2, <1>3, <3>1, <4>2, <5>1 DEF InStep
        <5>2. CASE ~ (k < place[b])
          <6>1. entries[k] \in _subscribers /\ c \in channels[entries[k]]
            BY <1>2, <3>1, <4>2 DEF InStep
          <6>2. entries[k] # 0
            BY <1>0, <6>1
          <6>3. k \in Listening(c)
            BY <1>0, <6>1, <6>2 DEF Listening, Taken
          <6>4. m <= k
            BY <1>2, <2>1, <5>2, <6>3
          <6>5. k = m
            BY <2>1, <4>2, <6>4
          <6> QED BY <2>5, <6>5
        <5> QED BY <5>1, <5>2
      <4> QED BY <2>2, <2>5, <4>1, <4>2 DEF InStep
    <3>2. /\ to'[b] \in 1 .. _counter' /\ place'[b] \in Nat
          /\ failed'[b] \subseteq 1 .. _counter'
      BY <1>1, <1>2, <1>3, <2>1, <2>5
    <3> HIDE DEF dead, match
    <3> QED BY <1>1, <2>5, <3>1, <3>2 DEF Fair
  <2>7. ASSUME NEW x \in Broadcasts \ {b} PROVE Fair(x)'
    <3>1. Untouched(x)
      BY <1>3, <2>2 DEF Untouched, HubType, Tables
    <3> QED BY <1>1, <2>2, <3>1, StaysFairToTheRest
  <2> QED BY <2>3, <2>6, <2>7
<1> QED BY <1>1, <1>4, <1>5, <1>6 DEF Advance

LEMMA GoneStaysFair == HubGone /\ Tables => HubAll'
<1> SUFFICES ASSUME HubGone, Tables PROVE HubAll'
  OBVIOUS
<1> USE HubAssumption DEF HubGone, iterator
<1>1. HubType'
  BY DEF HubType
<1>2. Tables'
  BY DEF Tables
<1>3. ASSUME NEW b \in Broadcasts PROVE Fair(b)'
  BY DEF Fair
<1> QED BY <1>1, <1>2, <1>3 DEF HubAll

\* What can happen to the hub.
LEMMA HubSteps ==
    Next => \/ UNCHANGED hub \/ HubGone \/ Clients
            \/ \E b \in Broadcasts : Broadcast(b) \/ Sent(b)
<1>2. Command => HubGone \/ UNCHANGED hub
  BY DEF Command, OnlyInstall, StopService, StartService, RenewService
<1>3. PurgeAll \/ Supervise \/ Foreground => UNCHANGED hub
  BY DEF PurgeAll, Supervise, Foreground, StartService
<1>4. ASSUME NEW p \in Procs
      PROVE  Shutdown(p) \/ Proceed(p) \/ CrashOf(p) => HubGone \/ UNCHANGED hub
  BY DEF Shutdown, Proceed, CrashOf
<1>5. Hub => Clients \/ \E b \in Broadcasts : Broadcast(b)
  BY DEF Hub, Dashboards
<1>6. ASSUME NEW b \in Broadcasts PROVE Send(b) => Sent(b)
  BY DEF Send
<1>7. Rests => UNCHANGED hub
  BY DEF Rests, vars
<1> QED BY <1>2, <1>3, <1>4, <1>5, <1>6, <1>7 DEF Next, OnlyInstall

\* A broadcast owes its message to those who were subscribed to its channel since
\* it began, and as long as the table is not moved it has tried those at the places
\* its iterator has passed (broadcast).
THEOREM HubInvariant == Spec => [](HubInv /\ Tables)
<1>1. Init => HubAll
  <2>1. HubInit => HubAll
    <3> SUFFICES ASSUME HubInit PROVE HubAll
      OBVIOUS
    <3>1. HubType
      BY HubAssumption DEF HubInit, HubType
    <3>2. Tables /\ \A b \in Broadcasts : Fair(b)
      BY DEF HubInit, Tables, Fair
    <3> QED BY <3>1, <3>2 DEF HubAll
  <2> QED BY <2>1 DEF Init
<1>2. HubAll /\ [Next]_vars => HubAll'
  <2>1. HubAll /\ UNCHANGED hub => HubAll'
    <3> SUFFICES ASSUME HubAll, UNCHANGED hub PROVE HubAll'
      OBVIOUS
    <3>1. HubType' /\ Tables'
      BY DEF HubAll, hub, dict, iterator, HubType, Tables
    <3>2. ASSUME NEW b \in Broadcasts PROVE Fair(b)'
      <4>1. Untouched(b) /\ UNCHANGED <<entries, channels, _counter, moved>> /\ owed'[b] = owed[b]
        BY DEF hub, dict, iterator, Untouched
      <4>2. HubType /\ Tables /\ Fair(b)
        BY DEF HubAll
      <4> QED BY <4>1, <4>2, StaysFairToTheRest
    <3> QED BY <3>1, <3>2 DEF HubAll
  <2>2. UNCHANGED vars => UNCHANGED hub
    BY DEF vars
  <2>3. HubAll => Tables
    BY DEF HubAll
  <2> QED BY <2>1, <2>2, <2>3, HubSteps, ClientsStayFair, BroadcastStaysFair, SentStaysFair,
             GoneStaysFair
<1>3. HubAll => HubInv /\ Tables
  BY DEF HubAll, HubType, Fair, HubInv
<1> QED BY <1>1, <1>2, <1>3, PTL DEF Spec

\* A broadcast that returns has tried everybody it owed its message to, unless the
\* table was moved under it, and has unregistered whom it could not reach.
THEOREM EveryoneIsTried == Spec => []NobodyIsSkipped
<1>1. HubInv => NobodyIsSkipped
  BY DEF HubInv, NobodyIsSkipped
<1> QED BY <1>1, HubInvariant, PTL

-----------------------------------------------------------------------------
(* The statements of connect. *)

Kinds  == {"table", "column", "index", "trigger", "inspect"}
Things == {"events", "agents", "event_assignments", "memories", "memories_fts", "trace_id",
           "lane", "conversation", "iteration", "waiting_action_id", "reactive"}
Pairs  == Kinds \X Things

LEMMA FiveInOrder ==
    ASSUME NEW S, NEW s1 \in S, NEW s2 \in S, NEW s3 \in S, NEW s4 \in S, NEW s5 \in S
    PROVE  <<s1, s2, s3, s4, s5>> \in Seq(S) /\ Len(<<s1, s2, s3, s4, s5>>) = 5
OBVIOUS

LEMMA TwelveInOrder ==
    ASSUME NEW S, NEW s1 \in S, NEW s2 \in S, NEW s3 \in S, NEW s4 \in S, NEW s5 \in S,
           NEW s6 \in S, NEW s7 \in S, NEW s8 \in S, NEW s9 \in S, NEW s10 \in S,
           NEW s11 \in S, NEW s12 \in S
    PROVE  LET s == <<s1, s2, s3, s4, s5, s6, s7, s8, s9, s10, s11, s12>>
           IN  s \in Seq(S) /\ Len(s) = 12
OBVIOUS

LEMMA Joined ==
    ASSUME NEW S, NEW s \in Seq(S), NEW t \in Seq(S), Len(s) = 5, Len(t) = 12
    PROVE  /\ Len(s \o t) = 17
           /\ \A j \in 1 .. 17 : (s \o t)[j] = IF j <= 5 THEN s[j] ELSE t[j - 5]
<1> DEFINE u == s \o t
<1>1. /\ Len(u) = Len(s) + Len(t)
      /\ \A i \in 1 .. Len(s) + Len(t) : u[i] = IF i <= Len(s) THEN s[i] ELSE t[i - Len(s)]
  BY ConcatProperties
<1> HIDE DEF u
<1>2. Len(u) = 17 /\ \A j \in 1 .. 17 : u[j] = IF j <= 5 THEN s[j] ELSE t[j - 5]
  BY <1>1
<1> QED BY <1>2 DEF u

\* The seventeen statements: no column is added before the sixth, which is the
\* first look at the columns.
LEMMA StatementsInOrder ==
    /\ Len(Statements) = 17
    /\ \A j \in 1 .. 17 : /\ Statements[j] \in Pairs
                          /\ Statements[j] = IF j <= 5 THEN SCHEMA_SQL[j] ELSE Migrations[j - 5]
    /\ \A j \in 1 .. 6 : Statements[j][1] # "column"
    /\ Statements[6][1] = "inspect"
<1>1. \A k \in Kinds, t \in Things : <<k, t>> \in Pairs
  BY DEF Pairs
<1>2. SCHEMA_SQL \in Seq(Pairs) /\ Len(SCHEMA_SQL) = 5
  <2>1. /\ <<"table", "events">> \in Pairs /\ <<"index", "trace_id">> \in Pairs
        /\ <<"table", "agents">> \in Pairs /\ <<"table", "event_assignments">> \in Pairs
        /\ <<"index", "lane">> \in Pairs
    BY <1>1 DEF Kinds, Things
  <2> QED BY <2>1, FiveInOrder DEF SCHEMA_SQL
<1>3. Migrations \in Seq(Pairs) /\ Len(Migrations) = 12
  <2>1. /\ <<"inspect", "event_assignments">> \in Pairs /\ <<"column", "lane">> \in Pairs
        /\ <<"inspect", "events">> \in Pairs /\ <<"column", "trace_id">> \in Pairs
        /\ <<"table", "memories">> \in Pairs /\ <<"trigger", "memories_fts">> \in Pairs
        /\ <<"column", "conversation">> \in Pairs /\ <<"column", "iteration">> \in Pairs
        /\ <<"column", "waiting_action_id">> \in Pairs /\ <<"inspect", "agents">> \in Pairs
        /\ <<"column", "reactive">> \in Pairs
    BY <1>1 DEF Kinds, Things
  <2> QED BY <2>1, TwelveInOrder DEF Migrations
<1>4. /\ Len(Statements) = 17
      /\ \A j \in 1 .. 17 : Statements[j] = IF j <= 5 THEN SCHEMA_SQL[j] ELSE Migrations[j - 5]
  BY <1>2, <1>3, Joined DEF Statements
<1>5. \A j \in 1 .. 17 : Statements[j] \in Pairs
  <2>1. \A j \in 1 .. 5 : SCHEMA_SQL[j] \in Pairs
    BY <1>2, ElementOfSeq
  <2>2. \A j \in 1 .. 12 : Migrations[j] \in Pairs
    BY <1>3, ElementOfSeq
  <2> QED BY <1>4, <2>1, <2>2
<1>6. \A j \in 1 .. 5 : Statements[j][1] # "column"
  BY <1>4 DEF SCHEMA_SQL
<1>7. Statements[6][1] = "inspect"
  BY <1>4 DEF Migrations
<1> QED BY <1>4, <1>5, <1>6, <1>7

LEMMA WhatIsComplete ==
    Complete = {<<"table", "events">>, <<"table", "agents">>, <<"table", "event_assignments">>,
                <<"table", "memories">>, <<"column", "trace_id">>, <<"column", "reactive">>,
                <<"column", "lane">>, <<"column", "conversation">>, <<"column", "iteration">>,
                <<"column", "waiting_action_id">>, <<"index", "trace_id">>,
                <<"index", "lane">>, <<"trigger", "memories_fts">>}
<1>1. /\ Creates("events") = {<<"table", "events">>, <<"column", "trace_id">>}
      /\ Creates("agents") = {<<"table", "agents">>, <<"column", "reactive">>}
      /\ Creates("event_assignments") =
            {<<"table", "event_assignments">>, <<"column", "lane">>, <<"column", "conversation">>,
             <<"column", "iteration">>, <<"column", "waiting_action_id">>}
      /\ Creates("memories") = {<<"table", "memories">>}
  BY DEF Creates, ColumnsOf
<1> DEFINE brought == UNION {Creates(t) :
                              t \in {"events", "agents", "event_assignments", "memories"}}
<1>2. brought = Creates("events") \cup Creates("agents") \cup Creates("event_assignments")
                \cup Creates("memories")
  OBVIOUS
<1>3. Complete = brought \cup {<<"index", "trace_id">>, <<"index", "lane">>,
                               <<"trigger", "memories_fts">>}
  BY DEF Complete
<1> HIDE DEF brought
<1> QED BY <1>1, <1>2, <1>3
\* Nothing that is not in a complete schema is ever created.
Lawful(s) == /\ s[1] \in Kinds
             /\ s[1] = "table" => Creates(s[2]) \subseteq Complete /\ s \in Creates(s[2])
             /\ s[1] \in {"column", "index", "trigger"} => s \in Complete

LEMMA StatementsAreLawful == \A j \in 1 .. 17 : Lawful(Statements[j])
<1>1. \A t \in {"events", "agents", "event_assignments", "memories"} :
         Creates(t) \subseteq Complete /\ <<"table", t>> \in Creates(t)
  BY DEF Complete, Creates
<1>2. \A j \in 1 .. 5 : Lawful(SCHEMA_SQL[j])
  BY <1>1, WhatIsComplete DEF SCHEMA_SQL, Lawful, Kinds
<1>3. \A j \in 1 .. 12 : Lawful(Migrations[j])
  BY <1>1, WhatIsComplete DEF Migrations, Lawful, Kinds
<1> QED BY <1>2, <1>3, StatementsInOrder

\* Whatever did all seventeen is complete.
LEMMA AllStatementsComplete ==
    ASSUME NEW has \in SUBSET Complete, \A j \in 1 .. 17 : Did(Statements[j], has)
    PROVE  has = Complete
<1>1. /\ Did(SCHEMA_SQL[1], has) /\ Did(SCHEMA_SQL[2], has) /\ Did(SCHEMA_SQL[3], has)
      /\ Did(SCHEMA_SQL[4], has) /\ Did(SCHEMA_SQL[5], has)
  BY StatementsInOrder
<1>2. /\ Did(Migrations[2], has) /\ Did(Migrations[4], has) /\ Did(Migrations[5], has)
      /\ Did(Migrations[6], has) /\ Did(Migrations[8], has) /\ Did(Migrations[9], has)
      /\ Did(Migrations[10], has) /\ Did(Migrations[12], has)
  BY StatementsInOrder
<1>3. /\ <<"table", "events">> \in has /\ <<"index", "trace_id">> \in has
      /\ <<"table", "agents">> \in has /\ <<"table", "event_assignments">> \in has
      /\ <<"index", "lane">> \in has
  BY <1>1 DEF SCHEMA_SQL, Did
<1>4. /\ <<"column", "lane">> \in has /\ <<"column", "trace_id">> \in has
      /\ <<"table", "memories">> \in has /\ <<"trigger", "memories_fts">> \in has
      /\ <<"column", "conversation">> \in has /\ <<"column", "iteration">> \in has
      /\ <<"column", "waiting_action_id">> \in has /\ <<"column", "reactive">> \in has
  BY <1>2 DEF Migrations, Did
<1> QED BY <1>3, <1>4, WhatIsComplete

\* What a statement leaves: nothing is lost, and what it is for is there.
LEMMA ResultOfStatement ==
    ASSUME NEW p \in Procs, NEW s, Lawful(s), s = <<s[1], s[2]>>,
           NEW has \in SUBSET Complete, s[1] = "column" => columns[p] \subseteq has
    PROVE  /\ has \subseteq Result(p, s, has) /\ Result(p, s, has) \subseteq Complete
           /\ Did(s, Result(p, s, has))
<1>1. CASE s[1] = "table"
  <2>1. Result(p, s, has) = IF s \in has THEN has ELSE has \cup Creates(s[2])
    BY <1>1 DEF Result
  <2> QED BY <1>1, <2>1 DEF Did, Lawful
<1>2. CASE s[1] = "column"
  <2>1. Result(p, s, has) = IF s \in columns[p] THEN has ELSE has \cup {s}
    BY <1>2 DEF Result, Lacks
  <2> QED BY <1>2, <2>1 DEF Did, Lawful
<1>3. CASE s[1] = "inspect"
  BY <1>3 DEF Result, Did
<1>4. CASE s[1] \in {"index", "trigger"}
  <2>1. Result(p, s, has) = has \cup {s}
    BY <1>4 DEF Result
  <2> QED BY <1>4, <2>1 DEF Did, Lawful
<1> QED BY <1>1, <1>2, <1>3, <1>4 DEF Lawful, Kinds

-----------------------------------------------------------------------------
(* The installation. *)

USE InstallationAssumption DEF Directories, Databases, Yamls, Names, Steps, Procs

\* Where the shell that installs keeps its files.
Home == DefaultDir(Shell)

LEMMA HomeIsADirectory ==
    ASSUME setup \in Setups
    PROVE  Home \in Directories /\ Home # None
BY DEF Home, DefaultDir, Shell, Environments

\* A unit with the paths of the shell.
Pinned(u) == u.config = Home /\ u.db = Home

LEMMA RenderedIsPinned ==
    ASSUME setup \in Setups, python \in Nat
    PROVE  Pinned(RenderUnit) /\ RenderUnit # None
BY HomeIsADirectory DEF Pinned, RenderUnit, Home

\* What a command or the user can do to the installation.
Installs ==
    Begin \/ WriteConfig \/ BuildHelper \/ WriteUnit \/ Unlink \/ Interrupt \/ Unload
        \/ Load \/ Purge \/ EditFiles
        \/ \E done \in BOOLEAN : Enable(done) \/ Disable(done) \/ Restart(done)

LEMMA InstallSteps == Next => Installs \/ UNCHANGED installation
<1> USE DEF Installs
<1>1. Command => Installs
  BY DEF Command
<1>2. PurgeAll => Installs
  BY DEF PurgeAll
<1>3. ASSUME NEW p \in Procs
      PROVE  Shutdown(p) \/ Proceed(p) \/ CrashOf(p) => UNCHANGED installation
  BY DEF Shutdown, Proceed, CrashOf
<1>4. Supervise \/ Foreground \/ Hub => UNCHANGED installation
  BY DEF Supervise, Foreground, Hub
<1>5. ASSUME NEW b \in Broadcasts PROVE Send(b) => UNCHANGED installation
  BY DEF Send
<1>6. Rests => UNCHANGED installation
  BY DEF Rests, vars
<1> QED BY <1>1, <1>2, <1>3, <1>4, <1>5, <1>6 DEF Next

LEMMA UnitStep == UnitInv /\ Installs => UnitInv' /\ setup' = setup
<1> SUFFICES ASSUME UnitInv, Installs PROVE UnitInv' /\ setup' = setup
  OBVIOUS
<1> USE DEF UnitInv, StepTo, Running, NoCommand, files
<1>0. setup' = setup => Home' = Home
  BY DEF Home, DefaultDir, Shell
<1>1. CASE Begin
  <2>1. PICK name \in setup.commands : command' = [name |-> name, step |-> First(name)]
    BY <1>1 DEF Begin
  <2>2. name \in Names /\ First(name) \in {"config", "disable", "restart"}
    BY <2>1 DEF First
  <2> QED BY <1>0, <1>1, <2>1, <2>2 DEF Begin, Home
<1>2. CASE WriteConfig
  <2>1. yaml' \in [Directories -> Yamls]
    BY <1>2 DEF WriteConfig
  <2> QED BY <1>0, <1>2, <2>1 DEF WriteConfig, Home
<1>3. CASE BuildHelper
  BY <1>0, <1>3 DEF BuildHelper, Home
<1>4. CASE WriteUnit
  BY <1>0, <1>4, RenderedIsPinned DEF WriteUnit, Home, Pinned
<1>5. CASE Unlink
  BY <1>0, <1>5 DEF Unlink, Home
<1>6. CASE Interrupt
  BY <1>0, <1>6 DEF Interrupt, Home
<1>7. CASE Unload
  BY <1>0, <1>7 DEF Unload, Home
<1>8. CASE Load
  BY <1>0, <1>8 DEF Load, Home
<1>9. CASE Purge
  <2>1. yaml' \in [Directories -> Yamls]
    BY <1>9 DEF Purge
  <2> QED BY <1>0, <1>9, <2>1 DEF Purge, Home
<1>10. CASE EditFiles
  <2>1. yaml' \in [Directories -> Yamls] /\ python' \in Nat
    BY <1>10 DEF EditFiles
  <2> QED BY <1>0, <1>10, <2>1 DEF EditFiles, Home
<1>11. ASSUME NEW done \in BOOLEAN, Enable(done) PROVE UnitInv' /\ setup' = setup
  BY <1>0, <1>11 DEF Enable, Home
<1>12. ASSUME NEW done \in BOOLEAN, Disable(done) PROVE UnitInv' /\ setup' = setup
  BY <1>0, <1>12 DEF Disable, Home
<1>13. ASSUME NEW done \in BOOLEAN, Restart(done) PROVE UnitInv' /\ setup' = setup
  BY <1>0, <1>13 DEF Restart, Home
<1> QED
  BY <1>1, <1>2, <1>3, <1>4, <1>5, <1>6, <1>7, <1>8, <1>9, <1>10, <1>11, <1>12, <1>13
     DEF Installs

\* The unit that is written, and the one that the service manager knows, have the
\* paths of the shell that installed it, and no step starts a service without one
\* (_render_systemd_unit, _render_launchd_plist).
THEOREM UnitInvariant == Spec => []UnitInv
<1>1. Init => UnitInv
  BY DEF Init, InstallationInit, UnitInv, NoCommand
<1>2. UnitInv /\ [Next]_vars => UnitInv'
  <2>1. UNCHANGED vars => UNCHANGED installation
    BY DEF vars
  <2>2. UnitInv /\ UNCHANGED installation => UnitInv'
    BY DEF installation, files, UnitInv, DefaultDir, Shell
  <2> QED BY <2>1, <2>2, InstallSteps, UnitStep
<1> QED BY <1>1, <1>2, PTL DEF Spec

\* The service finds the files of the command line: the pinned directory is the
\* one where load_config finds a config.yaml, and where the database is, unless
\* config.yaml names another database or the shell exports other files.
THEOREM SamePathsResolve == Spec => []SameFiles
<1>1. UnitInv => SameFiles
  <2> SUFFICES ASSUME UnitInv, loaded # None, ~ConfigRaises(Serviced(loaded))
               PROVE  LET e == Serviced(loaded)
                          created == {d \in Databases : schema[d] # {}}
                      IN  /\ ResolveConfig(e) = ResolveConfig(Shell) \/ OtherConfig
                          /\ ResolveDb(e, created) = ResolveDb(Shell, created) \/ OtherDb
    BY DEF SameFiles
  <2> DEFINE e == Serviced(loaded)
             created == {d \in Databases : schema[d] # {}}
  <2>1. Home \in Directories /\ Home # None /\ loaded.config = Home /\ loaded.db = Home
    BY HomeIsADirectory DEF UnitInv, Home
  <2>2. e.config = Home /\ e.db = Home
    BY <2>1 DEF Serviced
  <2>3. ResolveConfig(e) = Home
    BY <2>1, <2>2 DEF ResolveConfig
  <2>4. yaml[Home] # Missing
    BY <2>1, <2>2, <2>3 DEF ConfigRaises
  <2>5. ~ OtherConfig => ResolveConfig(Shell) = Home
    <3> SUFFICES ASSUME ~ OtherConfig PROVE ResolveConfig(Shell) = Home
      OBVIOUS
    <3>1. CASE Shell.config # None
      BY <3>1 DEF OtherConfig, ResolveConfig, Home
    <3>2. CASE Shell.config = None
      <4>1. ~ (Shell.dev /\ yaml["cwd"] # Missing)
        BY <3>2 DEF OtherConfig
      <4> QED BY <2>4, <3>2, <4>1 DEF ResolveConfig, Home
    <3> QED BY <3>1, <3>2
  <2>6. ResolveDb(e, created) = Home
    BY <2>1, <2>2 DEF ResolveDb
  <2>7. ~ OtherDb => ResolveDb(Shell, created) = Home
    <3> SUFFICES ASSUME ~ OtherDb PROVE ResolveDb(Shell, created) = Home
      OBVIOUS
    <3>1. CASE Shell.db # None
      BY <3>1 DEF OtherDb, ResolveDb, Home
    <3>2. CASE Shell.db = None
      <4>1. YamlDb(Shell) = None /\ ~ (Shell.dev /\ schema["cwd"] # {})
        BY <3>2 DEF OtherDb
      <4>2. "cwd" \in created <=> schema["cwd"] # {}
        OBVIOUS
      <4> HIDE DEF created
      <4> QED BY <3>2, <4>1, <4>2 DEF ResolveDb, Home
    <3> QED BY <3>1, <3>2
  <2> QED BY <2>3, <2>5, <2>6, <2>7
<1> QED BY <1>1, UnitInvariant, PTL

-----------------------------------------------------------------------------
(* The databases, and the starts on them. *)

USE DEF ProcessType

\* The invariant of the starts, without the service manager.
Started == /\ ProcessType
           /\ \A d \in Databases : DatabaseInv(d)
           /\ \A p \in Procs : StartInv(p)

\* Only process p moves, within the types.
Alone(p) ==
    /\ ProcessType' /\ setup' = setup
    /\ \A q \in Procs \ {p} : /\ at'[q] = at[q] /\ next'[q] = next[q] /\ db'[q] = db[q]
                              /\ columns'[q] = columns[q]

\* Nothing of what another process relies on is lost.
Grows ==
    /\ \A d \in Databases : /\ schema[d] \subseteq schema'[d] /\ schema'[d] \subseteq Complete
                            /\ knowledge[d] \subseteq knowledge'[d]
                            /\ agents[d] \subseteq agents'[d] /\ rules[d] \subseteq rules'[d]
    /\ together \subseteq together'

\* Of database d nothing changes.
SameIn(d) ==
    /\ schema'[d] = schema[d] /\ knowledge'[d] = knowledge[d] /\ agents'[d] = agents[d]
    /\ rules'[d] = rules[d]

\* A process that starts is not disturbed by another one, but for the agents that
\* both seed.
LEMMA Undisturbed ==
    ASSUME NEW p \in Procs, NEW q \in Procs \ {p}, Alone(p), Grows, ProcessType, StartInv(q),
           at[q] = "agents" =>
               \/ db[q] \in together'
               \/ agents'[db[q]] = agents[db[q]] /\ (at'[p] = "agents" /\ db'[p] = db[q] =>
                                                         at[p] = "agents" /\ db[p] = db[q])
    PROVE  StartInv(q)'
<1> DEFINE d == db[q]
<1>1. at'[q] = at[q] /\ next'[q] = next[q] /\ db'[q] = d /\ columns'[q] = columns[q]
      /\ setup' = setup
  BY DEF Alone
<1>2. at[q] \in {"connect", "facts", "look", "agents", "rules", "bind", "serving"} =>
         /\ d \in Databases
         /\ schema[d] \subseteq schema'[d] /\ schema'[d] \subseteq Complete
         /\ knowledge[d] \subseteq knowledge'[d]
         /\ agents[d] \subseteq agents'[d] /\ rules[d] \subseteq rules'[d]
         /\ d \in together => d \in together'
  BY DEF StartInv, Grows
<1>3. at[q] = "agents" =>
         /\ d \in together' \/ \A a \in agents'[d] : a[2] = q
         /\ \A x \in Procs \ {q} : at'[x] = "agents" /\ db'[x] = d => d \in together'
  <2> SUFFICES ASSUME at[q] = "agents", d \notin together'
               PROVE  /\ \A a \in agents'[d] : a[2] = q
                      /\ \A x \in Procs \ {q} : ~ (at'[x] = "agents" /\ db'[x] = d)
    OBVIOUS
  <2>1. /\ d \notin together /\ agents'[d] = agents[d]
        /\ at'[p] = "agents" /\ db'[p] = d => at[p] = "agents" /\ db[p] = d
    BY <1>2
  <2>2. /\ \A a \in agents[d] : a[2] = q
        /\ \A x \in Procs \ {q} : ~ (at[x] = "agents" /\ db[x] = d)
    BY <2>1 DEF StartInv
  <2>3. \A x \in Procs \ {q} : x # p => at'[x] = at[x] /\ db'[x] = db[x]
    BY DEF Alone
  <2> QED BY <2>1, <2>2, <2>3
<1>4. at[q] = "connect" =>
         /\ next[q] \in 1 .. Len(Statements)
         /\ \A j \in 1 .. next[q] - 1 : Did(Statements[j], schema'[d])
         /\ next[q] > 6 => columns[q] \subseteq schema'[d]
  BY <1>2 DEF StartInv, Did
<1>5. at[q] \in {"facts", "look", "agents", "rules", "bind", "serving"} => schema'[d] = Complete
  BY <1>2 DEF StartInv
<1>6. /\ at[q] = "facts" => /\ next[q] \in 1 .. Len(Facts)
                            /\ \A j \in 1 .. next[q] - 1 : Facts[j] \in knowledge'[d]
      /\ at[q] \in {"look", "agents", "rules", "bind", "serving"} => Facts[1] \in knowledge'[d]
  BY <1>2 DEF StartInv
<1>7. at[q] = "agents" =>
         /\ next[q] \in 1 .. Len(DefaultAgents)
         /\ \A j \in 1 .. next[q] - 1 : DefaultAgents[j] \in {a[1] : a \in agents'[d]}
  BY <1>2 DEF StartInv
<1>8. at[q] = "rules" =>
         /\ next[q] \in 1 .. Len(DefaultRules)
         /\ ToSet(DefaultAgents) \subseteq {a[1] : a \in agents'[d]}
         /\ \A j \in 1 .. next[q] - 1 : DefaultRules[j] \in {r[1] : r \in rules'[d]}
  <2>1. \A x : x \in {a[1] : a \in agents[d]} /\ at[q] = "rules" => x \in {a[1] : a \in agents'[d]}
    BY <1>2
  <2>2. \A x : x \in {r[1] : r \in rules[d]} /\ at[q] = "rules" => x \in {r[1] : r \in rules'[d]}
    BY <1>2
  <2> QED BY <2>1, <2>2 DEF StartInv
<1>9. at[q] \in {"bind", "serving"} /\ setup.seed_defaults => agents'[d] # {}
  BY <1>2 DEF StartInv
<1>10. at[q] \in {"connect", "facts", "look", "agents", "rules", "bind", "serving"} =>
          d \in Databases
  BY <1>2
<1> HIDE DEF d
<1> QED BY <1>1, <1>3, <1>4, <1>5, <1>6, <1>7, <1>8, <1>9, <1>10 DEF StartInv

\* A database that nobody writes stays in order, when whoever seeded it still
\* does or is known to have been cut short.
LEMMA OtherDatabase ==
    ASSUME NEW d \in Databases, DatabaseInv(d), SameIn(d),
           d \in cut => d \in cut', d \in together => d \in together',
           \A q \in Procs : /\ SeedsFacts(q, d) => SeedsFacts(q, d)' \/ d \in cut'
                            /\ SeedsRows(q, d) => SeedsRows(q, d)' \/ d \in cut'
    PROVE  DatabaseInv(d)'
<1>1. FactsInv(d)'
  BY DEF DatabaseInv, FactsInv, SameIn
<1>2. RowsInv(d)'
  BY DEF DatabaseInv, RowsInv, SameIn
<1>3. /\ schema'[d] \subseteq Complete
      /\ \A a \in agents'[d] : /\ a = <<a[1], a[2]>>
                               /\ a[2] = "user" \/ a[1] \in ToSet(DefaultAgents)
      /\ \A r \in rules'[d] : r[1] \in ToSet(DefaultRules)
      /\ d \in together' \/ \A a, b \in agents'[d] : a[1] = b[1] => a = b
  BY DEF DatabaseInv, SameIn
<1> QED BY <1>1, <1>2, <1>3 DEF DatabaseInv

\* Process p ends, or begins again from the first statement; a seeding that it was
\* at is known to have been cut short.
Restarts(p) ==
    /\ Alone(p)
    /\ UNCHANGED <<schema, knowledge, agents, rules, together>>
    /\ cut \subseteq cut' /\ (Seeding(p) => db[p] \in cut')
    /\ \/ at'[p] \in {"off", "dead"}
       \/ at'[p] = "connect" /\ next'[p] = 1 /\ db'[p] \in Databases

LEMMA RestartKeeps ==
    ASSUME Started, NEW p \in Procs, Restarts(p)
    PROVE  Started'
<1>1. Grows
  BY DEF Started, DatabaseInv, Restarts, Grows
<1>2. ASSUME NEW q \in Procs \ {p} PROVE StartInv(q)'
  <2>1. at'[p] # "agents" /\ agents' = agents
    BY DEF Restarts
  <2> QED BY <1>1, <2>1, Undisturbed DEF Started, Restarts
<1>3. StartInv(p)'
  <2>1. CASE at'[p] \in {"off", "dead"}
    BY <2>1 DEF StartInv
  <2>2. CASE at'[p] = "connect" /\ next'[p] = 1 /\ db'[p] \in Databases
    BY <2>2, StatementsInOrder DEF StartInv
  <2> QED BY <2>1, <2>2 DEF Restarts
<1>4. ASSUME NEW d \in Databases PROVE DatabaseInv(d)'
  <2>1. SameIn(d) /\ (d \in cut => d \in cut') /\ (d \in together => d \in together')
    BY DEF Restarts, SameIn
  <2>2. ASSUME NEW q \in Procs
        PROVE  /\ SeedsFacts(q, d) => SeedsFacts(q, d)' \/ d \in cut'
               /\ SeedsRows(q, d) => SeedsRows(q, d)' \/ d \in cut'
    BY DEF Restarts, Alone, SeedsFacts, SeedsRows, Seeding
  <2> QED BY <2>1, <2>2, OtherDatabase DEF Started
<1>5. ProcessType'
  BY DEF Restarts, Alone
<1> QED BY <1>2, <1>3, <1>4, <1>5 DEF Started

LEMMA DeathRestarts ==
    ASSUME ProcessType, setup' = setup, NEW p \in Procs, Dies(p)
    PROVE  Restarts(p)
<1>1. /\ at' = [at EXCEPT ![p] = "dead"] /\ next' = [next EXCEPT ![p] = 1]
      /\ UNCHANGED <<db, columns, schema, knowledge, agents, rules, together>>
      /\ cut' = cut \cup (IF Seeding(p) THEN {db[p]} ELSE {})
  BY DEF Dies, Goes, contents
<1>2. ProcessType'
  BY <1>1
<1> QED BY <1>1, <1>2 DEF Restarts, Alone

\* Process p goes on with the database that it has, and nothing else changes than
\* what is said of it.
Works(p) ==
    /\ Alone(p) /\ db' = db /\ cut' = cut /\ db[p] \in Databases
    /\ \A d \in Databases \ {db[p]} : SameIn(d)

LEMMA WorkKeeps ==
    ASSUME Started, NEW p \in Procs, Works(p), Grows, \A d \in Databases \ {db[p]} :
               d \in together => d \in together',
           StartInv(p)', \A d \in Databases : d = db[p] => DatabaseInv(d)',
           \A q \in Procs \ {p} : at[q] = "agents" /\ db[q] = db[p] =>
               \/ db[q] \in together'
               \/ agents'[db[q]] = agents[db[q]] /\ (at'[p] = "agents" => at[p] = "agents")
    PROVE  Started'
<1>1. ASSUME NEW q \in Procs \ {p} PROVE StartInv(q)'
  <2>1. at[q] = "agents" => db[q] \in Databases
    BY DEF Started, StartInv
  <2>2. at[q] = "agents" =>
           \/ db[q] \in together'
           \/ agents'[db[q]] = agents[db[q]] /\ (at'[p] = "agents" /\ db'[p] = db[q] =>
                                                     at[p] = "agents" /\ db[p] = db[q])
    BY <2>1 DEF Works, SameIn
  <2> QED BY <2>2, Undisturbed DEF Started, Works
<1>2. ASSUME NEW d \in Databases, d # db[p] PROVE DatabaseInv(d)'
  <2>1. SameIn(d) /\ (d \in cut => d \in cut') /\ (d \in together => d \in together')
    BY <1>2 DEF Works
  <2>2. ASSUME NEW q \in Procs
        PROVE  /\ SeedsFacts(q, d) => SeedsFacts(q, d)' \/ d \in cut'
               /\ SeedsRows(q, d) => SeedsRows(q, d)' \/ d \in cut'
    <3>1. CASE q = p
      BY <1>2, <3>1 DEF SeedsFacts, SeedsRows
    <3>2. CASE q # p
      BY <3>2 DEF Works, Alone, SeedsFacts, SeedsRows
    <3> QED BY <3>1, <3>2
  <2> QED BY <2>1, <2>2, OtherDatabase DEF Started
<1> QED BY <1>1, <1>2 DEF Started, Works, Alone

\* The next statement, fact, agent or rule, or the place where process p goes.
LEMMA NextOfProcess ==
    ASSUME ProcessType, NEW p \in Procs, NEW last, NEW goal,
           goal \in {"facts", "look", "bind", "rules", "agents", "serving"},
           Proceeds(p, last, goal)
    PROVE  /\ at' \in [Procs -> {"off", "dead", "connect", "facts", "look", "agents", "rules",
                                 "bind", "serving"}]
           /\ next' \in [Procs -> Nat]
           /\ \A q \in Procs \ {p} : at'[q] = at[q] /\ next'[q] = next[q]
           /\ \/ next[p] = last /\ at'[p] = goal /\ next'[p] = 1
              \/ next[p] # last /\ at'[p] = at[p] /\ next'[p] = next[p] + 1
BY DEF Proceeds, Goes

LEMMA PlaceOfProcess ==
    ASSUME ProcessType, NEW p \in Procs, NEW goal,
           goal \in {"facts", "look", "bind", "rules", "agents", "serving"}, Goes(p, goal)
    PROVE  /\ at' \in [Procs -> {"off", "dead", "connect", "facts", "look", "agents", "rules",
                                 "bind", "serving"}]
           /\ next' \in [Procs -> Nat]
           /\ \A q \in Procs \ {p} : at'[q] = at[q] /\ next'[q] = next[q]
           /\ at'[p] = goal /\ next'[p] = 1
BY DEF Goes

LEMMA ConnectKeeps ==
    ASSUME Started, setup' = setup, NEW p \in Procs, Connect(p)
    PROVE  Started'
<1>1. CASE Refused(p, Statements[next[p]])
  <2>1. Dies(p)
    BY <1>1 DEF Connect
  <2> QED BY <2>1, DeathRestarts, RestartKeeps DEF Started
<1>2. CASE ~ Refused(p, Statements[next[p]])
  <2> DEFINE d == db[p]
             s == Statements[next[p]]
             has == schema[d]
             result == Result(p, s, has)
  <2>1. /\ at[p] = "connect" /\ schema' = [schema EXCEPT ![d] = result]
        /\ columns' = [columns EXCEPT ![p] = IF s[1] = "inspect" THEN has ELSE columns[p]]
        /\ Proceeds(p, Len(Statements), "facts")
        /\ UNCHANGED <<db, knowledge, agents, rules, cut, together>>
    BY <1>2 DEF Connect
  <2>2. /\ d \in Databases /\ next[p] \in 1 .. 17
        /\ \A j \in 1 .. next[p] - 1 : Did(Statements[j], has)
        /\ next[p] > 6 => columns[p] \subseteq has
    BY <2>1, StatementsInOrder DEF Started, StartInv
  <2>3. has \in SUBSET Complete
    BY <2>2 DEF Started, DatabaseInv
  <2>4. s[1] = "column" => next[p] > 6
    BY <2>2, StatementsInOrder
  <2>5. Lawful(s) /\ s = <<s[1], s[2]>>
    BY <2>2, StatementsAreLawful, StatementsInOrder DEF Pairs
  <2>6. has \subseteq result /\ result \subseteq Complete /\ Did(s, result)
    <3>1. s[1] = "column" => columns[p] \subseteq has
      BY <2>2, <2>4
    <3> HIDE DEF s, d, has
    <3> QED BY <2>3, <2>5, <3>1, ResultOfStatement
  <2>7. /\ at' \in [Procs -> {"off", "dead", "connect", "facts", "look", "agents", "rules",
                              "bind", "serving"}]
        /\ next' \in [Procs -> Nat]
        /\ \A q \in Procs \ {p} : at'[q] = at[q] /\ next'[q] = next[q]
        /\ \/ next[p] = 17 /\ at'[p] = "facts" /\ next'[p] = 1
           \/ next[p] # 17 /\ at'[p] = "connect" /\ next'[p] = next[p] + 1
    BY <2>1, NextOfProcess, StatementsInOrder DEF Started
  <2>8. next[p] = 6 => s[1] = "inspect"
    BY StatementsInOrder
  <2> HIDE DEF result, s, d, has
  <2>9. /\ schema' = [e \in Databases |-> IF e = d THEN result ELSE schema[e]]
        /\ schema[d] = has
    BY <2>1, <2>2 DEF Started, has
  <2>10. columns' = [q \in Procs |-> IF q = p THEN IF s[1] = "inspect" THEN has ELSE columns[p]
                                     ELSE columns[q]]
    BY <2>1 DEF Started
  <2>11. Works(p)
    <3>1. ProcessType'
      <4>1. /\ schema' = [e \in Databases |-> schema'[e]]
            /\ columns' = [q \in Procs |-> columns'[q]]
        BY <2>9, <2>10
      <4> QED BY <2>1, <2>7, <4>1 DEF Started
    <3>2. Alone(p)
      BY <2>1, <2>7, <2>10, <3>1 DEF Alone
    <3>3. \A e \in Databases \ {d} : SameIn(e)
      BY <2>1, <2>9 DEF SameIn
    <3> QED BY <2>1, <2>2, <3>2, <3>3 DEF Works, d
  <2>12. Grows
    BY <2>1, <2>6, <2>9 DEF Grows, Started, DatabaseInv
  <2>13. StartInv(p)'
    <3>1. db'[p] = d /\ schema'[d] = result
      BY <2>1, <2>2, <2>9 DEF d
    <3>2. ASSUME NEW j \in 1 .. next[p] PROVE Did(Statements[j], result)
      <4>1. CASE j = next[p]
        BY <2>6, <4>1 DEF s
      <4>2. CASE j # next[p]
        BY <2>2, <2>6, <4>2 DEF Did
      <4> QED BY <4>1, <4>2
    <3>3. CASE next[p] = 17
      <4>1. result = Complete
        BY <2>6, <3>2, <3>3, AllStatementsComplete
      <4>2. /\ 1 \in 1 .. Len(Facts) /\ \A j \in 1 .. 1 - 1 : FALSE
            /\ at'[p] = "facts" /\ next'[p] = 1
        BY <2>7, <3>3, StartupAssumption
      <4> QED BY <2>2, <3>1, <4>1, <4>2 DEF StartInv
    <3>4. CASE next[p] # 17
      <4>1. next'[p] > 6 => columns'[p] \subseteq result
        BY <2>2, <2>6, <2>7, <2>8, <2>10, <3>4
      <4>2. at'[p] = "connect" /\ next'[p] = next[p] + 1 /\ next'[p] \in 1 .. Len(Statements)
        BY <2>2, <2>7, <3>4, StatementsInOrder
      <4>3. next'[p] - 1 = next[p]
        <5>1. next[p] \in Nat
          BY <2>2
        <5> QED BY <4>2, <5>1
      <4> QED BY <2>2, <3>1, <3>2, <4>1, <4>2, <4>3 DEF StartInv
    <3> QED BY <3>3, <3>4
  <2>14. ASSUME NEW e \in Databases, e = db[p] PROVE DatabaseInv(e)'
    <3>1. \A q \in Procs : /\ SeedsFacts(q, e) => SeedsFacts(q, e)'
                           /\ SeedsRows(q, e) => SeedsRows(q, e)'
      BY <2>1, <2>7 DEF SeedsFacts, SeedsRows
    <3>2. FactsInv(e)' /\ RowsInv(e)'
      BY <2>1, <3>1 DEF Started, DatabaseInv, FactsInv, RowsInv
    <3>3. schema'[e] \subseteq Complete
      BY <2>6, <2>9, <2>14 DEF d
    <3> QED BY <2>1, <3>2, <3>3 DEF Started, DatabaseInv
  <2>15. \A q \in Procs \ {p} : agents'[db[q]] = agents[db[q]] /\ at'[p] # "agents"
    BY <2>1, <2>7
  <2> QED BY <2>1, <2>11, <2>12, <2>13, <2>14, <2>15, WorkKeeps
<1> QED BY <1>1, <1>2

\* The lists that are seeded are not empty.
LEMMA Lists ==
    ASSUME NEW list \in {Facts, DefaultAgents, DefaultRules}
    PROVE  /\ Len(list) \in Nat /\ 1 \in 1 .. Len(list)
           /\ \A i \in 1 .. Len(list) : list[i] \in ToSet(list)
           /\ \A x \in ToSet(list) : \E i \in 1 .. Len(list) : x = list[i]
<1>1. list \in Seq(ToSet(list)) /\ list # << >>
  BY StartupAssumption
<1>2. Len(list) \in Nat /\ DOMAIN list = 1 .. Len(list) /\ Len(list) # 0
  BY <1>1
<1> QED BY <1>2 DEF ToSet

LEMMA FactsKeep ==
    ASSUME Started, setup' = setup, NEW p \in Procs, SeedFact(p)
    PROVE  Started'
<1> DEFINE d == db[p]
<1>1. /\ at[p] = "facts" /\ d \in Databases /\ schema[d] = Complete
      /\ next[p] \in 1 .. Len(Facts)
      /\ \A j \in 1 .. next[p] - 1 : Facts[j] \in knowledge[d]
      /\ UNCHANGED <<db, columns, schema, agents, rules, cut, together>>
  BY DEF SeedFact, Started, StartInv
<1>2. AfterFacts \in {"look", "bind"} /\ (AfterFacts = "bind" => ~ setup.seed_defaults)
  BY DEF AfterFacts
<1>3. ASSUME NEW q \in Procs \ {p}, at'[p] # "agents"
      PROVE  at[q] = "agents" /\ db[q] = db[p] =>
                \/ db[q] \in together'
                \/ agents'[db[q]] = agents[db[q]] /\ (at'[p] = "agents" => at[p] = "agents")
  BY <1>1, <1>3
<1>4. CASE next[p] = 1 /\ Facts[1] \in knowledge[d]
  <2>1. Goes(p, AfterFacts) /\ knowledge' = knowledge
    BY <1>4 DEF SeedFact
  <2>2. /\ at' \in [Procs -> {"off", "dead", "connect", "facts", "look", "agents", "rules",
                              "bind", "serving"}]
        /\ next' \in [Procs -> Nat] /\ at'[p] = AfterFacts
        /\ \A q \in Procs \ {p} : at'[q] = at[q] /\ next'[q] = next[q]
    BY <1>2, <2>1, PlaceOfProcess DEF Started
  <2>3. Works(p)
    <3>1. ProcessType'
      BY <1>1, <2>1, <2>2 DEF Started
    <3> QED BY <1>1, <2>1, <2>2, <3>1 DEF Works, Alone, SameIn
  <2>4. Grows
    BY <1>1, <2>1 DEF Grows, Started, DatabaseInv
  <2>5. StartInv(p)'
    BY <1>1, <1>2, <1>4, <2>1, <2>2 DEF StartInv
  <2>6. ASSUME NEW e \in Databases, e = db[p] PROVE DatabaseInv(e)'
    <3>1. \A q \in Procs : /\ SeedsFacts(q, e) => SeedsFacts(q, e)'
                           /\ SeedsRows(q, e) => SeedsRows(q, e)'
      BY <1>1, <1>4, <2>2 DEF SeedsFacts, SeedsRows
    <3> QED BY <1>1, <2>1, <3>1, OtherDatabase DEF SameIn, Started
  <2> QED BY <1>1, <1>2, <1>3, <2>2, <2>3, <2>4, <2>5, <2>6, WorkKeeps
<1>5. CASE ~ (next[p] = 1 /\ Facts[1] \in knowledge[d])
  <2> DEFINE fact == Facts[next[p]]
             known == knowledge[d]
  <2>1. /\ knowledge' = [knowledge EXCEPT ![d] = known \cup {fact}]
        /\ Proceeds(p, Len(Facts), AfterFacts)
    BY <1>5 DEF SeedFact
  <2> HIDE DEF fact, known
  <2>2. /\ at' \in [Procs -> {"off", "dead", "connect", "facts", "look", "agents", "rules",
                              "bind", "serving"}]
        /\ next' \in [Procs -> Nat]
        /\ \A q \in Procs \ {p} : at'[q] = at[q] /\ next'[q] = next[q]
        /\ \/ next[p] = Len(Facts) /\ at'[p] = AfterFacts /\ next'[p] = 1
           \/ next[p] # Len(Facts) /\ at'[p] = "facts" /\ next'[p] = next[p] + 1
    BY <1>1, <1>2, <2>1, NextOfProcess DEF Started
  <2>3. knowledge' = [e \in Databases |-> IF e = d THEN known \cup {fact} ELSE knowledge[e]]
    BY <1>1, <2>1 DEF Started
  <2>4. Works(p)
    <3>1. ProcessType'
      <4>1. knowledge' = [e \in Databases |-> knowledge'[e]]
        BY <2>3
      <4> QED BY <1>1, <2>2, <4>1 DEF Started
    <3>2. Alone(p)
      BY <1>1, <2>2, <3>1 DEF Alone
    <3>3. \A e \in Databases \ {d} : SameIn(e)
      BY <1>1, <2>3 DEF SameIn
    <3> QED BY <1>1, <3>2, <3>3 DEF Works
  <2>5. Grows
    BY <1>1, <2>3 DEF Grows, Started, DatabaseInv, known
  <2>6. \A j \in 1 .. next[p] : Facts[j] \in known \cup {fact}
    <3>1. \A j \in 1 .. next[p] : j = next[p] \/ j \in 1 .. next[p] - 1
      BY <1>1
    <3> QED BY <1>1, <3>1 DEF fact, known
  <2>7. StartInv(p)'
    <3>1. db'[p] = d /\ schema'[d] = Complete /\ knowledge'[d] = known \cup {fact}
      BY <1>1, <2>3
    <3>2. next'[p] = next[p] + 1 => next'[p] - 1 = next[p]
      BY <1>1
    <3>3. Facts[1] \in known \cup {fact}
      BY <1>1, <2>6
    <3>4. next[p] # Len(Facts) => next[p] + 1 \in 1 .. Len(Facts)
      BY <1>1, Lists
    <3> QED BY <1>1, <1>2, <2>2, <2>6, <3>1, <3>2, <3>3, <3>4 DEF StartInv
  <2>8. ASSUME NEW e \in Databases, e = db[p] PROVE DatabaseInv(e)'
    <3>1. \A q \in Procs : SeedsRows(q, e) => SeedsRows(q, e)'
      BY <1>1, <2>2 DEF SeedsRows
    <3>2. RowsInv(e)'
      BY <1>1, <3>1 DEF Started, DatabaseInv, RowsInv
    <3>3. FactsInv(e)'
      <4>1. CASE next[p] = Len(Facts)
        <5>1. \A x \in ToSet(Facts) : x \in known \cup {fact}
          BY <2>6, <4>1, Lists
        <5> QED BY <2>3, <2>8, <5>1 DEF FactsInv
      <4>2. CASE next[p] # Len(Facts)
        <5>1. SeedsFacts(p, e)'
          BY <1>1, <2>2, <2>8, <4>2 DEF SeedsFacts
        <5> QED BY <5>1 DEF FactsInv
      <4> QED BY <4>1, <4>2
    <3> QED BY <1>1, <3>2, <3>3 DEF Started, DatabaseInv
  <2> QED BY <1>1, <1>2, <1>3, <2>2, <2>4, <2>5, <2>7, <2>8, WorkKeeps
<1> QED BY <1>4, <1>5

LEMMA LookKeeps ==
    ASSUME Started, setup' = setup, NEW p \in Procs, LookForAgents(p)
    PROVE  Started'
<1> DEFINE d == db[p]
           to_ == IF agents[d] # {} THEN "bind" ELSE "agents"
<1>1. /\ at[p] = "look" /\ d \in Databases /\ schema[d] = Complete /\ Facts[1] \in knowledge[d]
      /\ Goes(p, to_)
      /\ UNCHANGED <<db, columns, schema, knowledge, agents, rules, cut>>
  BY DEF LookForAgents, Started, StartInv, contents
<1>2. together' = together \cup {e \in {d} : /\ agents[e] = {}
                                            /\ \E q \in Procs \ {p} : at[q] = "agents" /\ db[q] = e}
  BY DEF LookForAgents
<1>3. /\ to_ \in {"bind", "agents"}
      /\ to_ = "bind" => agents[d] # {}
      /\ to_ = "agents" => agents[d] = {}
  OBVIOUS
<1> HIDE DEF to_
<1>4. /\ at' \in [Procs -> {"off", "dead", "connect", "facts", "look", "agents", "rules",
                            "bind", "serving"}]
      /\ next' \in [Procs -> Nat] /\ at'[p] = to_ /\ next'[p] = 1
      /\ \A q \in Procs \ {p} : at'[q] = at[q] /\ next'[q] = next[q]
  BY <1>1, <1>3, PlaceOfProcess DEF Started
<1>5. Works(p)
  <2>1. ProcessType'
    BY <1>1, <1>4 DEF Started
  <2> QED BY <1>1, <1>4, <2>1 DEF Works, Alone, SameIn
<1>6. Grows
  BY <1>1, <1>2 DEF Grows, Started, DatabaseInv
<1>7. ASSUME NEW q \in Procs \ {p}, at[q] = "agents", db[q] = d, to_ = "agents"
      PROVE  d \in together'
  BY <1>2, <1>3, <1>7
<1>8. StartInv(p)'
  <2>1. CASE to_ = "bind"
    BY <1>1, <1>3, <1>4, <2>1 DEF StartInv
  <2>2. CASE to_ = "agents"
    <3>1. \A q \in Procs \ {p} : at'[q] = "agents" /\ db'[q] = d => d \in together'
      BY <1>1, <1>4, <1>7, <2>2
    <3> QED BY <1>1, <1>3, <1>4, <2>2, <3>1, Lists DEF StartInv
  <2> QED BY <1>3, <2>1, <2>2
<1>9. ASSUME NEW e \in Databases, e = db[p] PROVE DatabaseInv(e)'
  <2>1. \A q \in Procs : /\ SeedsFacts(q, e) => SeedsFacts(q, e)'
                         /\ SeedsRows(q, e) => SeedsRows(q, e)'
    BY <1>1, <1>4 DEF SeedsFacts, SeedsRows
  <2> QED BY <1>1, <1>2, <2>1, OtherDatabase DEF SameIn, Started
<1>10. ASSUME NEW q \in Procs \ {p}, at[q] = "agents", db[q] = db[p]
       PROVE  \/ db[q] \in together'
              \/ agents'[db[q]] = agents[db[q]] /\ (at'[p] = "agents" => at[p] = "agents")
  BY <1>1, <1>4, <1>7, <1>10
<1> QED BY <1>2, <1>5, <1>6, <1>8, <1>9, <1>10, WorkKeeps

LEMMA AgentsKeep ==
    ASSUME Started, setup' = setup, NEW p \in Procs, SeedAgent(p)
    PROVE  Started'
<1> DEFINE d == db[p]
           row == <<DefaultAgents[next[p]], p>>
           had == agents[d]
<1>1. /\ at[p] = "agents" /\ d \in Databases /\ schema[d] = Complete /\ Facts[1] \in knowledge[d]
      /\ next[p] \in 1 .. Len(DefaultAgents)
      /\ \A j \in 1 .. next[p] - 1 : DefaultAgents[j] \in {a[1] : a \in had}
      /\ d \in together \/ \A a \in had : a[2] = p
      /\ \A q \in Procs \ {p} : at[q] = "agents" /\ db[q] = d => d \in together
  BY DEF SeedAgent, Started, StartInv
<1>2. /\ agents' = [agents EXCEPT ![d] = had \cup {row}]
      /\ Proceeds(p, Len(DefaultAgents), "rules")
      /\ UNCHANGED <<db, columns, schema, knowledge, rules, cut, together>>
  BY DEF SeedAgent
<1>3. row[1] \in ToSet(DefaultAgents) /\ row = <<row[1], row[2]>> /\ row[2] = p
      /\ row[1] = DefaultAgents[next[p]]
  BY <1>1, Lists
<1> HIDE DEF row, had
<1>4. /\ at' \in [Procs -> {"off", "dead", "connect", "facts", "look", "agents", "rules",
                            "bind", "serving"}]
      /\ next' \in [Procs -> Nat]
      /\ \A q \in Procs \ {p} : at'[q] = at[q] /\ next'[q] = next[q]
      /\ \/ next[p] = Len(DefaultAgents) /\ at'[p] = "rules" /\ next'[p] = 1
         \/ next[p] # Len(DefaultAgents) /\ at'[p] = "agents" /\ next'[p] = next[p] + 1
  BY <1>1, <1>2, NextOfProcess DEF Started
<1>5. agents' = [e \in Databases |-> IF e = d THEN had \cup {row} ELSE agents[e]]
  BY <1>1, <1>2 DEF Started
<1>6. agents'[d] = had \cup {row} /\ agents[d] = had
  BY <1>1, <1>5 DEF had
<1>7. Works(p)
  <2>1. ProcessType'
    <3>1. agents' = [e \in Databases |-> agents'[e]]
      BY <1>5
    <3> QED BY <1>2, <1>4, <3>1 DEF Started
  <2>2. Alone(p)
    BY <1>2, <1>4, <2>1 DEF Alone
  <2>3. \A e \in Databases \ {d} : SameIn(e)
    BY <1>2, <1>5 DEF SameIn
  <2> QED BY <1>1, <1>2, <2>2, <2>3 DEF Works
<1>8. Grows
  BY <1>2, <1>5 DEF Grows, Started, DatabaseInv, had
<1>9. \A j \in 1 .. next[p] : DefaultAgents[j] \in {a[1] : a \in had \cup {row}}
  <2>1. \A j \in 1 .. next[p] : j = next[p] \/ j \in 1 .. next[p] - 1
    BY <1>1
  <2> QED BY <1>1, <1>3, <2>1
<1>10. next[p] = Len(DefaultAgents) =>
          ToSet(DefaultAgents) \subseteq {a[1] : a \in had \cup {row}}
  BY <1>9, Lists
<1>11. StartInv(p)'
  <2>1. db'[p] = d /\ schema'[d] = Complete /\ knowledge' = knowledge /\ together' = together
    BY <1>1, <1>2
  <2>2. CASE next[p] = Len(DefaultAgents)
    <3>1. 1 \in 1 .. Len(DefaultRules) /\ \A j \in 1 .. 1 - 1 : FALSE
      BY Lists
    <3> QED BY <1>1, <1>4, <1>6, <1>10, <2>1, <2>2, <3>1 DEF StartInv
  <2>3. CASE next[p] # Len(DefaultAgents)
    <3>1. next'[p] - 1 = next[p] /\ next'[p] \in 1 .. Len(DefaultAgents)
      <4>1. next'[p] = next[p] + 1
        BY <1>4, <2>3
      <4>2. next[p] \in 1 .. Len(DefaultAgents) /\ Len(DefaultAgents) \in Nat
        BY <1>1, Lists
      <4> QED BY <2>3, <4>1, <4>2
    <3>2. d \in together' \/ \A a \in agents'[d] : a[2] = p
      BY <1>1, <1>3, <1>6, <2>1
    <3>3. \A q \in Procs \ {p} : at'[q] = "agents" /\ db'[q] = d => d \in together'
      BY <1>1, <1>2, <1>4
    <3> QED BY <1>1, <1>4, <1>6, <1>9, <2>1, <2>3, <3>1, <3>2, <3>3 DEF StartInv
  <2> QED BY <2>2, <2>3
<1>12. ASSUME NEW e \in Databases, e = db[p] PROVE DatabaseInv(e)'
  <2>0. agents'[e] = had \cup {row} /\ agents[e] = had
    BY <1>6, <1>12
  <2>1. \A q \in Procs : SeedsFacts(q, e) => SeedsFacts(q, e)'
    BY <1>1, <1>2, <1>4 DEF SeedsFacts
  <2>2. FactsInv(e)'
    BY <1>2, <2>1 DEF Started, DatabaseInv, FactsInv
  <2>3. RowsInv(e)'
    <3>1. SeedsRows(p, e)'
      BY <1>1, <1>2, <1>4, <1>12, Lists DEF SeedsRows
    <3> QED BY <3>1 DEF RowsInv
  <2>4. \A a \in agents'[e] : /\ a = <<a[1], a[2]>>
                              /\ a[2] = "user" \/ a[1] \in ToSet(DefaultAgents)
    BY <1>3, <2>0 DEF Started, DatabaseInv
  <2>5. e \in together' \/ \A a, b \in agents'[e] : a[1] = b[1] => a = b
    <3> SUFFICES ASSUME e \notin together', NEW a \in agents'[e], NEW b \in agents'[e], a[1] = b[1]
                 PROVE  a = b
      OBVIOUS
    <3>1. \A x \in agents'[e] : x[2] = p
      BY <1>1, <1>2, <1>3, <1>12, <2>0
    <3>2. a = <<a[1], a[2]>> /\ b = <<b[1], b[2]>>
      BY <2>4
    <3> QED BY <3>1, <3>2
  <2>6. schema'[e] \subseteq Complete /\ \A r \in rules'[e] : r[1] \in ToSet(DefaultRules)
    BY <1>2 DEF Started, DatabaseInv
  <2> QED BY <2>2, <2>3, <2>4, <2>5, <2>6 DEF DatabaseInv
<1>13. ASSUME NEW q \in Procs \ {p}, at[q] = "agents", db[q] = db[p] PROVE db[q] \in together'
  BY <1>1, <1>2, <1>13
<1> QED BY <1>2, <1>7, <1>8, <1>11, <1>12, <1>13, WorkKeeps

LEMMA RulesKeep ==
    ASSUME Started, setup' = setup, NEW p \in Procs, SeedRule(p)
    PROVE  Started'
<1> DEFINE d == db[p]
           row == <<DefaultRules[next[p]], p>>
           had == rules[d]
<1>1. /\ at[p] = "rules" /\ d \in Databases /\ schema[d] = Complete /\ Facts[1] \in knowledge[d]
      /\ next[p] \in 1 .. Len(DefaultRules)
      /\ ToSet(DefaultAgents) \subseteq {a[1] : a \in agents[d]}
      /\ \A j \in 1 .. next[p] - 1 : DefaultRules[j] \in {r[1] : r \in had}
  BY DEF SeedRule, Started, StartInv
<1>2. /\ rules' = [rules EXCEPT ![d] = had \cup {row}]
      /\ Proceeds(p, Len(DefaultRules), "bind")
      /\ UNCHANGED <<db, columns, schema, knowledge, agents, cut, together>>
  BY DEF SeedRule
<1>3. row[1] \in ToSet(DefaultRules) /\ row[1] = DefaultRules[next[p]]
  BY <1>1, Lists
<1> HIDE DEF row, had
<1>4. /\ at' \in [Procs -> {"off", "dead", "connect", "facts", "look", "agents", "rules",
                            "bind", "serving"}]
      /\ next' \in [Procs -> Nat]
      /\ \A q \in Procs \ {p} : at'[q] = at[q] /\ next'[q] = next[q]
      /\ \/ next[p] = Len(DefaultRules) /\ at'[p] = "bind" /\ next'[p] = 1
         \/ next[p] # Len(DefaultRules) /\ at'[p] = "rules" /\ next'[p] = next[p] + 1
  BY <1>1, <1>2, NextOfProcess DEF Started
<1>5. rules' = [e \in Databases |-> IF e = d THEN had \cup {row} ELSE rules[e]]
  BY <1>1, <1>2 DEF Started
<1>6. rules'[d] = had \cup {row} /\ rules[d] = had
  BY <1>1, <1>5 DEF had
<1>7. Works(p)
  <2>1. ProcessType'
    <3>1. rules' = [e \in Databases |-> rules'[e]]
      BY <1>5
    <3> QED BY <1>2, <1>4, <3>1 DEF Started
  <2>2. Alone(p)
    BY <1>2, <1>4, <2>1 DEF Alone
  <2>3. \A e \in Databases \ {d} : SameIn(e)
    BY <1>2, <1>5 DEF SameIn
  <2> QED BY <1>1, <1>2, <2>2, <2>3 DEF Works
<1>8. Grows
  BY <1>2, <1>5 DEF Grows, Started, DatabaseInv, had
<1>9. \A j \in 1 .. next[p] : DefaultRules[j] \in {r[1] : r \in had \cup {row}}
  <2>1. \A j \in 1 .. next[p] : j = next[p] \/ j \in 1 .. next[p] - 1
    BY <1>1
  <2> QED BY <1>1, <1>3, <2>1
<1>10. agents[d] # {}
  BY <1>1, Lists
<1>11. StartInv(p)'
  <2>1. /\ db'[p] = d /\ schema'[d] = Complete /\ knowledge' = knowledge /\ together' = together
        /\ agents' = agents
    BY <1>1, <1>2
  <2>2. CASE next[p] = Len(DefaultRules)
    BY <1>1, <1>4, <1>10, <2>1, <2>2 DEF StartInv
  <2>3. CASE next[p] # Len(DefaultRules)
    <3>1. next'[p] - 1 = next[p] /\ next'[p] \in 1 .. Len(DefaultRules)
      <4>1. next'[p] = next[p] + 1
        BY <1>4, <2>3
      <4>2. next[p] \in 1 .. Len(DefaultRules) /\ Len(DefaultRules) \in Nat
        BY <1>1, Lists
      <4> QED BY <2>3, <4>1, <4>2
    <3>2. at'[p] = "rules" /\ d \in Databases /\ Facts[1] \in knowledge'[d]
      BY <1>1, <1>4, <2>1, <2>3
    <3>3. \A j \in 1 .. next'[p] - 1 : DefaultRules[j] \in {r[1] : r \in rules'[d]}
      BY <1>6, <1>9, <3>1
    <3>4. ToSet(DefaultAgents) \subseteq {a[1] : a \in agents'[d]}
      BY <1>1, <2>1
    <3> QED BY <2>1, <3>1, <3>2, <3>3, <3>4 DEF StartInv
  <2> QED BY <2>2, <2>3
<1>12. ASSUME NEW e \in Databases, e = db[p] PROVE DatabaseInv(e)'
  <2>0. rules'[e] = had \cup {row} /\ rules[e] = had
    BY <1>6, <1>12
  <2>1. \A q \in Procs : SeedsFacts(q, e) => SeedsFacts(q, e)'
    BY <1>1, <1>2, <1>4 DEF SeedsFacts
  <2>2. FactsInv(e)'
    BY <1>2, <2>1 DEF Started, DatabaseInv, FactsInv
  <2>3. \A r \in rules'[e] : r[1] \in ToSet(DefaultRules)
    BY <1>3, <2>0 DEF Started, DatabaseInv
  <2>4. \A a \in agents[e] : a[2] = "user" \/ a[1] \in ToSet(DefaultAgents)
    BY DEF Started, DatabaseInv
  <2>5. RowsInv(e)'
    <3>1. CASE next[p] = Len(DefaultRules)
      <4>1. ToSet(DefaultRules) \subseteq {r[1] : r \in rules'[e]}
        BY <1>9, <2>0, <3>1, Lists
      <4>2. ToSet(DefaultRules) = {r[1] : r \in rules'[e]}
        BY <2>3, <4>1
      <4>3. (\A a \in agents[e] : a[2] # "user") => ToSet(DefaultAgents) = {a[1] : a \in agents[e]}
        BY <1>1, <1>12, <2>4
      <4> QED BY <1>2, <4>2, <4>3 DEF RowsInv
    <3>2. CASE next[p] # Len(DefaultRules)
      <4>1. SeedsRows(p, e)'
        BY <1>1, <1>2, <1>4, <1>12, <3>2 DEF SeedsRows
      <4> QED BY <4>1 DEF RowsInv
    <3> QED BY <3>1, <3>2
  <2>6. /\ schema'[e] \subseteq Complete
        /\ \A a \in agents'[e] : /\ a = <<a[1], a[2]>>
                                 /\ a[2] = "user" \/ a[1] \in ToSet(DefaultAgents)
        /\ e \in together' \/ \A a, b \in agents'[e] : a[1] = b[1] => a = b
    BY <1>2 DEF Started, DatabaseInv
  <2> QED BY <2>2, <2>3, <2>5, <2>6 DEF DatabaseInv
<1>13. ASSUME NEW q \in Procs \ {p}, at[q] = "agents", db[q] = db[p]
       PROVE  agents'[db[q]] = agents[db[q]] /\ (at'[p] = "agents" => at[p] = "agents")
  BY <1>2, <1>4
<1> QED BY <1>2, <1>7, <1>8, <1>11, <1>12, <1>13, WorkKeeps

LEMMA BindKeeps ==
    ASSUME Started, setup' = setup, NEW p \in Procs, Bind(p)
    PROVE  Started'
<1>1. CASE Dies(p)
  BY <1>1, DeathRestarts, RestartKeeps DEF Started
<1>2. CASE Goes(p, "serving") /\ UNCHANGED <<db, env, columns, contents, cut, together>>
  <2>1. /\ at[p] = "bind"
        /\ UNCHANGED <<db, columns, schema, knowledge, agents, rules, cut, together>>
    BY <1>2 DEF Bind, contents
  <2>2. /\ at' \in [Procs -> {"off", "dead", "connect", "facts", "look", "agents", "rules",
                              "bind", "serving"}]
        /\ next' \in [Procs -> Nat] /\ at'[p] = "serving" /\ next'[p] = 1
        /\ \A q \in Procs \ {p} : at'[q] = at[q] /\ next'[q] = next[q]
    BY <1>2, PlaceOfProcess DEF Started
  <2>3. Works(p)
    <3>1. ProcessType' /\ db[p] \in Databases
      BY <2>1, <2>2 DEF Started, StartInv
    <3> QED BY <2>1, <2>2, <3>1 DEF Works, Alone, SameIn
  <2>4. Grows
    BY <2>1 DEF Grows, Started, DatabaseInv
  <2>5. StartInv(p)'
    BY <2>1, <2>2 DEF Started, StartInv
  <2>6. ASSUME NEW e \in Databases PROVE DatabaseInv(e)'
    <3>1. \A q \in Procs : /\ SeedsFacts(q, e) => SeedsFacts(q, e)'
                           /\ SeedsRows(q, e) => SeedsRows(q, e)'
      BY <2>1, <2>2 DEF SeedsFacts, SeedsRows
    <3> QED BY <2>1, <3>1, OtherDatabase DEF SameIn, Started
  <2>7. at'[p] # "agents" /\ agents' = agents
    BY <2>1, <2>2
  <2> QED BY <2>1, <2>3, <2>4, <2>5, <2>6, <2>7, WorkKeeps
<1> QED BY <1>1, <1>2 DEF Bind

\* The database that is purged is nobody's.
LEMMA PurgeKeeps ==
    ASSUME Started, setup' = setup, PurgeAll
    PROVE  Started'
<1> DEFINE d == DefaultDir(Shell)
<1>1. /\ \A p \in Procs : Up(p) => db[p] # d
      /\ schema' = [schema EXCEPT ![d] = {}] /\ knowledge' = [knowledge EXCEPT ![d] = {}]
      /\ agents' = [agents EXCEPT ![d] = {}] /\ rules' = [rules EXCEPT ![d] = {}]
      /\ cut' = cut \ {d} /\ together' = together \ {d}
      /\ UNCHANGED <<at, next, db, columns>>
  BY DEF PurgeAll, process
<1> HIDE DEF d
<1>2. /\ schema' = [e \in Databases |-> IF e = d THEN {} ELSE schema[e]]
      /\ knowledge' = [e \in Databases |-> IF e = d THEN {} ELSE knowledge[e]]
      /\ agents' = [e \in Databases |-> IF e = d THEN {} ELSE agents[e]]
      /\ rules' = [e \in Databases |-> IF e = d THEN {} ELSE rules[e]]
  BY <1>1 DEF Started
<1>3. ProcessType'
  <2>1. /\ schema' = [e \in Databases |-> schema'[e]]
        /\ knowledge' = [e \in Databases |-> knowledge'[e]]
        /\ agents' = [e \in Databases |-> agents'[e]] /\ rules' = [e \in Databases |-> rules'[e]]
    BY <1>2
  <2> QED BY <1>1, <2>1 DEF Started
<1>4. ASSUME NEW e \in Databases PROVE DatabaseInv(e)'
  <2>1. CASE e = d
    <3>1. schema'[e] = {} /\ knowledge'[e] = {} /\ agents'[e] = {} /\ rules'[e] = {}
      BY <1>2, <2>1
    <3> QED BY <3>1 DEF DatabaseInv, FactsInv, RowsInv
  <2>2. CASE e # d
    <3>1. SameIn(e) /\ (e \in cut => e \in cut') /\ (e \in together => e \in together')
      BY <1>1, <1>2, <2>2 DEF SameIn
    <3>2. \A q \in Procs : /\ SeedsFacts(q, e) => SeedsFacts(q, e)'
                           /\ SeedsRows(q, e) => SeedsRows(q, e)'
      BY <1>1 DEF SeedsFacts, SeedsRows
    <3> QED BY <3>1, <3>2, OtherDatabase DEF Started
  <2> QED BY <2>1, <2>2
<1>5. ASSUME NEW q \in Procs PROVE StartInv(q)'
  <2>1. CASE at[q] \in {"off", "dead"}
    BY <1>1, <2>1 DEF StartInv
  <2>2. CASE at[q] \notin {"off", "dead"}
    <3>1. db[q] \in Databases /\ db[q] # d
      BY <1>1, <2>2 DEF Started, StartInv, Up
    <3>2. /\ schema'[db[q]] = schema[db[q]] /\ knowledge'[db[q]] = knowledge[db[q]]
          /\ agents'[db[q]] = agents[db[q]] /\ rules'[db[q]] = rules[db[q]]
          /\ db[q] \in together => db[q] \in together'
      BY <1>1, <1>2, <3>1
    <3> QED BY <1>1, <3>2 DEF Started, StartInv
  <2> QED BY <2>1, <2>2
<1> QED BY <1>3, <1>4, <1>5 DEF Started

-----------------------------------------------------------------------------
(* Which step does what. *)

\* Whatever the environment, a start that gets past load_config has a database.
LEMMA ResolvesToDatabase ==
    ASSUME UnitInv, NEW e, NEW created, e.config \in Directories \cup {None},
           e.db \in Databases \cup {None}, e.xdg \in Directories, e.dev \in BOOLEAN,
           ~ ConfigRaises(e)
    PROVE  ResolveDb(e, created) \in Databases
<1>1. DefaultDir(e) \in Directories
  BY DEF DefaultDir
<1>2. \/ ResolveConfig(e) = None
      \/ ResolveConfig(e) \in Directories /\ yaml[ResolveConfig(e)] # Missing
  <2>1. CASE e.config # None
    BY <2>1 DEF ResolveConfig, ConfigRaises
  <2>2. CASE e.config = None /\ e.dev = TRUE /\ yaml["cwd"] # Missing
    BY <2>2 DEF ResolveConfig
  <2>3. CASE e.config = None /\ (e.dev = FALSE \/ yaml["cwd"] = Missing)
    BY <1>1, <2>3 DEF ResolveConfig
  <2> QED BY <2>1, <2>2, <2>3
<1>3. YamlDb(e) \in Databases \cup {None}
  BY <1>2 DEF YamlDb, UnitInv
<1> QED BY <1>1, <1>3 DEF ResolveDb

LEMMA UnitIsUsable ==
    ASSUME UnitInv, NEW u, u \in {unit, loaded}, u # None
    PROVE  /\ Serviced(u).config \in Directories /\ Serviced(u).db \in Directories
           /\ Serviced(u).xdg \in Directories /\ Serviced(u).dev \in BOOLEAN
BY HomeIsADirectory DEF UnitInv, Serviced, Home

\* A start of a process that is not up.
LEMMA LoadRestarts ==
    ASSUME Started, UnitInv, setup' = setup, NEW p \in Procs, ~ Up(p), NEW e, NEW there,
           e.config \in Directories \cup {None}, e.db \in Databases \cup {None},
           e.xdg \in Directories, e.dev \in BOOLEAN, LoadConfig(p, e, there)
    PROVE  Restarts(p)
<1>1. UNCHANGED <<columns, schema, knowledge, agents, rules, cut, together>>
  BY DEF LoadConfig, contents
<1>2. CASE Goes(p, "dead") /\ UNCHANGED db
  <2>1. /\ at' = [at EXCEPT ![p] = "dead"] /\ next' = [next EXCEPT ![p] = 1] /\ db' = db
    BY <1>2 DEF Goes
  <2>2. ProcessType'
    BY <1>1, <2>1 DEF Started
  <2> QED BY <1>1, <2>1, <2>2 DEF Restarts, Alone, Started, Up, Seeding
<1>3. ASSUME ~ ConfigRaises(e), Goes(p, "connect"), NEW created,
             db' = [db EXCEPT ![p] = ResolveDb(e, created)]
      PROVE  Restarts(p)
  <2> DEFINE d == ResolveDb(e, created)
  <2>1. d \in Databases
    BY <1>3, ResolvesToDatabase
  <2> HIDE DEF d
  <2>2. /\ at' = [at EXCEPT ![p] = "connect"] /\ next' = [next EXCEPT ![p] = 1]
        /\ db' = [db EXCEPT ![p] = d]
    BY <1>3 DEF Goes, d
  <2>3. ProcessType'
    BY <1>1, <2>1, <2>2 DEF Started
  <2> QED BY <1>1, <2>1, <2>2, <2>3 DEF Restarts, Alone, Started, Up, Seeding
<1> QED BY <1>2, <1>3 DEF LoadConfig

LEMMA StopRestarts ==
    ASSUME Started, setup' = setup, StopService
    PROVE  Restarts("service") /\ at'["service"] = "off"
<1>1. /\ at' = [at EXCEPT !["service"] = "off"] /\ next' = [next EXCEPT !["service"] = 1]
      /\ cut' = cut \cup (IF Seeding("service") THEN {db["service"]} ELSE {})
      /\ UNCHANGED <<db, columns, schema, knowledge, agents, rules, together>>
  BY DEF StopService, Goes, contents
<1>2. ProcessType'
  BY <1>1 DEF Started
<1> QED BY <1>1, <1>2 DEF Restarts, Alone, Started

LEMMA RenewRestarts ==
    ASSUME Started, UnitInv, setup' = setup, NEW u \in {unit, loaded}, u # None, RenewService(u)
    PROVE  Restarts("service")
<1> DEFINE e == Serviced(u)
<1>0. /\ e.config \in Directories /\ e.db \in Directories /\ e.xdg \in Directories
      /\ e.dev \in BOOLEAN
  BY UnitIsUsable
<1>1. /\ cut' = cut \cup (IF Seeding("service") THEN {db["service"]} ELSE {})
      /\ UNCHANGED <<columns, schema, knowledge, agents, rules, together>>
  BY DEF RenewService, contents
<1>2. CASE Goes("service", "dead") /\ UNCHANGED db
  <2>1. /\ at' = [at EXCEPT !["service"] = "dead"] /\ next' = [next EXCEPT !["service"] = 1]
        /\ db' = db
    BY <1>2 DEF Goes
  <2>2. ProcessType'
    BY <1>1, <2>1 DEF Started
  <2> QED BY <1>1, <2>1, <2>2 DEF Restarts, Alone, Started
<1>3. ASSUME ~ ConfigRaises(e), Goes("service", "connect"), NEW created,
             db' = [db EXCEPT !["service"] = ResolveDb(e, created)]
      PROVE  Restarts("service")
  <2> DEFINE d == ResolveDb(e, created)
  <2>1. d \in Databases
    <3> HIDE DEF e
    <3> QED BY <1>0, <1>3, ResolvesToDatabase
  <2> HIDE DEF d
  <2>2. /\ at' = [at EXCEPT !["service"] = "connect"] /\ next' = [next EXCEPT !["service"] = 1]
        /\ db' = [db EXCEPT !["service"] = d]
    BY <1>3 DEF Goes, d
  <2>3. ProcessType'
    BY <1>1, <2>1, <2>2 DEF Started
  <2> QED BY <1>1, <2>1, <2>2, <2>3 DEF Restarts, Alone, Started
<1> QED BY <1>2, <1>3 DEF RenewService

\* A step starts, ends or moves one process, or purges, or leaves them all alone.
Still == UNCHANGED <<at, next, db, columns, schema, knowledge, agents, rules, cut, together>>

LEMMA ProcessSteps ==
    ASSUME Started, UnitInv, command.step = "load" => ~ Up("service"), setup' = setup, Next
    PROVE  \/ Still \/ PurgeAll
           \/ \E p \in Procs : Restarts(p) \/ Start(p)
<1>0. OnlyInstall \/ UNCHANGED startup => Still
  BY DEF OnlyInstall, startup, process, contents, Still
<1>1. CASE Command
  <2>1. ASSUME NEW done \in BOOLEAN, Enable(done),
               IF done /\ ~ Up("service") THEN StartService(unit) ELSE OnlyInstall
        PROVE  Still \/ Restarts("service")
    <3>1. unit # None
      BY <2>1 DEF Enable, Running, UnitInv
    <3> QED BY <1>0, <2>1, <3>1, UnitIsUsable, LoadRestarts DEF StartService
  <2>2. CASE Unload /\ IF Up("service") THEN StopService ELSE OnlyInstall
    BY <1>0, <2>2, StopRestarts
  <2>3. CASE Load /\ StartService(unit)
    <3>1. unit # None /\ ~ Up("service")
      BY <2>3 DEF Load, Running, UnitInv
    <3> QED BY <2>3, <3>1, UnitIsUsable, LoadRestarts DEF StartService
  <2>4. ASSUME NEW done \in BOOLEAN, Disable(done), IF done THEN StopService ELSE OnlyInstall
        PROVE  Still \/ Restarts("service")
    BY <1>0, <2>4, StopRestarts
  <2>5. ASSUME NEW done \in BOOLEAN, Restart(done),
               IF done THEN RenewService(IF loaded = None THEN unit ELSE loaded) ELSE OnlyInstall
        PROVE  Still \/ Restarts("service")
    <3>1. CASE ~ done
      BY <1>0, <2>5, <3>1
    <3>2. CASE done
      <4>1. unit # None
        BY <2>5, <3>2 DEF Restart
      <4>2. CASE loaded = None
        BY <2>5, <3>2, <4>1, <4>2, RenewRestarts
      <4>3. CASE loaded # None
        BY <2>5, <3>2, <4>3, RenewRestarts
      <4> QED BY <4>2, <4>3
    <3> QED BY <3>1, <3>2
  <2> QED BY <1>0, <1>1, <2>1, <2>2, <2>3, <2>4, <2>5 DEF Command
<1>2. CASE Supervise
  <2>1. ~ Up("service") /\ loaded # None /\ StartService(loaded)
    BY <1>2 DEF Supervise, Up
  <2> QED BY <2>1, UnitIsUsable, LoadRestarts DEF StartService
<1>3. CASE Foreground
  <2>1. PICK dev \in setup.dev :
           LoadConfig("foreground", [Shell EXCEPT !.dev = Shell.dev \/ dev], TRUE)
    BY <1>3 DEF Foreground
  <2> DEFINE e == [Shell EXCEPT !.dev = Shell.dev \/ dev]
  <2>2. /\ e.config \in Directories \cup {None} /\ e.db \in Databases \cup {None}
        /\ e.xdg \in Directories /\ e.dev \in BOOLEAN
    <3>1. Shell \in Environments
      BY DEF Shell, UnitInv
    <3> QED BY <3>1 DEF Environments
  <2>3. ~ Up("foreground")
    BY <1>3 DEF Foreground, Up
  <2> HIDE DEF e
  <2>4. LoadConfig("foreground", e, TRUE)
    BY <2>1 DEF e
  <2> QED BY <2>2, <2>3, <2>4, LoadRestarts
<1>4. ASSUME NEW p \in Procs, Shutdown(p) PROVE Restarts(p)
  <2> DEFINE goal == IF p = "service" /\ setup.os = "darwin" THEN "dead" ELSE "off"
  <2>1. /\ at[p] = "serving" /\ at' = [at EXCEPT ![p] = goal] /\ goal \in {"dead", "off"}
        /\ UNCHANGED <<next, db, columns, schema, knowledge, agents, rules, cut, together>>
    BY <1>4 DEF Shutdown, contents
  <2> HIDE DEF goal
  <2>2. ProcessType'
    BY <2>1 DEF Started
  <2> QED BY <2>1, <2>2 DEF Restarts, Alone, Started, Seeding
<1>5. ASSUME NEW p \in Procs, CrashOf(p) PROVE Restarts(p)
  BY <1>5, DeathRestarts DEF CrashOf, Crash, Started
<1>6. ASSUME NEW p \in Procs, Proceed(p) PROVE Start(p)
  BY <1>6 DEF Proceed
<1>7. Hub => Still
  BY <1>0 DEF Hub
<1>8. ASSUME NEW b \in Broadcasts, Send(b) PROVE Still
  BY <1>0, <1>8 DEF Send
<1>9. Rests => Still
  BY <1>0 DEF Rests, vars
<1>10. EditFiles /\ OnlyInstall => Still
  BY <1>0
<1> QED BY <1>1, <1>2, <1>3, <1>4, <1>5, <1>6, <1>7, <1>8, <1>9, <1>10 DEF Next

LEMMA StillKeeps ==
    ASSUME Started, setup' = setup, Still
    PROVE  Started'
<1>1. ProcessType'
  BY DEF Still, Started
<1>2. ASSUME NEW d \in Databases PROVE DatabaseInv(d)'
  BY DEF Still, Started, DatabaseInv, FactsInv, RowsInv, SeedsFacts, SeedsRows
<1>3. ASSUME NEW q \in Procs PROVE StartInv(q)'
  BY DEF Still, Started, StartInv
<1> QED BY <1>1, <1>2, <1>3 DEF Started

LEMMA StartedStep ==
    ASSUME Started, UnitInv, command.step = "load" => ~ Up("service"), setup' = setup, Next
    PROVE  Started'
<1>1. ASSUME NEW p \in Procs, Start(p) PROVE Started'
  BY <1>1, ConnectKeeps, FactsKeep, LookKeeps, AgentsKeep, RulesKeep, BindKeeps DEF Start
<1> QED BY <1>1, StillKeeps, PurgeKeeps, RestartKeeps, ProcessSteps

\* Between unload and load nobody starts the service.
Unserved == command.step = "load" => ~ Up("service")

LEMMA LoadStep ==
    ASSUME Started, UnitInv, Unserved, setup' = setup, Next
    PROVE  Unserved'
<1> SUFFICES ASSUME command'.step = "load" PROVE at'["service"] \in {"off", "dead"}
  BY DEF Unserved, Up
<1> USE DEF Unserved
<1>0. OnlyInstall \/ UNCHANGED startup => at' = at
  BY DEF OnlyInstall, startup, process
<1>1. CASE UNCHANGED command /\ loaded = None /\ Next /\ ~ Command
  <2>1. at["service"] \in {"off", "dead"}
    BY <1>1 DEF Up
  <2>2. ~ Supervise
    BY <1>1 DEF Supervise
  <2>3. Foreground => at'["service"] = at["service"]
    BY DEF Foreground, LoadConfig, Goes, Started
  <2>4. ASSUME NEW p \in Procs, Shutdown(p) \/ CrashOf(p) PROVE at'["service"] \in {"off", "dead"}
    BY <2>1, <2>4 DEF Shutdown, CrashOf, Crash, Dies, Goes, Started
  <2>5. ASSUME NEW p \in Procs, Proceed(p) PROVE at'["service"] = at["service"]
    <3>1. p # "service"
      BY <2>1, <2>5 DEF Proceed, Start, Connect, SeedFact, LookForAgents, SeedAgent, SeedRule, Bind
    <3>2. Restarts(p) \/ ~ Dies(p)
      BY DeathRestarts DEF Started
    <3> QED BY <2>5, <3>1 DEF Proceed, Start, Connect, SeedFact, LookForAgents, SeedAgent,
               SeedRule, Bind, Dies, Goes, Proceeds, Started
  <2>6. Hub \/ Rests => at' = at
    BY <1>0 DEF Hub, Rests, vars
  <2>7. ASSUME NEW b \in Broadcasts, Send(b) PROVE at' = at
    BY <1>0, <2>7 DEF Send
  <2>8. PurgeAll => at' = at
    BY DEF PurgeAll, process
  <2> QED BY <1>0, <1>1, <2>1, <2>2, <2>3, <2>4, <2>5, <2>6, <2>7, <2>8 DEF Next
<1>2. CASE Command
  <2>1. Unload
    <3>1. ~ Begin
      <4> SUFFICES ASSUME Begin PROVE FALSE
        OBVIOUS
      <4>1. PICK name \in setup.commands : command' = [name |-> name, step |-> First(name)]
        BY DEF Begin
      <4>2. First(name) # "load"
        BY <4>1 DEF First, UnitInv
      <4> QED BY <4>1, <4>2
    <3>2. ~ (WriteConfig \/ BuildHelper \/ WriteUnit \/ Unlink \/ Interrupt \/ Load)
      BY DEF WriteConfig, BuildHelper, WriteUnit, Unlink, Interrupt, Load, StepTo, NoCommand,
             UnitInv
    <3>3. ASSUME NEW done \in BOOLEAN PROVE ~ (Enable(done) \/ Disable(done) \/ Restart(done))
      BY DEF Enable, Disable, Restart, StepTo, NoCommand, UnitInv
    <3> QED BY <1>2, <3>1, <3>2, <3>3 DEF Command
  <2>2. IF Up("service") THEN StopService ELSE OnlyInstall
    <3>1. ASSUME NEW done \in BOOLEAN PROVE ~ (Enable(done) \/ Disable(done) \/ Restart(done))
      BY <2>1 DEF Enable, Disable, Restart, StepTo, NoCommand, UnitInv
    <3> QED BY <1>2, <2>1, <3>1 DEF Command, Unload, Load, WriteConfig, BuildHelper, WriteUnit,
               Unlink, Interrupt, Begin, Running, StepTo, NoCommand, UnitInv
  <2> QED BY <1>0, <2>2, StopRestarts DEF Up, Started
<1>3. CASE ~ Command
  <2>1. ~ PurgeAll
    BY DEF PurgeAll, Purge, NoCommand
  <2>2. UNCHANGED command
    BY <1>3, <2>1 DEF Next, Supervise, EditFiles, Foreground, Shutdown, Proceed, CrashOf, Hub,
                      Send, Rests, installation, vars
  <2> QED BY <1>1, <1>3, <2>2 DEF UnitInv
<1> QED BY <1>2, <1>3

ServiceAll == UnitInv /\ ServiceInv

\* Where a start has come to, everything before it is done; the facts, the agents
\* and the rules of a database are whole, or whoever seeds them is there, or they
\* are known to have been cut short (connect, seed_system_facts, seed_defaults).
THEOREM StartInvariant == Spec => []ServiceInv
<1>1. Init => ServiceAll
  <2> SUFFICES ASSUME InstallationInit, StartupInit PROVE ServiceAll
    BY DEF Init
  <2>1. UnitInv
    BY DEF InstallationInit, UnitInv, NoCommand
  <2>2. /\ setup \in Setups /\ at = [p \in Procs |-> "off"] /\ next = [p \in Procs |-> 1]
        /\ db = [p \in Procs |-> None] /\ columns = [p \in Procs |-> {}]
        /\ schema = setup.schema /\ knowledge = setup.knowledge /\ agents = setup.agents
        /\ rules = [d \in Databases |-> {}] /\ command.step = "none"
    BY DEF InstallationInit, StartupInit, NoCommand
  <2>3. /\ setup.schema \in [Databases -> SUBSET Complete]
        /\ setup.knowledge \in [Databases -> SUBSET ToSet(Facts)]
        /\ setup.agents = [d \in Databases |-> setup.agents[d]]
        /\ \A d \in Databases :
              /\ Facts[1] \in setup.knowledge[d] => ToSet(Facts) \subseteq setup.knowledge[d]
              /\ \A a \in setup.agents[d] : a = <<a[1], "user">>
    BY <2>2, StartupAssumption
  <2>4. ProcessType
    <3>1. /\ schema = [d \in Databases |-> schema[d]]
          /\ knowledge = [d \in Databases |-> knowledge[d]]
          /\ agents = [d \in Databases |-> agents[d]] /\ rules = [d \in Databases |-> rules[d]]
          /\ columns = [p \in Procs |-> columns[p]]
      BY <2>2, <2>3
    <3> QED BY <2>2, <3>1
  <2>5. ASSUME NEW d \in Databases PROVE DatabaseInv(d)
    <3>1. \A a \in agents[d] : a = <<a[1], a[2]>> /\ a[2] = "user"
      <4> SUFFICES ASSUME NEW a \in agents[d] PROVE a = <<a[1], a[2]>> /\ a[2] = "user"
        OBVIOUS
      <4>1. a = <<a[1], "user">>
        BY <2>2, <2>3
      <4> QED BY <4>1
    <3>2. FactsInv(d) /\ RowsInv(d)
      BY <2>2, <2>3, <3>1 DEF FactsInv, RowsInv
    <3>3. \A a, b \in agents[d] : a[1] = b[1] => a = b
      BY <2>2, <2>3
    <3> QED BY <2>2, <2>3, <3>1, <3>2, <3>3 DEF DatabaseInv
  <2>6. ASSUME NEW p \in Procs PROVE StartInv(p)
    BY <2>2 DEF StartInv
  <2> QED BY <2>1, <2>2, <2>4, <2>5, <2>6 DEF ServiceAll, ServiceInv
<1>2. ServiceAll /\ [Next]_vars => ServiceAll'
  <2> SUFFICES ASSUME ServiceAll, [Next]_vars PROVE ServiceAll'
    OBVIOUS
  <2>1. Started /\ UnitInv /\ Unserved
    BY DEF ServiceAll, ServiceInv, Started, Unserved
  <2>2. CASE Next
    <3>1. UnitInv' /\ setup' = setup
      <4>1. UNCHANGED installation => UnitInv' /\ setup' = setup
        BY <2>1 DEF installation, files, UnitInv, DefaultDir, Shell
      <4> QED BY <2>1, <2>2, <4>1, InstallSteps, UnitStep
    <3>2. Started' /\ Unserved'
      BY <2>1, <2>2, <3>1, StartedStep, LoadStep DEF Unserved
    <3> QED BY <3>1, <3>2 DEF ServiceAll, ServiceInv, Started, Unserved
  <2>3. CASE UNCHANGED vars
    <3>1. UNCHANGED installation /\ UNCHANGED startup
      BY <2>3 DEF vars
    <3>2. UnitInv' /\ setup' = setup /\ command' = command
      BY <2>1, <3>1 DEF installation, files, UnitInv, DefaultDir, Shell
    <3>3. Still
      BY <3>1 DEF startup, process, contents, Still
    <3>4. Started'
      BY <2>1, <3>2, <3>3, StillKeeps
    <3>5. Unserved'
      BY <2>1, <3>2, <3>3 DEF Unserved, Still, Up
    <3> QED BY <3>2, <3>4, <3>5 DEF ServiceAll, ServiceInv, Started, Unserved
  <2> QED BY <2>2, <2>3
<1>3. ServiceAll => ServiceInv
  BY DEF ServiceAll
<1> QED BY <1>1, <1>2, <1>3, PTL DEF Spec

\* A daemon that serves has the whole schema, and the whole seed, each agent once,
\* but for the cases that ServesWhole names.
THEOREM ServesTheWhole == Spec => []ServesWhole
<1>1. ServiceInv => ServesWhole
  <2> SUFFICES ASSUME ServiceInv, NEW p \in Procs, at[p] = "serving"
               PROVE  /\ schema[db[p]] = Complete
                      /\ \/ Seeded(db[p])
                         \/ db[p] \in cut
                         \/ \E q \in Procs : Seeding(q) /\ db[q] = db[p]
                      /\ \/ db[p] \in together
                         \/ \A a, b \in agents[db[p]] : a[1] = b[1] => a = b
    BY DEF ServesWhole
  <2> DEFINE d == db[p]
  <2>1. /\ d \in Databases /\ schema[d] = Complete /\ Facts[1] \in knowledge[d]
        /\ setup.seed_defaults => agents[d] # {}
    BY DEF ServiceInv, StartInv
  <2>2. DatabaseInv(d)
    BY <2>1 DEF ServiceInv
  <2> HIDE DEF d
  <2>3. \A q \in Procs : SeedsFacts(q, d) \/ SeedsRows(q, d) => Seeding(q) /\ db[q] = d
    BY DEF SeedsFacts, SeedsRows, Seeding
  <2>4. \/ Seeded(d) \/ d \in cut \/ \E q \in Procs : Seeding(q) /\ db[q] = d
    BY <2>1, <2>2, <2>3 DEF DatabaseInv, FactsInv, RowsInv, Seeded
  <2>5. d \in together \/ \A a, b \in agents[d] : a[1] = b[1] => a = b
    BY <2>2 DEF DatabaseInv
  <2> QED BY <2>1, <2>4, <2>5 DEF d
<1> QED BY <1>1, StartInvariant, PTL
=============================================================================
