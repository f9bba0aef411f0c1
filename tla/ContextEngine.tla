--------------------------- MODULE ContextEngine ---------------------------
(***************************************************************************)
(* ContextEngine.build_prompt and the stores it reads: the knowledge, the   *)
(* distilled memories with their full-text index, and the transcript of an  *)
(* agent. Every query of build_prompt is an await, between which other      *)
(* turns and the API's edits happen. Texts are their length in tokens and   *)
(* the words a query can match.                                             *)
(***************************************************************************)
EXTENDS Naturals, FiniteSets, FiniteSetsExt, SequencesExt

CONSTANTS
    Turns,          \* assignments being processed at once
    Worlds,         \* a configuration, the rows that are there, and who does what:
                    \* [turns, jobs, replies, trust_overrides, desktop,
                    \*  playwright_enabled, keys, memories, MaxEdits, MaxCloses]
    None,
    Keys, Values,   \* knowledge; a key is the sequence of its parts
    Memories,       \* distilled memories
    MemoryRow,      \* [Memories -> [scope, words]]
    DEFAULT_TOKEN_BUDGET,           \* 4096
    SystemTokens,   \* [BOOLEAN -> Nat]: _build_system_prompt, reactive or passive
    EntryTokens, MemoryTokens, RefTokens, UserTokens, ReplyTokens,
    RecallLimit, RecentLimit        \* 5 and 20

ASSUME ContextAssumption ==
    /\ {DEFAULT_TOKEN_BUDGET, EntryTokens, MemoryTokens, RefTokens, UserTokens,
        ReplyTokens, RecallLimit, RecentLimit} \subseteq Nat
    /\ SystemTokens \in [BOOLEAN -> Nat]
    /\ None \notin Values \cup Nat
    /\ IsFiniteSet(Keys) /\ IsFiniteSet(Memories) /\ Values # {}

\* What a configuration says of the agents and their events.
ASSUME JobAssumption ==
    \A w \in Worlds :
        /\ w.memories \subseteq Memories
        /\ \A j \in w.jobs : /\ j.token_budget \in Nat \cup {None}
                             /\ j.reactive \in BOOLEAN
                             /\ j.prompt \in Nat /\ j.refs \in Nat

VARIABLES
    world,
    knowledge,      \* each key: its value
    memories,       \* rows of memories
    unborn,         \* those still to be created
    access_count,   \* of those rows
    expired,        \* environment: memories whose expires_at has passed
    transcript,     \* agent_memory: each agent and scope, oldest first
    edits,          \* environment
    job,            \* each turn: what it is about
    step,           \* each turn: where build_prompt is
    left,           \* each turn: prefixes still to scan
    known, recalled, recent,        \* each turn: what the prompt shows of each store
    sections,       \* each turn: the optional sections of the prompt
    used_tokens,    \* each turn
    kept            \* history: keys not edited since the turn began

stores  == <<world, knowledge, memories, unborn, access_count, expired, transcript, edits>>
prompt  == <<known, recalled, recent, sections, used_tokens>>
context == <<stores, job, step, left, prompt, kept>>

Conversations == {<<j.agent, j.scope>> : j \in world.jobs}

ContextInit ==
    /\ world \in Worlds
    /\ knowledge = [k \in Keys |-> IF k \in world.keys THEN CHOOSE v \in Values : TRUE
                                   ELSE None]
    /\ memories = world.memories /\ unborn = Memories \ memories
    /\ access_count = [m \in Memories |-> 0]
    /\ expired = {}
    /\ transcript = [c \in Conversations |-> <<>>]
    /\ edits = 0
    /\ job = [t \in Turns |-> None]
    /\ step = [t \in Turns |-> "new"]
    /\ left = [t \in Turns |-> <<>>]
    /\ known = [t \in Turns |-> {}]
    /\ recalled = [t \in Turns |-> {}]
    /\ recent = [t \in Turns |-> <<>>]
    /\ sections = [t \in Turns |-> {}]
    /\ used_tokens = [t \in Turns |-> 0]
    /\ kept = [t \in Turns |-> {}]

-----------------------------------------------------------------------------
(* The token budget. *)

Budget(j) == IF j.token_budget = None THEN DEFAULT_TOKEN_BUDGET ELSE j.token_budget

\* Mutant: each section is measured by itself.
Fits_Alone(t, used, tokens, percent) == 100 * tokens < percent * Budget(job[t])
\* A section is left out when it would take the prompt to this share.
Fits(t, used, tokens, percent) == 100 * (used + tokens) < percent * Budget(job[t])

Goes(t, to) == step' = [step EXCEPT ![t] = to]

Section(t, s, tokens) ==
    /\ sections' = [sections EXCEPT ![t] = @ \cup {s}]
    /\ used_tokens' = [used_tokens EXCEPT ![t] = @ + tokens]

-----------------------------------------------------------------------------
(* The knowledge store. *)

\* scan(): the keys below a prefix, with their values.
Scan(prefix) ==
    {<<k, knowledge[k]>> : k \in {q \in Keys : /\ knowledge[q] # None
                                               /\ IsStrictPrefix(prefix, q)}}

\* _get_relevant_knowledge: the prefixes in the order they are scanned.
ScannedPrefixes(j) ==
    <<<<"system">>>>
    \o (IF Head(j.topic) = "system" THEN <<>> ELSE <<<<Head(j.topic)>>>>)
    \o <<<<"agent", j.agent>>, <<"user">>>>

\* Mutant: a key that two prefixes match is listed twice.
AddScan_Twice(t, entries) == known[t] \cup entries
\* _add_scan: the first value seen of a key stays.
AddScan(t, entries) ==
    known[t] \cup {e \in entries : \A f \in known[t] : f[1] # e[1]}

-----------------------------------------------------------------------------
(* The distilled memories. *)

\* search_for_event makes an FTS query, "a" OR "b", of the topic's words, and
\* search() makes a query of that query: OR becomes one of the words.
QueryWords(topic) ==
    LET words == ToSet(topic)
    IN  words \cup (IF Len(topic) > 1 THEN {"or"} ELSE {})

Visible(j) == {<<"agent", j.agent>>, "user", "global"}

Hits(j) == {m \in memories \ expired :
               /\ MemoryRow[m].scope \in Visible(j)
               /\ MemoryRow[m].words \cap QueryWords(j.topic) # {}}

\* The best hits by a score of rank, importance, scope, age and use.
Best(hits) == {s \in SUBSET hits :
                  Cardinality(s) = IF Cardinality(hits) < RecallLimit
                                     THEN Cardinality(hits) ELSE RecallLimit}

\* touch(): one UPDATE. Rows deleted since the search are not there any more.
TouchRows(ms) ==
    access_count' = [m \in Memories |->
                        access_count[m] + IF m \in ms \cap memories THEN 1 ELSE 0]

-----------------------------------------------------------------------------
(* build_prompt. *)

\* The system prompt, always there. Nothing in the code pins a fact, so that
\* section never is.
Pin(t) ==
    /\ step[t] = "new" /\ t \in world.turns
    /\ \E j \in world.jobs :
          /\ job' = [job EXCEPT ![t] = j]
          /\ left' = [left EXCEPT ![t] = ScannedPrefixes(j)]
          /\ used_tokens' = [used_tokens EXCEPT
                                 ![t] = SystemTokens[j.reactive] + j.prompt]
    /\ Goes(t, "scan")
    /\ kept' = [kept EXCEPT ![t] = Keys]
    /\ UNCHANGED <<stores, known, recalled, recent, sections>>

\* One prefix; after the last one the section is made.
ScanPrefix(t) ==
    /\ step[t] = "scan"
    /\ LET entries == AddScan(t, Scan(Head(left[t])))
           tokens  == EntryTokens * Cardinality(entries)
       IN  /\ known' = [known EXCEPT ![t] = entries]
           /\ IF Len(left[t]) > 1 THEN UNCHANGED <<step, sections, used_tokens>>
              ELSE /\ Goes(t, "search")
                   /\ IF entries # {} /\ Fits(t, used_tokens[t], tokens, 20)
                        THEN Section(t, "knowledge", tokens)
                        ELSE UNCHANGED <<sections, used_tokens>>
    /\ left' = [left EXCEPT ![t] = Tail(@)]
    /\ UNCHANGED <<stores, job, recalled, recent, kept>>

\* The recalled experience, and those it shows are touched next.
Search(t) ==
    /\ step[t] = "search"
    /\ \E best \in Best(Hits(job[t])) :
          LET tokens == MemoryTokens * Cardinality(best)
          IN  IF best # {} /\ Fits(t, used_tokens[t], tokens, 12)
                THEN /\ Section(t, "recalled", tokens)
                     /\ recalled' = [recalled EXCEPT ![t] = best]
                     /\ Goes(t, "touch")
                ELSE /\ Goes(t, "recent")
                     /\ UNCHANGED <<sections, used_tokens, recalled>>
    /\ UNCHANGED <<stores, job, left, known, recent, kept>>

Touch(t) ==
    /\ step[t] = "touch"
    /\ TouchRows(recalled[t])
    /\ Goes(t, "recent")
    /\ UNCHANGED <<world, knowledge, memories, unborn, expired, transcript, edits, job,
                   left, prompt, kept>>

\* An event is as long as any other as the user's turn, and so is a reply.
Tokens(turns) ==
    LET Of(role) == Cardinality({i \in DOMAIN turns : turns[i].role = role})
    IN  UserTokens * Of("user") + ReplyTokens * Of("assistant")

LastOf(n, s) == SubSeq(s, Len(s) - n + 1, Len(s))

\* get_recent, and of that as many of the newest turns as 30% of the budget hold.
Recent(j) ==
    LET all  == transcript[<<j.agent, j.scope>>]
        room == {n \in 0 .. Len(all) :
                    /\ n <= RecentLimit
                    /\ Tokens(LastOf(n, all)) <= (30 * Budget(j)) \div 100}
    IN  LastOf(Max(room), all)

\* The transcript, the referenced events (at most five) and the event itself.
Remember(t) ==
    /\ step[t] = "recent"
    /\ LET turns == Recent(job[t])
           used  == used_tokens[t] + Tokens(turns)
           refs  == RefTokens * IF job[t].refs < 5 THEN job[t].refs ELSE 5
           show  == job[t].refs > 0 /\ Fits(t, used, refs, 80)
       IN  /\ recent' = [recent EXCEPT ![t] = turns]
           /\ used_tokens' = [used_tokens EXCEPT
                                 ![t] = used + IF show THEN refs ELSE 0]
           /\ sections' = [sections EXCEPT
                              ![t] = @ \cup IF show THEN {"related"} ELSE {}]
    /\ Goes(t, "built")
    /\ UNCHANGED <<stores, job, left, known, recalled, kept>>

BuildPrompt(t) ==
    Pin(t) \/ ScanPrefix(t) \/ Search(t) \/ Touch(t) \/ Remember(t)

\* append() to the transcript, by the consumer.
AppendTurn(t, role) ==
    transcript' = [transcript EXCEPT ![<<job[t].agent, job[t].scope>>] =
                      Append(@, [role |-> role, of |-> t])]

-----------------------------------------------------------------------------
(* The API, and time. *)

SetKnowledge(k, v) ==
    /\ knowledge' = [knowledge EXCEPT ![k] = v]
    /\ kept' = [t \in Turns |-> kept[t] \ {k}]

Edit == edits < world.MaxEdits /\ edits' = edits + 1

\* set_knowledge and delete_knowledge.
EditKnowledge ==
    /\ Edit
    /\ \E k \in Keys, v \in Values \cup {None} : knowledge[k] # v /\ SetKnowledge(k, v)
    /\ UNCHANGED <<world, memories, unborn, access_count, expired, transcript, job, step, left,
                   prompt>>

\* create_memory and delete_memory; or a row's time is over. (PATCH changes the
\* importance only.)
EditMemories ==
    /\ Edit
    /\ \/ /\ \E m \in unborn : /\ memories' = memories \cup {m}
                              /\ unborn' = unborn \ {m}
          /\ UNCHANGED expired
       \/ /\ \E m \in memories : memories' = memories \ {m}
          /\ UNCHANGED <<unborn, expired>>
       \/ /\ \E m \in memories \ expired : expired' = expired \cup {m}
          /\ UNCHANGED <<world, memories, unborn>>
    /\ UNCHANGED <<world, knowledge, access_count, transcript, job, step, left, prompt,
                   kept>>

\* clear_agent_memory knows the agent's own scope only.
ClearTranscript ==
    /\ Edit
    /\ \E c \in Conversations :
          /\ c[2] = "agent" /\ transcript[c] # <<>>
          /\ transcript' = [transcript EXCEPT ![c] = <<>>]
    /\ UNCHANGED <<world, knowledge, memories, unborn, access_count, expired, job, step, left,
                   prompt, kept>>

Api == EditKnowledge \/ EditMemories \/ ClearTranscript
=============================================================================
