----------------------------- MODULE Clipboard -----------------------------
(***************************************************************************)
(* The clipboard producer polls the clipboard with a subprocess and         *)
(* publishes a content that is long enough and not the one it saw last. It  *)
(* remembers a content before it publishes it.                              *)
(***************************************************************************)
EXTENDS BaseProducer

CONSTANTS
    Contents,       \* the texts long enough to publish
    MaxCopies       \* bound: times something is copied

TooShort == 0       \* an empty clipboard, or less than min_length

ClipboardAssumption == MaxCopies \in Nat /\ Contents \subseteq Nat \ {TooShort}

VARIABLES
    last_hash,      \* each instance
    clip, copies,   \* environment
    shown           \* history: the content each instance published last

clipboard == <<last_hash, clip, copies, shown>>

ClipboardInit ==
    /\ last_hash = [i \in Instances |-> TooShort]
    /\ clip = TooShort /\ copies = 0
    /\ shown = [i \in Instances |-> TooShort]

Copy ==
    /\ copies < MaxCopies
    /\ copies' = copies + 1
    /\ clip' \in (Contents \cup {TooShort}) \ {clip}
    /\ UNCHANGED <<base, last_hash, shown>>

Seen(i, c) == last_hash[i] = c

\* A read that is new: what is published is remembered first.
ReadNew(i) ==
    /\ Resumes(i, "poll")
    /\ clip # TooShort /\ ~Seen(i, clip)
    /\ last_hash' = [last_hash EXCEPT ![i] = clip]
    /\ Go(i, "publish")
    /\ UNCHANGED <<name, running, cancelled, errors, clip, copies, shown>>

ReadNothing(i) ==
    /\ Resumes(i, "poll")
    /\ clip = TooShort \/ Seen(i, clip)
    /\ Go(i, "sleep")
    /\ UNCHANGED <<name, running, cancelled, errors, clipboard>>

\* The read times out or the tool is gone, or publish() raises. The loop
\* sleeps before it looks at _running.
ClipboardRaises(i) ==
    /\ Resumes(i, "poll") \/ Resumes(i, "publish")
    /\ errors < MaxErrors
    /\ errors' = errors + 1
    /\ Go(i, "sleep")
    /\ UNCHANGED <<name, running, cancelled, clipboard>>

ContentPublished(i) ==
    /\ Resumes(i, "publish")
    /\ shown' = [shown EXCEPT ![i] = last_hash[i]]
    /\ Go(i, "sleep")
    /\ UNCHANGED <<name, running, cancelled, errors, last_hash, clip, copies>>

\* stop() cancels the loop; a publish() in progress may have stored its event.
ClipboardStop(i) ==
    /\ running' = [running EXCEPT ![i] = FALSE]
    /\ cancelled' = [cancelled EXCEPT ![i] = TRUE]
    /\ \/ UNCHANGED shown
       \/ task[i] = "publish" /\ shown' = [shown EXCEPT ![i] = last_hash[i]]
    /\ UNCHANGED <<name, task, errors, last_hash, clip, copies>>

ClipboardLoop(i) ==
    /\ name[i] = "clipboard"
    /\ \/ ReadNew(i) \/ ReadNothing(i) \/ ClipboardRaises(i) \/ ContentPublished(i)
       \/ (Wake(i, "poll") \/ Unwind(i)) /\ UNCHANGED clipboard
=============================================================================
