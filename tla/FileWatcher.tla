---------------------------- MODULE FileWatcher ----------------------------
(***************************************************************************)
(* The file watcher: awatch() gathers changes and hands them over in        *)
(* batches, and the loop publishes a batch, in no particular order, before  *)
(* it asks for the next. An error ends the loop and leaves _running set.    *)
(* Ignored paths are left out. stop() cancels as it clears _running, so the *)
(* loop never sees the flag cleared itself.                                 *)
(***************************************************************************)
EXTENDS Happenings

Watches(i, at) == name[i] = "file_watcher" /\ Resumes(i, at)

\* The loop's first step: from here on changes are noticed.
Watch(i) ==
    /\ Watches(i, "open")
    /\ Go(i, "watch")
    /\ UNCHANGED <<name, running, cancelled, errors, happenings>>

Change(i) ==
    /\ Watches(i, "watch") \/ Watches(i, "publish")
    /\ TakeIn(i, "noticed")
    /\ UNCHANGED base

Batch(i) ==
    /\ Watches(i, "watch") /\ Noticed(i) # {}
    /\ Becomes(Noticed(i), "taken")
    /\ Go(i, "publish")
    /\ UNCHANGED <<name, running, cancelled, errors>>

\* Mutant: the loop asks for the next batch after one publish().
PublishChange_One(i) ==
    /\ Watches(i, "publish")
    /\ \E o \in InHand(i) : Becomes({o}, "published")
    /\ Go(i, "watch")
    /\ UNCHANGED <<name, running, cancelled, errors>>

PublishChange(i) ==
    /\ Watches(i, "publish")
    /\ \E o \in InHand(i) : Becomes({o}, "published")
    /\ Go(i, IF Cardinality(InHand(i)) = 1 THEN "watch" ELSE "publish")
    /\ UNCHANGED <<name, running, cancelled, errors>>

\* awatch() or a publish() raises: the loop is over and nobody is told.
WatchRaises(i) ==
    /\ Watches(i, "open") \/ Watches(i, "watch") \/ Watches(i, "publish")
    /\ Raises
    /\ Becomes(Open(i), "dropped")
    /\ Go(i, "done")
    /\ UNCHANGED <<name, running, cancelled>>

FileWatcherStop(i) ==
    /\ running' = [running EXCEPT ![i] = FALSE]
    /\ cancelled' = [cancelled EXCEPT ![i] = TRUE]
    /\ Cancelled(i, {o \in InHand(i) : InHand(i) = {o}})
    /\ UNCHANGED <<name, task, errors>>

FileWatcherLoop(i) ==
    /\ name[i] = "file_watcher"
    /\ \/ Watch(i) \/ Batch(i) \/ PublishChange(i) \/ WatchRaises(i)
       \/ Unwind(i) /\ UNCHANGED happenings
=============================================================================
