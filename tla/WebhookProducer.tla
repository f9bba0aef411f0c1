-------------------------- MODULE WebhookProducer --------------------------
(***************************************************************************)
(* The webhook producer and its endpoint. The request looks up the running  *)
(* producer, waits for its body, checks the secret, parses the body and     *)
(* publishes; the producer it looked up may have been stopped meanwhile.    *)
(***************************************************************************)
EXTENDS Happenings

\* receive_webhook up to request.body(); i is the producer the manager has.
Receive(i) ==
    /\ running[i]
    /\ TakeIn(i, "noticed")
    /\ UNCHANGED base

\* The body has come: 401, 400, or on to publish(). The client may also go.
BodyArrives(i) ==
    /\ \E o \in Noticed(i) : Becomes({o}, "taken") \/ Becomes({o}, "dropped")
    /\ UNCHANGED base

HookPublished(i) ==
    /\ \E o \in InHand(i) : Becomes({o}, "published")
    /\ UNCHANGED base

HookRaises(i) ==
    /\ Raises
    /\ \E o \in InHand(i) : Becomes({o}, "dropped")
    /\ UNCHANGED <<name, running, task, cancelled>>

\* stop() only clears the flag.
WebhookStop(i) ==
    /\ running' = [running EXCEPT ![i] = FALSE]
    /\ UNCHANGED <<name, task, cancelled, errors, happenings>>

WebhookSteps(i) ==
    /\ name[i] = "webhook"
    /\ BodyArrives(i) \/ HookPublished(i) \/ HookRaises(i)
=============================================================================
