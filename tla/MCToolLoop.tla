----------------------------- MODULE MCToolLoop -----------------------------
(* The instance of ToolLoop that TLC checks. *)
EXTENDS ToolLoopProperties, TLC

\* A batch that pauses in the middle, and one that never does.
MixedAnswers == {<<"auto", "confirm", "auto">>, <<"refused">>}
AskOnly      == {<<"confirm">>}

Slots == Permutations(Tasks) \cup Permutations(Callers)
=============================================================================
