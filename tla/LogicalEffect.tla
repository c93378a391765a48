--------------------------- MODULE LogicalEffect ---------------------------
(***************************************************************************)
(* What the effect kernel promises about one logical effect, with none of  *)
(* the machinery: it happens at most once, only while its outcome is       *)
(* ambiguous, and a definitive verdict agrees with what happened.          *)
(***************************************************************************)
CONSTANT Effects

VARIABLES
    verdict,    \* what the journal says of the effect
    happened    \* whether the remote was changed

logical == <<verdict, happened>>

Verdicts == {"open", "ambiguous", "succeeded", "closed", "manual"}

Init ==
    /\ verdict = [e \in Effects |-> "open"]
    /\ happened = [e \in Effects |-> FALSE]

Judge(e, from, to) ==
    /\ verdict[e] = from
    /\ verdict' = [verdict EXCEPT ![e] = to]
    /\ UNCHANGED happened

\* From here on the request may be under way.
Enter(e) == Judge(e, "open", "ambiguous")

\* The remote acts, once, and never behind a definitive verdict.
Happen(e) ==
    /\ verdict[e] \in {"ambiguous", "manual"}
    /\ ~happened[e]
    /\ happened' = [happened EXCEPT ![e] = TRUE]
    /\ UNCHANGED verdict

Confirm(e) == happened[e] /\ Judge(e, "ambiguous", "succeeded")

Close(e) == ~happened[e] /\ \E from \in {"open", "ambiguous"} : Judge(e, from, "closed")

\* Only a proof that nothing happened allows another try.
Reopen(e) == ~happened[e] /\ Judge(e, "ambiguous", "open")

GiveUp(e) == Judge(e, "ambiguous", "manual")

\* An ambiguous compensation throws the original back into ambiguity.
Doubt(e) == Judge(e, "succeeded", "ambiguous")

Next ==
    \E e \in Effects :
        \/ Enter(e) \/ Happen(e) \/ Confirm(e) \/ Close(e)
        \/ Reopen(e) \/ GiveUp(e) \/ Doubt(e)

Spec == Init /\ [][Next]_logical

=============================================================================
