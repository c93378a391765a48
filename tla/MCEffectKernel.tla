--------------------------- MODULE MCEffectKernel ---------------------------
(* Small instances of EffectKernel for TLC.                                *)
EXTENDS EffectKernelInvariant, TLC

\* An intent alive from the start until expires, under its own key.
MakeIntent(e, policy, expires) ==
    [policy |-> policy, maxTries |-> 2, risk |-> "low",
     created |-> 0, expires |-> expires, key |-> e,
     operation |-> {"lookup"} \cup ({policy} \cap {"same_key"})]

ReconcileIntent == [e \in Effects |-> MakeIntent(e, "reconcile", 2)]

\* Two risky proposals of the same thing under one key, a collision of
\* identities: the first to be prepared wins the key. One of them may be
\* retried after a proof only, the other under the key itself.
SharedKeyIntent ==
    LET first == CHOOSE k \in Effects : TRUE
    IN  [e \in Effects |->
            [MakeIntent(e, IF e = first THEN "reconcile" ELSE "same_key", 2) EXCEPT
                !.risk = "high", !.key = first]]

\* Originals can be compensated, children cannot; nothing is retried.
CONSTANTS Originals, Children

CompensationIntent ==
    [e \in Effects |-> [MakeIntent(e, "never", 1) EXCEPT
        !.operation = IF e \in Originals THEN {"lookup", "compensation"}
                                       ELSE {"lookup"}]]

CompensationPairs == Originals \X Children

\* Callers either hold everything or nothing.
AllOrNothing == {{}, Capabilities}

Everything == {Capabilities}

NoCompensation == {}

WorkerSymmetry == Permutations(Workers)

CompensationSymmetry == Permutations(Workers) \cup Permutations(Originals)

=============================================================================
