--------------------------- MODULE MCContextBroker ---------------------------
(* An instance of ContextBroker in which an agent reads one source that may  *)
(* be derived from another, which it cannot read.                            *)
EXTENDS ContextBroker

CONSTANTS agent, raw, derived, page, note

ReadsDerived == [a \in {agent} |-> {derived}]

Offer(documents, inputs, until) ==
    [documents |-> documents, inputs |-> inputs, until |-> until]

\* The raw source may expire, be withdrawn, or be derived in its turn; the
\* derived one may take over a document that the raw one has given up.
SmallOffers ==
    [s \in {raw, derived} |->
        IF s = raw
        THEN {Offer({page}, {}, 1), Offer({page}, {derived}, Never),
              Offer({}, {}, Never)}
        ELSE {Offer({note}, {raw}, Never), Offer({page}, {}, Never)}]

\* The derived source may come in batches or be proposed.
SmallDrafts ==
    [s \in {raw, derived} |-> IF s = derived THEN {Offer({note}, {raw}, Never)} ELSE {}]

\* One edge of each kind, in opposite directions.
TwoRelations ==
    {[kind |-> "depends", from |-> note, to |-> page],
     [kind |-> "contradicts", from |-> page, to |-> note]}

FewVersions == [s \in {raw, derived} |-> IF s = derived THEN 3 ELSE 2]
=============================================================================
