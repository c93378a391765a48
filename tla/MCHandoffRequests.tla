------------------------- MODULE MCHandoffRequests -------------------------
(* Instances of HandoffRequests for TLC.                                   *)
EXTENDS HandoffRequests

CONSTANTS
    created, accepted, recorded,                    \* calls of the past
    create, createAgain,                            \* Again: a retry of the call
    accept, acceptChanged, acceptElse, revoke,
    report, reportAgain, revokeAfter, merge, mergeAgain,
    parent, child, other, i1, i2

AllCalls ==
    {created, accepted, recorded, create, createAgain, accept, acceptChanged,
     acceptElse, revoke, report, reportAgain, revokeAfter, merge, mergeAgain}

\* A retry has the key of the call that it repeats, and a client may use it for
\* something else by mistake.
KeyOf == [c \in AllCalls |->
    CASE c = createAgain -> create
      [] c = acceptChanged -> accept
      [] c = reportAgain -> report
      [] c = mergeAgain -> merge
      [] OTHER -> c]

Capsule(reusable) ==
    [op |-> "create", actor |-> parent, recipients |-> {child, other}, reusable |-> reusable]

On(op, actor, expected) ==
    [op |-> op, actor |-> actor, handoff |-> created, expected |-> expected]

RequestOf == [c \in AllCalls |->
    CASE c = created -> Capsule(FALSE)
      [] c \in {create, createAgain} -> Capsule(TRUE)
      [] c \in {accepted, accept} -> On("accept", child, 1)
      [] c = acceptChanged -> On("accept", child, 2)
      [] c = acceptElse -> On("accept", other, 1)
      [] c = revoke -> On("revoke", parent, 1)
      [] c \in {recorded, report, reportAgain} -> On("result", child, 1)
      [] c = revokeAfter -> On("revoke", parent, 2)
      [] c \in {merge, mergeAgain} -> On("merge", parent, 1)]

DaemonOf == [c \in AllCalls |->
    IF c \in {createAgain, acceptElse, reportAgain, mergeAgain} THEN i2 ELSE i1]

\* The roots that calls of the past have published.
After(c, s) == CHOOSE t \in ApplyHandoff(c, s) : TRUE
Offer == After(created, NoHandoffs)
Accepted == After(accepted, Offer)

Histories ==
    {<<>>, <<Offer>>, <<Offer, Accepted>>, <<Offer, Accepted, After(recorded, Accepted)>>}

RecordedOnly == {<<Offer, Accepted, After(recorded, Accepted)>>}

LiveCalls(start) ==
    CASE Len(start) = 0 -> {create, createAgain}
      [] Len(start) = 1 -> {accept, acceptChanged, acceptElse, revoke}
      [] Len(start) = 2 -> {report, reportAgain, revoke}
      [] Len(start) = 3 -> {merge, mergeAgain, revokeAfter}

=============================================================================
