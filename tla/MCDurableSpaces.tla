-------------------------- MODULE MCDurableSpaces --------------------------
(* Instances of DurableSpaces for TLC.                                     *)
EXTENDS DurableSpaces, TLC

CONSTANTS o1, o2, alice, bob, k1, d1, d2, t1, p1, p2, b1, x1, i1, i2

Overlays == (o1 :> alice) @@ (o2 :> bob)

\* Two decisions and a state that only a decision can supersede.
Kinds == [v \in Values |-> IF v = t1 THEN "State" ELSE "Decision"]

\* The roots that a list of requests publishes one after the other.
RootsOf(rs) ==
    LET After(states, r) == Append(states, CHOOSE s \in ApplySpace(r, Last(states)) : TRUE)
    IN  Tail(FoldLeft(After, <<NoSpace>>, rs))

UnusedAfter(rs) == CHOOSE e \in Events \ ToSet(EventIds(Last(RootsOf(rs)))) : TRUE

Create == [op |-> "CreateSpace", event |-> CHOOSE e \in Events : TRUE, now |-> 0]

Fork(o, head) ==
    [op |-> "CreateOverlay", overlay |-> o, expected |-> head, base |-> head, until |-> 1]

\* Alice has published a decision, and both of them want another one.
SharedDecision ==
    LET before == <<Create, Fork(o1, 1),
            [op |-> "Propose", overlay |-> o1, actor |-> alice, key |-> k1, value |-> d1]>>
    IN RootsOf(before \o <<
        [op |-> "Publish", overlay |-> o1, actor |-> alice, expected |-> 1,
         event |-> UnusedAfter(before), now |-> 0],
        Fork(o1, 2), Fork(o2, 2),
        [op |-> "Propose", overlay |-> o1, actor |-> alice, key |-> k1, value |-> d2],
        [op |-> "Propose", overlay |-> o2, actor |-> bob, key |-> k1, value |-> t1]>>)

\* A branch was left offline and came back, and Alice holds a lease.
Coordination == RootsOf(<<
    Create,
    [op |-> "LinkProject", from |-> p1, to |-> p2],
    [op |-> "ForkFocus", branch |-> b1, expected |-> 1, offline |-> TRUE],
    [op |-> "SwitchFocus", branch |-> b1],
    [op |-> "ResumeFocus", branch |-> b1],
    [op |-> "AcquireLease", resource |-> x1, holder |-> alice, now |-> 0, until |-> 1],
    [op |-> "CheckpointFocus", branch |-> b1, expected |-> 1],
    [op |-> "RenewLease", resource |-> x1, now |-> 0, until |-> 1,
     lease |-> [holder |-> alice, token |-> 1, revision |-> 1]],
    [op |-> "AppendEvents", events |-> {UnusedAfter(<<Create>>)}, project |-> p2,
     expected |-> 1, now |-> 0]>>)

BothStarts == {SharedDecision, Coordination}

OneStart == {SharedDecision}

LeaseOps == {"AcquireLease", "RenewLease", "ReleaseLease"}

OverlayOps == {"Propose", "DiscardOverlay", "Publish", "ResolveConflict", "ResolveAndPublish"}

\* Alice's requests reach one instance and Bob's the other.
Caller(r) ==
    IF "actor" \in DOMAIN r THEN r.actor
    ELSE IF "overlay" \in DOMAIN r THEN Owner[r.overlay]
    ELSE IF "holder" \in DOMAIN r THEN r.holder
    ELSE IF "lease" \in DOMAIN r THEN r.lease.holder
    ELSE IF r.op = "AppendEvents" THEN alice ELSE bob

\* Resources are worked on while there are overlays, the rest is coordinated
\* while there are none.  Alice does not change her mind, overlays fork from an
\* early head, and only leases see the time pass.
Alternating(i, r, s) ==
    /\ (i = i1) <=> (Caller(r) = alice)
    /\ r.op \in OverlayOps \cup {"CreateOverlay"} \/ s.overlays = <<>>
    /\ r.op = "CreateOverlay" =>
        r.base = r.expected /\ r.base <= 2 /\ r.until = 1 /\ s.fencing = <<>>
    /\ r.op = "Propose" => r.actor = bob \/ s.overlays[r.overlay].proposals = <<>>
    /\ r.op \in {"AcquireLease", "RenewLease"} => r.until = r.now + 1
    /\ "now" \in DOMAIN r => r.now = 0 \/ r.op \in LeaseOps
    /\ r.op = "AppendEvents" => r.project = p2

=============================================================================
