---------------------------- MODULE DurableSpaces ----------------------------
(***************************************************************************)
(* A context space kept durable by the daemon: DurableContextSpaceService  *)
(* (crates/cigar-daemon/src/durable_snapshot.rs) is the protocol of        *)
(* DurableSnapshots around the operations of ContextSpace: Empty is        *)
(* NoSpace, Valid is ValidSpace, Apply is ApplySpace and Requests is       *)
(* OfferedRequests.                                                        *)
(***************************************************************************)
EXTENDS ContextSpace, DurableSnapshots

CONSTANTS
    LeaseResources, Holders, Branches,
    Times,          \* the instants that requests carry
    PageLimits,     \* how many events a client asks for at once
    Offered(_, _, _)    \* bound of the model: the requests that reach an instance

ASSUME PagesAssumption == PageLimits \subseteq Nat \ {0}

\* An unused event identity, which one does not matter, or one used before.
EventChoices(s) ==
    LET used == ToSet(EventIds(s)) IN
    {CHOOSE e \in set : TRUE : set \in {used, Events \ used} \ {{}}}

\* One event, or all that are left.
Batches(s) == {{e} : e \in EventChoices(s)} \cup ({Events \ ToSet(EventIds(s))} \ {{}})

\* The requests that a space in state s does not refuse at once: an expected
\* revision is the head's, and what a request names exists.
SpaceRequests(s) ==
    LET head == {HeadOf(s)} IN
    IF ~Exists(s) THEN [op : {"CreateSpace"}, event : EventChoices(s), now : Times]
    ELSE UNION {
        UNION {[op : {"CreateOverlay"}, overlay : {o}, expected : head,
                base : DOMAIN s.history, until : Times] : o \in DOMAIN Owner},
        UNION {[op : {"Propose"}, overlay : {o}, actor : {Owner[o]},
                key : Keys, value : Values] : o \in DOMAIN s.overlays},
        UNION {[op : {"DiscardOverlay"}, overlay : {o}, actor : {Owner[o]}] : o \in DOMAIN s.overlays},
        UNION {[op : {"Publish"}, overlay : {o}, actor : {Owner[o]}, expected : head,
                event : EventChoices(s), now : Times] : o \in DOMAIN s.overlays},
        UNION {[op : {"ResolveConflict"}, conflict : {c}, actor : {Owner[c.overlay]},
                expected : head, value : Values, now : Times] : c \in s.conflicts},
        UNION {[op : {"ResolveAndPublish"}, conflict : {c}, actor : {Owner[c.overlay]},
                expected : head, value : Values, event : EventChoices(s), now : Times] :
                c \in s.conflicts},
        [op : {"AppendEvents"}, events : Batches(s), project : Projects,
         expected : head, now : Times],
        [op : {"AcquireLease"}, resource : LeaseResources, holder : Holders,
         now : Times, until : Times],
        UNION {[op : {"RenewLease"}, resource : {x}, now : Times, until : Times,
                lease : {s.leases[x]}] : x \in DOMAIN s.leases},
        UNION {[op : {"ReleaseLease"}, resource : {x}, now : Times,
                lease : {s.leases[x]}] : x \in DOMAIN s.leases},
        [op : {"ForkFocus"}, branch : Branches, expected : head, offline : BOOLEAN],
        [op : {"CheckpointFocus"}, branch : Branches, expected : head],
        [op : {"SwitchFocus", "ResumeFocus"}, branch : Branches],
        [op : {"LinkProject"}, from : Projects, to : Projects]}

OfferedRequests(i, s) == {r \in SpaceRequests(s) : Offered(i, r, s)}

\* The operation that a request of transact() calls.
ApplySpace(r, s) ==
    CASE r.op = "CreateSpace" -> CreateSpace(s, r)
      [] r.op = "CreateOverlay" -> CreateOverlay(s, r)
      [] r.op = "Propose" -> Propose(s, r)
      [] r.op = "DiscardOverlay" -> DiscardOverlay(s, r)
      [] r.op = "Publish" -> Publish(s, r)
      [] r.op = "ResolveConflict" -> ResolveConflict(s, r)
      [] r.op = "ResolveAndPublish" -> ResolveAndPublish(s, r)
      [] r.op = "AppendEvents" -> AppendEvents(s, r)
      [] r.op = "AcquireLease" -> AcquireLease(s, r)
      [] r.op = "RenewLease" -> RenewLease(s, r)
      [] r.op = "ReleaseLease" -> ReleaseLease(s, r)
      [] r.op = "ForkFocus" -> ForkFocus(s, r)
      [] r.op = "CheckpointFocus" -> CheckpointFocus(s, r)
      [] r.op = "SwitchFocus" -> SwitchFocus(s, r)
      [] r.op = "ResumeFocus" -> ResumeFocus(s, r)
      [] r.op = "LinkProject" -> LinkProject(s, r)

-----------------------------------------------------------------------------
(* Properties.                                                             *)

\* The newest root and the one before it.
New == Latest
Old == At(Len(roots) - 1)

\* The cursors come one after the other, and are those of a set.
InOrder(cursors, set) ==
    /\ ToSet(cursors) = set
    /\ \A m, n \in 1 .. Len(cursors) : m < n => cursors[m] < cursors[n]

\* A client that follows the events of the projects it may see, from wherever
\* it has got to, misses none and gets none twice, whatever pages it asks for
\* and however the pages end at events it may not see.
EventsAreComplete ==
    \A visible \in SUBSET Projects \ {{}}, limit \in PageLimits :
        LET pages == AllPages(New, visible, limit)
            stream == EventStream(New, visible, limit)
        IN  \A after \in 0 .. Len(New.events) :
                LET rest == {n \in after + 1 .. Len(New.events) :
                                New.events[n].project \in visible}
                IN  InOrder(pages[after], rest) /\ InOrder(stream[after], rest)

\* A fencing token names one holder of a resource for ever: no lease acquired
\* later, after a release, an expiry or a crash, has the token of an earlier one.
TokenNamesOneLease ==
    \A v \in 1 .. Len(roots) : \A x \in DOMAIN roots[v].leases :
        LET earlier == roots[v].leases[x]
            newest == New.leases[x]
        IN  /\ earlier.token <= newest.token
            /\ earlier.token = newest.token =>
                earlier.holder = newest.holder /\ earlier.acquired = newest.acquired

\* The overlays whose publication made the newest root.
JustPublished ==
    IF Len(roots) > 0 /\ HeadOf(New) > HeadOf(Old)
      THEN DOMAIN Old.overlays \ DOMAIN New.overlays ELSE {}

\* The value that the author of an overlay started from.
StartedFrom(o, key) == Lookup(Old.history[Old.overlays[o].base].resources, key)

\* The value was the one the author started from, or a conflict showed it.
WasShown(o, key, value) ==
    \/ value = StartedFrom(o, key)
    \/ \E c \in Old.conflicts : c.overlay = o /\ c.key = key /\ c.current = value

Overwritten(key) == Lookup(Resources(Old), key) # Lookup(Resources(New), key)

\* A publication replaces only values its author has been shown, except where
\* it proposes the very value it started from.
SeenBeforeOverwritten ==
    \A o \in JustPublished, key \in Keys :
        Overwritten(key) =>
            \/ WasShown(o, key, Lookup(Resources(Old), key))
            \/ Lookup(Resources(New), key) = StartedFrom(o, key)

\* "No semantic last-writer-wins exists" (prd.md): a publication replaces only
\* values its author has been shown.
NoLostUpdate ==
    \A o \in JustPublished, key \in Keys :
        Overwritten(key) => WasShown(o, key, Lookup(Resources(Old), key))

\* "Resolves and durably publishes one private-overlay conflict decision": a
\* resolution that the service accepts is not refused by the durable layer.
ResolutionIsDurable ==
    \A i \in Instances : \A r \in OfferedRequests(i, inst[i].mem) :
        r.op = "ResolveConflict" => \A s \in ApplySpace(r, inst[i].mem) : ValidSpace(s)

=============================================================================
