---------------------------- MODULE ContextSpace ----------------------------
(***************************************************************************)
(* The operations of one context space                                     *)
(* (crates/cigar-space/src/service.rs), each as the set of states it may   *)
(* lead to from state s: empty if the service refuses the request.  The    *)
(* service holds a write lock for a whole operation.                       *)
(*                                                                         *)
(* A commit is named by its sequence number and carries the resources that *)
(* its snapshot holds and its root digest stands for; the current          *)
(* resources are those of the head.  Identities that the code derives from *)
(* content are that content.  Text, evidence and policy digests are taken  *)
(* to be well formed.                                                      *)
(***************************************************************************)
EXTENDS Naturals, Sequences, FiniteSets, SequencesExt

CONSTANTS
    Keys, Values,
    Kind,               \* the variant of OverlayMutation that a value is
    Missing,            \* no value under a key
    Owner,              \* overlay identity -> the actor it belongs to
    Events,             \* event identities
    Urgent,             \* those of the kinds that event_priority() puts first
    Projects,           \* the first named is the active one of the hierarchy
    ActiveProject,
    NoBranch,
    MaxOverlays, MaxConflicts, MaxBranches, MaxLinks

ASSUME SpaceAssumption ==
    /\ Kind \in [Values -> {"Decision", "State", "Instruction", "Atom", "Artifact",
                            "Capability", "Lease", "Effect"}]
    /\ Missing \notin Values
    /\ IsFiniteSet(Events) /\ Urgent \subseteq Events /\ ActiveProject \in Projects
    /\ {MaxOverlays, MaxConflicts, MaxBranches, MaxLinks} \subseteq Nat

\* The states that an operation with this guard may lead to.
When(guard, states) == IF guard THEN states ELSE {}

NoSpace ==
    [history |-> <<>>, events |-> <<>>, overlays |-> <<>>, conflicts |-> {}, resolved |-> {},
     leases |-> <<>>, fencing |-> <<>>, focus |-> <<>>, active |-> NoBranch, links |-> {}]

Exists(s) == s.history # <<>>

HeadOf(s) == Len(s.history)

Resources(s) == s.history[HeadOf(s)].resources

Lookup(f, x) == IF x \in DOMAIN f THEN f[x] ELSE Missing

Without(f, x) == Restrict(f, DOMAIN f \ {x})

\* f with the entries of g, which replace its own.
Updated(f, g) ==
    [x \in DOMAIN f \cup DOMAIN g |-> IF x \in DOMAIN g THEN g[x] ELSE f[x]]

\* f with one entry more, or another one.
With(f, x, y) == Updated(f, [z \in {x} |-> y])

\* build_commit() and what every caller of it does with the commit.
Commit(s, resources, events, project, at) ==
    [s EXCEPT
        !.history = Append(@, [resources |-> resources, events |-> events, at |-> at]),
        !.events = @ \o [n \in DOMAIN events |-> [id |-> events[n], project |-> project]]]

CreateSpace(s, r) ==
    When(~Exists(s), {Commit(s, <<>>, <<r.event>>, ActiveProject, r.now)})

-----------------------------------------------------------------------------
(* Overlays.                                                               *)

\* private_overlay(): anybody but its owner is told that it does not exist.
Private(s, o, actor) == o \in DOMAIN s.overlays /\ Owner[o] = actor

CreateOverlay(s, r) ==
    When(/\ r.expected = HeadOf(s)
         /\ Cardinality(DOMAIN s.overlays) < MaxOverlays
         /\ r.base \in DOMAIN s.history
         /\ r.overlay \notin DOMAIN s.overlays,
         {[s EXCEPT !.overlays = With(@, r.overlay,
            [base |-> r.base, baseResources |-> s.history[r.base].resources,
             proposals |-> <<>>, expires |-> r.until])]})

Proposed(s, o, key, value) ==
    [s EXCEPT !.overlays[o].proposals = With(@, key, value)]

Propose(s, r) ==
    When(Private(s, r.overlay, r.actor), {Proposed(s, r.overlay, r.key, r.value)})

\* The overlay leaves, and the conflicts recorded for it.
DropOverlay(s, o) ==
    [s EXCEPT !.overlays = Without(@, o), !.conflicts = {c \in @ : c.overlay # o}]

DiscardOverlay(s, r) ==
    When(Private(s, r.overlay, r.actor), {DropOverlay(s, r.overlay)})

\* Mutant: only the caller's base is compared, not what changed meanwhile.
NoConflicts(s, o) == {}

\* A three-way merge of every proposal: it conflicts unless the resource is
\* as it was, is as proposed already, or the proposal changes nothing.
FindConflicts(s, o) ==
    LET overlay == s.overlays[o]
        Of(key) == [overlay |-> o, observed |-> HeadOf(s), key |-> key,
                    base |-> Lookup(overlay.baseResources, key),
                    current |-> Lookup(Resources(s), key),
                    proposed |-> overlay.proposals[key]]
    IN  {c \in {Of(key) : key \in DOMAIN overlay.proposals} :
            c.current # c.base /\ c.current # c.proposed /\ c.base # c.proposed}

Publish(s, r) ==
    LET o == r.overlay
        conflicts == FindConflicts(s, o)
        recorded == {c \in s.conflicts : c.overlay # o} \cup conflicts
        merged == Updated(Resources(s), s.overlays[o].proposals)
    IN  IF ~(r.expected = HeadOf(s) /\ Private(s, o, r.actor) /\ r.now < s.overlays[o].expires)
          THEN {}
        ELSE IF conflicts # {}
          THEN When(Cardinality(recorded) + Cardinality(s.resolved) <= MaxConflicts,
                    {[s EXCEPT !.conflicts = recorded]})
        ELSE IF merged = Resources(s)
          THEN {DropOverlay(s, o)}
        ELSE {Commit(DropOverlay(s, o), merged, <<r.event>>, ActiveProject, r.now)}

\* required_resolver and resolver_accepts().
ResolverAccepts(conflict, resolution) ==
    IF Kind[conflict.proposed] \in {"Decision", "State", "Instruction"}
      THEN Kind[resolution] = "Decision"
      ELSE Kind[resolution] = Kind[conflict.proposed]

\* The overlay is rebased on the value the conflict showed its owner.
Rebased(c, baseResources) ==
    IF c.current = Missing THEN Without(baseResources, c.key)
                           ELSE With(baseResources, c.key, c.current)

ResolveConflict(s, r) ==
    LET c == r.conflict IN
    When(/\ c \in s.conflicts
         /\ r.expected = HeadOf(s) /\ c.observed = HeadOf(s)
         /\ Private(s, c.overlay, r.actor)
         /\ ResolverAccepts(c, r.value)
         /\ r.now >= s.history[HeadOf(s)].at
         /\ \/ c \in s.resolved
            \/ Cardinality(s.conflicts) + Cardinality(s.resolved) < MaxConflicts,
         {[Proposed(s, c.overlay, c.key, r.value) EXCEPT
             !.overlays[c.overlay].baseResources = Rebased(c, @),
             !.conflicts = @ \ {c}, !.resolved = @ \cup {c}]})

\* DurableContextSpaceService::resolve_conflict_and_publish: both or nothing.
ResolveAndPublish(s, r) ==
    LET publication == [overlay |-> r.conflict.overlay, actor |-> r.actor,
                        expected |-> r.expected, event |-> r.event, now |-> r.now]
    IN  UNION {Publish(t, publication) : t \in ResolveConflict(s, r)}

-----------------------------------------------------------------------------
(* Events.                                                                 *)

\* Urgent events first; among equals any fixed order will do.
Prioritized(ids) ==
    SetToSeq(ids \cap Urgent) \o SetToSeq(ids \ Urgent)

AppendEvents(s, r) ==
    When(r.expected = HeadOf(s) /\ r.events # {},
         {Commit(s, Resources(s), Prioritized(r.events), r.project, r.now)})

\* Mutant: a page ends as many events later as it returns.
AfterReturned(s, after, page, more) == after + Len(page)

\* Where a page ends: before the first visible event it has no room for.
ResumeCursor(s, after, page, more) ==
    IF more = <<>> THEN Len(s.events) ELSE Head(more) - 1

\* The cursors of the events in some projects after a cursor.
VisibleAfter(s, visible, after) ==
    LET from[n \in 0 .. Len(s.events)] ==
            IF n = Len(s.events) THEN <<>>
            ELSE IF s.events[n + 1].project \in visible THEN <<n + 1>> \o from[n + 1]
            ELSE from[n + 1]
    IN  from[after]

\* poll_events(): a page of at most limit visible events.
PollEvents(s, visible, after, limit) ==
    LET found == VisibleAfter(s, visible, after)
        page == SubSeq(found, 1, Min({limit, Len(found)}))
        more == SubSeq(found, limit + 1, Len(found))
    IN  [events |-> page, more |-> more # <<>>,
         resume |-> ResumeCursor(s, after, page, more)]

\* Everything a client gets that asks for page after page.
AllPages(s, visible, limit) ==
    LET from[after \in 0 .. Len(s.events)] ==
            LET page == PollEvents(s, visible, after, limit)
            IN  page.events \o (IF page.more /\ page.resume > after THEN from[page.resume] ELSE <<>>)
    IN  from

\* Everything an event stream delivers: it goes on from the last event of a
\* page, or from the end of a page without events, where it waits.
EventStream(s, visible, limit) ==
    LET from[after \in 0 .. Len(s.events)] ==
            LET page == PollEvents(s, visible, after, limit)
            IN  IF page.events = <<>> THEN <<>> ELSE page.events \o from[Last(page.events)]
    IN  from

-----------------------------------------------------------------------------
(* Leases.                                                                 *)

Fence(s, x) == IF x \in DOMAIN s.fencing THEN s.fencing[x] ELSE 0

\* Mutant: a released lease gives its fence back.
FenceOfActive(s, x) ==
    IF x \in DOMAIN s.leases /\ s.leases[x].state = "Active" THEN s.leases[x].token + 1 ELSE 1

NextFence(s, x) == Fence(s, x) + 1

Held(s, x, now) ==
    x \in DOMAIN s.leases /\ s.leases[x].state = "Active" /\ now < s.leases[x].expires

AcquireLease(s, r) ==
    LET token == NextFence(s, r.resource) IN
    When(r.now < r.until /\ ~Held(s, r.resource, r.now),
         {[s EXCEPT
            !.fencing = With(@, r.resource, token),
            !.leases = With(@, r.resource,
                [holder |-> r.holder, state |-> "Active", acquired |-> r.now,
                 expires |-> r.until, revision |-> 1, token |-> token])]})

\* verify_lease_mutation(): the request is about the lease as it is.
Verified(s, r) ==
    /\ Held(s, r.resource, r.now)
    /\ \A field \in {"holder", "token", "revision"} :
        s.leases[r.resource][field] = r.lease[field]

RenewLease(s, r) ==
    When(r.now < r.until /\ Verified(s, r),
         {[s EXCEPT !.leases[r.resource].expires = r.until,
                    !.leases[r.resource].revision = @ + 1]})

ReleaseLease(s, r) ==
    When(Verified(s, r),
         {[s EXCEPT !.leases[r.resource].state = "Released",
                    !.leases[r.resource].revision = @ + 1]})

-----------------------------------------------------------------------------
(* Focus branches and project links.                                       *)

ForkFocus(s, r) ==
    When(/\ r.expected = HeadOf(s)
         /\ Cardinality(DOMAIN s.focus) < MaxBranches /\ r.branch \notin DOMAIN s.focus,
         {[s EXCEPT !.focus = With(@, r.branch,
            [fork |-> HeadOf(s), checkpoint |-> Missing, offline |-> r.offline])]})

CheckpointFocus(s, r) ==
    When(r.expected = HeadOf(s) /\ r.branch \in DOMAIN s.focus,
         {[s EXCEPT !.focus[r.branch].checkpoint = HeadOf(s)]})

SwitchFocus(s, r) ==
    When(r.branch \in DOMAIN s.focus, {[s EXCEPT !.active = r.branch]})

ResumeFocus(s, r) ==
    When(r.branch \in DOMAIN s.focus, {[s EXCEPT !.focus[r.branch].offline = FALSE]})

LinkProject(s, r) ==
    When(/\ r.from # r.to
         /\ Cardinality(s.links) < MaxLinks /\ <<r.from, r.to>> \notin s.links,
         {[s EXCEPT !.links = @ \cup {<<r.from, r.to>>}]})

-----------------------------------------------------------------------------
(* Snapshots.                                                              *)

EventIds(s) == [n \in DOMAIN s.events |-> s.events[n].id]

\* validate_space_snapshot(): what export refuses to encode and import to take.
ValidSpace(s) ==
    /\ Cardinality(DOMAIN s.overlays) <= MaxOverlays
    /\ Cardinality(s.conflicts) + Cardinality(s.resolved) <= MaxConflicts
    /\ Cardinality(DOMAIN s.focus) <= MaxBranches /\ Cardinality(s.links) <= MaxLinks
    /\ EventIds(s) = FlattenSeq([n \in DOMAIN s.history |-> s.history[n].events])
    /\ IsInjective(EventIds(s))
    /\ \A o \in DOMAIN s.overlays :
        s.history[s.overlays[o].base].resources = s.overlays[o].baseResources
    /\ \A c \in s.conflicts :
        /\ c.overlay \in DOMAIN s.overlays /\ c.observed \in DOMAIN s.history
        /\ c.key \in DOMAIN s.overlays[c.overlay].proposals
    /\ DOMAIN s.leases = DOMAIN s.fencing
    /\ \A x \in DOMAIN s.leases :
        /\ s.leases[x].acquired < s.leases[x].expires
        /\ s.leases[x].token = s.fencing[x]
    /\ \A b \in DOMAIN s.focus :
        {s.focus[b].fork, s.focus[b].checkpoint} \subseteq DOMAIN s.history \cup {Missing}
    /\ s.active \in DOMAIN s.focus \cup {NoBranch}

=============================================================================
