------------------------- MODULE DurableSpacesProofs -------------------------
(***************************************************************************)
(* What durable context spaces promise, for every set of actors, keys,     *)
(* overlays, leases and projects, every number of daemons and every length *)
(* of the history.                                                         *)
(*                                                                         *)
(* DurableSnapshotsProofs shows that each version of the root is made from *)
(* the one before it by a request that is applied to it, whatever crashes, *)
(* lost answers and racing daemons came between (EveryRootFollows).  It is *)
(* left to show what one operation of the service does to a state, one     *)
(* lemma per operation, and to go along the versions by induction.  The    *)
(* strengthening that needs is ConflictsAreTrue: a conflict on record      *)
(* names a commit and the value that this commit has.  With it, resolving  *)
(* a conflict shows the author the value that is about to be replaced.     *)
(*                                                                         *)
(* That event pages and streams are complete is a fact about any log: they *)
(* are compared with the visible cursors by an induction that goes down    *)
(* from the end of the log.                                                *)
(***************************************************************************)
EXTENDS DurableSpaces, DurableSnapshotsProofs, FoldLemmas, FiniteSetTheorems, SequenceTheorems,
        TLAPS

-----------------------------------------------------------------------------
(* What every published state is: the types of its parts, and the truth of *)
(* the conflicts recorded in it.                                           *)

\* Functions from some of the keys.
Maps(keys, values) == UNION {[some -> values] : some \in SUBSET keys}

\* A revision of the space.
Commits == [resources : Maps(Keys, Values), events : Seq(Events), at : Times]

\* An event of the log, with its project.
LoggedEvents == [id : Events, project : Projects]

\* An overlay: its base, the values there, and what it proposes.
OverlayRecords ==
    [base : Nat, baseResources : Maps(Keys, Values), proposals : Maps(Keys, Values),
     expires : Times]

\* A conflict, with the commit it was observed at.
Conflicts ==
    [overlay : DOMAIN Owner, observed : Nat, key : Keys, base : Values \cup {Missing},
     current : Values \cup {Missing}, proposed : Values]

\* A lease and its fencing token.
Leases ==
    [holder : Holders, state : {"Active", "Released"}, acquired : Times, expires : Times,
     revision : Nat, token : Nat]

\* A focus branch.
FocusBranches == [fork : Nat, checkpoint : Nat \cup {Missing}, offline : BOOLEAN]

\* The state of a space.
SpaceStates ==
    [history : Seq(Commits), events : Seq(LoggedEvents),
     overlays : Maps(DOMAIN Owner, OverlayRecords),
     conflicts : SUBSET Conflicts, resolved : SUBSET Conflicts,
     leases : Maps(LeaseResources, Leases), fencing : Maps(LeaseResources, Nat),
     focus : Maps(Branches, FocusBranches), active : Branches \cup {NoBranch},
     links : SUBSET (Projects \X Projects)]

\* A recorded conflict has the value that the observed commit has.
ConflictsAreTrue(s) ==
    \A c \in s.conflicts :
        /\ c.observed \in DOMAIN s.history
        /\ c.current = Lookup(s.history[c.observed].resources, c.key)

\* Every version of the root is a state of the types above.
SpacesTypeOK == \A v \in 1 .. Len(roots) : roots[v] \in SpaceStates

\* The service inside the durable layer is the context space service: what a
\* configuration of DurableSpaces substitutes for the constants.
ServiceIsSpaces ==
    /\ Empty = NoSpace
    /\ \A s : Valid(s) <=> ValidSpace(s)
    /\ \A i, s : Requests(i, s) = OfferedRequests(i, s)
    /\ \A r, s : Apply(r, s) = ApplySpace(r, s)

-----------------------------------------------------------------------------
(* Maps.                                                                   *)

\* A map is a function on some of the keys.
LEMMA MapFacts ==
    ASSUME NEW K, NEW V, NEW f
    PROVE  f \in Maps(K, V) <=> DOMAIN f \subseteq K /\ f \in [DOMAIN f -> V]
<1>1. ASSUME f \in Maps(K, V) PROVE DOMAIN f \subseteq K /\ f \in [DOMAIN f -> V]
  <2>1. PICK some \in SUBSET K : f \in [some -> V]
    BY <1>1 DEF Maps
  <2>. QED  BY <2>1
<1>2. ASSUME DOMAIN f \subseteq K, f \in [DOMAIN f -> V] PROVE f \in Maps(K, V)
  BY <1>2 DEF Maps
<1>. QED  BY <1>1, <1>2

\* The map without keys.
LEMMA EmptyMap ==
    ASSUME NEW K, NEW V
    PROVE  <<>> \in Maps(K, V)
<1>1. DOMAIN <<>> = {} /\ <<>> \in [DOMAIN <<>> -> V]
  OBVIOUS
<1>. QED  BY <1>1, MapFacts

\* A map with the entries of another one.
LEMMA UpdatedMap ==
    ASSUME NEW K, NEW V, NEW f \in Maps(K, V), NEW g \in Maps(K, V)
    PROVE  /\ Updated(f, g) \in Maps(K, V)
           /\ DOMAIN Updated(f, g) = DOMAIN f \cup DOMAIN g
           /\ \A x \in DOMAIN g : Lookup(Updated(f, g), x) = g[x]
           /\ \A x : x \notin DOMAIN g => Lookup(Updated(f, g), x) = Lookup(f, x)
<1>1. /\ DOMAIN f \subseteq K /\ DOMAIN g \subseteq K
      /\ \A x \in DOMAIN f : f[x] \in V /\ \A z \in DOMAIN g : g[z] \in V
  BY MapFacts
<1>2. DOMAIN Updated(f, g) = DOMAIN f \cup DOMAIN g
  BY DEF Updated
<1>3. Updated(f, g) \in [DOMAIN Updated(f, g) -> V]
  BY MapFacts DEF Updated
<1>4. Updated(f, g) \in Maps(K, V)
  BY <1>1, <1>2, <1>3, MapFacts
<1>. QED  BY <1>2, <1>4 DEF Updated, Lookup

\* A map with one more entry.
LEMMA WithMap ==
    ASSUME NEW K, NEW V, NEW f \in Maps(K, V), NEW x \in K, NEW y \in V
    PROVE  /\ With(f, x, y) \in Maps(K, V)
           /\ DOMAIN With(f, x, y) = DOMAIN f \cup {x}
           /\ With(f, x, y)[x] = y
           /\ \A z \in DOMAIN f : z # x => With(f, x, y)[z] = f[z]
           /\ Lookup(With(f, x, y), x) = y
           /\ \A z : z # x => Lookup(With(f, x, y), z) = Lookup(f, z)
<1>. DEFINE g == [z \in {x} |-> y]
<1>1. g \in Maps(K, V)
  BY MapFacts
<1>. QED  BY <1>1, UpdatedMap DEF With, Updated, Lookup

\* A map without an entry.
LEMMA WithoutMap ==
    ASSUME NEW K, NEW V, NEW f \in Maps(K, V), NEW x
    PROVE  /\ Without(f, x) \in Maps(K, V)
           /\ \A z : z \in DOMAIN Without(f, x) <=> z \in DOMAIN f /\ z # x
           /\ \A z \in DOMAIN f : z # x => Without(f, x)[z] = f[z]
           /\ Lookup(Without(f, x), x) = Missing
           /\ \A z : z # x => Lookup(Without(f, x), z) = Lookup(f, z)
<1>1. DOMAIN f \subseteq K /\ f \in [DOMAIN f -> V]
  BY MapFacts
<1>2. /\ DOMAIN Without(f, x) = DOMAIN f \ {x}
      /\ \A z \in DOMAIN f : z # x => Without(f, x)[z] = f[z]
  BY DEF Without, Restrict
<1>3. Without(f, x) \in [DOMAIN Without(f, x) -> V]
  BY <1>1 DEF Without, Restrict
<1>4. Without(f, x) \in Maps(K, V)
  BY <1>1, <1>2, <1>3, MapFacts
<1>. QED  BY <1>2, <1>4 DEF Lookup

\* What a lookup finds.
LEMMA LookupMap ==
    ASSUME NEW K, NEW V, NEW f \in Maps(K, V), NEW x
    PROVE  Lookup(f, x) \in V \cup {Missing}
BY MapFacts DEF Lookup

-----------------------------------------------------------------------------
(* What requests ask for.                                                  *)

\* The offered event identities are event identities.
LEMMA EventChoicesAreEvents ==
    ASSUME NEW s \in SpaceStates
    PROVE  EventChoices(s) \subseteq Events /\ \A batch \in Batches(s) : batch \in SUBSET Events
<1>. DEFINE used == ToSet(EventIds(s))
<1>1. used \subseteq Events
  <2>1. s.events \in Seq(LoggedEvents)
    BY DEF SpaceStates
  <2>2. \A n \in DOMAIN s.events : s.events[n] \in LoggedEvents
    BY <2>1
  <2>. QED  BY <2>2 DEF ToSet, EventIds, LoggedEvents
<1>2. ASSUME NEW set \in {used, Events \ used} \ {{}} PROVE (CHOOSE e \in set : TRUE) \in Events
  <2>1. (CHOOSE e \in set : TRUE) \in set
    BY <1>2
  <2>. QED  BY <1>1, <2>1
<1>3. EventChoices(s) \subseteq Events
  BY <1>2 DEF EventChoices
<1>. QED  BY <1>3 DEF Batches

\* A request is well formed: what it names exists or may exist.
Asks(r, s) ==
    \/ ~Exists(s) /\ r.op = "CreateSpace" /\ r.event \in Events /\ r.now \in Times
    \/ /\ Exists(s)
       /\ \/ /\ r.op = "CreateOverlay" /\ r.overlay \in DOMAIN Owner
             /\ r.base \in DOMAIN s.history /\ r.until \in Times
          \/ /\ r.op = "Propose" /\ r.overlay \in DOMAIN s.overlays
             /\ r.key \in Keys /\ r.value \in Values
          \/ r.op = "DiscardOverlay" /\ r.overlay \in DOMAIN s.overlays
          \/ /\ r.op = "Publish" /\ r.overlay \in DOMAIN s.overlays
             /\ r.event \in Events /\ r.now \in Times
          \/ r.op = "ResolveConflict" /\ r.conflict \in s.conflicts /\ r.value \in Values
          \/ /\ r.op = "ResolveAndPublish" /\ r.conflict \in s.conflicts /\ r.value \in Values
             /\ r.event \in Events /\ r.now \in Times
          \/ /\ r.op = "AppendEvents" /\ r.events \in SUBSET Events
             /\ r.project \in Projects /\ r.now \in Times
          \/ /\ r.op = "AcquireLease" /\ r.resource \in LeaseResources /\ r.holder \in Holders
             /\ r.now \in Times /\ r.until \in Times
          \/ r.op = "RenewLease" /\ r.resource \in DOMAIN s.leases /\ r.until \in Times
          \/ r.op = "ReleaseLease" /\ r.resource \in DOMAIN s.leases
          \/ r.op = "ForkFocus" /\ r.branch \in Branches /\ r.offline \in BOOLEAN
          \/ r.op \in {"CheckpointFocus", "SwitchFocus", "ResumeFocus"} /\ r.branch \in Branches
          \/ r.op = "LinkProject" /\ r.from \in Projects /\ r.to \in Projects

\* Every request is well formed.
LEMMA RequestAsks ==
    ASSUME NEW s \in SpaceStates, NEW r \in SpaceRequests(s)
    PROVE  Asks(r, s)
<1>1. EventChoices(s) \subseteq Events /\ \A batch \in Batches(s) : batch \in SUBSET Events
  BY EventChoicesAreEvents
<1>2. CASE ~Exists(s)
  BY <1>1, <1>2 DEF SpaceRequests, Asks
<1>3. CASE Exists(s)
  <2>. DEFINE head == {HeadOf(s)}
              A == UNION {[op : {"CreateOverlay"}, overlay : {o}, expected : head,
                base : DOMAIN s.history, until : Times] : o \in DOMAIN Owner}
              B == UNION {[op : {"Propose"}, overlay : {o}, actor : {Owner[o]},
                key : Keys, value : Values] : o \in DOMAIN s.overlays}
              C == UNION {[op : {"DiscardOverlay"}, overlay : {o}, actor : {Owner[o]}] : o \in DOMAIN s.overlays}
              D == UNION {[op : {"Publish"}, overlay : {o}, actor : {Owner[o]}, expected : head,
                event : EventChoices(s), now : Times] : o \in DOMAIN s.overlays}
              E == UNION {[op : {"ResolveConflict"}, conflict : {c}, actor : {Owner[c.overlay]},
                expected : head, value : Values, now : Times] : c \in s.conflicts}
              F == UNION {[op : {"ResolveAndPublish"}, conflict : {c}, actor : {Owner[c.overlay]},
                expected : head, value : Values, event : EventChoices(s), now : Times] :
                c \in s.conflicts}
              G == [op : {"AppendEvents"}, events : Batches(s), project : Projects,
                    expected : head, now : Times]
              H == [op : {"AcquireLease"}, resource : LeaseResources, holder : Holders,
                    now : Times, until : Times]
              I == UNION {[op : {"RenewLease"}, resource : {x}, now : Times, until : Times,
                lease : {s.leases[x]}] : x \in DOMAIN s.leases}
              J == UNION {[op : {"ReleaseLease"}, resource : {x}, now : Times,
                lease : {s.leases[x]}] : x \in DOMAIN s.leases}
              K == [op : {"ForkFocus"}, branch : Branches, expected : head, offline : BOOLEAN]
              L == [op : {"CheckpointFocus"}, branch : Branches, expected : head]
              M == [op : {"SwitchFocus", "ResumeFocus"}, branch : Branches]
              N == [op : {"LinkProject"}, from : Projects, to : Projects]
  <2>1. SpaceRequests(s) = UNION {A, B, C, D, E, F, G, H, I, J, K, L, M, N}
    BY <1>3, Zenon DEF SpaceRequests
  <2>2. CASE r \in A
    BY <1>3, <2>2 DEF Asks
  <2>3. CASE r \in B
    BY <1>3, <2>3 DEF Asks
  <2>4. CASE r \in C
    BY <1>3, <2>4 DEF Asks
  <2>5. CASE r \in D
    BY <1>1, <1>3, <2>5 DEF Asks
  <2>6. CASE r \in E
    BY <1>3, <2>6 DEF Asks
  <2>7. CASE r \in F
    BY <1>1, <1>3, <2>7 DEF Asks
  <2>8. CASE r \in G
    BY <1>1, <1>3, <2>8 DEF Asks
  <2>9. CASE r \in H
    BY <1>3, <2>9 DEF Asks
  <2>10. CASE r \in I
    BY <1>3, <2>10 DEF Asks
  <2>11. CASE r \in J
    BY <1>3, <2>11 DEF Asks
  <2>12. CASE r \in K
    BY <1>3, <2>12 DEF Asks
  <2>13. CASE r \in L \cup M \cup N
    BY <1>3, <2>13 DEF Asks
  <2>. HIDE DEF A, B, C, D, E, F, G, H, I, J, K, L, M, N
  <2>. QED
    BY <2>1, <2>2, <2>3, <2>4, <2>5, <2>6, <2>7, <2>8, <2>9, <2>10, <2>11, <2>12, <2>13
<1>. QED  BY <1>2, <1>3

-----------------------------------------------------------------------------
(* What one operation may do to a state.                                   *)

\* No lease disappears, tokens only grow, and a lease with the same token is the
\* same lease.
LeasesAdvance(s, t) ==
    \A x \in DOMAIN s.leases :
        /\ x \in DOMAIN t.leases
        /\ s.leases[x].token <= t.leases[x].token
        /\ s.leases[x].token = t.leases[x].token =>
            s.leases[x].holder = t.leases[x].holder /\ s.leases[x].acquired = t.leases[x].acquired

\* A publication of an overlay replaces only values its author has been shown,
\* or by the value the author started from.
ReplacesShown(s, t) ==
    \A o \in DOMAIN s.overlays \ DOMAIN t.overlays, key \in Keys :
        LET current == Lookup(Resources(s), key)
            started == Lookup(s.history[s.overlays[o].base].resources, key)
        IN  HeadOf(t) > HeadOf(s) /\ current # Lookup(Resources(t), key) =>
            \/ current = started
            \/ \E c \in s.conflicts : c.overlay = o /\ c.key = key /\ c.current = current
            \/ Lookup(Resources(t), key) = started

\* The states of a space, and what is true in each of them.
IsSpace(s) == s \in SpaceStates /\ ConflictsAreTrue(s)

\* What every operation that makes t from s does.
Evolves(s, t) == IsSpace(t) /\ LeasesAdvance(s, t) /\ ReplacesShown(s, t)

\* The types of the parts of a state.
LEMMA StateFacts ==
    ASSUME NEW s \in SpaceStates
    PROVE  /\ s.history \in Seq(Commits) /\ HeadOf(s) \in Nat /\ DOMAIN s.history = 1 .. HeadOf(s)
           /\ \A n \in DOMAIN s.history : s.history[n] \in Commits
           /\ s.events \in Seq(LoggedEvents)
           /\ s.overlays \in Maps(DOMAIN Owner, OverlayRecords)
           /\ \A o \in DOMAIN s.overlays : s.overlays[o] \in OverlayRecords /\ o \in DOMAIN Owner
           /\ s.leases \in Maps(LeaseResources, Leases)
           /\ \A x \in DOMAIN s.leases : s.leases[x] \in Leases /\ x \in LeaseResources
           /\ s.fencing \in Maps(LeaseResources, Nat)
           /\ \A x \in DOMAIN s.fencing : s.fencing[x] \in Nat
           /\ s.focus \in Maps(Branches, FocusBranches)
           /\ \A b \in DOMAIN s.focus : s.focus[b] \in FocusBranches /\ b \in Branches
           /\ s.conflicts \subseteq Conflicts /\ s.resolved \subseteq Conflicts
           /\ Exists(s) => HeadOf(s) \in DOMAIN s.history /\ Resources(s) \in Maps(Keys, Values)
<1>1. /\ s.history \in Seq(Commits) /\ s.events \in Seq(LoggedEvents)
      /\ s.overlays \in Maps(DOMAIN Owner, OverlayRecords) /\ s.leases \in Maps(LeaseResources, Leases)
      /\ s.fencing \in Maps(LeaseResources, Nat) /\ s.focus \in Maps(Branches, FocusBranches)
      /\ s.conflicts \subseteq Conflicts /\ s.resolved \subseteq Conflicts
  BY DEF SpaceStates
<1>2. /\ HeadOf(s) \in Nat /\ DOMAIN s.history = 1 .. HeadOf(s)
      /\ \A n \in DOMAIN s.history : s.history[n] \in Commits
      /\ Exists(s) => HeadOf(s) \in DOMAIN s.history
  BY <1>1 DEF HeadOf, Exists
<1>3. Exists(s) => Resources(s) \in Maps(Keys, Values)
  BY <1>2 DEF Resources, Commits
<1>4. \A o \in DOMAIN s.overlays : s.overlays[o] \in OverlayRecords /\ o \in DOMAIN Owner
  BY <1>1, MapFacts
<1>5. \A x \in DOMAIN s.leases : s.leases[x] \in Leases /\ x \in LeaseResources
  BY <1>1, MapFacts
<1>6. \A x \in DOMAIN s.fencing : s.fencing[x] \in Nat
  BY <1>1, MapFacts
<1>7. \A b \in DOMAIN s.focus : s.focus[b] \in FocusBranches /\ b \in Branches
  BY <1>1, MapFacts
<1>. QED  BY <1>1, <1>2, <1>3, <1>4, <1>5, <1>6, <1>7

\* Leases that do not change advance.
LEMMA LeasesKept ==
    ASSUME NEW s \in SpaceStates, NEW t, t.leases = s.leases
    PROVE  LeasesAdvance(s, t)
<1>1. \A x \in DOMAIN s.leases : s.leases[x].token \in Nat
  BY StateFacts DEF Leases
<1>. QED  BY <1>1 DEF LeasesAdvance

\* A step that commits nothing and leaves leases alone.
LEMMA QuietStep ==
    ASSUME NEW s, IsSpace(s), NEW t \in SpaceStates,
           t.history = s.history, t.conflicts \subseteq s.conflicts, t.leases = s.leases
    PROVE  Evolves(s, t)
<1>1. s \in SpaceStates /\ ConflictsAreTrue(t)
  BY DEF IsSpace, ConflictsAreTrue
<1>2. HeadOf(t) = HeadOf(s) /\ HeadOf(s) \in Nat
  BY <1>1, StateFacts DEF HeadOf
<1>3. ReplacesShown(s, t)
  BY <1>2 DEF ReplacesShown
<1>. QED  BY <1>1, <1>3, LeasesKept DEF Evolves, IsSpace

\* commit(): the next revision, and the conflicts on record stay true.
LEMMA Committed ==
    ASSUME NEW s, IsSpace(s), NEW res \in Maps(Keys, Values), NEW events \in Seq(Events),
           NEW project \in Projects, NEW at \in Times
    PROVE  LET t == Commit(s, res, events, project, at) IN
           /\ IsSpace(t) /\ HeadOf(t) = HeadOf(s) + 1 /\ Resources(t) = res
           /\ t.overlays = s.overlays /\ t.leases = s.leases
<1>. DEFINE commit == [resources |-> res, events |-> events, at |-> at]
            log == [n \in DOMAIN events |-> [id |-> events[n], project |-> project]]
            history == Append(s.history, commit)
            more == s.events \o log
            t == Commit(s, res, events, project, at)
<1>1. /\ s \in SpaceStates /\ s.history \in Seq(Commits) /\ HeadOf(s) \in Nat
      /\ s.events \in Seq(LoggedEvents) /\ DOMAIN s.history = 1 .. HeadOf(s)
  BY StateFacts DEF IsSpace
<1>2. commit \in Commits /\ commit.resources = res
  BY DEF Commits
<1>3. log \in Seq(LoggedEvents)
  <2>1. DOMAIN events = 1 .. Len(events) /\ Len(events) \in Nat /\ \A n \in 1 .. Len(events) : events[n] \in Events
    OBVIOUS
  <2>2. log \in [1 .. Len(events) -> LoggedEvents]
    BY <2>1 DEF LoggedEvents
  <2>. QED  BY <2>1, <2>2
<1>. HIDE DEF commit, log
<1>4. history \in Seq(Commits) /\ Len(history) = HeadOf(s) + 1 /\ history[HeadOf(s) + 1] = commit
      /\ \A n \in 1 .. HeadOf(s) : history[n] = s.history[n]
  BY <1>1, <1>2 DEF HeadOf
<1>5. more \in Seq(LoggedEvents)
  BY <1>1, <1>3
<1>6. t = [s EXCEPT !.history = history, !.events = more]
  BY DEF Commit, commit, log
<1>. HIDE DEF history, more, t
<1>7. /\ t \in SpaceStates /\ t.history = history /\ t.overlays = s.overlays
      /\ t.leases = s.leases /\ t.conflicts = s.conflicts
  BY <1>1, <1>4, <1>5, <1>6 DEF SpaceStates
<1>8. HeadOf(t) = HeadOf(s) + 1 /\ Resources(t) = res
  BY <1>1, <1>2, <1>4, <1>7 DEF HeadOf, Resources
<1>9. ConflictsAreTrue(t)
  <2>1. \A c \in t.conflicts : c.observed \in 1 .. HeadOf(s) /\ c.current = Lookup(s.history[c.observed].resources, c.key)
    BY <1>1, <1>7 DEF IsSpace, ConflictsAreTrue
  <2>2. DOMAIN t.history = 1 .. HeadOf(s) + 1
    BY <1>4, <1>7
  <2>. QED  BY <1>1, <1>4, <1>7, <2>1, <2>2 DEF ConflictsAreTrue
<1>. QED  BY <1>7, <1>8, <1>9 DEF IsSpace, t

-----------------------------------------------------------------------------
(* Overlays, publications and conflicts.                                   *)

\* create_space()
LEMMA CreateSpaceEvolves ==
    ASSUME NEW s, IsSpace(s), NEW r, r.event \in Events, r.now \in Times,
           NEW t \in CreateSpace(s, r)
    PROVE  Evolves(s, t)
<1>1. <<>> \in Maps(Keys, Values) /\ <<r.event>> \in Seq(Events) /\ ActiveProject \in Projects
  BY EmptyMap, SpaceAssumption
<1>2. t = Commit(s, <<>>, <<r.event>>, ActiveProject, r.now)
  BY DEF CreateSpace, When
<1>3. IsSpace(t) /\ t.overlays = s.overlays /\ t.leases = s.leases
  BY <1>1, <1>2, Committed
<1>4. ReplacesShown(s, t)
  BY <1>3 DEF ReplacesShown
<1>. QED  BY <1>3, <1>4, LeasesKept DEF Evolves, IsSpace

\* create_overlay()
LEMMA CreateOverlayEvolves ==
    ASSUME NEW s, IsSpace(s), NEW r, r.overlay \in DOMAIN Owner, r.base \in DOMAIN s.history,
           r.until \in Times, NEW t \in CreateOverlay(s, r)
    PROVE  Evolves(s, t)
<1>. DEFINE new == [base |-> r.base, baseResources |-> s.history[r.base].resources,
                    proposals |-> <<>>, expires |-> r.until]
            overlays == With(s.overlays, r.overlay, new)
<1>1. /\ s \in SpaceStates /\ s.overlays \in Maps(DOMAIN Owner, OverlayRecords)
      /\ s.history[r.base] \in Commits /\ r.base \in Nat
  BY StateFacts DEF IsSpace
<1>2. new \in OverlayRecords
  BY <1>1, EmptyMap DEF OverlayRecords, Commits
<1>3. t = [s EXCEPT !.overlays = overlays]
  BY DEF CreateOverlay, When
<1>. HIDE DEF new
<1>4. overlays \in Maps(DOMAIN Owner, OverlayRecords)
  BY <1>1, <1>2, WithMap
<1>. HIDE DEF overlays
<1>5. /\ t \in SpaceStates /\ t.history = s.history /\ t.conflicts = s.conflicts
      /\ t.leases = s.leases
  BY <1>1, <1>3, <1>4 DEF SpaceStates
<1>. QED  BY <1>5, QuietStep

\* propose() changes the proposals of one overlay.
LEMMA ProposedFacts ==
    ASSUME NEW s, IsSpace(s), NEW o \in DOMAIN s.overlays, NEW key \in Keys, NEW value \in Values
    PROVE  LET t == Proposed(s, o, key, value)
               proposals == With(s.overlays[o].proposals, key, value)
           IN  /\ t \in SpaceStates /\ t.history = s.history /\ t.conflicts = s.conflicts
               /\ t.resolved = s.resolved /\ t.leases = s.leases
               /\ DOMAIN t.overlays = DOMAIN s.overlays
               /\ t.overlays[o].baseResources = s.overlays[o].baseResources
               /\ t.overlays[o].proposals = proposals /\ proposals \in Maps(Keys, Values)
<1>. DEFINE proposals == With(s.overlays[o].proposals, key, value)
            changed == [s.overlays[o] EXCEPT !.proposals = proposals]
            overlays == [s.overlays EXCEPT ![o] = changed]
            t == Proposed(s, o, key, value)
<1>1. /\ s \in SpaceStates /\ s.overlays \in Maps(DOMAIN Owner, OverlayRecords)
      /\ s.overlays[o] \in OverlayRecords
  BY StateFacts DEF IsSpace
<1>2. proposals \in Maps(Keys, Values)
  BY <1>1, WithMap DEF OverlayRecords
<1>3. t = [s EXCEPT !.overlays = overlays]
  BY DEF Proposed
<1>. HIDE DEF proposals, t
<1>4. changed \in OverlayRecords
  BY <1>1, <1>2 DEF OverlayRecords
<1>. HIDE DEF changed
<1>5. /\ DOMAIN overlays = DOMAIN s.overlays /\ overlays[o] = changed
      /\ \A p \in DOMAIN s.overlays : p # o => overlays[p] = s.overlays[p]
  BY <1>1, MapFacts
<1>6. overlays \in Maps(DOMAIN Owner, OverlayRecords)
  BY <1>1, <1>4, MapFacts
<1>. HIDE DEF overlays
<1>7. /\ t \in SpaceStates /\ t.history = s.history /\ t.conflicts = s.conflicts
      /\ t.resolved = s.resolved /\ t.leases = s.leases /\ t.overlays = overlays
  BY <1>1, <1>3, <1>6 DEF SpaceStates
<1>8. changed.baseResources = s.overlays[o].baseResources /\ changed.proposals = proposals
  BY <1>1 DEF changed, OverlayRecords
<1>. QED  BY <1>2, <1>5, <1>7, <1>8 DEF t, proposals

\* propose()
LEMMA ProposeEvolves ==
    ASSUME NEW s, IsSpace(s), NEW r, r.key \in Keys, r.value \in Values, NEW t \in Propose(s, r)
    PROVE  Evolves(s, t)
<1>1. r.overlay \in DOMAIN s.overlays /\ t = Proposed(s, r.overlay, r.key, r.value)
  BY DEF Propose, When, Private
<1>2. /\ t \in SpaceStates /\ t.history = s.history /\ t.conflicts = s.conflicts
      /\ t.leases = s.leases
  BY <1>1, ProposedFacts
<1>. QED  BY <1>2, QuietStep

\* An overlay goes, and its conflicts with it.
LEMMA DroppedOverlay ==
    ASSUME NEW s, IsSpace(s), NEW o
    PROVE  LET t == DropOverlay(s, o) IN
           /\ IsSpace(t) /\ t.history = s.history /\ t.conflicts \subseteq s.conflicts
           /\ t.leases = s.leases /\ DOMAIN t.overlays = DOMAIN s.overlays \ {o}
<1>. DEFINE overlays == Without(s.overlays, o)
            conflicts == {c \in s.conflicts : c.overlay # o}
            t == DropOverlay(s, o)
<1>1. /\ s \in SpaceStates /\ s.overlays \in Maps(DOMAIN Owner, OverlayRecords)
      /\ s.conflicts \subseteq Conflicts
  BY StateFacts DEF IsSpace
<1>2. overlays \in Maps(DOMAIN Owner, OverlayRecords) /\ DOMAIN overlays = DOMAIN s.overlays \ {o}
  BY <1>1, WithoutMap DEF Without, Restrict
<1>3. conflicts \subseteq s.conflicts
  OBVIOUS
<1>4. t = [s EXCEPT !.overlays = overlays, !.conflicts = conflicts]
  BY DEF DropOverlay
<1>. HIDE DEF overlays, conflicts, t
<1>5. /\ t \in SpaceStates /\ t.history = s.history /\ t.conflicts = conflicts
      /\ t.leases = s.leases /\ t.overlays = overlays
  BY <1>1, <1>2, <1>3, <1>4 DEF SpaceStates
<1>6. ConflictsAreTrue(t)
  BY <1>3, <1>5 DEF IsSpace, ConflictsAreTrue
<1>. QED  BY <1>2, <1>3, <1>5, <1>6 DEF IsSpace, t

\* discard_overlay()
LEMMA DiscardOverlayEvolves ==
    ASSUME NEW s, IsSpace(s), NEW r, NEW t \in DiscardOverlay(s, r)
    PROVE  Evolves(s, t)
<1>1. t = DropOverlay(s, r.overlay)
  BY DEF DiscardOverlay, When
<1>2. /\ IsSpace(t) /\ t.history = s.history /\ t.conflicts \subseteq s.conflicts
      /\ t.leases = s.leases
  BY <1>1, DroppedOverlay
<1>. QED  BY <1>2, QuietStep DEF IsSpace

\* find_conflicts() finds true conflicts, and where it finds none every proposed
\* key is unchanged since the base, or agrees, or is proposed as it was.
LEMMA ConflictsFound ==
    ASSUME NEW s, IsSpace(s), Exists(s), NEW o \in DOMAIN s.overlays
    PROVE  LET overlay == s.overlays[o] IN
           /\ \A c \in FindConflicts(s, o) :
                /\ c \in Conflicts /\ c.observed = HeadOf(s)
                /\ c.current = Lookup(Resources(s), c.key)
           /\ FindConflicts(s, o) = {} => \A key \in DOMAIN overlay.proposals :
                \/ Lookup(Resources(s), key) = Lookup(overlay.baseResources, key)
                \/ Lookup(Resources(s), key) = overlay.proposals[key]
                \/ Lookup(overlay.baseResources, key) = overlay.proposals[key]
<1>. DEFINE overlay == s.overlays[o]
            Of(key) == [overlay |-> o, observed |-> HeadOf(s), key |-> key,
                        base |-> Lookup(overlay.baseResources, key),
                        current |-> Lookup(Resources(s), key),
                        proposed |-> overlay.proposals[key]]
            Clashes(c) == c.current # c.base /\ c.current # c.proposed /\ c.base # c.proposed
<1>1. /\ overlay \in OverlayRecords /\ o \in DOMAIN Owner
      /\ HeadOf(s) \in Nat /\ Resources(s) \in Maps(Keys, Values)
  BY StateFacts DEF IsSpace
<1>2. /\ DOMAIN overlay.proposals \subseteq Keys
      /\ \A key \in DOMAIN overlay.proposals : overlay.proposals[key] \in Values
  BY <1>1, MapFacts DEF OverlayRecords
<1>3. ASSUME NEW key \in DOMAIN overlay.proposals PROVE Of(key) \in Conflicts
  <2>1. Lookup(overlay.baseResources, key) \in Values \cup {Missing}
    BY <1>1, LookupMap DEF OverlayRecords
  <2>2. Lookup(Resources(s), key) \in Values \cup {Missing}
    BY <1>1, LookupMap
  <2>. HIDE DEF overlay
  <2>. QED  BY <1>1, <1>2, <2>1, <2>2 DEF Conflicts
<1>4. FindConflicts(s, o) = {c \in {Of(key) : key \in DOMAIN overlay.proposals} : Clashes(c)}
  BY DEF FindConflicts
<1>5. ASSUME NEW c \in FindConflicts(s, o)
      PROVE  c \in Conflicts /\ c.observed = HeadOf(s) /\ c.current = Lookup(Resources(s), c.key)
  <2>1. PICK key \in DOMAIN overlay.proposals : c = Of(key)
    BY <1>4, <1>5
  <2>. QED  BY <1>3, <2>1
<1>6. ASSUME FindConflicts(s, o) = {}, NEW key \in DOMAIN overlay.proposals
      PROVE  \/ Lookup(Resources(s), key) = Lookup(overlay.baseResources, key)
             \/ Lookup(Resources(s), key) = overlay.proposals[key]
             \/ Lookup(overlay.baseResources, key) = overlay.proposals[key]
  <2>1. ~Clashes(Of(key))
    BY <1>4, <1>6
  <2>. HIDE DEF overlay
  <2>. QED  BY <2>1
<1>. QED  BY <1>5, <1>6

\* publish_overlay() records conflicts, drops an overlay that proposes nothing,
\* or merges the proposals into the head.
LEMMA PublishFacts ==
    ASSUME NEW s, IsSpace(s), Exists(s), NEW r, r.event \in Events, r.now \in Times,
           NEW t \in Publish(s, r)
    PROVE  /\ IsSpace(t) /\ t.leases = s.leases /\ r.overlay \in DOMAIN s.overlays
           /\ \/ HeadOf(t) = HeadOf(s)
              \/ /\ \A o \in DOMAIN s.overlays : o # r.overlay => o \in DOMAIN t.overlays
                 /\ FindConflicts(s, r.overlay) = {}
                 /\ Resources(t) = Updated(Resources(s), s.overlays[r.overlay].proposals)
<1>. DEFINE o == r.overlay
            conflicts == FindConflicts(s, o)
            recorded == {c \in s.conflicts : c.overlay # o} \cup conflicts
            merged == Updated(Resources(s), s.overlays[o].proposals)
            d == DropOverlay(s, o)
<1>1. o \in DOMAIN s.overlays
  BY DEF Publish, Private
<1>2. /\ s \in SpaceStates /\ s.overlays[o] \in OverlayRecords /\ Resources(s) \in Maps(Keys, Values)
      /\ s.conflicts \subseteq Conflicts /\ HeadOf(s) \in DOMAIN s.history
  BY <1>1, StateFacts DEF IsSpace
<1>3. merged \in Maps(Keys, Values)
  BY <1>2, UpdatedMap DEF OverlayRecords
<1>4. /\ IsSpace(d) /\ d.history = s.history /\ d.leases = s.leases
      /\ \A p \in DOMAIN s.overlays : p # o => p \in DOMAIN d.overlays
  <2>. HIDE DEF o
  <2>. QED  BY DroppedOverlay
<1>5. \/ conflicts # {} /\ t = [s EXCEPT !.conflicts = recorded]
      \/ t = d
      \/ conflicts = {} /\ t = Commit(d, merged, <<r.event>>, ActiveProject, r.now)
  BY DEF Publish, When
<1>6. CASE t = [s EXCEPT !.conflicts = recorded]
  <2>1. \A c \in conflicts : c \in Conflicts /\ c.observed = HeadOf(s) /\ c.current = Lookup(Resources(s), c.key)
    BY <1>1, ConflictsFound
  <2>2. /\ recorded \subseteq Conflicts
        /\ \A c \in recorded : c \in s.conflicts \/ (c.observed = HeadOf(s) /\ c.current = Lookup(Resources(s), c.key))
    BY <1>2, <2>1
  <2>. HIDE DEF recorded
  <2>3. t \in SpaceStates /\ t.history = s.history /\ t.leases = s.leases /\ t.conflicts = recorded
    BY <1>2, <1>6, <2>2 DEF SpaceStates
  <2>4. ConflictsAreTrue(t)
    BY <1>2, <2>2, <2>3 DEF IsSpace, ConflictsAreTrue, Resources
  <2>. QED  BY <1>1, <2>3, <2>4 DEF IsSpace, HeadOf
<1>7. CASE t = d
  BY <1>1, <1>4, <1>7 DEF HeadOf
<1>8. CASE conflicts = {} /\ t = Commit(d, merged, <<r.event>>, ActiveProject, r.now)
  <2>1. <<r.event>> \in Seq(Events) /\ ActiveProject \in Projects
    BY SpaceAssumption
  <2>. HIDE DEF d, merged, conflicts
  <2>2. IsSpace(t) /\ Resources(t) = merged /\ t.overlays = d.overlays /\ t.leases = d.leases
    BY <1>3, <1>4, <1>8, <2>1, Committed
  <2>. QED  BY <1>1, <1>4, <1>8, <2>2 DEF merged, conflicts
<1>. QED  BY <1>5, <1>6, <1>7, <1>8

\* publish_overlay()
LEMMA PublishEvolves ==
    ASSUME NEW s, IsSpace(s), ValidSpace(s), Exists(s), NEW r, r.event \in Events, r.now \in Times,
           NEW t \in Publish(s, r)
    PROVE  Evolves(s, t)
<1>. DEFINE o == r.overlay
            overlay == s.overlays[o]
<1>1. /\ IsSpace(t) /\ t.leases = s.leases /\ o \in DOMAIN s.overlays
      /\ \/ HeadOf(t) = HeadOf(s)
         \/ /\ \A p \in DOMAIN s.overlays : p # o => p \in DOMAIN t.overlays
            /\ FindConflicts(s, o) = {}
            /\ Resources(t) = Updated(Resources(s), overlay.proposals)
  BY PublishFacts
<1>2. /\ overlay \in OverlayRecords /\ Resources(s) \in Maps(Keys, Values) /\ HeadOf(s) \in Nat
  BY <1>1, StateFacts DEF IsSpace
<1>3. s.history[overlay.base].resources = overlay.baseResources
  BY <1>1 DEF ValidSpace
<1>4. ASSUME HeadOf(t) # HeadOf(s), NEW key
      PROVE  \/ Lookup(Resources(t), key) = Lookup(Resources(s), key)
             \/ Lookup(Resources(s), key) = Lookup(overlay.baseResources, key)
             \/ Lookup(Resources(t), key) = Lookup(overlay.baseResources, key)
  <2>1. Lookup(Resources(t), key) =
            IF key \in DOMAIN overlay.proposals THEN overlay.proposals[key] ELSE Lookup(Resources(s), key)
    BY <1>1, <1>4 DEF Updated, Lookup
  <2>2. key \in DOMAIN overlay.proposals =>
            \/ Lookup(Resources(s), key) = Lookup(overlay.baseResources, key)
            \/ Lookup(Resources(s), key) = overlay.proposals[key]
            \/ Lookup(overlay.baseResources, key) = overlay.proposals[key]
    <3>. HIDE DEF o
    <3>. QED  BY <1>1, <1>4, ConflictsFound
  <2>. QED  BY <2>1, <2>2
<1>5. ReplacesShown(s, t)
  <2>. SUFFICES ASSUME NEW p \in DOMAIN s.overlays \ DOMAIN t.overlays, NEW key \in Keys,
                       HeadOf(t) > HeadOf(s), Lookup(Resources(s), key) # Lookup(Resources(t), key)
                PROVE  LET started == Lookup(s.history[s.overlays[p].base].resources, key) IN
                       Lookup(Resources(s), key) = started \/ Lookup(Resources(t), key) = started
    BY DEF ReplacesShown
  <2>1. HeadOf(t) # HeadOf(s)
    BY <1>2
  <2>2. p = o
    BY <1>1, <2>1
  <2>. QED  BY <1>3, <1>4, <2>1, <2>2
<1>. QED  BY <1>1, <1>5, LeasesKept DEF Evolves, IsSpace

\* resolve_conflict() proposes the chosen value and rebases that key.
LEMMA ResolvedFacts ==
    ASSUME NEW s, IsSpace(s), NEW r, r.conflict \in s.conflicts, r.value \in Values,
           NEW t \in ResolveConflict(s, r)
    PROVE  LET c == r.conflict
               o == c.overlay
           IN  /\ t \in SpaceStates /\ t.history = s.history /\ t.conflicts \subseteq s.conflicts
               /\ t.leases = s.leases
               /\ o \in DOMAIN s.overlays /\ DOMAIN t.overlays = DOMAIN s.overlays
               /\ c.observed = HeadOf(s) /\ c.key \in Keys
               /\ t.overlays[o].proposals = With(s.overlays[o].proposals, c.key, r.value)
               /\ t.overlays[o].baseResources = Rebased(c, s.overlays[o].baseResources)
<1>. DEFINE c == r.conflict
            o == c.overlay
            p == Proposed(s, o, c.key, r.value)
            base == Rebased(c, p.overlays[o].baseResources)
            changed == [p.overlays[o] EXCEPT !.baseResources = base]
            overlays == [p.overlays EXCEPT ![o] = changed]
            conflicts == p.conflicts \ {c}
            resolved == p.resolved \cup {c}
<1>1. /\ o \in DOMAIN s.overlays /\ c.observed = HeadOf(s)
      /\ t = [p EXCEPT !.overlays[o].baseResources = Rebased(c, @),
                       !.conflicts = @ \ {c}, !.resolved = @ \cup {c}]
  BY DEF ResolveConflict, When, Private
<1>2. c \in Conflicts /\ c.key \in Keys /\ c.current \in Values \cup {Missing}
  BY StateFacts DEF IsSpace, Conflicts
<1>3. /\ p \in SpaceStates /\ p.history = s.history /\ p.conflicts = s.conflicts
      /\ p.resolved = s.resolved /\ p.leases = s.leases /\ DOMAIN p.overlays = DOMAIN s.overlays
      /\ p.overlays[o].baseResources = s.overlays[o].baseResources
      /\ p.overlays[o].proposals = With(s.overlays[o].proposals, c.key, r.value)
  <2>. HIDE DEF o, c
  <2>. QED  BY <1>1, <1>2, ProposedFacts
<1>4. t = [p EXCEPT !.overlays = overlays, !.conflicts = conflicts, !.resolved = resolved]
  BY <1>1, <1>3 DEF SpaceStates
<1>. HIDE DEF p
<1>5. /\ p.overlays \in Maps(DOMAIN Owner, OverlayRecords) /\ p.overlays[o] \in OverlayRecords
      /\ p.conflicts \subseteq Conflicts /\ p.resolved \subseteq Conflicts
  BY <1>1, <1>3, StateFacts
<1>6. base \in Maps(Keys, Values)
  <2>. DEFINE b == p.overlays[o].baseResources
  <2>1. b \in Maps(Keys, Values)
    BY <1>5 DEF OverlayRecords
  <2>. HIDE DEF b
  <2>2. CASE c.current = Missing
    <3>1. Without(b, c.key) \in Maps(Keys, Values)
      BY <2>1, WithoutMap
    <3>. QED  BY <2>2, <3>1 DEF Rebased, b
  <2>3. CASE c.current # Missing
    <3>1. With(b, c.key, c.current) \in Maps(Keys, Values)
      BY <1>2, <2>1, <2>3, WithMap
    <3>. QED  BY <2>3, <3>1 DEF Rebased, b
  <2>. QED  BY <2>2, <2>3
<1>7. /\ changed \in OverlayRecords /\ changed.baseResources = base
      /\ changed.proposals = p.overlays[o].proposals
  <2>. HIDE DEF base
  <2>. QED  BY <1>5, <1>6 DEF OverlayRecords
<1>. HIDE DEF changed
<1>8. DOMAIN overlays = DOMAIN s.overlays /\ overlays[o] = changed
  BY <1>1, <1>3, <1>5, MapFacts
<1>9. overlays \in Maps(DOMAIN Owner, OverlayRecords)
  BY <1>5, <1>7, MapFacts
<1>10. conflicts \subseteq s.conflicts /\ conflicts \subseteq Conflicts /\ resolved \subseteq Conflicts
  BY <1>2, <1>3, <1>5
<1>. HIDE DEF overlays, conflicts, resolved
<1>11. /\ t \in SpaceStates /\ t.history = p.history /\ t.leases = p.leases
       /\ t.overlays = overlays /\ t.conflicts = conflicts
  BY <1>3, <1>4, <1>9, <1>10 DEF SpaceStates
<1>. QED  BY <1>1, <1>2, <1>3, <1>7, <1>8, <1>10, <1>11

\* resolve_conflict()
LEMMA ResolveConflictEvolves ==
    ASSUME NEW s, IsSpace(s), NEW r, r.conflict \in s.conflicts, r.value \in Values,
           NEW t \in ResolveConflict(s, r)
    PROVE  Evolves(s, t)
<1>1. /\ t \in SpaceStates /\ t.history = s.history /\ t.conflicts \subseteq s.conflicts
      /\ t.leases = s.leases
  BY ResolvedFacts
<1>. QED  BY <1>1, QuietStep

\* Rebasing one key leaves the other keys of the base as they were.
LEMMA RebasedElsewhere ==
    ASSUME NEW c \in Conflicts, NEW base \in Maps(Keys, Values), NEW key, key # c.key
    PROVE  Lookup(Rebased(c, base), key) = Lookup(base, key)
<1>1. c.key \in Keys /\ c.current \in Values \cup {Missing}
  BY DEF Conflicts
<1>2. CASE c.current = Missing
  BY <1>2, WithoutMap DEF Rebased
<1>3. CASE c.current # Missing
  <2>1. c.current \in Values
    BY <1>1, <1>3
  <2>2. Lookup(With(base, c.key, c.current), key) = Lookup(base, key)
    BY <1>1, <2>1 DEF With, Updated, Lookup
  <2>. QED  BY <1>3, <2>2 DEF Rebased
<1>. QED  BY <1>2, <1>3

\* resolve_conflict_and_publish(): the value it replaces at the conflicting key
\* is the one the conflict shows.
LEMMA ResolveAndPublishEvolves ==
    ASSUME NEW s, IsSpace(s), ValidSpace(s), Exists(s), NEW r, r.conflict \in s.conflicts,
           r.value \in Values, r.event \in Events, r.now \in Times,
           NEW u \in ResolveAndPublish(s, r)
    PROVE  Evolves(s, u)
<1>. DEFINE c == r.conflict
            o == c.overlay
            publication == [overlay |-> o, actor |-> r.actor, expected |-> r.expected,
                            event |-> r.event, now |-> r.now]
<1>1. PICK t \in ResolveConflict(s, r) : u \in Publish(t, publication)
  BY DEF ResolveAndPublish
<1>. DEFINE before == s.overlays[o]
            after == t.overlays[o]
<1>2. /\ t.history = s.history /\ t.conflicts \subseteq s.conflicts /\ t.leases = s.leases
      /\ o \in DOMAIN s.overlays /\ DOMAIN t.overlays = DOMAIN s.overlays
      /\ c.observed = HeadOf(s) /\ c.key \in Keys
      /\ after.proposals = With(before.proposals, c.key, r.value)
      /\ after.baseResources = Rebased(c, before.baseResources)
  BY ResolvedFacts
<1>3. IsSpace(t) /\ Exists(t) /\ HeadOf(t) = HeadOf(s) /\ Resources(t) = Resources(s)
  BY <1>2, ResolveConflictEvolves DEF Evolves, Exists, HeadOf, Resources
<1>4. /\ IsSpace(u) /\ u.leases = t.leases
      /\ \/ HeadOf(u) = HeadOf(t)
         \/ /\ \A p \in DOMAIN t.overlays : p # o => p \in DOMAIN u.overlays
            /\ FindConflicts(t, o) = {}
            /\ Resources(u) = Updated(Resources(t), after.proposals)
  <2>1. publication.event \in Events /\ publication.now \in Times /\ publication.overlay = o
    OBVIOUS
  <2>. HIDE DEF publication, o
  <2>. QED  BY <1>1, <1>3, <2>1, PublishFacts
<1>5. /\ c \in Conflicts /\ HeadOf(s) \in Nat /\ before \in OverlayRecords
      /\ s.history[before.base].resources = before.baseResources
  BY <1>2, StateFacts DEF IsSpace, ValidSpace
<1>6. c.current = Lookup(Resources(s), c.key)
  BY <1>2 DEF IsSpace, ConflictsAreTrue, Resources
<1>7. ASSUME HeadOf(u) # HeadOf(s), NEW key, key # c.key
      PROVE  \/ Lookup(Resources(u), key) = Lookup(Resources(s), key)
             \/ Lookup(Resources(s), key) = Lookup(before.baseResources, key)
             \/ Lookup(Resources(u), key) = Lookup(before.baseResources, key)
  <2>1. Lookup(Resources(u), key) =
            IF key \in DOMAIN after.proposals THEN after.proposals[key] ELSE Lookup(Resources(s), key)
    BY <1>3, <1>4, <1>7 DEF Updated, Lookup
  <2>2. key \in DOMAIN after.proposals =>
            \/ Lookup(Resources(t), key) = Lookup(after.baseResources, key)
            \/ Lookup(Resources(t), key) = after.proposals[key]
            \/ Lookup(after.baseResources, key) = after.proposals[key]
    <3>. HIDE DEF o
    <3>. QED  BY <1>2, <1>3, <1>4, <1>7, ConflictsFound
  <2>3. Lookup(after.baseResources, key) = Lookup(before.baseResources, key)
    <3>1. before.baseResources \in Maps(Keys, Values)
      BY <1>5 DEF OverlayRecords
    <3>. HIDE DEF before, c, after
    <3>. QED  BY <1>2, <1>5, <1>7, <3>1, RebasedElsewhere
  <2>. QED  BY <1>3, <2>1, <2>2, <2>3
<1>8. ReplacesShown(s, u)
  <2>. SUFFICES ASSUME NEW p \in DOMAIN s.overlays \ DOMAIN u.overlays, NEW key \in Keys,
                       HeadOf(u) > HeadOf(s), Lookup(Resources(s), key) # Lookup(Resources(u), key)
                PROVE  LET started == Lookup(s.history[s.overlays[p].base].resources, key) IN
                       \/ Lookup(Resources(s), key) = started
                       \/ \E d \in s.conflicts :
                            d.overlay = p /\ d.key = key /\ d.current = Lookup(Resources(s), key)
                       \/ Lookup(Resources(u), key) = started
    BY DEF ReplacesShown
  <2>1. HeadOf(u) # HeadOf(s)
    BY <1>5
  <2>2. p = o
    BY <1>2, <1>3, <1>4, <2>1
  <2>3. CASE key = c.key
    BY <1>6, <2>2, <2>3
  <2>4. CASE key # c.key
    BY <1>5, <1>7, <2>1, <2>2, <2>4
  <2>. QED  BY <2>3, <2>4
<1>. QED  BY <1>2, <1>4, <1>8, LeasesKept DEF Evolves, IsSpace

-----------------------------------------------------------------------------
(* Events of projects.                                                     *)

\* A finite set in some order.
LEMMA SetToSeqIsSequence ==
    ASSUME NEW S, IsFiniteSet(S)
    PROVE  SetToSeq(S) \in Seq(S)
<1>1. Cardinality(S) \in Nat /\ ExistsBijection(1 .. Cardinality(S), S)
  BY FS_CardinalityType
<1>2. \E f \in [1 .. Cardinality(S) -> S] : IsInjective(f)
  BY <1>1 DEF Bijection, Injection, IsInjective, ExistsBijection
<1>3. SetToSeq(S) \in [1 .. Cardinality(S) -> S]
  BY <1>2 DEF SetToSeq
<1>. QED  BY <1>1, <1>3

\* append_events()
LEMMA AppendEventsEvolves ==
    ASSUME NEW s, IsSpace(s), Exists(s), NEW r, r.events \in SUBSET Events,
           r.project \in Projects, r.now \in Times, NEW t \in AppendEvents(s, r)
    PROVE  Evolves(s, t)
<1>. DEFINE first == r.events \cap Urgent
            later == r.events \ Urgent
<1>1. IsFiniteSet(first) /\ IsFiniteSet(later)
  BY SpaceAssumption, FS_Subset
<1>2. SetToSeq(first) \in Seq(Events) /\ SetToSeq(later) \in Seq(Events)
  <2>1. SetToSeq(first) \in Seq(first) /\ SetToSeq(later) \in Seq(later)
    BY <1>1, SetToSeqIsSequence
  <2>2. first \subseteq Events /\ later \subseteq Events
    OBVIOUS
  <2>. HIDE DEF first, later
  <2>. QED  BY <2>1, <2>2, StoredSequence
<1>3. Prioritized(r.events) \in Seq(Events)
  <2>1. Prioritized(r.events) = SetToSeq(first) \o SetToSeq(later)
    BY DEF Prioritized
  <2>. HIDE DEF first, later
  <2>. QED  BY <1>2, <2>1
<1>4. t = Commit(s, Resources(s), Prioritized(r.events), r.project, r.now)
  BY DEF AppendEvents, When
<1>5. Resources(s) \in Maps(Keys, Values)
  BY StateFacts DEF IsSpace
<1>6. IsSpace(t) /\ t.overlays = s.overlays /\ t.leases = s.leases
  BY <1>3, <1>4, <1>5, Committed
<1>7. ReplacesShown(s, t)
  BY <1>6 DEF ReplacesShown
<1>. QED  BY <1>6, <1>7, LeasesKept DEF Evolves, IsSpace

-----------------------------------------------------------------------------
(* Leases.                                                                 *)

\* acquire_lease(): the new token is above every token given before.
LEMMA AcquireLeaseEvolves ==
    ASSUME NEW s, IsSpace(s), ValidSpace(s), NEW r, r.resource \in LeaseResources,
           r.holder \in Holders, r.now \in Times, r.until \in Times,
           NEW t \in AcquireLease(s, r)
    PROVE  Evolves(s, t)
<1>. DEFINE x == r.resource
            token == NextFence(s, x)
            lease == [holder |-> r.holder, state |-> "Active", acquired |-> r.now,
                      expires |-> r.until, revision |-> 1, token |-> token]
            fencing == With(s.fencing, x, token)
            leases == With(s.leases, x, lease)
<1>1. /\ s \in SpaceStates /\ s.leases \in Maps(LeaseResources, Leases)
      /\ \A z \in DOMAIN s.leases : s.leases[z] \in Leases
      /\ s.fencing \in Maps(LeaseResources, Nat) /\ \A z \in DOMAIN s.fencing : s.fencing[z] \in Nat
  BY StateFacts DEF IsSpace
<1>2. token \in Nat /\ lease \in Leases
  BY <1>1 DEF NextFence, Fence, Leases
<1>3. x \in DOMAIN s.leases => s.leases[x].token < token
  BY <1>1 DEF NextFence, Fence, ValidSpace
<1>4. t = [s EXCEPT !.fencing = fencing, !.leases = leases]
  BY DEF AcquireLease, When
<1>. HIDE DEF token
<1>5. lease.token = token
  OBVIOUS
<1>. HIDE DEF lease, x
<1>6. fencing \in Maps(LeaseResources, Nat)
  BY <1>1, <1>2, WithMap DEF x
<1>7. /\ leases \in Maps(LeaseResources, Leases) /\ leases[x] = lease
      /\ \A z \in DOMAIN s.leases : z \in DOMAIN leases /\ (z # x => leases[z] = s.leases[z])
  <2>1. leases \in Maps(LeaseResources, Leases)
    BY <1>1, <1>2, WithMap DEF x
  <2>. QED  BY <2>1 DEF With, Updated
<1>. HIDE DEF fencing, leases
<1>8. /\ t \in SpaceStates /\ t.history = s.history /\ t.conflicts = s.conflicts
      /\ t.leases = leases
  BY <1>1, <1>4, <1>6, <1>7 DEF SpaceStates
<1>9. LeasesAdvance(s, t)
  <2>. SUFFICES ASSUME NEW z \in DOMAIN s.leases
                PROVE  /\ z \in DOMAIN t.leases
                       /\ s.leases[z].token <= t.leases[z].token
                       /\ s.leases[z].token = t.leases[z].token =>
                            /\ s.leases[z].holder = t.leases[z].holder
                            /\ s.leases[z].acquired = t.leases[z].acquired
    BY DEF LeasesAdvance
  <2>1. s.leases[z].token \in Nat
    BY <1>1 DEF Leases
  <2>2. CASE z = x
    BY <1>2, <1>3, <1>5, <1>7, <1>8, <2>1, <2>2
  <2>3. CASE z # x
    BY <1>7, <1>8, <2>1, <2>3
  <2>. QED  BY <2>2, <2>3
<1>10. IsSpace(t) /\ ReplacesShown(s, t)
  <2>. DEFINE u == [t EXCEPT !.leases = s.leases]
  <2>1. HeadOf(t) = HeadOf(s) /\ HeadOf(s) \in Nat
    BY <1>1, <1>8, StateFacts DEF HeadOf
  <2>2. ConflictsAreTrue(t)
    BY <1>8 DEF IsSpace, ConflictsAreTrue
  <2>. QED  BY <1>8, <2>1, <2>2 DEF IsSpace, ReplacesShown
<1>. QED  BY <1>9, <1>10 DEF Evolves

\* A lease that keeps its token, its holder and its acquisition.
LEMMA LeaseChanged ==
    ASSUME NEW s, IsSpace(s), NEW x \in DOMAIN s.leases, NEW lease \in Leases,
           lease.token = s.leases[x].token, lease.holder = s.leases[x].holder,
           lease.acquired = s.leases[x].acquired,
           NEW t, t = [s EXCEPT !.leases = [s.leases EXCEPT ![x] = lease]]
    PROVE  Evolves(s, t)
<1>. DEFINE leases == [s.leases EXCEPT ![x] = lease]
<1>1. /\ s \in SpaceStates /\ s.leases \in Maps(LeaseResources, Leases)
      /\ \A z \in DOMAIN s.leases : s.leases[z] \in Leases
  BY StateFacts DEF IsSpace
<1>2. leases \in Maps(LeaseResources, Leases)
  BY <1>1, MapFacts
<1>3. /\ DOMAIN leases = DOMAIN s.leases /\ leases[x] = lease
      /\ \A z \in DOMAIN s.leases : z # x => leases[z] = s.leases[z]
  BY <1>1, MapFacts
<1>. HIDE DEF leases
<1>4. t = [s EXCEPT !.leases = leases]
  BY DEF leases
<1>5. /\ t \in SpaceStates /\ t.history = s.history /\ t.conflicts = s.conflicts
      /\ t.leases = leases
  BY <1>1, <1>2, <1>4 DEF SpaceStates
<1>6. LeasesAdvance(s, t)
  <2>1. \A z \in DOMAIN s.leases : s.leases[z].token \in Nat
    BY <1>1 DEF Leases
  <2>. QED  BY <1>3, <1>5, <2>1 DEF LeasesAdvance
<1>7. HeadOf(t) = HeadOf(s) /\ HeadOf(s) \in Nat
  BY <1>1, <1>5, StateFacts DEF HeadOf
<1>8. ConflictsAreTrue(t)
  BY <1>5 DEF IsSpace, ConflictsAreTrue
<1>. QED  BY <1>5, <1>6, <1>7, <1>8 DEF Evolves, IsSpace, ReplacesShown

\* renew_lease()
LEMMA RenewLeaseEvolves ==
    ASSUME NEW s, IsSpace(s), NEW r, r.until \in Times, NEW t \in RenewLease(s, r)
    PROVE  Evolves(s, t)
<1>. DEFINE x == r.resource
            lease == [s.leases[x] EXCEPT !.expires = r.until, !.revision = @ + 1]
<1>1. x \in DOMAIN s.leases
  BY DEF RenewLease, When, Verified, Held
<1>2. s.leases[x] \in Leases /\ s \in SpaceStates /\ s.leases \in Maps(LeaseResources, Leases)
  BY <1>1, StateFacts DEF IsSpace
<1>3. /\ lease \in Leases /\ lease.token = s.leases[x].token
      /\ lease.holder = s.leases[x].holder /\ lease.acquired = s.leases[x].acquired
  <2>. DEFINE old == s.leases[x]
  <2>1. /\ old \in Leases /\ old.revision + 1 \in Nat
    BY <1>2 DEF Leases
  <2>. HIDE DEF old
  <2>2. [old EXCEPT !.expires = r.until, !.revision = old.revision + 1] \in Leases
    BY <2>1 DEF Leases
  <2>. QED  BY <2>1, <2>2 DEF old, Leases
<1>4. t = [s EXCEPT !.leases[x].expires = r.until, !.leases[x].revision = @ + 1]
  BY DEF RenewLease, When
<1>5. t = [s EXCEPT !.leases = [s.leases EXCEPT ![x] = lease]]
  <2>1. s.leases \in [DOMAIN s.leases -> Leases]
    BY <1>2, MapFacts
  <2>. QED  BY <1>1, <1>2, <1>4, <2>1 DEF SpaceStates, Leases
<1>. HIDE DEF lease, x
<1>. QED  BY <1>1, <1>3, <1>5, LeaseChanged

\* release_lease()
LEMMA ReleaseLeaseEvolves ==
    ASSUME NEW s, IsSpace(s), NEW r, NEW t \in ReleaseLease(s, r)
    PROVE  Evolves(s, t)
<1>. DEFINE x == r.resource
            lease == [s.leases[x] EXCEPT !.state = "Released", !.revision = @ + 1]
<1>1. x \in DOMAIN s.leases
  BY DEF ReleaseLease, When, Verified, Held
<1>2. s.leases[x] \in Leases /\ s \in SpaceStates /\ s.leases \in Maps(LeaseResources, Leases)
  BY <1>1, StateFacts DEF IsSpace
<1>3. /\ lease \in Leases /\ lease.token = s.leases[x].token
      /\ lease.holder = s.leases[x].holder /\ lease.acquired = s.leases[x].acquired
  <2>. DEFINE old == s.leases[x]
  <2>1. /\ old \in Leases /\ old.revision + 1 \in Nat
    BY <1>2 DEF Leases
  <2>. HIDE DEF old
  <2>2. [old EXCEPT !.state = "Released", !.revision = old.revision + 1] \in Leases
    BY <2>1 DEF Leases
  <2>. QED  BY <2>1, <2>2 DEF old, Leases
<1>4. t = [s EXCEPT !.leases[x].state = "Released", !.leases[x].revision = @ + 1]
  BY DEF ReleaseLease, When
<1>5. t = [s EXCEPT !.leases = [s.leases EXCEPT ![x] = lease]]
  <2>1. s.leases \in [DOMAIN s.leases -> Leases]
    BY <1>2, MapFacts
  <2>. QED  BY <1>1, <1>2, <1>4, <2>1 DEF SpaceStates, Leases
<1>. HIDE DEF lease, x
<1>. QED  BY <1>1, <1>3, <1>5, LeaseChanged

-----------------------------------------------------------------------------
(* Focus branches and links.                                               *)

\* A step of the focus branches or the links.
LEMMA FocusChanged ==
    ASSUME NEW s, IsSpace(s), NEW focus \in Maps(Branches, FocusBranches),
           NEW active \in Branches \cup {NoBranch}, NEW links \in SUBSET (Projects \X Projects),
           NEW t, t = [s EXCEPT !.focus = focus, !.active = active, !.links = links]
    PROVE  Evolves(s, t)
<1>1. /\ t \in SpaceStates /\ t.history = s.history /\ t.conflicts = s.conflicts
      /\ t.leases = s.leases
  BY DEF IsSpace, SpaceStates
<1>. QED  BY <1>1, QuietStep

\* checkpoint_focus(), switch_focus() and resume_focus()
LEMMA FocusStepEvolves ==
    ASSUME NEW s, IsSpace(s), NEW r, r.branch \in Branches,
           NEW t \in CheckpointFocus(s, r) \cup SwitchFocus(s, r) \cup ResumeFocus(s, r)
    PROVE  Evolves(s, t)
<1>. DEFINE b == r.branch
<1>1. /\ s \in SpaceStates /\ s.focus \in Maps(Branches, FocusBranches) /\ HeadOf(s) \in Nat
      /\ s.focus \in [DOMAIN s.focus -> FocusBranches] /\ DOMAIN s.focus \subseteq Branches
      /\ s.active \in Branches \cup {NoBranch} /\ s.links \in SUBSET (Projects \X Projects)
  BY StateFacts, MapFacts DEF IsSpace, SpaceStates
<1>2. CASE t \in CheckpointFocus(s, r)
  <2>. DEFINE focus == [s.focus EXCEPT ![b].checkpoint = HeadOf(s)]
  <2>1. focus \in Maps(Branches, FocusBranches)
    BY <1>1, MapFacts DEF FocusBranches
  <2>2. t = [s EXCEPT !.focus = focus, !.active = s.active, !.links = s.links]
    BY <1>1, <1>2 DEF CheckpointFocus, When, SpaceStates
  <2>. HIDE DEF focus
  <2>. QED  BY <1>1, <2>1, <2>2, FocusChanged
<1>3. CASE t \in SwitchFocus(s, r)
  <2>2. t = [s EXCEPT !.focus = s.focus, !.active = b, !.links = s.links]
    BY <1>1, <1>3 DEF SwitchFocus, When, SpaceStates
  <2>. QED  BY <1>1, <2>2, FocusChanged
<1>4. CASE t \in ResumeFocus(s, r)
  <2>. DEFINE focus == [s.focus EXCEPT ![b].offline = FALSE]
  <2>1. focus \in Maps(Branches, FocusBranches)
    <3>. DEFINE changed == [s.focus[b] EXCEPT !.offline = FALSE]
    <3>1. b \in DOMAIN s.focus /\ s.focus[b] \in FocusBranches
      BY <1>1, <1>4 DEF ResumeFocus, When
    <3>2. ASSUME NEW old \in FocusBranches, NEW offline \in BOOLEAN
          PROVE  [old EXCEPT !.offline = offline] \in FocusBranches
      BY DEF FocusBranches
    <3>3. changed \in FocusBranches
      BY <3>1, <3>2, Zenon
    <3>. HIDE DEF changed
    <3>4. focus = [s.focus EXCEPT ![b] = changed]
      BY DEF changed
    <3>. QED  BY <1>1, <3>1, <3>3, <3>4, MapFacts
  <2>2. t = [s EXCEPT !.focus = focus, !.active = s.active, !.links = s.links]
    BY <1>1, <1>4 DEF ResumeFocus, When, SpaceStates
  <2>. HIDE DEF focus
  <2>. QED  BY <1>1, <2>1, <2>2, FocusChanged
<1>. QED  BY <1>2, <1>3, <1>4

\* fork_focus()
LEMMA ForkFocusEvolves ==
    ASSUME NEW s, IsSpace(s), NEW r, r.branch \in Branches, r.offline \in BOOLEAN,
           NEW t \in ForkFocus(s, r)
    PROVE  Evolves(s, t)
<1>. DEFINE branch == [fork |-> HeadOf(s), checkpoint |-> Missing, offline |-> r.offline]
            focus == With(s.focus, r.branch, branch)
<1>1. /\ s \in SpaceStates /\ s.focus \in Maps(Branches, FocusBranches) /\ HeadOf(s) \in Nat
      /\ s.active \in Branches \cup {NoBranch} /\ s.links \in SUBSET (Projects \X Projects)
  BY StateFacts DEF IsSpace, SpaceStates
<1>2. branch \in FocusBranches
  BY <1>1 DEF FocusBranches
<1>3. t = [s EXCEPT !.focus = focus, !.active = s.active, !.links = s.links]
  BY <1>1 DEF ForkFocus, When, SpaceStates
<1>. HIDE DEF branch
<1>4. focus \in Maps(Branches, FocusBranches)
  BY <1>1, <1>2, WithMap
<1>. HIDE DEF focus
<1>. QED  BY <1>1, <1>3, <1>4, FocusChanged

\* link_project()
LEMMA LinkProjectEvolves ==
    ASSUME NEW s, IsSpace(s), NEW r, r.from \in Projects, r.to \in Projects,
           NEW t \in LinkProject(s, r)
    PROVE  Evolves(s, t)
<1>. DEFINE links == s.links \cup {<<r.from, r.to>>}
<1>1. /\ s \in SpaceStates /\ s.focus \in Maps(Branches, FocusBranches)
      /\ s.active \in Branches \cup {NoBranch} /\ s.links \in SUBSET (Projects \X Projects)
  BY StateFacts DEF IsSpace, SpaceStates
<1>2. links \in SUBSET (Projects \X Projects)
  BY <1>1
<1>3. t = [s EXCEPT !.focus = s.focus, !.active = s.active, !.links = links]
  BY <1>1 DEF LinkProject, When, SpaceStates
<1>. HIDE DEF links
<1>. QED  BY <1>1, <1>2, <1>3, FocusChanged

-----------------------------------------------------------------------------
(* All operations, and all versions.                                       *)

\* Every operation, one by one.
LEMMA ApplyEvolves ==
    ASSUME NEW s, IsSpace(s), ValidSpace(s), NEW r \in SpaceRequests(s), NEW t \in ApplySpace(r, s)
    PROVE  Evolves(s, t)
<1>1. Asks(r, s)
  BY RequestAsks DEF IsSpace
<1>2. CASE ~Exists(s)
  <2>1. r.op = "CreateSpace" /\ r.event \in Events /\ r.now \in Times
    BY <1>1, <1>2 DEF Asks
  <2>. QED  BY <2>1, CreateSpaceEvolves DEF ApplySpace
<1>3. CASE Exists(s)
  <2>1. CASE r.op = "CreateOverlay"
    BY <1>1, <1>3, <2>1, CreateOverlayEvolves DEF ApplySpace, Asks
  <2>2. CASE r.op = "Propose"
    BY <1>1, <1>3, <2>2, ProposeEvolves DEF ApplySpace, Asks
  <2>3. CASE r.op = "DiscardOverlay"
    BY <2>3, DiscardOverlayEvolves DEF ApplySpace
  <2>4. CASE r.op = "Publish"
    BY <1>1, <1>3, <2>4, PublishEvolves DEF ApplySpace, Asks
  <2>5. CASE r.op = "ResolveConflict"
    BY <1>1, <1>3, <2>5, ResolveConflictEvolves DEF ApplySpace, Asks
  <2>6. CASE r.op = "ResolveAndPublish"
    BY <1>1, <1>3, <2>6, ResolveAndPublishEvolves DEF ApplySpace, Asks
  <2>7. CASE r.op = "AppendEvents"
    BY <1>1, <1>3, <2>7, AppendEventsEvolves DEF ApplySpace, Asks
  <2>8. CASE r.op = "AcquireLease"
    BY <1>1, <1>3, <2>8, AcquireLeaseEvolves DEF ApplySpace, Asks
  <2>9. CASE r.op = "RenewLease"
    BY <1>1, <1>3, <2>9, RenewLeaseEvolves DEF ApplySpace, Asks
  <2>10. CASE r.op = "ReleaseLease"
    BY <2>10, ReleaseLeaseEvolves DEF ApplySpace
  <2>11. CASE r.op = "ForkFocus"
    BY <1>1, <1>3, <2>11, ForkFocusEvolves DEF ApplySpace, Asks
  <2>12. CASE r.op \in {"CheckpointFocus", "SwitchFocus", "ResumeFocus"}
    <3>1. r.branch \in Branches
      BY <1>1, <1>3, <2>12 DEF Asks
    <3>2. t \in CheckpointFocus(s, r) \cup SwitchFocus(s, r) \cup ResumeFocus(s, r)
      BY <2>12 DEF ApplySpace
    <3>. QED  BY <3>1, <3>2, FocusStepEvolves
  <2>13. CASE r.op = "LinkProject"
    BY <1>1, <1>3, <2>13, LinkProjectEvolves DEF ApplySpace, Asks
  <2>. QED
    BY <1>1, <1>3, <2>1, <2>2, <2>3, <2>4, <2>5, <2>6, <2>7, <2>8, <2>9, <2>10, <2>11, <2>12,
       <2>13 DEF Asks
<1>. QED  BY <1>2, <1>3

\* A service without a space.
LEMMA NoSpaceIsSpace == IsSpace(NoSpace)
<1>1. /\ <<>> \in Seq(Commits) /\ <<>> \in Seq(LoggedEvents)
      /\ <<>> \in Maps(DOMAIN Owner, OverlayRecords) /\ <<>> \in Maps(LeaseResources, Leases)
      /\ <<>> \in Maps(LeaseResources, Nat) /\ <<>> \in Maps(Branches, FocusBranches)
  BY EmptyMap
<1>2. NoSpace \in SpaceStates
  BY <1>1 DEF NoSpace, SpaceStates
<1>3. ConflictsAreTrue(NoSpace)
  BY DEF NoSpace, ConflictsAreTrue
<1>. QED  BY <1>2, <1>3 DEF IsSpace

\* By induction over the versions: each is a space, made from the one before.
LEMMA VersionsAreSpaces ==
    ASSUME ServiceIsSpaces, Len(roots) \in Nat, EveryRootFollows
    PROVE  /\ \A v \in 0 .. Len(roots) : IsSpace(At(v)) /\ ValidSpace(At(v))
           /\ \A v \in 1 .. Len(roots) : Evolves(At(v - 1), At(v))
<1>1. ASSUME NEW v \in 1 .. Len(roots), IsSpace(At(v - 1)), ValidSpace(At(v - 1))
      PROVE  Evolves(At(v - 1), At(v)) /\ IsSpace(At(v)) /\ ValidSpace(At(v))
  <2>1. At(v) = roots[v]
    BY DEF At, Version
  <2>2. /\ Valid(At(v))
        /\ \E i \in Instances : \E r \in Requests(i, At(v - 1)) : At(v) \in Apply(r, At(v - 1))
    BY <2>1 DEF EveryRootFollows, Follows, At
  <2>3. PICK i \in Instances : \E r \in Requests(i, At(v - 1)) : At(v) \in Apply(r, At(v - 1))
    BY <2>2
  <2>4. PICK r \in Requests(i, At(v - 1)) : At(v) \in Apply(r, At(v - 1))
    BY <2>3
  <2>5. r \in SpaceRequests(At(v - 1)) /\ At(v) \in ApplySpace(r, At(v - 1)) /\ ValidSpace(At(v))
    BY <2>2, <2>4 DEF ServiceIsSpaces, OfferedRequests
  <2>6. Evolves(At(v - 1), At(v))
    <3>. DEFINE s == At(v - 1)
                t == At(v)
    <3>. HIDE DEF s, t
    <3>1. IsSpace(s) /\ ValidSpace(s) /\ r \in SpaceRequests(s) /\ t \in ApplySpace(r, s)
      BY <1>1, <2>5 DEF s, t
    <3>2. Evolves(s, t)
      BY <3>1, ApplyEvolves
    <3>. QED  BY <3>2 DEF s, t
  <2>. QED  BY <2>5, <2>6 DEF Evolves
<1>. DEFINE S == {n \in Nat : n <= Len(roots) => IsSpace(At(n)) /\ ValidSpace(At(n))}
<1>2. 0 \in S
  <2>1. At(0) = NoSpace
    BY DEF At, Version, ServiceIsSpaces
  <2>2. ValidSpace(NoSpace)
    BY SnapshotsAssumption DEF ServiceIsSpaces
  <2>. QED  BY <2>1, <2>2, NoSpaceIsSpace
<1>3. ASSUME NEW n \in Nat, n \in S PROVE n + 1 \in S
  <2>1. CASE n + 1 <= Len(roots)
    <3>1. n + 1 \in 1 .. Len(roots) /\ n <= Len(roots) /\ (n + 1) - 1 = n
      BY <2>1
    <3>2. IsSpace(At(n)) /\ ValidSpace(At(n))
      BY <1>3, <3>1
    <3>3. IsSpace(At(n + 1)) /\ ValidSpace(At(n + 1))
      BY <1>1, <3>1, <3>2
    <3>. QED  BY <3>3
  <2>2. CASE ~(n + 1 <= Len(roots))
    BY <2>2
  <2>. QED  BY <2>1, <2>2
<1>. HIDE DEF S
<1>4. Nat \subseteq S
  BY <1>2, <1>3, NatSetInduction
<1>5. \A v \in 0 .. Len(roots) : IsSpace(At(v)) /\ ValidSpace(At(v))
  BY <1>4 DEF S
<1>6. ASSUME NEW v \in 1 .. Len(roots) PROVE Evolves(At(v - 1), At(v))
  <2>1. v - 1 \in 0 .. Len(roots)
    OBVIOUS
  <2>. QED  BY <1>1, <1>5, <2>1
<1>. QED  BY <1>5, <1>6

-----------------------------------------------------------------------------
(* Types, leases and publications.                                         *)

\* Advancing is transitive.
LEMMA LeasesAdvanceFurther ==
    ASSUME NEW s \in SpaceStates, NEW t \in SpaceStates, NEW u \in SpaceStates,
           LeasesAdvance(s, t), LeasesAdvance(t, u)
    PROVE  LeasesAdvance(s, u)
<1>1. /\ \A x \in DOMAIN s.leases : s.leases[x].token \in Nat
      /\ \A x \in DOMAIN t.leases : t.leases[x].token \in Nat
      /\ \A x \in DOMAIN u.leases : u.leases[x].token \in Nat
  BY StateFacts DEF Leases
<1>. QED  BY <1>1 DEF LeasesAdvance

\* The newest leases are ahead of those of every earlier version.
LEMMA LeasesAdvanced ==
    ASSUME ServiceIsSpaces, Len(roots) \in Nat, EveryRootFollows, NEW v \in 1 .. Len(roots)
    PROVE  LeasesAdvance(At(v), Latest)
<1>. DEFINE S == {n \in Nat : v + n <= Len(roots) => LeasesAdvance(At(v), At(v + n))}
<1>1. /\ \A w \in 0 .. Len(roots) : At(w) \in SpaceStates
      /\ \A w \in 1 .. Len(roots) : LeasesAdvance(At(w - 1), At(w))
  BY VersionsAreSpaces DEF IsSpace, Evolves
<1>2. 0 \in S
  <2>1. LeasesAdvance(At(v), At(v))
    BY <1>1, LeasesKept
  <2>. QED  BY <2>1
<1>3. ASSUME NEW n \in Nat, n \in S PROVE n + 1 \in S
  <2>1. CASE v + (n + 1) <= Len(roots)
    <3>1. /\ v + (n + 1) \in 1 .. Len(roots) /\ v + n <= Len(roots)
          /\ (v + (n + 1)) - 1 = v + n /\ v + n \in 0 .. Len(roots) /\ v \in 0 .. Len(roots)
          /\ v + (n + 1) \in 0 .. Len(roots)
      BY <2>1
    <3>2. LeasesAdvance(At(v), At(v + n)) /\ LeasesAdvance(At(v + n), At(v + (n + 1)))
      BY <1>1, <1>3, <3>1
    <3>3. LeasesAdvance(At(v), At(v + (n + 1)))
      BY <1>1, <3>1, <3>2, LeasesAdvanceFurther
    <3>. QED  BY <3>3
  <2>2. CASE ~(v + (n + 1) <= Len(roots))
    BY <2>2
  <2>. QED  BY <2>1, <2>2
<1>. HIDE DEF S
<1>4. Len(roots) - v \in S
  <2>1. Nat \subseteq S
    BY <1>2, <1>3, NatSetInduction
  <2>. QED  BY <2>1
<1>5. v + (Len(roots) - v) = Len(roots)
  OBVIOUS
<1>. QED  BY <1>4, <1>5 DEF S, Latest

\* Every root that any daemon publishes is a space of the declared types: no
\* operation of the service, and no restart that validates what it installs,
\* leaves a snapshot with a missing or a foreign part.
THEOREM SpacesTypes ==
    ASSUME ServiceIsSpaces
    PROVE  SnapshotsSpec => []SpacesTypeOK
<1>1. SnapshotsInv /\ EveryRootFollows => SpacesTypeOK
  <2>. SUFFICES ASSUME SnapshotsInv, EveryRootFollows, NEW v \in 1 .. Len(roots)
                PROVE  roots[v] \in SpaceStates
    BY DEF SpacesTypeOK
  <2>1. Len(roots) \in Nat
    BY DEF SnapshotsInv
  <2>2. v \in 0 .. Len(roots) /\ At(v) = roots[v]
    BY <2>1 DEF At, Version
  <2>. QED  BY <2>1, <2>2, VersionsAreSpaces DEF IsSpace
<1>. QED  BY <1>1, SnapshotsAreInvariant, EveryRootFollowsHolds, PTL

\* A fencing token names one holder of a resource for ever: acquire_lease() takes
\* the next value of the persisted counter, and renew_lease(), release_lease(),
\* crashes and other daemons never hand an old token to a new holder.
THEOREM TokenNamesOneLeaseHolds ==
    ASSUME ServiceIsSpaces
    PROVE  SnapshotsSpec => []TokenNamesOneLease
<1>1. SnapshotsInv /\ EveryRootFollows => TokenNamesOneLease
  <2>. SUFFICES ASSUME SnapshotsInv, EveryRootFollows,
                       NEW v \in 1 .. Len(roots), NEW x \in DOMAIN roots[v].leases
                PROVE  LET earlier == roots[v].leases[x]
                           newest == New.leases[x]
                       IN  /\ earlier.token <= newest.token
                           /\ earlier.token = newest.token =>
                                /\ earlier.holder = newest.holder
                                /\ earlier.acquired = newest.acquired
    BY DEF TokenNamesOneLease
  <2>1. Len(roots) \in Nat
    BY DEF SnapshotsInv
  <2>2. At(v) = roots[v]
    BY <2>1 DEF At, Version
  <2>3. LeasesAdvance(At(v), Latest)
    BY <2>1, LeasesAdvanced
  <2>. QED  BY <2>2, <2>3 DEF LeasesAdvance, New
<1>. QED  BY <1>1, SnapshotsAreInvariant, EveryRootFollowsHolds, PTL

\* publish_overlay() and resolve_conflict_and_publish() replace only values that
\* the author of the overlay started from or was shown as a conflict, except by
\* the very value the author started from, on whichever daemon it is done.
THEOREM SeenBeforeOverwrittenHolds ==
    ASSUME ServiceIsSpaces
    PROVE  SnapshotsSpec => []SeenBeforeOverwritten
<1>1. SnapshotsInv /\ EveryRootFollows => SeenBeforeOverwritten
  <2>. SUFFICES ASSUME SnapshotsInv, EveryRootFollows,
                       NEW o \in JustPublished, NEW key \in Keys, Overwritten(key)
                PROVE  \/ WasShown(o, key, Lookup(Resources(Old), key))
                       \/ Lookup(Resources(New), key) = StartedFrom(o, key)
    BY DEF SeenBeforeOverwritten
  <2>1. Len(roots) \in Nat
    BY DEF SnapshotsInv
  <2>2. Len(roots) > 0 /\ HeadOf(New) > HeadOf(Old) /\ o \in DOMAIN Old.overlays \ DOMAIN New.overlays
    BY DEF JustPublished
  <2>3. Len(roots) \in 1 .. Len(roots)
    BY <2>1, <2>2
  <2>4. ReplacesShown(Old, New)
    BY <2>1, <2>3, VersionsAreSpaces DEF Evolves, Old, New, Latest
  <2>. QED  BY <2>2, <2>4 DEF ReplacesShown, WasShown, StartedFrom, Overwritten
<1>. QED  BY <1>1, SnapshotsAreInvariant, EveryRootFollowsHolds, PTL

-----------------------------------------------------------------------------
(* Induction down from a bound, and splitting a sequence.                  *)

\* What holds of a number when it holds of the greater ones holds up to a bound.
LEMMA DownwardInduction ==
    ASSUME NEW N \in Nat, NEW S,
           \A a \in 0 .. N : (\A b \in a + 1 .. N : b \in S) => a \in S
    PROVE  0 .. N \subseteq S
<1>. DEFINE T == {k \in Nat : \A b \in 0 .. N : b + k >= N => b \in S}
<1>1. 0 \in T
  <2>1. N \in S
    OBVIOUS
  <2>. QED  BY <2>1
<1>2. ASSUME NEW k \in Nat, k \in T PROVE k + 1 \in T
  <2>. SUFFICES ASSUME NEW b \in 0 .. N, b + (k + 1) >= N PROVE b \in S
    OBVIOUS
  <2>1. \A c \in b + 1 .. N : c \in S
    BY <1>2
  <2>. QED  BY <2>1
<1>. HIDE DEF T
<1>3. N \in T
  BY <1>1, <1>2, NatSetInduction
<1>. QED  BY <1>3 DEF T

\* A sequence is its first part and its second part.
LEMMA Split ==
    ASSUME NEW S, NEW q \in Seq(S), NEW m \in 0 .. Len(q)
    PROVE  /\ SubSeq(q, 1, m) \in Seq(S) /\ SubSeq(q, m + 1, Len(q)) \in Seq(S)
           /\ Len(SubSeq(q, 1, m)) = m /\ Len(SubSeq(q, m + 1, Len(q))) = Len(q) - m
           /\ \A n \in 1 .. m : SubSeq(q, 1, m)[n] = q[n]
           /\ \A n \in 1 .. Len(q) - m : SubSeq(q, m + 1, Len(q))[n] = q[m + n]
           /\ q = SubSeq(q, 1, m) \o SubSeq(q, m + 1, Len(q))
<1>. DEFINE a == SubSeq(q, 1, m)
            b == SubSeq(q, m + 1, Len(q))
<1>1. Len(q) \in Nat
  OBVIOUS
<1>2. a \in Seq(S) /\ Len(a) = m /\ \A n \in 1 .. m : a[n] = q[n]
  BY <1>1
<1>3. b \in Seq(S) /\ Len(b) = Len(q) - m /\ \A n \in 1 .. Len(q) - m : b[n] = q[m + n]
  BY <1>1
<1>. HIDE DEF a, b
<1>4. q = a \o b
  <2>1. a \o b \in Seq(S) /\ Len(a \o b) = Len(q)
    BY <1>1, <1>2, <1>3
  <2>2. ASSUME NEW n \in 1 .. Len(q) PROVE (a \o b)[n] = q[n]
    <3>1. CASE n <= m
      BY <1>1, <1>2, <1>3, <3>1
    <3>2. CASE n > m
      <4>1. (a \o b)[n] = b[n - m] /\ n - m \in 1 .. Len(q) - m /\ m + (n - m) = n
        BY <1>1, <1>2, <1>3, <3>2
      <4>. QED  BY <1>3, <4>1
    <3>3. n <= m \/ n > m
      BY <1>1
    <3>. QED  BY <3>1, <3>2, <3>3, Zenon
  <2>. DEFINE ab == a \o b
  <2>3. ab \in Seq(S) /\ Len(ab) = Len(q) /\ \A n \in 1 .. Len(q) : ab[n] = q[n]
    BY <2>1, <2>2
  <2>. HIDE DEF ab
  <2>4. ab = q
    BY <2>3, SeqEqual
  <2>. QED  BY <2>4 DEF ab
<1>. QED  BY <1>2, <1>3, <1>4 DEF a, b

-----------------------------------------------------------------------------
(* Event pages and streams.                                                *)

\* The visible cursors after n, given those after n + 1.
VisibleFrom(s, visible, f, n) ==
    IF n = Len(s.events) THEN <<>>
    ELSE IF s.events[n + 1].project \in visible THEN <<n + 1>> \o f[n + 1]
    ELSE f[n + 1]

\* The recursive definition of VisibleAfter has a solution.
LEMMA VisibleExists ==
    ASSUME NEW s, Len(s.events) \in Nat, NEW visible
    PROVE  \E f : f = [n \in 0 .. Len(s.events) |-> VisibleFrom(s, visible, f, n)]
<1>. DEFINE N == Len(s.events)
            S == {a \in 0 .. N : \E f : f = [n \in a .. N |-> VisibleFrom(s, visible, f, n)]}
<1>1. ASSUME NEW a \in 0 .. N, \A b \in a + 1 .. N : b \in S PROVE a \in S
  <2>1. CASE a = N
    <3>. DEFINE f == [n \in a .. N |-> <<>>]
    <3>1. f = [n \in a .. N |-> VisibleFrom(s, visible, f, n)]
      BY <2>1 DEF VisibleFrom
    <3>. QED  BY <3>1
  <2>2. CASE a < N
    <3>1. PICK f : f = [n \in a + 1 .. N |-> VisibleFrom(s, visible, f, n)]
      BY <1>1, <2>2
    <3>. DEFINE g == [n \in a .. N |-> IF n = a THEN VisibleFrom(s, visible, f, n) ELSE f[n]]
    <3>2. \A n \in a .. N : n # N => g[n + 1] = f[n + 1]
      BY <2>2
    <3>3. ASSUME NEW n \in a .. N PROVE VisibleFrom(s, visible, g, n) = VisibleFrom(s, visible, f, n)
      <4>1. n # N => g[n + 1] = f[n + 1]
        BY <3>2
      <4>. HIDE DEF g
      <4>. QED  BY <4>1 DEF VisibleFrom
    <3>4. \A n \in a .. N : g[n] = VisibleFrom(s, visible, f, n)
      BY <2>2, <3>1
    <3>5. g = [n \in a .. N |-> VisibleFrom(s, visible, g, n)]
      <4>. HIDE DEF N
      <4>. QED BY <3>3, <3>4
    <3>. QED  BY <3>5
  <2>. QED  BY <2>1, <2>2
<1>. HIDE DEF S
<1>2. 0 .. N \subseteq S
  BY <1>1, DownwardInduction
<1>. QED  BY <1>2 DEF S

\* VisibleAfter is one.
LEMMA VisibleEquation ==
    ASSUME NEW s, Len(s.events) \in Nat, NEW visible, NEW a \in 0 .. Len(s.events)
    PROVE  VisibleAfter(s, visible, a) =
            IF a = Len(s.events) THEN <<>>
            ELSE IF s.events[a + 1].project \in visible
                THEN <<a + 1>> \o VisibleAfter(s, visible, a + 1)
            ELSE VisibleAfter(s, visible, a + 1)
<1>. DEFINE N == Len(s.events)
            from == CHOOSE f : f = [n \in 0 .. N |-> VisibleFrom(s, visible, f, n)]
<1>1. from = [n \in 0 .. N |-> VisibleFrom(s, visible, from, n)]
  BY VisibleExists
<1>2. \A n : VisibleAfter(s, visible, n) = from[n]
  BY DEF VisibleAfter, VisibleFrom
<1>. HIDE DEF from
<1>3. from[a] = VisibleFrom(s, visible, from, a)
  BY <1>1
<1>. QED  BY <1>2, <1>3 DEF VisibleFrom

\* The visible cursors are cursors.
LEMMA VisibleSeq ==
    ASSUME NEW s, Len(s.events) \in Nat, NEW visible
    PROVE  \A a \in 0 .. Len(s.events) : VisibleAfter(s, visible, a) \in Seq(a + 1 .. Len(s.events))
<1>. DEFINE N == Len(s.events)
            V(a) == VisibleAfter(s, visible, a)
            S == {a \in 0 .. N : V(a) \in Seq(a + 1 .. N)}
<1>1. ASSUME NEW a \in 0 .. N, \A b \in a + 1 .. N : b \in S PROVE a \in S
  <2>1. CASE a = N
    <3>1. V(a) = <<>>
      BY <2>1, VisibleEquation, Zenon
    <3>. QED  BY <3>1
  <2>2. CASE a # N
    <3>1. V(a + 1) \in Seq(a + 2 .. N)
      BY <1>1, <2>2
    <3>2. V(a + 1) \in Seq(a + 1 .. N)
      <4>. DEFINE q == V(a + 1)
      <4>. HIDE DEF V
      <4>1. q \in Seq(a + 2 .. N) /\ a + 2 .. N \subseteq a + 1 .. N
        BY <3>1
      <4>. HIDE DEF q
      <4>2. q \in Seq(a + 1 .. N)
        BY <4>1
      <4>. QED  BY <4>2 DEF q
    <3>3. V(a) = V(a + 1) \/ V(a) = <<a + 1>> \o V(a + 1)
      BY <2>2, VisibleEquation
    <3>4. <<a + 1>> \in Seq(a + 1 .. N)
      BY <2>2
    <3>. HIDE DEF V
    <3>5. V(a) \in Seq(a + 1 .. N)
      <4>. DEFINE T == a + 1 .. N
                  p == <<a + 1>>
                  q == V(a + 1)
      <4>1. p \in Seq(T) /\ q \in Seq(T)
        BY <3>2, <3>4
      <4>. HIDE DEF T, p, q
      <4>2. p \o q \in Seq(T)
        BY <4>1
      <4>. QED  BY <3>3, <4>1, <4>2 DEF T, p, q
    <3>. QED  BY <3>5
  <2>. QED  BY <2>1, <2>2
<1>. HIDE DEF S
<1>2. 0 .. N \subseteq S
  BY <1>1, DownwardInduction
<1>. QED  BY <1>2 DEF S

\* One step of the recursion, by elements.
LEMMA VisibleStep ==
    ASSUME NEW s, Len(s.events) \in Nat, NEW visible,
           NEW a \in 0 .. Len(s.events), a # Len(s.events)
    PROVE  LET V(b) == VisibleAfter(s, visible, b) IN
           /\ V(a + 1) \in Seq(Nat) /\ V(a) \in Seq(Nat)
           /\ s.events[a + 1].project \notin visible => V(a) = V(a + 1)
           /\ s.events[a + 1].project \in visible =>
                /\ Len(V(a)) = Len(V(a + 1)) + 1 /\ V(a)[1] = a + 1
                /\ \A k \in 1 .. Len(V(a + 1)) : V(a)[k + 1] = V(a + 1)[k]
<1>. DEFINE N == Len(s.events)
            V(b) == VisibleAfter(s, visible, b)
            q == V(a + 1)
<1>1. V(a) \in Seq(a + 1 .. N) /\ q \in Seq(a + 2 .. N)
  BY VisibleSeq
<1>2. V(a) \in Seq(Nat) /\ q \in Seq(Nat)
  <2>1. a + 1 .. N \subseteq Nat /\ a + 2 .. N \subseteq Nat
    OBVIOUS
  <2>. HIDE DEF V
  <2>. QED  BY <1>1, <2>1
<1>3. /\ s.events[a + 1].project \notin visible => V(a) = q
      /\ s.events[a + 1].project \in visible => V(a) = <<a + 1>> \o q
  BY VisibleEquation
<1>. HIDE DEF V, q
<1>4. LET r == <<a + 1>> \o q IN
      Len(r) = Len(q) + 1 /\ r[1] = a + 1 /\ \A k \in 1 .. Len(q) : r[k + 1] = q[k]
  BY <1>2
<1>. QED  BY <1>2, <1>3, <1>4 DEF V, q

\* The visible cursors are all of them, in order.
LEMMA VisibleInOrder ==
    ASSUME NEW s, Len(s.events) \in Nat, NEW visible, NEW a \in 0 .. Len(s.events)
    PROVE  InOrder(VisibleAfter(s, visible, a),
                   {n \in a + 1 .. Len(s.events) : s.events[n].project \in visible})
<1>. DEFINE N == Len(s.events)
            V(b) == VisibleAfter(s, visible, b)
            Rest(b) == {n \in b + 1 .. N : s.events[n].project \in visible}
            S == {b \in 0 .. N : InOrder(V(b), Rest(b))}
<1>1. ASSUME NEW b \in 0 .. N, \A c \in b + 1 .. N : c \in S PROVE b \in S
  <2>1. CASE b = N
    <3>1. V(b) = <<>>
      BY <2>1, VisibleEquation, Zenon
    <3>2. InOrder(<<>>, {})
      BY DEF InOrder, ToSet
    <3>3. Rest(b) = {}
      BY <2>1
    <3>. HIDE DEF Rest, V
    <3>. QED  BY <3>1, <3>2, <3>3
  <2>2. CASE b # N
    <3>. DEFINE p == V(b)
                q == V(b + 1)
    <3>1. /\ q \in Seq(Nat) /\ p \in Seq(Nat)
          /\ s.events[b + 1].project \notin visible => p = q
          /\ s.events[b + 1].project \in visible =>
                /\ Len(p) = Len(q) + 1 /\ p[1] = b + 1
                /\ \A k \in 1 .. Len(q) : p[k + 1] = q[k]
      BY <2>2, VisibleStep
    <3>2. InOrder(q, Rest(b + 1))
      BY <1>1, <2>2
    <3>. HIDE DEF V, p, q
    <3>3. CASE s.events[b + 1].project \notin visible
      <4>1. Rest(b + 1) = Rest(b)
        BY <3>3
      <4>. QED  BY <3>1, <3>2, <3>3, <4>1 DEF p
    <3>4. CASE s.events[b + 1].project \in visible
      <4>1. Rest(b) = Rest(b + 1) \cup {b + 1}
        BY <2>2, <3>4
      <4>2. /\ ToSet(q) = {q[k] : k \in 1 .. Len(q)} /\ ToSet(p) = {p[k] : k \in 1 .. Len(p)}
        BY <3>1 DEF ToSet
      <4>3. Len(q) \in Nat /\ \A k \in 2 .. Len(p) : k - 1 \in 1 .. Len(q) /\ p[k] = q[k - 1]
        <5>1. Len(q) \in Nat /\ Len(p) = Len(q) + 1
          BY <3>1, <3>4
        <5>2. ASSUME NEW k \in 2 .. Len(p) PROVE k - 1 \in 1 .. Len(q) /\ p[k] = q[k - 1]
          <6>1. k - 1 \in 1 .. Len(q) /\ (k - 1) + 1 = k
            BY <5>1
          <6>. QED  BY <3>1, <3>4, <6>1
        <5>. QED  BY <5>1, <5>2
      <4>4. ToSet(p) = Rest(b)
        <5>1. ToSet(p) \subseteq ToSet(q) \cup {b + 1}
          <6>. SUFFICES ASSUME NEW k \in 1 .. Len(p) PROVE p[k] \in ToSet(q) \cup {b + 1}
            BY <4>2
          <6>1. CASE k = 1
            BY <3>1, <3>4, <6>1
          <6>2. CASE k # 1
            <7>1. k \in 2 .. Len(p)
              BY <3>1, <6>2
            <7>. QED  BY <4>2, <4>3, <7>1
          <6>. QED  BY <6>1, <6>2
        <5>2. ToSet(q) \cup {b + 1} \subseteq ToSet(p)
          <6>1. ASSUME NEW k \in 1 .. Len(q) PROVE q[k] \in ToSet(p)
            <7>1. k + 1 \in 1 .. Len(p) /\ p[k + 1] = q[k]
              BY <3>1, <3>4, <4>3
            <7>. QED  BY <4>2, <7>1
          <6>2. 1 \in 1 .. Len(p) /\ p[1] = b + 1
            BY <3>1, <3>4, <4>3
          <6>. QED  BY <4>2, <6>1, <6>2
        <5>. QED  BY <3>2, <4>1, <5>1, <5>2 DEF InOrder
      <4>5. \A k \in 1 .. Len(q) : q[k] > b + 1 /\ q[k] \in Nat
        <5>1. \A x \in Rest(b + 1) : x > b + 1 /\ x \in Nat
          OBVIOUS
        <5>. HIDE DEF Rest
        <5>. QED  BY <3>2, <4>2, <5>1 DEF InOrder
      <4>6. ASSUME NEW k \in 1 .. Len(p), NEW l \in 1 .. Len(p), k < l PROVE p[k] < p[l]
        <5>1. Len(p) \in Nat /\ l \in 2 .. Len(p)
          BY <3>1, <4>6
        <5>2. CASE k = 1
          BY <3>1, <3>4, <4>3, <4>5, <5>1, <5>2
        <5>3. CASE k # 1
          <6>1. k \in 2 .. Len(p) /\ k - 1 < l - 1
            BY <4>6, <5>1, <5>3
          <6>2. /\ p[k] = q[k - 1] /\ k - 1 \in 1 .. Len(q)
                /\ p[l] = q[l - 1] /\ l - 1 \in 1 .. Len(q)
            BY <4>3, <5>1, <6>1
          <6>. QED  BY <3>2, <6>1, <6>2 DEF InOrder
        <5>. QED  BY <5>2, <5>3
      <4>7. InOrder(p, Rest(b))
        BY <4>4, <4>6 DEF InOrder
      <4>. QED  BY <4>7 DEF p
    <3>. QED  BY <3>3, <3>4
  <2>. QED  BY <2>1, <2>2
<1>. HIDE DEF S
<1>2. 0 .. N \subseteq S
  BY <1>1, DownwardInduction
<1>. QED  BY <1>2 DEF S

\* After the k-th visible cursor come the others.
LEMMA VisibleAfterNth ==
    ASSUME NEW s, Len(s.events) \in Nat, NEW visible
    PROVE  LET V(b) == VisibleAfter(s, visible, b) IN
           \A a \in 0 .. Len(s.events) : \A k \in 1 .. Len(V(a)) :
            /\ V(a)[k] \in a + 1 .. Len(s.events)
            /\ Len(V(V(a)[k])) = Len(V(a)) - k
            /\ \A n \in 1 .. Len(V(a)) - k : V(V(a)[k])[n] = V(a)[k + n]
<1>. DEFINE N == Len(s.events)
            V(b) == VisibleAfter(s, visible, b)
            Nth(a) == \A k \in 1 .. Len(V(a)) :
                        /\ Len(V(V(a)[k])) = Len(V(a)) - k
                        /\ \A n \in 1 .. Len(V(a)) - k : V(V(a)[k])[n] = V(a)[k + n]
            S == {a \in 0 .. N : Nth(a)}
<1>1. ASSUME NEW a \in 0 .. N, \A b \in a + 1 .. N : b \in S PROVE a \in S
  <2>1. CASE a = N
    <3>1. V(a) = <<>>
      BY <2>1, VisibleEquation, Zenon
    <3>2. Len(V(a)) = 0
      BY <3>1
    <3>. QED  BY <3>2
  <2>2. CASE a # N
    <3>. DEFINE p == V(a)
                q == V(a + 1)
    <3>1. /\ q \in Seq(Nat) /\ p \in Seq(Nat)
          /\ s.events[a + 1].project \notin visible => p = q
          /\ s.events[a + 1].project \in visible =>
                /\ Len(p) = Len(q) + 1 /\ p[1] = a + 1
                /\ \A k \in 1 .. Len(q) : p[k + 1] = q[k]
      BY <2>2, VisibleStep
    <3>2. Nth(a + 1)
      BY <1>1, <2>2
    <3>3. \A k \in 1 .. Len(q) : Len(V(q[k])) = Len(q) - k /\ \A n \in 1 .. Len(q) - k : V(q[k])[n] = q[k + n]
      BY <3>2
    <3>4. Len(p) \in Nat /\ Len(q) \in Nat
      BY <3>1
    <3>5. q = V(a + 1)
      OBVIOUS
    <3>. HIDE DEF q
    <3>. SUFFICES ASSUME NEW k \in 1 .. Len(p)
                  PROVE  /\ Len(V(p[k])) = Len(p) - k
                         /\ \A n \in 1 .. Len(p) - k : V(p[k])[n] = p[k + n]
      OBVIOUS
    <3>. HIDE DEF V, p
    <3>6. CASE s.events[a + 1].project \notin visible
      BY <3>1, <3>3, <3>6
    <3>7. CASE s.events[a + 1].project \in visible
      <4>1. CASE k = 1
        <5>1. V(p[k]) = q
          BY <3>1, <3>5, <3>7, <4>1
        <5>2. \A n \in 1 .. Len(p) - k : n \in 1 .. Len(q) /\ k + n = n + 1
          BY <3>1, <3>4, <3>7, <4>1
        <5>. QED  BY <3>1, <3>4, <3>7, <4>1, <5>1, <5>2
      <4>2. CASE k # 1
        <5>1. k - 1 \in 1 .. Len(q) /\ (k - 1) + 1 = k
          BY <3>1, <3>4, <3>7, <4>2
        <5>2. p[k] = q[k - 1]
          BY <3>1, <3>7, <5>1
        <5>3. Len(V(p[k])) = Len(q) - (k - 1) /\ Len(q) - (k - 1) = Len(p) - k
          <6>1. Len(V(q[k - 1])) = Len(q) - (k - 1)
            BY <3>3, <5>1
          <6>2. Len(q) - (k - 1) = Len(p) - k
            BY <3>1, <3>4, <3>7
          <6>. QED  BY <5>2, <6>1, <6>2, Zenon
        <5>4. ASSUME NEW n \in 1 .. Len(p) - k PROVE V(p[k])[n] = p[k + n]
          <6>1. n \in 1 .. Len(q) - (k - 1) /\ (k - 1) + n \in 1 .. Len(q) /\ ((k - 1) + n) + 1 = k + n
            BY <3>1, <3>4, <3>7, <5>1
          <6>2. V(p[k])[n] = q[(k - 1) + n]
            BY <3>3, <5>1, <5>2, <6>1
          <6>3. p[k + n] = q[(k - 1) + n]
            BY <3>1, <3>7, <6>1
          <6>. QED  BY <6>2, <6>3
        <5>. QED  BY <5>3, <5>4
      <4>. QED  BY <4>1, <4>2
    <3>. QED  BY <3>6, <3>7
  <2>. QED  BY <2>1, <2>2
<1>. HIDE DEF S
<1>2. 0 .. N \subseteq S
  BY <1>1, DownwardInduction
<1>3. ASSUME NEW a \in 0 .. N PROVE Nth(a)
  BY <1>2 DEF S
<1>4. ASSUME NEW a \in 0 .. N, NEW k \in 1 .. Len(V(a)) PROVE V(a)[k] \in a + 1 .. N
  <2>1. V(a) \in Seq(a + 1 .. N)
    BY VisibleSeq
  <2>. HIDE DEF V
  <2>. QED  BY <2>1
<1>. QED  BY <1>3, <1>4

\* Up to the first visible cursor there is none.
LEMMA NothingBetween ==
    ASSUME NEW s, Len(s.events) \in Nat, NEW visible
    PROVE  LET V(b) == VisibleAfter(s, visible, b) IN
           \A a \in 0 .. Len(s.events) : \A b \in a .. Len(s.events) :
            Len(V(a)) > 0 /\ b < V(a)[1] => V(b) = V(a)
<1>. DEFINE N == Len(s.events)
            V(b) == VisibleAfter(s, visible, b)
            S == {a \in 0 .. N : \A b \in a .. N : Len(V(a)) > 0 /\ b < V(a)[1] => V(b) = V(a)}
<1>1. ASSUME NEW a \in 0 .. N, \A b \in a + 1 .. N : b \in S PROVE a \in S
  <2>1. CASE a = N
    <3>1. V(a) = <<>>
      BY <2>1, VisibleEquation, Zenon
    <3>2. Len(V(a)) = 0
      BY <3>1
    <3>. QED  BY <3>2
  <2>2. CASE a # N
    <3>1. /\ s.events[a + 1].project \notin visible => V(a) = V(a + 1)
          /\ s.events[a + 1].project \in visible => V(a)[1] = a + 1
      BY <2>2, VisibleStep
    <3>2. \A b \in a + 1 .. N : Len(V(a + 1)) > 0 /\ b < V(a + 1)[1] => V(b) = V(a + 1)
      BY <1>1, <2>2
    <3>. HIDE DEF V
    <3>3. ASSUME NEW b \in a .. N, Len(V(a)) > 0, b < V(a)[1] PROVE V(b) = V(a)
      <4>1. CASE b = a
        BY <4>1
      <4>2. CASE b # a
        <5>1. b \in a + 1 .. N
          BY <4>2
        <5>2. s.events[a + 1].project \notin visible
          BY <3>1, <3>3, <5>1
        <5>. QED  BY <3>1, <3>2, <3>3, <5>1, <5>2
      <4>. QED  BY <4>1, <4>2
    <3>. QED  BY <3>3
  <2>. QED  BY <2>1, <2>2
<1>. HIDE DEF S
<1>2. 0 .. N \subseteq S
  BY <1>1, DownwardInduction
<1>. QED  BY <1>2 DEF S

\* The visible cursors up to the k-th, and those after it.
LEMMA VisibleSplit ==
    ASSUME NEW s, Len(s.events) \in Nat, NEW visible, NEW a \in 0 .. Len(s.events),
           NEW k \in 1 .. Len(VisibleAfter(s, visible, a))
    PROVE  LET found == VisibleAfter(s, visible, a) IN
           /\ found[k] \in a + 1 .. Len(s.events)
           /\ VisibleAfter(s, visible, found[k]) = SubSeq(found, k + 1, Len(found))
           /\ found = SubSeq(found, 1, k) \o VisibleAfter(s, visible, found[k])
<1>. DEFINE N == Len(s.events)
            V(b) == VisibleAfter(s, visible, b)
            found == V(a)
            rest == V(found[k])
            part == SubSeq(found, k + 1, Len(found))
<1>1. found \in Seq(a + 1 .. N)
  BY VisibleSeq
<1>2. /\ found[k] \in a + 1 .. N /\ Len(rest) = Len(found) - k
      /\ \A n \in 1 .. Len(found) - k : rest[n] = found[k + n]
  BY VisibleAfterNth
<1>3. rest \in Seq(Nat) /\ found \in Seq(Nat)
  <2>1. found[k] \in 0 .. N /\ found[k] + 1 .. N \subseteq Nat /\ a + 1 .. N \subseteq Nat
    BY <1>2
  <2>2. rest \in Seq(found[k] + 1 .. N)
    BY <2>1, VisibleSeq
  <2>. DEFINE A == found[k] + 1 .. N
              B == a + 1 .. N
  <2>3. A \subseteq Nat /\ B \subseteq Nat /\ rest \in Seq(A) /\ found \in Seq(B)
    BY <1>1, <2>1, <2>2
  <2>. HIDE DEF A, B, found, rest
  <2>. QED  BY <2>3, StoredSequence
<1>4. k \in 1 .. Len(found)
  OBVIOUS
<1>. HIDE DEF V, found, rest
<1>5. Len(found) \in Nat /\ k \in 0 .. Len(found)
  BY <1>3, <1>4
<1>6. /\ part \in Seq(Nat) /\ Len(part) = Len(found) - k
      /\ \A n \in 1 .. Len(found) - k : part[n] = found[k + n]
      /\ found = SubSeq(found, 1, k) \o part
  BY <1>3, <1>5, Split
<1>. HIDE DEF part
<1>7. rest = part
  <2>1. Len(rest) = Len(part) /\ \A n \in 1 .. Len(rest) : rest[n] = part[n]
    BY <1>2, <1>6
  <2>. QED  BY <1>3, <1>6, <2>1, SeqEqual
<1>. QED  BY <1>2, <1>6, <1>7 DEF V, found, rest, part

\* poll_events(): a page and what comes after it, from the resume cursor or from
\* the last event, are what was to come.
LEMMA PageFacts ==
    ASSUME NEW s, Len(s.events) \in Nat, NEW visible, NEW a \in 0 .. Len(s.events),
           NEW limit \in Nat \ {0}
    PROVE  LET V(b) == VisibleAfter(s, visible, b)
               found == V(a)
               page == PollEvents(s, visible, a, limit)
           IN  /\ found = <<>> => page.events = <<>>
               /\ found # <<>> =>
                    /\ page.events # <<>> /\ Last(page.events) \in a + 1 .. Len(s.events)
                    /\ found = page.events \o V(Last(page.events))
               /\ ~page.more => page.events = found
               /\ page.more => /\ page.resume \in a + 1 .. Len(s.events)
                               /\ found = page.events \o V(page.resume)
<1>. DEFINE N == Len(s.events)
            V(b) == VisibleAfter(s, visible, b)
            found == V(a)
            m == Min({limit, Len(found)})
            events == SubSeq(found, 1, m)
            more == SubSeq(found, limit + 1, Len(found))
            page == PollEvents(s, visible, a, limit)
<1>1. found \in Seq(Nat) /\ Len(found) \in Nat
  <2>1. found \in Seq(a + 1 .. N) /\ a + 1 .. N \subseteq Nat
    BY VisibleSeq
  <2>. DEFINE B == a + 1 .. N
  <2>2. found \in Seq(B) /\ B \subseteq Nat
    BY <2>1
  <2>. HIDE DEF B, found
  <2>3. found \in Seq(Nat)
    BY <2>2, StoredSequence
  <2>. QED  BY <2>3
<1>2. m = IF limit <= Len(found) THEN limit ELSE Len(found)
  <2>. HIDE DEF found
  <2>1. limit <= Len(found) \/ Len(found) <= limit
    BY <1>1
  <2>. QED  BY <1>1, <2>1 DEF Min
<1>3. /\ page.events = events /\ (page.more <=> more # <<>>)
      /\ page.resume = IF more = <<>> THEN N ELSE Head(more) - 1
  BY DEF PollEvents, ResumeCursor
<1>4. m \in 0 .. Len(found) /\ (Len(found) # 0 => m \in 1 .. Len(found))
  <2>. HIDE DEF found, m
  <2>. QED  BY <1>1, <1>2
<1>5. events \in Seq(Nat) /\ Len(events) = m /\ \A n \in 1 .. m : events[n] = found[n]
  <2>. HIDE DEF found, m
  <2>. QED  BY <1>1, <1>4, Split
<1>6. found = <<>> <=> Len(found) = 0
  <2>. HIDE DEF found
  <2>. QED  BY <1>1
<1>7. events = <<>> <=> found = <<>>
  <2>. HIDE DEF found, m, events
  <2>. QED  BY <1>1, <1>4, <1>5, <1>6
<1>8. ASSUME found # <<>>
      PROVE  Last(events) \in a + 1 .. N /\ found = events \o V(Last(events))
  <2>1. m \in 1 .. Len(found)
    BY <1>4, <1>6, <1>8
  <2>2. Last(events) = found[m]
    <3>. HIDE DEF found, m, events
    <3>. QED  BY <1>5, <2>1 DEF Last
  <2>3. found[m] \in a + 1 .. N /\ found = events \o V(found[m])
    <3>. HIDE DEF m
    <3>. QED  BY <2>1, VisibleSplit
  <2>. QED  BY <2>2, <2>3
<1>9. ASSUME more = <<>> PROVE events = found
  <2>. HIDE DEF found
  <2>1. Len(found) <= limit
    <3>. SUFFICES ASSUME limit < Len(found) PROVE FALSE
      BY <1>1
    <3>1. limit \in 0 .. Len(found)
      BY <1>1
    <3>2. Len(more) = Len(found) - limit
      BY <1>1, <3>1, Split
    <3>. HIDE DEF more
    <3>3. Len(more) = 0
      BY <1>9
    <3>. QED  BY <1>1, <3>2, <3>3
  <2>2. m = Len(found)
    BY <1>1, <1>2, <2>1
  <2>. HIDE DEF m
  <2>3. Len(events) = Len(found) /\ \A n \in 1 .. Len(events) : events[n] = found[n]
    BY <1>5, <2>2
  <2>. HIDE DEF events
  <2>. QED  BY <1>1, <1>5, <2>3, SeqEqual
<1>10. ASSUME more # <<>>
       PROVE  Head(more) - 1 \in a + 1 .. N /\ found = events \o V(Head(more) - 1)
  <2>1. limit < Len(found)
    <3>. HIDE DEF found
    <3>. QED  BY <1>1, <1>10
  <2>2. limit \in 1 .. Len(found) /\ m = limit
    <3>. HIDE DEF found, m
    <3>. QED  BY <1>1, <1>2, <2>1
  <2>. DEFINE last == found[limit]
  <2>3. last \in a + 1 .. N /\ V(last) = more /\ found = events \o V(last)
    <3>. HIDE DEF m
    <3>. QED  BY <2>2, VisibleSplit
  <2>4. more \in Seq(last + 1 .. N)
    <3>1. V(last) \in Seq(last + 1 .. N)
      <4>1. last \in 0 .. N
        BY <2>3
      <4>. HIDE DEF last
      <4>. QED  BY <4>1, VisibleSeq
    <3>. HIDE DEF V, more, last
    <3>. QED  BY <2>3, <3>1
  <2>. DEFINE b == Head(more) - 1
  <2>5. Len(more) > 0 /\ Head(more) = more[1] /\ more[1] \in last + 1 .. N
    <3>. DEFINE T == last + 1 .. N
    <3>. HIDE DEF more, last, T
    <3>1. more \in Seq(T) /\ more # <<>>
      BY <1>10, <2>4 DEF T
    <3>2. Len(more) > 0 /\ Head(more) = more[1] /\ more[1] \in T
      BY <3>1
    <3>. QED  BY <3>2 DEF T
  <2>6. b \in last .. N /\ b < more[1] /\ b \in a + 1 .. N
    <3>. HIDE DEF more, last
    <3>. QED  BY <2>3, <2>5
  <2>7. V(b) = V(last)
    <3>1. last \in 0 .. N /\ Len(V(last)) > 0 /\ b < V(last)[1]
      <4>. HIDE DEF V, last, more, b
      <4>. QED  BY <2>3, <2>5, <2>6
    <3>. HIDE DEF last, b
    <3>. QED  BY <2>6, <3>1, NothingBetween
  <2>. HIDE DEF V
  <2>. QED  BY <2>3, <2>6, <2>7
<1>. HIDE DEF V, found, events, more, page
<1>11. ~page.more => page.events = found
  BY <1>3, <1>9, Zenon
<1>12. page.more => page.resume \in a + 1 .. N /\ found = page.events \o V(page.resume)
  <2>. SUFFICES ASSUME page.more
                PROVE  page.resume \in a + 1 .. N /\ found = page.events \o V(page.resume)
    OBVIOUS
  <2>1. more # <<>>
    BY <1>3, Zenon
  <2>2. page.resume = Head(more) - 1 /\ page.events = events
    BY <1>3, <2>1, Zenon
  <2>. QED  BY <1>10, <2>1, <2>2
<1>13. /\ found = <<>> => page.events = <<>>
       /\ found # <<>> => page.events # <<>> /\ Last(page.events) \in a + 1 .. N /\ found = page.events \o V(Last(page.events))
  BY <1>3, <1>7, <1>8
<1>. QED  BY <1>11, <1>12, <1>13, Zenon DEF V, found, page

\* The events of a page and of those after it.
PagesFrom(s, visible, limit, f, a) ==
    LET page == PollEvents(s, visible, a, limit)
    IN  page.events \o (IF page.more /\ page.resume > a THEN f[page.resume] ELSE <<>>)

\* If the later pages are right, so is this one.
LEMMA NextPage ==
    ASSUME NEW s, Len(s.events) \in Nat, NEW visible, NEW a \in 0 .. Len(s.events),
           NEW limit \in Nat \ {0},
           NEW f, \A b \in a + 1 .. Len(s.events) : f[b] = VisibleAfter(s, visible, b)
    PROVE  PagesFrom(s, visible, limit, f, a) = VisibleAfter(s, visible, a)
<1>. DEFINE N == Len(s.events)
            V(b) == VisibleAfter(s, visible, b)
            found == V(a)
            page == PollEvents(s, visible, a, limit)
<1>1. /\ ~page.more => page.events = found
      /\ page.more => page.resume \in a + 1 .. N /\ found = page.events \o V(page.resume)
  BY PageFacts
<1>2. found \in Seq(a + 1 .. N)
  BY VisibleSeq
<1>3. PagesFrom(s, visible, limit, f, a) =
        page.events \o (IF page.more /\ page.resume > a THEN f[page.resume] ELSE <<>>)
  BY DEF PagesFrom
<1>4. \A b \in a + 1 .. N : f[b] = V(b)
  OBVIOUS
<1>. HIDE DEF V, found, page
<1>5. CASE page.more
  <2>1. page.resume > a /\ page.resume \in a + 1 .. N
    BY <1>1, <1>5
  <2>2. PagesFrom(s, visible, limit, f, a) = page.events \o f[page.resume]
    BY <1>3, <1>5, <2>1, Zenon
  <2>3. f[page.resume] = V(page.resume)
    BY <1>4, <2>1
  <2>4. found = page.events \o V(page.resume)
    BY <1>1, <1>5, Zenon
  <2>. QED  BY <2>2, <2>3, <2>4, Zenon DEF found, V
<1>6. CASE ~page.more
  <2>1. PagesFrom(s, visible, limit, f, a) = page.events \o <<>>
    BY <1>3, <1>6, Zenon
  <2>2. page.events = found
    BY <1>1, <1>6, Zenon
  <2>3. found \o <<>> = found
    BY <1>2, ConcatEmptySeq
  <2>. QED  BY <2>1, <2>2, <2>3, Zenon DEF found, V
<1>. QED  BY <1>5, <1>6

\* A client that goes on from the resume cursors gets the visible cursors.
LEMMA AllPagesAreVisible ==
    ASSUME NEW s, Len(s.events) \in Nat, NEW visible, NEW limit \in Nat \ {0}
    PROVE  \A a \in 0 .. Len(s.events) : AllPages(s, visible, limit)[a] = VisibleAfter(s, visible, a)
<1>. DEFINE N == Len(s.events)
            V(b) == VisibleAfter(s, visible, b)
            Body(f, a) == PagesFrom(s, visible, limit, f, a)
            from == CHOOSE f : f = [a \in 0 .. N |-> Body(f, a)]
            g == [a \in 0 .. N |-> V(a)]
            S == {a \in 0 .. N : from[a] = V(a)}
<1>1. ASSUME NEW f, NEW a \in 0 .. N, \A b \in a + 1 .. N : f[b] = V(b)
      PROVE  Body(f, a) = V(a)
  BY <1>1, NextPage
<1>2. AllPages(s, visible, limit) = from
  BY DEF AllPages, PagesFrom
<1>. HIDE DEF V, Body
<1>3. g = [a \in 0 .. N |-> Body(g, a)]
  <2>1. ASSUME NEW a \in 0 .. N PROVE Body(g, a) = V(a)
    <3>1. \A b \in a + 1 .. N : g[b] = V(b)
      OBVIOUS
    <3>. HIDE DEF g
    <3>. QED  BY <1>1, <3>1
  <2>. QED  BY <2>1
<1>. HIDE DEF g
<1>4. from = [a \in 0 .. N |-> Body(from, a)]
  BY <1>3
<1>. HIDE DEF from
<1>5. ASSUME NEW a \in 0 .. N, \A b \in a + 1 .. N : b \in S PROVE a \in S
  <2>1. \A b \in a + 1 .. N : from[b] = V(b)
    BY <1>5
  <2>2. Body(from, a) = V(a)
    BY <1>1, <2>1
  <2>3. from[a] = Body(from, a)
    BY <1>4
  <2>. QED  BY <2>2, <2>3
<1>. HIDE DEF S
<1>6. 0 .. N \subseteq S
  BY <1>5, DownwardInduction
<1>. QED  BY <1>2, <1>6 DEF S, V

\* The events of a stream: a page, and on from its last event.
StreamFrom(s, visible, limit, f, a) ==
    LET page == PollEvents(s, visible, a, limit)
    IN  IF page.events = <<>> THEN <<>> ELSE page.events \o f[Last(page.events)]

\* If the rest of the stream is right, so is the whole.
LEMMA NextOfStream ==
    ASSUME NEW s, Len(s.events) \in Nat, NEW visible, NEW a \in 0 .. Len(s.events),
           NEW limit \in Nat \ {0},
           NEW f, \A b \in a + 1 .. Len(s.events) : f[b] = VisibleAfter(s, visible, b)
    PROVE  StreamFrom(s, visible, limit, f, a) = VisibleAfter(s, visible, a)
<1>. DEFINE N == Len(s.events)
            V(b) == VisibleAfter(s, visible, b)
            found == V(a)
            page == PollEvents(s, visible, a, limit)
            last == Last(page.events)
<1>1. /\ found = <<>> => page.events = <<>>
      /\ found # <<>> =>
            page.events # <<>> /\ last \in a + 1 .. N /\ found = page.events \o V(last)
  BY PageFacts
<1>2. StreamFrom(s, visible, limit, f, a) =
        IF page.events = <<>> THEN <<>> ELSE page.events \o f[last]
  BY DEF StreamFrom
<1>3. \A b \in a + 1 .. N : f[b] = V(b)
  OBVIOUS
<1>. HIDE DEF V, found, page, last
<1>4. CASE found = <<>>
  BY <1>1, <1>2, <1>4, Zenon DEF found, V
<1>5. CASE found # <<>>
  <2>1. f[last] = V(last)
    BY <1>1, <1>3, <1>5, Zenon
  <2>2. found = page.events \o V(last) /\ page.events # <<>>
    BY <1>1, <1>5, Zenon
  <2>. QED  BY <1>2, <2>1, <2>2, Zenon DEF found, V
<1>. QED  BY <1>4, <1>5

\* A client of the event stream gets the visible cursors.
LEMMA EventStreamIsVisible ==
    ASSUME NEW s, Len(s.events) \in Nat, NEW visible, NEW limit \in Nat \ {0}
    PROVE  \A a \in 0 .. Len(s.events) : EventStream(s, visible, limit)[a] = VisibleAfter(s, visible, a)
<1>. DEFINE N == Len(s.events)
            V(b) == VisibleAfter(s, visible, b)
            Body(f, a) == StreamFrom(s, visible, limit, f, a)
            from == CHOOSE f : f = [a \in 0 .. N |-> Body(f, a)]
            g == [a \in 0 .. N |-> V(a)]
            S == {a \in 0 .. N : from[a] = V(a)}
<1>1. ASSUME NEW f, NEW a \in 0 .. N, \A b \in a + 1 .. N : f[b] = V(b)
      PROVE  Body(f, a) = V(a)
  BY <1>1, NextOfStream
<1>2. EventStream(s, visible, limit) = from
  BY DEF EventStream, StreamFrom
<1>. HIDE DEF V, Body
<1>3. g = [a \in 0 .. N |-> Body(g, a)]
  <2>1. ASSUME NEW a \in 0 .. N PROVE Body(g, a) = V(a)
    <3>1. \A b \in a + 1 .. N : g[b] = V(b)
      OBVIOUS
    <3>. HIDE DEF g
    <3>. QED  BY <1>1, <3>1
  <2>. QED  BY <2>1
<1>. HIDE DEF g
<1>4. from = [a \in 0 .. N |-> Body(from, a)]
  BY <1>3
<1>. HIDE DEF from
<1>5. ASSUME NEW a \in 0 .. N, \A b \in a + 1 .. N : b \in S PROVE a \in S
  <2>1. \A b \in a + 1 .. N : from[b] = V(b)
    BY <1>5
  <2>2. Body(from, a) = V(a)
    BY <1>1, <2>1
  <2>3. from[a] = Body(from, a)
    BY <1>4
  <2>. QED  BY <2>2, <2>3
<1>. HIDE DEF S
<1>6. 0 .. N \subseteq S
  BY <1>5, DownwardInduction
<1>. QED  BY <1>2, <1>6 DEF S, V

\* A client of poll_events() or of the event stream misses no event of the projects
\* it may see and gets none twice, from any cursor and with any page size, for
\* every log that the daemons can publish.
THEOREM EventsAreCompleteHolds ==
    ASSUME ServiceIsSpaces
    PROVE  SnapshotsSpec => []EventsAreComplete
<1>1. SnapshotsInv /\ EveryRootFollows => EventsAreComplete
  <2>. SUFFICES ASSUME SnapshotsInv, EveryRootFollows,
                       NEW visible \in SUBSET Projects \ {{}}, NEW limit \in PageLimits,
                       NEW after \in 0 .. Len(New.events)
                PROVE  LET rest == {n \in after + 1 .. Len(New.events) :
                                        New.events[n].project \in visible}
                       IN  /\ InOrder(AllPages(New, visible, limit)[after], rest)
                           /\ InOrder(EventStream(New, visible, limit)[after], rest)
    BY DEF EventsAreComplete
  <2>1. Len(roots) \in Nat /\ Len(roots) \in 0 .. Len(roots)
    BY DEF SnapshotsInv
  <2>2. New \in SpaceStates
    BY <2>1, VersionsAreSpaces DEF New, Latest, IsSpace
  <2>3. New.events \in Seq(LoggedEvents)
    BY <2>2 DEF SpaceStates
  <2>4. Len(New.events) \in Nat /\ limit \in Nat \ {0}
    BY <2>3, PagesAssumption
  <2>5. /\ AllPages(New, visible, limit)[after] = VisibleAfter(New, visible, after)
        /\ EventStream(New, visible, limit)[after] = VisibleAfter(New, visible, after)
    BY <2>4, AllPagesAreVisible, EventStreamIsVisible
  <2>6. InOrder(VisibleAfter(New, visible, after),
                {n \in after + 1 .. Len(New.events) : New.events[n].project \in visible})
    BY <2>4, VisibleInOrder
  <2>. QED  BY <2>5, <2>6
<1>. QED  BY <1>1, SnapshotsAreInvariant, EveryRootFollowsHolds, PTL

==============================================================================
