---------------------------- MODULE EffectKernel ----------------------------
(***************************************************************************)
(* The effect kernel (crates/cigar-effects): the intent-first journal that *)
(* stands between agents and external mutations.  One durable record per   *)
(* effect; every operation reads the latest record, checks the caller's    *)
(* authorization, computes the next record and persists it only if the     *)
(* stored record is still the one it read.                                 *)
(*                                                                         *)
(* An operation whose read and compare-and-swap have nothing external in   *)
(* between is one action.  Those that read a second record or ask the      *)
(* connector between the two (reconcile, the compensation operations) are  *)
(* two: the first computes the next record, the second, Persist, commits   *)
(* it or fails.  dispatch is split at the connector entry and at the       *)
(* request it sends.  A worker may crash between any two of its steps.     *)
(*                                                                         *)
(* The remote service is external and modelled by what connector.rs says   *)
(* of it: the attempt deadline is hard (nothing is sent at or after it),   *)
(* identical keys of an idempotent operation mutate once, and a lookup     *)
(* answers only what is so.  A sent request may take effect at any later   *)
(* time, its sender dead or not.                                           *)
(***************************************************************************)
EXTENDS Naturals

CONSTANTS
    Effects,            \* effect identities
    Workers,            \* threads that call the kernel and may die
    Intent,             \* the immutable intent of every effect
    Compensates,        \* pairs <<original, child>>: child matches the spec
    ApprovalExpiries,   \* when the approvals that callers present expire
    GrantSets,          \* capability sets callers hold; {} if policy denies
    MaxDispatch,        \* descriptor.maximum_dispatch_nanos
    MaxAttempts,        \* MAX_EFFECT_ATTEMPTS
    MaxReconciliations, \* MAX_EFFECT_RECONCILIATIONS
    MaxClock            \* bound of the model: the last instant

\* "Required" is the intent's own required_capability.
Capabilities == {"ProposeEffect", "ApproveEffect", "Required", "ReconcileEffect"}

Policies == {"never", "same_key", "reconcile"}

\* operation is what the connector declares of the intended operation.
Intents ==
    [policy : Policies, maxTries : Nat \ {0}, risk : {"low", "medium", "high", "critical"},
     created : Nat, expires : Nat, key : Effects,
     operation : SUBSET {"same_key", "lookup", "compensation"}]

ASSUME ConstantsAssumption ==
    /\ Intent \in [Effects -> Intents]
    /\ Compensates \subseteq Effects \X Effects
    /\ GrantSets \subseteq SUBSET Capabilities
    /\ ApprovalExpiries \subseteq Nat
    /\ MaxDispatch \in Nat
    /\ MaxAttempts \in Nat
    /\ MaxReconciliations \in Nat
    /\ MaxClock \in Nat

Idempotent(e) == "same_key" \in Intent[e].operation

SupportsLookup(e) == "lookup" \in Intent[e].operation

VARIABLES
    record,     \* the durable record of every effect
    reserved,   \* <<child, original>> reservations of the store
    worker,     \* the local state of every worker
    request,    \* what became of the request of every attempt
    sends,      \* how many requests each attempt has put on the wire
    clock

vars == <<record, reserved, worker, request, sends, clock>>

-----------------------------------------------------------------------------
(* The record and its state machine.                                       *)

\* "Absent" stands for an effect that has no record yet.
States ==
    {"Absent", "Prepared", "PendingApproval", "Authorized", "Dispatching",
     "Succeeded", "Failed", "Unknown", "AuthorizedForRetry",
     "ManualResolution", "Rejected", "Expired", "Cancelled",
     "CompensationPending", "Compensating", "Compensated",
     "CompensationFailed"}

Transitions ==
    ({"Prepared"} \X
        {"PendingApproval", "Authorized", "Expired", "Cancelled"})
    \cup ({"PendingApproval"} \X
        {"Authorized", "Rejected", "Expired", "Cancelled"})
    \cup ({"Authorized"} \X {"Dispatching", "Expired", "Cancelled"})
    \cup ({"Dispatching"} \X {"Succeeded", "Failed", "Unknown"})
    \cup ({"Unknown"} \X
        {"Unknown", "Succeeded", "Failed", "AuthorizedForRetry",
         "ManualResolution"})
    \cup ({"AuthorizedForRetry"} \X {"Dispatching", "Expired", "Cancelled"})
    \cup {<<"Succeeded", "CompensationPending">>,
          <<"CompensationPending", "Compensating">>}
    \cup ({"Compensating"} \X
        {"Compensated", "CompensationFailed", "Unknown"})

CanTransition(from, to) == <<from, to>> \in Transitions

Lookups == {"none", "success", "failure", "not_executed", "inconclusive"}

\* The durable projection.  version is the length of the journal; at and
\* event describe its last event: when it was recorded, and whether it is
\* the connector entry of the last attempt.  attempt is the number and the
\* fencing token of the last attempt.
Records ==
    [state : States, version : Nat, at : Nat, event : {"entry", "other"},
     approval : SUBSET Nat, attempt : Nat, deadline : Nat,
     receipts : SUBSET Nat, lookups : Nat, lastLookup : Lookups,
     link : SUBSET Effects, outbox : {"none", "claimed", "completed"}]

NoRecord ==
    [state |-> "Absent", version |-> 0, at |-> 0, event |-> "other",
     approval |-> {}, attempt |-> 0, deadline |-> 0, receipts |-> {},
     lookups |-> 0, lastLookup |-> "none", link |-> {}, outbox |-> "none"]

\* transition(): the guard, and the record with its journal extended.
MayTransition(e, r, to, now) ==
    /\ CanTransition(r.state, to)
    /\ now >= Intent[e].created
    /\ now >= r.at

Transition(r, to, now) ==
    [r EXCEPT !.state = to, !.version = @ + 1, !.at = now, !.event = "other"]

ApprovalExpired(r, now) == \E t \in r.approval : now >= t

InLifetime(e, now) == Intent[e].created <= now /\ now < Intent[e].expires

\* The last attempt has entered its connector and no receipt came back.
DispatchOwnershipUnreceipted(r) ==
    /\ r.state = "Unknown"
    /\ r.attempt > 0
    /\ r.attempt \notin r.receipts
    /\ r.event = "entry"

\* Mutants: the owner's window is ignored; it never closes.
OwnerForgotten(r, now) == FALSE
OwnerForever(r, now) == DispatchOwnershipUnreceipted(r)

\* Nobody may judge an attempt that its owner may still be sending.
OwnerMaySend(r, now) == DispatchOwnershipUnreceipted(r) /\ now < r.deadline

-----------------------------------------------------------------------------
(* Callers, workers and the remote.                                        *)

\* What a caller presents: its capabilities under the policy decision, and a
\* time it read at some point before the commit.
Authorizations == [grants : GrantSets, now : 0 .. clock]

PermitsProposal(auth) == "ProposeEffect" \in auth.grants
PermitsDispatch(auth) == {"ApproveEffect", "Required"} \subseteq auth.grants
PermitsReconciliation(auth) == "ReconcileEffect" \in auth.grants

Idle == [pc |-> "idle"]

WorkerStates ==
    {Idle}
    \cup [pc : {"permit"}, effect : Effects, attempt : Nat, version : Nat]
    \cup [pc : {"entered", "sent"}, effect : Effects, attempt : Nat,
          version : Nat, deadline : Nat]
    \cup [pc : {"persist"}, effect : Effects, version : Nat, next : Records,
          reserve : SUBSET Effects]

RequestStates ==
    {"none", "inflight", "mutated", "coalesced", "rejected", "lost"}

AttemptNumbers == 1 .. MaxAttempts

Mutated(e) == \E a \in AttemptNumbers : request[e][a] = "mutated"

\* A request of e has changed the remote or still may.
Live(e) == \E a \in AttemptNumbers : request[e][a] \in {"inflight", "mutated"}

Write(e, r) == record' = [record EXCEPT ![e] = r]

Become(w, s) == worker' = [worker EXCEPT ![w] = s]

RemoteUnchanged == UNCHANGED <<request, sends>>

Init ==
    /\ record = [e \in Effects |-> NoRecord]
    /\ reserved = {}
    /\ worker = [w \in Workers |-> Idle]
    /\ request = [e \in Effects |-> [a \in AttemptNumbers |-> "none"]]
    /\ sends = [e \in Effects |-> [a \in AttemptNumbers |-> 0]]
    /\ clock = 0

-----------------------------------------------------------------------------
(* Intent, approval, expiry, cancellation.                                 *)

RetrySupported(e) ==
    /\ Intent[e].policy = "same_key" => Idempotent(e)
    /\ Intent[e].policy = "reconcile" => SupportsLookup(e)

\* Mutant: the key's identity is not checked.
KeyUnchecked(e) == TRUE

\* The store binds a key to the first intent committed under it.
KeyFree(e) ==
    \A f \in Effects : record[f].state # "Absent" => Intent[f].key # Intent[e].key

Prepare(e, auth) ==
    /\ record[e].state = "Absent"
    /\ PermitsProposal(auth) /\ InLifetime(e, auth.now)
    /\ RetrySupported(e)
    /\ KeyFree(e)
    /\ Write(e, [NoRecord EXCEPT !.state = "Prepared"])
    /\ UNCHANGED <<reserved, worker, clock>> /\ RemoteUnchanged

\* One read, one transition, one compare-and-swap.
Step(e, to, now) ==
    /\ MayTransition(e, record[e], to, now)
    /\ Write(e, Transition(record[e], to, now))
    /\ UNCHANGED <<reserved, worker, clock>> /\ RemoteUnchanged

RequestApproval(e, auth) ==
    /\ PermitsProposal(auth) /\ InLifetime(e, auth.now)
    /\ Step(e, "PendingApproval", auth.now)

\* approval is {} or {t}, an approval bound to this intent that expires at t;
\* approved is when it was given, kind by whom.
ApprovalAccepted(e, approval, approved, kind, now) ==
    \/ approval = {} /\ Intent[e].risk = "low"
    \/ /\ approval # {}
       /\ Intent[e].created <= approved /\ approved <= now
       /\ \A t \in approval : now < t
       /\ Intent[e].risk \in {"high", "critical"} => kind = "human"

Authorize(e, auth, approval, approved, kind) ==
    /\ PermitsDispatch(auth) /\ InLifetime(e, auth.now)
    /\ ApprovalAccepted(e, approval, approved, kind, auth.now)
    /\ MayTransition(e, record[e], "Authorized", auth.now)
    /\ Write(e, [Transition(record[e], "Authorized", auth.now)
                    EXCEPT !.approval = approval])
    /\ UNCHANGED <<reserved, worker, clock>> /\ RemoteUnchanged

Reject(e, auth) ==
    /\ "ApproveEffect" \in auth.grants
    /\ Step(e, "Rejected", auth.now)

Expire(e, now) ==
    /\ now >= Intent[e].expires \/ ApprovalExpired(record[e], now)
    /\ Step(e, "Expired", now)

Cancel(e, auth) ==
    /\ PermitsProposal(auth) /\ auth.now >= Intent[e].created
    /\ Step(e, "Cancelled", auth.now)

-----------------------------------------------------------------------------
(* Claim and dispatch.                                                     *)

ValidateRetryClaim(e, r) ==
    \/ r.state = "Authorized" /\ r.attempt = 0
    \/ /\ r.state = "AuthorizedForRetry"
       /\ \/ /\ Intent[e].policy = "same_key"
             /\ Idempotent(e) /\ Intent[e].maxTries > r.attempt
          \/ Intent[e].policy = "reconcile" /\ r.lastLookup = "not_executed"

Permit(e, r) ==
    [pc |-> "permit", effect |-> e, attempt |-> r.attempt,
     version |-> r.version]

Claimed(r, deadline, now) ==
    [Transition(r, "Dispatching", now) EXCEPT
        !.attempt = @ + 1, !.deadline = deadline, !.outbox = "claimed"]

ClaimDispatch(w, e, auth, deadline) ==
    LET r == record[e] IN
    /\ worker[w] = Idle
    /\ PermitsDispatch(auth) /\ InLifetime(e, auth.now)
    /\ auth.now < deadline /\ deadline <= Intent[e].expires
    /\ ~ApprovalExpired(r, auth.now)
    /\ deadline - auth.now <= MaxDispatch
    /\ ValidateRetryClaim(e, r)
    /\ r.attempt < MaxAttempts
    /\ MayTransition(e, r, "Dispatching", auth.now)
    /\ Write(e, Claimed(r, deadline, auth.now))
    /\ Become(w, Permit(e, Claimed(r, deadline, auth.now)))
    /\ UNCHANGED <<reserved, clock>> /\ RemoteUnchanged

\* The worker's own way to a permit: from a durable Dispatching record.
ResumeDispatch(w, e) ==
    /\ worker[w] = Idle
    /\ record[e].state = "Dispatching"
    /\ Become(w, Permit(e, record[e]))
    /\ UNCHANGED <<record, reserved, clock>> /\ RemoteUnchanged

\* Mutants: only the fence is compared; the version before the claim is.
VerifyFenceOnly(w) ==
    record[worker[w].effect].attempt = worker[w].attempt
VerifyStaleVersion(w) ==
    LET r == record[worker[w].effect] IN
    /\ r.state = "Dispatching" /\ r.outbox = "claimed"
    /\ r.version = worker[w].version + 1 /\ r.attempt = worker[w].attempt

VerifyPermit(w) ==
    LET r == record[worker[w].effect] IN
    /\ r.state = "Dispatching" /\ r.outbox = "claimed"
    /\ r.version = worker[w].version /\ r.attempt = worker[w].attempt

SendAllowed(e, auth) ==
    /\ PermitsDispatch(auth) /\ InLifetime(e, auth.now)
    /\ auth.now < record[e].deadline
    /\ ~ApprovalExpired(record[e], auth.now)

\* Mutant: an ambiguous result is recorded as a failure.
ReceiptedTimeout(r, to, now) ==
    [Transition(r, IF to = "Unknown" THEN "Failed" ELSE to, now) EXCEPT
        !.receipts = @ \cup {r.attempt}, !.outbox = "completed"]

Receipted(r, to, now) ==
    [Transition(r, to, now) EXCEPT
        !.receipts = @ \cup {r.attempt}, !.outbox = "completed"]

\* dispatch() up to a result reached without entering the connector: denied
\* or unmet preconditions are a failure, an error while checking is unknown.
DispatchWithoutSend(w, auth, to) ==
    LET e == worker[w].effect IN
    /\ worker[w].pc = "permit" /\ VerifyPermit(w)
    /\ to = "Failed" \/ (to = "Unknown" /\ SendAllowed(e, auth))
    /\ MayTransition(e, record[e], to, auth.now)
    /\ Write(e, Receipted(record[e], to, auth.now))
    /\ Become(w, Idle)
    /\ UNCHANGED <<reserved, clock>> /\ RemoteUnchanged

\* Mutant: connector entry leaves the outbox item claimed.
EnteredClaimed(r, now) == [Transition(r, "Unknown", now) EXCEPT !.event = "entry"]

\* dispatch() up to the connector entry: the exclusive ownership commit.
Entered(r, now) ==
    [Transition(r, "Unknown", now) EXCEPT
        !.event = "entry", !.outbox = "completed"]

AcquireDispatchOwnership(w, auth) ==
    LET e == worker[w].effect
        r == record[e] IN
    /\ worker[w].pc = "permit" /\ VerifyPermit(w)
    /\ SendAllowed(e, auth)
    /\ MayTransition(e, r, "Unknown", auth.now)
    /\ Write(e, Entered(r, auth.now))
    /\ Become(w, [pc |-> "entered", effect |-> e, attempt |-> r.attempt,
                  version |-> r.version + 1, deadline |-> r.deadline])
    /\ UNCHANGED <<reserved, clock>> /\ RemoteUnchanged

\* The permit no longer matches the record: dispatch() returns an error.
DispatchRefused(w) ==
    /\ worker[w].pc = "permit" /\ ~VerifyPermit(w)
    /\ Become(w, Idle)
    /\ UNCHANGED <<record, reserved, clock>> /\ RemoteUnchanged

\* The connector puts the request on the wire, never past the hard deadline.
ConnectorSend(w) ==
    LET e == worker[w].effect
        a == worker[w].attempt IN
    /\ worker[w].pc = "entered"
    /\ clock < worker[w].deadline
    /\ Become(w, [worker[w] EXCEPT !.pc = "sent"])
    /\ request' = [request EXCEPT ![e][a] = "inflight"]
    /\ sends' = [sends EXCEPT ![e][a] = @ + 1]
    /\ UNCHANGED <<record, reserved, clock>>

\* What the connector may report: success or rejection only as answered,
\* anything else (loss, error, panic, proof that nothing was sent) unknown.
Observations(w) ==
    LET status == request[worker[w].effect][worker[w].attempt] IN
    {"Unknown"}
    \cup (IF worker[w].pc = "sent" /\ status \in {"mutated", "coalesced"}
            THEN {"Succeeded"} ELSE {})
    \cup (IF worker[w].pc = "sent" /\ status = "rejected"
            THEN {"Failed"} ELSE {})

FinalizeObservation(w, to) ==
    LET e == worker[w].effect
        r == record[e] IN
    /\ worker[w].pc \in {"entered", "sent"}
    /\ to \in Observations(w)
    /\ IF r.version = worker[w].version
         THEN Write(e, Receipted(r, to, r.at))
         ELSE UNCHANGED record
    /\ Become(w, Idle)
    /\ UNCHANGED <<reserved, clock>> /\ RemoteUnchanged

-----------------------------------------------------------------------------
(* Recovery, retry, reconciliation, manual resolution.                     *)

RecoverInflight(e, now) ==
    /\ record[e].state = "Dispatching"
    /\ MayTransition(e, record[e], "Unknown", now)
    /\ Write(e, [Transition(record[e], "Unknown", now)
                    EXCEPT !.outbox = "completed"])
    /\ UNCHANGED <<reserved, worker, clock>> /\ RemoteUnchanged

AuthorizeIdempotentRetry(e, auth) ==
    /\ record[e].state = "Unknown" /\ PermitsDispatch(auth)
    /\ ~OwnerMaySend(record[e], auth.now)
    /\ Idempotent(e) /\ Intent[e].policy = "same_key"
    /\ Step(e, "AuthorizedForRetry", auth.now)

\* The lookup's possible answers: only what is so.
LookupAnswers(e) ==
    {"inconclusive"}
    \cup (IF Mutated(e) THEN {"success"} ELSE {})
    \cup (IF Live(e) THEN {} ELSE {"not_executed"})
    \cup (IF ~Live(e) /\ \E a \in AttemptNumbers : request[e][a] = "rejected"
            THEN {"failure"} ELSE {})

\* Mutants: absence of evidence is taken for success; for non-execution.
InconclusiveSucceeds(e, answer) ==
    IF answer = "failure" THEN "Failed" ELSE "Succeeded"
InconclusiveRetries(e, answer) ==
    CASE answer = "success" -> "Succeeded"
      [] answer = "failure" -> "Failed"
      [] OTHER -> "AuthorizedForRetry"

ReconcileTarget(e, answer) ==
    CASE answer = "success" -> "Succeeded"
      [] answer = "failure" -> "Failed"
      [] answer = "not_executed" /\ Intent[e].policy # "never" ->
            "AuthorizedForRetry"
      [] OTHER -> "Unknown"

\* A computed next record, not yet committed.
Persisting(e, next, reserve) ==
    [pc |-> "persist", effect |-> e, version |-> record[e].version,
     next |-> next, reserve |-> reserve]

\* reconcile() up to its commit: checks, lookup, report.
ReconcileEligible(e, auth) ==
    /\ record[e].state = "Unknown" /\ PermitsReconciliation(auth)
    /\ ~OwnerMaySend(record[e], auth.now)
    /\ record[e].attempt > 0
    /\ SupportsLookup(e)
    /\ record[e].lookups < MaxReconciliations

Reconcile(w, e, auth, answer) ==
    LET r == record[e]
        to == ReconcileTarget(e, answer) IN
    /\ worker[w] = Idle
    /\ ReconcileEligible(e, auth)
    /\ answer \in LookupAnswers(e)
    /\ MayTransition(e, r, to, auth.now)
    /\ Become(w, Persisting(e, [Transition(r, to, auth.now) EXCEPT
                    !.lookups = @ + 1, !.lastLookup = answer], {}))
    /\ UNCHANGED <<record, reserved, clock>> /\ RemoteUnchanged

\* What the daemon polls for.  When the last lookup was inconclusive it waits
\* for the end of its certainty window, a finite instant left to fairness;
\* after any other report it never polls for the effect again.
ReconciliationIsDue(e) ==
    /\ record[e].state = "Unknown" /\ SupportsLookup(e)
    /\ record[e].lastLookup \in {"none", "inconclusive"}

\* A polled effect that has no lookup left: reconcile() fails on it, and the
\* daemon stops polling for any effect.
LookupsUsedUp ==
    \E e \in Effects : ReconciliationIsDue(e) /\ record[e].lookups >= MaxReconciliations

\* A poll that gets as far as reconcile(), of whichever due effect it meets.
PollReconciliation(w) ==
    /\ ~LookupsUsedUp
    /\ \E e \in Effects :
        /\ ReconciliationIsDue(e)
        /\ \E auth \in Authorizations, answer \in Lookups : Reconcile(w, e, auth, answer)

ManualResolution(e, auth) ==
    /\ PermitsReconciliation(auth)
    /\ ~OwnerMaySend(record[e], auth.now)
    /\ Step(e, "ManualResolution", auth.now)

-----------------------------------------------------------------------------
(* Compensation: the original projects what becomes of a separate child.   *)

RequestCompensation(w, e, child, auth) ==
    /\ worker[w] = Idle
    /\ "compensation" \in Intent[e].operation /\ <<e, child>> \in Compensates
    /\ PermitsDispatch(auth)
    /\ record[child].state \in {"Prepared", "Authorized"}
    /\ MayTransition(e, record[e], "CompensationPending", auth.now)
    /\ Become(w, Persisting(e,
            [Transition(record[e], "CompensationPending", auth.now)
                EXCEPT !.link = {child}], {child}))
    /\ UNCHANGED <<record, reserved, clock>> /\ RemoteUnchanged

BeginCompensation(w, e, auth) ==
    /\ worker[w] = Idle
    /\ record[e].state = "CompensationPending"
    /\ \E child \in record[e].link :
            record[child].state \in {"Authorized", "Dispatching"}
    /\ PermitsDispatch(auth)
    /\ MayTransition(e, record[e], "Compensating", auth.now)
    /\ Become(w, Persisting(e,
            Transition(record[e], "Compensating", auth.now), {}))
    /\ UNCHANGED <<record, reserved, clock>> /\ RemoteUnchanged

\* Mutant: an ambiguous child counts as a compensation done.
AmbiguousCompensates ==
    {<<"Succeeded", "Compensated">>, <<"Compensated", "Compensated">>,
     <<"Failed", "CompensationFailed">>, <<"Unknown", "Compensated">>}

\* The original's next state by the child's.
Projections ==
    {<<"Succeeded", "Compensated">>, <<"Compensated", "Compensated">>,
     <<"Failed", "CompensationFailed">>,
     <<"CompensationFailed", "CompensationFailed">>,
     <<"Unknown", "Unknown">>}

ResolveCompensation(w, e, to, auth) ==
    /\ worker[w] = Idle
    /\ record[e].state = "Compensating"
    /\ \E child \in record[e].link :
            <<record[child].state, to>> \in Projections
    /\ PermitsReconciliation(auth)
    /\ MayTransition(e, record[e], to, auth.now)
    /\ Become(w, Persisting(e, Transition(record[e], to, auth.now), {}))
    /\ UNCHANGED <<record, reserved, clock>> /\ RemoteUnchanged

-----------------------------------------------------------------------------
(* persist_next: compare-and-swap, with the reservation of a child.        *)

\* Mutant: a child is not reserved.
Unreserved(child, e) == TRUE

ReservationFree(child, e) ==
    \A f \in Effects : <<child, f>> \in reserved => f = e

Persist(w) ==
    LET e == worker[w].effect
        mine == {<<child, e>> : child \in worker[w].reserve} IN
    /\ worker[w].pc = "persist"
    /\ IF /\ record[e].version = worker[w].version
          /\ \A child \in worker[w].reserve : ReservationFree(child, e)
         THEN /\ reserved' = reserved \cup mine
              \* a replayed reservation commits nothing
              /\ IF mine # {} /\ mine \subseteq reserved
                   THEN UNCHANGED record
                   ELSE Write(e, worker[w].next)
         ELSE UNCHANGED <<record, reserved>>
    /\ Become(w, Idle)
    /\ UNCHANGED clock /\ RemoteUnchanged

Crash(w) ==
    /\ worker[w] # Idle
    /\ Become(w, Idle)
    /\ UNCHANGED <<record, reserved, clock>> /\ RemoteUnchanged

-----------------------------------------------------------------------------
(* The remote service and time.                                            *)

RemoteProcess(e, a, to) ==
    /\ request[e][a] = "inflight"
    /\ IF Idempotent(e) /\ Mutated(e)
         THEN to \in {"coalesced", "lost"}
         ELSE to \in {"mutated", "rejected", "lost"}
    /\ request' = [request EXCEPT ![e][a] = to]
    /\ UNCHANGED <<record, reserved, worker, sends, clock>>

Tick ==
    /\ clock < MaxClock
    /\ clock' = clock + 1
    /\ UNCHANGED <<record, reserved, worker>> /\ RemoteUnchanged

-----------------------------------------------------------------------------
Journal(e) ==
    \/ \E auth \in Authorizations :
        \/ Prepare(e, auth)
        \/ RequestApproval(e, auth)
        \/ Reject(e, auth)
        \/ Cancel(e, auth)
        \/ AuthorizeIdempotentRetry(e, auth)
        \/ ManualResolution(e, auth)
        \/ \E approval \in {{}} \cup {{t} : t \in ApprovalExpiries},
              approved \in 0 .. clock, kind \in {"human", "policy"} :
                Authorize(e, auth, approval, approved, kind)
    \/ \E now \in 0 .. clock : Expire(e, now) \/ RecoverInflight(e, now)

Work(w) ==
    \/ \E auth \in Authorizations :
        \/ \E to \in States : DispatchWithoutSend(w, auth, to)
        \/ AcquireDispatchOwnership(w, auth)
        \/ \E e \in Effects :
            \/ \E deadline \in 1 .. Intent[e].expires :
                ClaimDispatch(w, e, auth, deadline)
            \/ \E answer \in Lookups : Reconcile(w, e, auth, answer)
            \/ \E child \in Effects : RequestCompensation(w, e, child, auth)
            \/ BeginCompensation(w, e, auth)
            \/ \E to \in States : ResolveCompensation(w, e, to, auth)
    \/ \E e \in Effects : ResumeDispatch(w, e)
    \/ DispatchRefused(w)
    \/ ConnectorSend(w)
    \/ \E to \in States : FinalizeObservation(w, to)
    \/ Persist(w)
    \/ Crash(w)

Remote ==
    \E e \in Effects, a \in AttemptNumbers, to \in RequestStates :
        RemoteProcess(e, a, to)

Next ==
    \/ \E e \in Effects : Journal(e)
    \/ \E w \in Workers : Work(w)
    \/ Remote
    \/ Tick

Spec == Init /\ [][Next]_vars

\* The daemon's workers keep polling for claimed effects and for those whose
\* reconciliation is due, and connector calls end; a worker may die at any step,
\* but not at the same one every time.  Clients owe nothing: no other lookup,
\* no manual resolution and no step of a compensation is ever forced.
Fairness ==
    /\ WF_vars(Tick)
    /\ \A w \in Workers :
        /\ WF_vars(DispatchRefused(w))
        /\ WF_vars(\E to \in States : FinalizeObservation(w, to))
        /\ SF_vars(\E e \in Effects : ResumeDispatch(w, e))
        /\ SF_vars(\E auth \in Authorizations :
                \/ \E to \in States : DispatchWithoutSend(w, auth, to)
                \/ AcquireDispatchOwnership(w, auth))
        /\ SF_vars(PollReconciliation(w))
        /\ SF_vars(Persist(w))

FairSpec == Spec /\ Fairness

-----------------------------------------------------------------------------
(* Properties.                                                             *)

\* Types of all variables.
TypeOK ==
    /\ record \in [Effects -> Records]
    /\ reserved \subseteq Effects \X Effects
    /\ worker \in [Workers -> WorkerStates]
    /\ request \in [Effects -> [AttemptNumbers -> RequestStates]]
    /\ sends \in [Effects -> [AttemptNumbers -> Nat]]
    /\ clock \in Nat

\* What verify_record cross-checks on every read holds of every record the
\* operations leave behind, so that no read ever reports CorruptJournal: the
\* outbox item is claimed exactly while Dispatching and exists once there was
\* an attempt, receipts belong to attempts, and the last event and the attempt
\* deadline lie within the intent's lifetime.
RecordVerifies ==
    \A e \in Effects :
        LET r == record[e] IN
        /\ (r.outbox = "claimed") <=> (r.state = "Dispatching")
        /\ (r.outbox = "none") <=> (r.attempt = 0)
        /\ r.receipts \subseteq 1 .. r.attempt
        /\ r.attempt > 0 => r.deadline <= Intent[e].expires
        /\ r.version > 0 => Intent[e].created <= r.at /\ r.at <= clock

\* The durable claim permits at most one connector call: however many workers
\* resume the same Dispatching record, each attempt sends at most one request.
OneSendPerAttempt ==
    \A e \in Effects, a \in AttemptNumbers : sends[e][a] <= 1

\* No duplicate logical effect: under one idempotency key the remote is
\* changed at most once, through lost responses, crashes, recovery, retries
\* and reconciliation answers that are stale when they commit.
AtMostOneMutation ==
    \A e, f \in Effects : \A a, b \in AttemptNumbers :
        /\ Intent[e].key = Intent[f].key
        /\ request[e][a] = "mutated" /\ request[f][b] = "mutated"
        => e = f /\ a = b

\* Succeeded, and every state reached only through it, is never claimed of an
\* effect that did not happen.
SuccessIsReal ==
    \A e \in Effects :
        record[e].state \in {"Succeeded", "CompensationPending",
            "Compensating", "Compensated", "CompensationFailed"}
        => Mutated(e)

\* A closed effect that is not same-key retried did not happen and never will:
\* Failed, Rejected, Expired and Cancelled are definitive.
ClosedMeansNotExecuted ==
    \A e \in Effects :
        /\ record[e].state \in {"Failed", "Rejected", "Expired", "Cancelled"}
        /\ Intent[e].policy # "same_key"
        => ~Live(e)

\* A worker never sends for an attempt that is no longer the current one of
\* an effect still waiting for that very worker's result.
SendsAreCurrent ==
    [][\A e \in Effects, a \in AttemptNumbers :
        sends[e][a] # sends'[e][a] =>
            record[e].state = "Unknown" /\ record[e].attempt = a
            /\ a \notin record[e].receipts]_vars

\* One child compensates at most one original.
ChildCompensatesOne ==
    \A e, f \in Effects :
        record[e].link \cap record[f].link # {} => e = f

\* The original is Compensated only if its child really executed.
CompensatedIsReal ==
    \A e \in Effects :
        record[e].state = "Compensated" =>
            \E child \in record[e].link : Mutated(child)

\* A claimed attempt never stays claimed: some worker enters the connector
\* with it or closes it without sending, or recovery makes it Unknown.
DispatchingEnds ==
    \A e \in Effects :
        record[e].state = "Dispatching" ~> record[e].state # "Dispatching"

\* An effect left Unknown is not stuck behind the ownership that a dead worker
\* took.  Each time its reconciliation is due, another lookup of it is recorded
\* or it leaves Unknown, unless some polled effect has used up its lookups and
\* so ends all polling.  Nothing is claimed of an effect that is Unknown after
\* a conclusive report, as after a retry on proof: the daemon does not poll it.
UnknownIsLookedUp ==
    \A e \in Effects, n \in 0 .. MaxReconciliations - 1 :
        ReconciliationIsDue(e) /\ record[e].lookups = n
            ~> \/ record[e].state # "Unknown"
               \/ record[e].lookups > n
               \/ LookupsUsedUp

-----------------------------------------------------------------------------
(* Refinement: the effects that are never retried under their own key.     *)

JudgedEffects == {e \in Effects : Intent[e].policy # "same_key"}

Verdict(e) ==
    LET s == record[e].state IN
    CASE s = "Unknown" -> "ambiguous"
      [] s = "ManualResolution" -> "manual"
      [] s \in {"Failed", "Rejected", "Expired", "Cancelled"} -> "closed"
      [] s \in {"Succeeded", "CompensationPending", "Compensating",
                "Compensated", "CompensationFailed"} -> "succeeded"
      [] OTHER -> "open"

Logical ==
    INSTANCE LogicalEffect WITH
        Effects <- JudgedEffects,
        verdict <- [e \in JudgedEffects |-> Verdict(e)],
        happened <- [e \in JudgedEffects |-> Mutated(e)]

\* The kernel with its remote implements at-most-once logical effects with
\* truthful verdicts.
ImplementsLogicalEffect == Logical!Spec

=============================================================================
