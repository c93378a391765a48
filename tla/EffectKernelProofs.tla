------------------------- MODULE EffectKernelProofs -------------------------
(***************************************************************************)
(* Proofs about EffectKernel for every set of effects and workers, every   *)
(* intent and every bound: the variables keep their types, KernelInv is    *)
(* inductive, and OneSendPerAttempt and AtMostOneMutation follow.          *)
(*                                                                         *)
(* Then the verdicts of the journal are true: VerdictInv is inductive      *)
(* given KernelInv, so every record verifies, success and compensation are *)
(* claimed only of what happened, closing only of what did not, and a      *)
(* child compensates one original.  The kernel implements LogicalEffect.   *)
(***************************************************************************)
EXTENDS EffectKernelInvariant, TLAPS

-----------------------------------------------------------------------------
(* Records.                                                                *)

\* transition() keeps a record a record and touches four fields of it.
LEMMA TransitionFacts ==
    ASSUME NEW r \in Records, NEW to \in States, NEW now \in Nat
    PROVE  /\ Transition(r, to, now) \in Records
           /\ Transition(r, to, now).state = to
           /\ Transition(r, to, now).version = r.version + 1
           /\ Transition(r, to, now).at = now
           /\ Transition(r, to, now).event = "other"
           /\ Transition(r, to, now).approval = r.approval
           /\ Transition(r, to, now).attempt = r.attempt
           /\ Transition(r, to, now).deadline = r.deadline
           /\ Transition(r, to, now).receipts = r.receipts
           /\ Transition(r, to, now).lookups = r.lookups
           /\ Transition(r, to, now).link = r.link
           /\ Transition(r, to, now).outbox = r.outbox
<1>1. r.version + 1 \in Nat
  BY DEF Records
<1>2. PICK v \in Nat : v = r.version + 1
  BY <1>1
<1>3. Transition(r, to, now) =
        [r EXCEPT !.state = to, !.version = v, !.at = now, !.event = "other"]
  BY <1>2 DEF Transition
<1>. QED
  BY <1>2, <1>3 DEF Records

\* A claim opens the next attempt.
LEMMA ClaimedFacts ==
    ASSUME NEW r \in Records, NEW deadline \in Nat, NEW now \in Nat
    PROVE  /\ Claimed(r, deadline, now) \in Records
           /\ Claimed(r, deadline, now).state = "Dispatching"
           /\ Claimed(r, deadline, now).version = r.version + 1
           /\ Claimed(r, deadline, now).event = "other"
           /\ Claimed(r, deadline, now).attempt = r.attempt + 1
           /\ Claimed(r, deadline, now).deadline = deadline
           /\ Claimed(r, deadline, now).receipts = r.receipts
           /\ Claimed(r, deadline, now).at = now
           /\ Claimed(r, deadline, now).link = r.link
           /\ Claimed(r, deadline, now).outbox = "claimed"
<1>. DEFINE t == Transition(r, "Dispatching", now)
<1>1. t \in Records /\ t.state = "Dispatching" /\ t.version = r.version + 1
      /\ t.event = "other" /\ t.attempt = r.attempt /\ t.receipts = r.receipts
      /\ t.at = now /\ t.link = r.link
  BY TransitionFacts DEF States
<1>2. PICK a \in Nat : a = r.attempt + 1
  BY DEF Records
<1>3. Claimed(r, deadline, now) =
        [t EXCEPT !.attempt = a, !.deadline = deadline, !.outbox = "claimed"]
  BY <1>1, <1>2 DEF Claimed
<1>. HIDE DEF t
<1>. QED
  BY <1>1, <1>2, <1>3 DEF Records

\* A receipt is one of the last attempt.
LEMMA ReceiptedFacts ==
    ASSUME NEW r \in Records, NEW to \in States, NEW now \in Nat
    PROVE  /\ Receipted(r, to, now) \in Records
           /\ Receipted(r, to, now).state = to
           /\ Receipted(r, to, now).version = r.version + 1
           /\ Receipted(r, to, now).event = "other"
           /\ Receipted(r, to, now).attempt = r.attempt
           /\ Receipted(r, to, now).deadline = r.deadline
           /\ Receipted(r, to, now).receipts = r.receipts \cup {r.attempt}
           /\ Receipted(r, to, now).at = now
           /\ Receipted(r, to, now).link = r.link
           /\ Receipted(r, to, now).outbox = "completed"
<1>. DEFINE t == Transition(r, to, now)
<1>1. t \in Records /\ t.state = to /\ t.version = r.version + 1
      /\ t.event = "other" /\ t.attempt = r.attempt
      /\ t.deadline = r.deadline /\ t.receipts = r.receipts
      /\ t.at = now /\ t.link = r.link
  BY TransitionFacts
<1>2. r.receipts \cup {r.attempt} \in SUBSET Nat
  BY DEF Records
<1>3. Receipted(r, to, now) =
        [t EXCEPT !.receipts = r.receipts \cup {r.attempt}, !.outbox = "completed"]
  BY <1>1 DEF Receipted
<1>. HIDE DEF t
<1>. QED
  BY <1>1, <1>2, <1>3 DEF Records

\* Connector entry is recorded as ambiguity.
LEMMA EnteredFacts ==
    ASSUME NEW r \in Records, NEW now \in Nat
    PROVE  /\ Entered(r, now) \in Records
           /\ Entered(r, now).state = "Unknown"
           /\ Entered(r, now).version = r.version + 1
           /\ Entered(r, now).event = "entry"
           /\ Entered(r, now).attempt = r.attempt
           /\ Entered(r, now).deadline = r.deadline
           /\ Entered(r, now).receipts = r.receipts
           /\ Entered(r, now).at = now
           /\ Entered(r, now).link = r.link
           /\ Entered(r, now).outbox = "completed"
<1>. DEFINE t == Transition(r, "Unknown", now)
<1>1. t \in Records /\ t.state = "Unknown" /\ t.version = r.version + 1
      /\ t.attempt = r.attempt /\ t.deadline = r.deadline
      /\ t.receipts = r.receipts /\ t.at = now /\ t.link = r.link
  BY TransitionFacts DEF States
<1>2. Entered(r, now) = [t EXCEPT !.event = "entry", !.outbox = "completed"]
  BY DEF Entered
<1>. HIDE DEF t
<1>. QED
  BY <1>1, <1>2 DEF Records

-----------------------------------------------------------------------------
(* Types.                                                                  *)

\* A transition ends in a state.
LEMMA TargetIsState ==
    ASSUME NEW from, NEW to, CanTransition(from, to)
    PROVE  to \in States /\ from \in States
  BY DEF CanTransition, Transitions, States

\* A caller's time is one it has read.
LEMMA AuthorizationTypes ==
    ASSUME TypeOK, NEW auth \in Authorizations
    PROVE  auth.now \in Nat /\ auth.now <= clock
  BY DEF TypeOK, Authorizations

\* Which states of a worker have which fields.
LEMMA WorkerTypes ==
    ASSUME TypeOK, NEW w \in Workers
    PROVE  /\ worker[w] \in WorkerStates
           /\ worker[w].pc \in {"idle", "permit", "entered", "sent", "persist"}
           /\ worker[w].pc # "idle" =>
                worker[w].effect \in Effects /\ worker[w].version \in Nat
           /\ worker[w].pc \in {"permit", "entered", "sent"} =>
                worker[w].attempt \in Nat
           /\ worker[w].pc \in {"entered", "sent"} => worker[w].deadline \in Nat
           /\ worker[w].pc = "persist" =>
                worker[w].next \in Records /\ worker[w].reserve \subseteq Effects
           /\ worker[w].pc = "idle" => worker[w] = Idle
  BY DEF TypeOK, WorkerStates, Idle

\* The empty journal has the types.
LEMMA InitTypes == Init => TypeOK
  BY ConstantsAssumption
  DEF Init, TypeOK, Records, NoRecord, States, Lookups, WorkerStates, RequestStates, Idle

\* A durable write and a worker's move keep the types if the values do.
LEMMA MoveTypes ==
    ASSUME TypeOK, UNCHANGED <<clock, request, sends>>,
           record' \in [Effects -> Records], reserved' \subseteq Effects \X Effects,
           worker' \in [Workers -> WorkerStates]
    PROVE  TypeOK'
  BY DEF TypeOK

\* One read, one transition, one write.
LEMMA StepTypes ==
    ASSUME TypeOK, NEW e \in Effects, NEW to, NEW now \in Nat, Step(e, to, now)
    PROVE  TypeOK'
<1>1. to \in States
  BY TargetIsState DEF Step, MayTransition
<1>2. Transition(record[e], to, now) \in Records
  BY <1>1, TransitionFacts DEF TypeOK
<1>. QED
  BY <1>2, MoveTypes DEF Step, Write, TypeOK, RemoteUnchanged

\* Every operation on a single record keeps the types.
LEMMA JournalTypes ==
    ASSUME TypeOK, NEW e \in Effects, Journal(e)
    PROVE  TypeOK'
<1>1. CASE \E auth \in Authorizations :
        \/ Prepare(e, auth)
        \/ RequestApproval(e, auth)
        \/ Reject(e, auth)
        \/ Cancel(e, auth)
        \/ AuthorizeIdempotentRetry(e, auth)
        \/ ManualResolution(e, auth)
        \/ \E approval \in {{}} \cup {{t} : t \in ApprovalExpiries},
              approved \in 0 .. clock, kind \in {"human", "policy"} :
                    Authorize(e, auth, approval, approved, kind)
  <2>. PICK auth \in Authorizations :
        \/ Prepare(e, auth)
        \/ RequestApproval(e, auth)
        \/ Reject(e, auth)
        \/ Cancel(e, auth)
        \/ AuthorizeIdempotentRetry(e, auth)
        \/ ManualResolution(e, auth)
        \/ \E approval \in {{}} \cup {{t} : t \in ApprovalExpiries},
              approved \in 0 .. clock, kind \in {"human", "policy"} :
                    Authorize(e, auth, approval, approved, kind)
    BY <1>1
  <2>. auth.now \in Nat
    BY AuthorizationTypes
  <2>1. CASE Prepare(e, auth)
    <3>1. [NoRecord EXCEPT !.state = "Prepared"] \in Records
      BY DEF NoRecord, Records, States, Lookups
    <3>. QED
      BY <2>1, <3>1, MoveTypes DEF Prepare, Write, TypeOK, RemoteUnchanged
  <2>2. CASE \/ RequestApproval(e, auth) \/ Reject(e, auth) \/ Cancel(e, auth)
             \/ AuthorizeIdempotentRetry(e, auth) \/ ManualResolution(e, auth)
    BY <2>2, StepTypes
    DEF RequestApproval, Reject, Cancel, AuthorizeIdempotentRetry, ManualResolution
  <2>3. CASE \E approval \in {{}} \cup {{t} : t \in ApprovalExpiries},
                approved \in 0 .. clock, kind \in {"human", "policy"} :
                    Authorize(e, auth, approval, approved, kind)
    <3>. PICK approval \in {{}} \cup {{t} : t \in ApprovalExpiries},
              approved \in 0 .. clock, kind \in {"human", "policy"} :
                    Authorize(e, auth, approval, approved, kind)
      BY <2>3
    <3>1. approval \in SUBSET Nat
      BY ConstantsAssumption
    <3>2. record[e] \in Records /\ "Authorized" \in States
      BY DEF TypeOK, States
    <3>4. Transition(record[e], "Authorized", auth.now) \in Records
      BY <3>2, TransitionFacts
    <3>3. [Transition(record[e], "Authorized", auth.now)
                EXCEPT !.approval = approval] \in Records
      BY <3>1, <3>4 DEF Records
    <3>. QED
      BY <3>3, MoveTypes DEF Authorize, Write, TypeOK, RemoteUnchanged
  <2>. QED
    BY <2>1, <2>2, <2>3
<1>2. CASE \E now \in 0 .. clock : Expire(e, now) \/ RecoverInflight(e, now)
  <2>. PICK now \in 0 .. clock : Expire(e, now) \/ RecoverInflight(e, now)
    BY <1>2
  <2>. now \in Nat
    BY DEF TypeOK
  <2>1. CASE Expire(e, now)
    BY <2>1, StepTypes DEF Expire
  <2>2. CASE RecoverInflight(e, now)
    <3>1. Transition(record[e], "Unknown", now) \in Records
      BY TransitionFacts DEF TypeOK, States
    <3>2. [Transition(record[e], "Unknown", now)
                EXCEPT !.outbox = "completed"] \in Records
      BY <3>1 DEF Records
    <3>. QED
      BY <2>2, <3>2, MoveTypes DEF RecoverInflight, Write, TypeOK, RemoteUnchanged
  <2>. QED
    BY <2>1, <2>2
<1>. QED
  BY <1>1, <1>2 DEF Journal

\* Every step of a worker keeps the types.
LEMMA WorkTypes ==
    ASSUME TypeOK, NEW w \in Workers, Work(w)
    PROVE  TypeOK'
<1>. USE WorkerTypes
<1>1. ASSUME NEW auth \in Authorizations, NEW to \in States,
             DispatchWithoutSend(w, auth, to)
      PROVE  TypeOK'
  <2>1. auth.now \in Nat /\ worker[w].effect \in Effects
    BY <1>1, AuthorizationTypes DEF DispatchWithoutSend
  <2>2. Receipted(record[worker[w].effect], to, auth.now) \in Records
    BY <2>1, ReceiptedFacts DEF TypeOK
  <2>. QED
    BY <1>1, <2>1, <2>2, MoveTypes
    DEF DispatchWithoutSend, Write, Become, TypeOK, RemoteUnchanged, WorkerStates
<1>2. ASSUME NEW auth \in Authorizations, AcquireDispatchOwnership(w, auth)
      PROVE  TypeOK'
  <2>. DEFINE e == worker[w].effect
              r == record[e]
              s == [pc |-> "entered", effect |-> e, attempt |-> r.attempt,
                    version |-> r.version + 1, deadline |-> r.deadline]
  <2>1. auth.now \in Nat /\ e \in Effects
    BY <1>2, AuthorizationTypes DEF AcquireDispatchOwnership
  <2>2. r \in Records
    BY <2>1 DEF TypeOK
  <2>3. Entered(r, auth.now) \in Records
    BY <2>1, <2>2, EnteredFacts
  <2>4. s \in WorkerStates
    BY <2>1, <2>2 DEF Records, WorkerStates
  <2>5. record' = [record EXCEPT ![e] = Entered(r, auth.now)]
        /\ worker' = [worker EXCEPT ![w] = s]
        /\ UNCHANGED <<reserved, clock, request, sends>>
    BY <1>2 DEF AcquireDispatchOwnership, Write, Become, RemoteUnchanged
  <2>. QED
    BY <2>1, <2>3, <2>4, <2>5, MoveTypes DEF TypeOK
<1>3. ASSUME NEW auth \in Authorizations, NEW e \in Effects,
             NEW deadline \in 1 .. Intent[e].expires,
             ClaimDispatch(w, e, auth, deadline)
      PROVE  TypeOK'
  <2>. DEFINE c == Claimed(record[e], deadline, auth.now)
  <2>1. deadline \in Nat /\ auth.now \in Nat /\ record[e] \in Records
    BY ConstantsAssumption, AuthorizationTypes DEF TypeOK, Intents
  <2>2. c \in Records
    BY <2>1, ClaimedFacts
  <2>3. Permit(e, c) \in WorkerStates
    BY <2>2 DEF Permit, WorkerStates, Records
  <2>. QED
    BY <1>3, <2>2, <2>3, MoveTypes
    DEF ClaimDispatch, Write, Become, TypeOK, RemoteUnchanged
<1>4. ASSUME NEW e \in Effects, NEW next \in Records, NEW reserve \in SUBSET Effects,
             Become(w, Persisting(e, next, reserve)),
             UNCHANGED <<record, reserved, clock>> /\ RemoteUnchanged
      PROVE  TypeOK'
  <2>1. Persisting(e, next, reserve) \in WorkerStates
    BY <1>4 DEF Persisting, WorkerStates, TypeOK, Records
  <2>. QED
    BY <1>4, <2>1, MoveTypes DEF Become, TypeOK, RemoteUnchanged
<1>5. ASSUME NEW auth \in Authorizations, NEW e \in Effects,
             NEW answer \in Lookups, Reconcile(w, e, auth, answer)
      PROVE  TypeOK'
  <2>. DEFINE t == Transition(record[e], ReconcileTarget(e, answer), auth.now)
              next == [t EXCEPT !.lookups = @ + 1, !.lastLookup = answer]
  <2>1. record[e] \in Records /\ auth.now \in Nat
        /\ ReconcileTarget(e, answer) \in States
    BY <1>5, AuthorizationTypes, TargetIsState
    DEF TypeOK, Reconcile, MayTransition
  <2>2. t \in Records
    BY <2>1, TransitionFacts
  <2>3. PICK n \in Nat : n = t.lookups + 1
    BY <2>2 DEF Records
  <2>4. next \in Records
    <3>. HIDE DEF t
    <3>. QED BY <2>2, <2>3 DEF Records
  <2>5. Become(w, Persisting(e, next, {}))
        /\ UNCHANGED <<record, reserved, clock>> /\ RemoteUnchanged
    BY <1>5 DEF Reconcile
  <2>. QED
    BY <1>4, <2>4, <2>5
<1>6. ASSUME NEW auth \in Authorizations, NEW e \in Effects, NEW child \in Effects,
             RequestCompensation(w, e, child, auth)
      PROVE  TypeOK'
  <2>. DEFINE t == Transition(record[e], "CompensationPending", auth.now)
              next == [t EXCEPT !.link = {child}]
  <2>1. record[e] \in Records /\ auth.now \in Nat /\ "CompensationPending" \in States
    BY AuthorizationTypes DEF TypeOK, States
  <2>2. t \in Records
    BY <2>1, TransitionFacts
  <2>3. next \in Records
    <3>. HIDE DEF t
    <3>. QED BY <2>2 DEF Records
  <2>4. Become(w, Persisting(e, next, {child}))
        /\ UNCHANGED <<record, reserved, clock>> /\ RemoteUnchanged
    BY <1>6 DEF RequestCompensation
  <2>. QED
    BY <1>4, <2>3, <2>4
<1>7. ASSUME NEW auth \in Authorizations, NEW e \in Effects, NEW to \in States,
             \/ BeginCompensation(w, e, auth) /\ to = "Compensating"
             \/ ResolveCompensation(w, e, to, auth)
      PROVE  TypeOK'
  <2>. DEFINE t == Transition(record[e], to, auth.now)
  <2>1. t \in Records
    BY AuthorizationTypes, TransitionFacts DEF TypeOK
  <2>2. Become(w, Persisting(e, t, {}))
        /\ UNCHANGED <<record, reserved, clock>> /\ RemoteUnchanged
    BY <1>7 DEF BeginCompensation, ResolveCompensation
  <2>. QED
    BY <1>4, <2>1, <2>2
<1>8. ASSUME NEW e \in Effects, ResumeDispatch(w, e)
      PROVE  TypeOK'
  <2>1. Permit(e, record[e]) \in WorkerStates
    BY DEF Permit, WorkerStates, TypeOK, Records
  <2>. QED
    BY <1>8, <2>1, MoveTypes DEF ResumeDispatch, Become, TypeOK, RemoteUnchanged
<1>9. ASSUME DispatchRefused(w) \/ Crash(w)
      PROVE  TypeOK'
  BY <1>9, MoveTypes
  DEF DispatchRefused, Crash, Become, TypeOK, RemoteUnchanged, WorkerStates
<1>10. ASSUME ConnectorSend(w)
       PROVE  TypeOK'
  <2>. DEFINE Owners == [pc : {"entered", "sent"}, effect : Effects,
                         attempt : Nat, version : Nat, deadline : Nat]
              e == worker[w].effect
              a == worker[w].attempt
  <2>1. worker[w] \in Owners
    BY <1>10 DEF ConnectorSend, WorkerStates, Idle
  <2>2. [worker[w] EXCEPT !.pc = "sent"] \in Owners
    BY <2>1
  <2>3. worker' \in [Workers -> WorkerStates]
    BY <1>10, <2>2 DEF ConnectorSend, Become, TypeOK, WorkerStates
  <2>4. request' \in [Effects -> [AttemptNumbers -> RequestStates]]
    <3>1. request' = [request EXCEPT ![e][a] = "inflight"]
      BY <1>10 DEF ConnectorSend
    <3>. QED
      BY <3>1 DEF TypeOK, RequestStates
  <2>5. sends' \in [Effects -> [AttemptNumbers -> Nat]]
    <3>1. sends' = [sends EXCEPT ![e][a] = @ + 1]
      BY <1>10 DEF ConnectorSend
    <3>2. sends[e] \in [AttemptNumbers -> Nat]
      BY <2>1 DEF TypeOK
    <3>3. [sends[e] EXCEPT ![a] = @ + 1] \in [AttemptNumbers -> Nat]
      <4>. DEFINE n == sends[e][a] + 1
      <4>1. a \in AttemptNumbers => n \in Nat
        BY <3>2
      <4>. HIDE DEF n
      <4>2. [sends[e] EXCEPT ![a] = n] \in [AttemptNumbers -> Nat]
        BY <3>2, <4>1
      <4>. QED
        BY <4>2 DEF n
    <3>4. sends' = [sends EXCEPT ![e] = [sends[e] EXCEPT ![a] = @ + 1]]
      BY <3>1, <2>1 DEF TypeOK
    <3>. QED
      BY <3>3, <3>4 DEF TypeOK
  <2>. QED
    BY <1>10, <2>3, <2>4, <2>5 DEF ConnectorSend, TypeOK
<1>11. ASSUME NEW to \in States, FinalizeObservation(w, to)
       PROVE  TypeOK'
  <2>. DEFINE e == worker[w].effect
  <2>1. e \in Effects /\ record[e] \in Records
    BY <1>11 DEF FinalizeObservation, TypeOK
  <2>2. Receipted(record[e], to, record[e].at) \in Records
    BY <2>1, ReceiptedFacts DEF Records
  <2>3. record' \in [Effects -> Records]
    BY <1>11, <2>1, <2>2 DEF FinalizeObservation, Write, TypeOK
  <2>. QED
    BY <1>11, <2>3, MoveTypes
    DEF FinalizeObservation, Become, TypeOK, RemoteUnchanged, WorkerStates
<1>12. ASSUME Persist(w)
       PROVE  TypeOK'
  <2>1. worker[w].effect \in Effects /\ worker[w].next \in Records
        /\ worker[w].reserve \subseteq Effects
    BY <1>12 DEF Persist
  <2>2. record' \in [Effects -> Records]
    BY <1>12, <2>1 DEF Persist, Write, TypeOK
  <2>3. reserved' \subseteq Effects \X Effects
    BY <1>12, <2>1 DEF Persist, TypeOK
  <2>. QED
    BY <1>12, <2>2, <2>3, MoveTypes
    DEF Persist, Become, TypeOK, RemoteUnchanged, WorkerStates
<1>. QED
  BY <1>1, <1>2, <1>3, <1>5, <1>6, <1>7, <1>8, <1>9, <1>10, <1>11, <1>12
  DEF Work, States

\* The type invariant of the kernel holds in every reachable state.
THEOREM TypesAreInvariant == Spec => []TypeOK
<1>1. Init => TypeOK
  BY InitTypes
<1>2. TypeOK /\ [Next]_vars => TypeOK'
  <2>. SUFFICES ASSUME TypeOK, [Next]_vars PROVE TypeOK'
    OBVIOUS
  <2>1. ASSUME NEW e \in Effects, NEW a \in AttemptNumbers, NEW to \in RequestStates,
               RemoteProcess(e, a, to)
        PROVE  TypeOK'
    BY <2>1 DEF RemoteProcess, TypeOK
  <2>2. CASE Tick
    BY <2>2 DEF Tick, TypeOK, RemoteUnchanged
  <2>3. CASE UNCHANGED vars
    BY <2>3 DEF vars, TypeOK
  <2>. QED
    BY JournalTypes, WorkTypes, <2>1, <2>2, <2>3 DEF Next, Remote
<1>. QED
  BY <1>1, <1>2, PTL DEF Spec

-----------------------------------------------------------------------------
(* The inductive invariant.                                                *)

\* Nothing is stored, nobody works and nothing was sent.
LEMMA InitKernel == Init => KernelInv
  BY ConstantsAssumption
  DEF Init, KernelInv, AttemptsInOrder, FutureUnsent, OneSendPerAttempt,
      OwnersAreUnique, OwnersAreCurrent, PersistsAreCurrent, OneLiveRequest,
      Coalesced, KeysAreUnique, NoRecord, Idle, InConnector, MaySend, Live,
      AttemptNumbers

\* The guard shared by retry, reconciliation and manual resolution: once it
\* holds nobody in the connector can send any more.
LEMMA OwnerIsOver ==
    ASSUME TypeOK, KernelInv, NEW e \in Effects, NEW now \in Nat, now <= clock,
           ~OwnerMaySend(record[e], now), NEW v \in Workers, MaySend(v)
    PROVE  worker[v].effect # e
<1>. SUFFICES ASSUME worker[v].effect = e PROVE FALSE
  OBVIOUS
<1>1. InConnector(v) /\ worker[v].deadline \in Nat /\ worker[v].attempt \in Nat
  BY WorkerTypes DEF MaySend, InConnector
<1>2. /\ record[e].state = "Unknown" /\ record[e].event = "entry"
      /\ record[e].attempt = worker[v].attempt
      /\ record[e].deadline = worker[v].deadline
      /\ record[e].attempt \notin record[e].receipts
  BY <1>1 DEF KernelInv, OwnersAreCurrent
<1>3. record[e].attempt > 0
  BY <1>1, <1>2 DEF KernelInv, OwnersAreUnique, TypeOK, Records
<1>4. now < record[e].deadline
  BY <1>1, <1>2 DEF MaySend, TypeOK
<1>. QED
  BY <1>2, <1>3, <1>4 DEF OwnerMaySend, DispatchOwnershipUnreceipted

\* Writing the next version of one record keeps the invariant if the attempt
\* count and the receipts grow as they should, whoever could still send is no
\* longer in the connector, and an effect that can be dispatched (again) has
\* no live request.  Workers may go idle or take a permit at the same time.
LEMMA Advance ==
    ASSUME TypeOK, KernelInv, TypeOK', NEW e \in Effects, NEW next \in Records,
           record' = [record EXCEPT ![e] = next],
           UNCHANGED <<request, sends, clock>>,
           \A v \in Workers :
                worker'[v] = worker[v] \/ worker'[v].pc \in {"idle", "permit"},
           next.version = record[e].version + 1,
           \/ /\ next.attempt = record[e].attempt
              /\ next.state # "Dispatching"
              /\ \/ next.receipts = record[e].receipts
                 \/ /\ next.receipts = record[e].receipts \cup {record[e].attempt}
                    /\ record[e].attempt > 0
           \/ /\ next.attempt = record[e].attempt + 1
              /\ next.attempt <= MaxAttempts
              /\ next.state = "Dispatching"
              /\ next.receipts = record[e].receipts,
           record[e].state = "Unknown" =>
                \A v \in Workers : MaySend(v) /\ worker[v].effect = e =>
                    worker'[v].pc \in {"idle", "permit"},
           next.state \in OpenStates /\ ~Idempotent(e) => ~Live(e),
           record[e].state # "Absent", next.state # "Absent"
    PROVE  KernelInv'
<1>. USE DEF KernelInv
<1>0. record[e] \in Records /\ record'[e] = next
      /\ \A f \in Effects : f # e => record'[f] = record[f]
  BY DEF TypeOK
<1>1. AttemptsInOrder'
  BY <1>0, ConstantsAssumption DEF AttemptsInOrder, Records
<1>2. FutureUnsent'
  BY <1>0, ConstantsAssumption DEF FutureUnsent, Records, AttemptNumbers
<1>3. OneSendPerAttempt'
  BY DEF OneSendPerAttempt
<1>4. \A v \in Workers : InConnector(v)' => worker'[v] = worker[v] /\ InConnector(v)
  BY DEF InConnector
<1>5. \A v \in Workers : MaySend(v)' => worker'[v] = worker[v] /\ MaySend(v)
  BY DEF MaySend
<1>6. OwnersAreUnique'
  BY <1>0, <1>4, WorkerTypes DEF OwnersAreUnique, Records, InConnector
<1>7. OwnersAreCurrent'
  <2>. SUFFICES ASSUME NEW v \in Workers, InConnector(v)'
                PROVE  LET r == record[worker[v].effect] IN
                       (/\ worker[v].version <= r.version
                        /\ worker[v].version = r.version =>
                            /\ r.state = "Unknown" /\ r.event = "entry"
                            /\ r.attempt = worker[v].attempt
                            /\ r.deadline = worker[v].deadline
                            /\ r.attempt \notin r.receipts
                        /\ MaySend(v) => worker[v].version = r.version)'
    BY DEF OwnersAreCurrent
  <2>1. worker'[v] = worker[v] /\ InConnector(v)
        /\ worker[v].effect \in Effects /\ worker[v].version \in Nat
    BY <1>4, WorkerTypes DEF InConnector
  <2>2. CASE worker[v].effect # e
    BY <2>1, <2>2, <1>0, <1>5 DEF OwnersAreCurrent
  <2>3. CASE worker[v].effect = e
    <3>1. worker[v].version < next.version
      BY <2>1, <2>3, <1>0 DEF OwnersAreCurrent, Records
    <3>2. ~MaySend(v)'
      <4>. SUFFICES ASSUME MaySend(v)' PROVE FALSE
        OBVIOUS
      <4>1. MaySend(v) /\ worker[v].pc = "entered"
        BY <1>5 DEF MaySend
      <4>2. record[e].state = "Unknown"
        BY <4>1, <2>1, <2>3 DEF OwnersAreCurrent
      <4>. QED
        BY <4>1, <4>2, <2>1, <2>3
    <3>3. next.version \in Nat
      BY DEF Records
    <3>. QED
      BY <3>1, <3>2, <3>3, <2>1, <2>3, <1>0
  <2>. QED
    BY <2>2, <2>3
<1>8. PersistsAreCurrent'
  <2>. SUFFICES ASSUME NEW v \in Workers, (worker[v].pc = "persist")'
                PROVE  LET f == worker[v].effect
                           r == record[f]
                           n == worker[v].next IN
                       (/\ worker[v].version <= r.version
                        /\ n.version = worker[v].version + 1
                        /\ worker[v].version = r.version =>
                            /\ r.state \notin OpenStates
                            /\ n.attempt = r.attempt /\ n.receipts = r.receipts
                            /\ n.event = "other"
                            /\ n.state \in OpenStates =>
                                n.state = "AuthorizedForRetry" /\ ~Live(f)
                            /\ r.state = "Unknown" =>
                                \A u \in Workers :
                                    MaySend(u) => worker[u].effect # f)'
    BY DEF PersistsAreCurrent
  <2>1. worker'[v] = worker[v] /\ worker[v].pc = "persist"
        /\ worker[v].effect \in Effects /\ worker[v].version \in Nat
    BY WorkerTypes
  <2>2. CASE worker[v].effect # e
    <3>1. record'[worker[v].effect] = record[worker[v].effect]
      BY <2>1, <2>2, <1>0
    <3>2. Live(worker[v].effect)' <=> Live(worker[v].effect)
      BY <2>1 DEF Live
    <3>. QED
      BY <2>1, <3>1, <3>2, <1>5 DEF PersistsAreCurrent
  <2>3. CASE worker[v].effect = e
    <3>1. worker[v].version < next.version /\ next.version \in Nat
      BY <2>1, <2>3, <1>0 DEF PersistsAreCurrent, Records
    <3>2. worker[v].next.version = worker[v].version + 1
      BY <2>1 DEF PersistsAreCurrent
    <3>. QED
      BY <3>1, <3>2, <2>1, <2>3, <1>0
  <2>. QED
    BY <2>2, <2>3
<1>9. OneLiveRequest'
  BY <1>0, <1>5 DEF OneLiveRequest, Live
<1>10. Coalesced'
  BY DEF Coalesced
<1>11. KeysAreUnique'
  BY <1>0 DEF KeysAreUnique
<1>. QED
  BY <1>1, <1>2, <1>3, <1>6, <1>7, <1>8, <1>9, <1>10, <1>11

\* The single-record operations: those before any send, and those that wait
\* for the owner of the attempt to be over.
LEMMA StepKernel ==
    ASSUME TypeOK, KernelInv, TypeOK', NEW e \in Effects, NEW to,
           NEW now \in Nat, now <= clock, Step(e, to, now),
           \/ record[e].state \in OpenStates /\ to # "Dispatching"
           \/ /\ to \in {"AuthorizedForRetry", "ManualResolution"}
              /\ ~OwnerMaySend(record[e], now)
              /\ to \in OpenStates => Idempotent(e)
    PROVE  KernelInv'
<1>. DEFINE next == Transition(record[e], to, now)
<1>1. CanTransition(record[e].state, to)
  BY DEF Step, MayTransition
<1>2. record[e] \in Records /\ to \in States
  BY <1>1, TargetIsState DEF TypeOK
<1>3. /\ next \in Records /\ next.version = record[e].version + 1
      /\ next.attempt = record[e].attempt /\ next.state = to
      /\ next.receipts = record[e].receipts
  BY <1>2, TransitionFacts
<1>4. record[e].state # "Absent" /\ to # "Absent"
  BY <1>1 DEF CanTransition, Transitions
<1>5. to # "Dispatching"
  OBVIOUS
<1>6. record[e].state = "Unknown" =>
        \A v \in Workers : MaySend(v) => worker[v].effect # e
  BY OwnerIsOver DEF OpenStates
<1>7. to \in OpenStates /\ ~Idempotent(e) => ~Live(e)
  BY DEF KernelInv, OneLiveRequest
<1>8. record' = [record EXCEPT ![e] = next]
      /\ UNCHANGED <<request, sends, clock, worker>>
  BY DEF Step, Write, RemoteUnchanged
<1>. HIDE DEF next
<1>. QED
  BY <1>3, <1>4, <1>5, <1>6, <1>7, <1>8, Advance

\* A new intent: nothing has been sent and nobody works on it.
LEMMA PrepareKernel ==
    ASSUME TypeOK, KernelInv, NEW e \in Effects, NEW auth, Prepare(e, auth)
    PROVE  KernelInv'
<1>. DEFINE next == [NoRecord EXCEPT !.state = "Prepared"]
<1>1. /\ record[e].state = "Absent" /\ KeyFree(e)
      /\ record' = [record EXCEPT ![e] = next]
      /\ UNCHANGED <<request, sends, clock, worker>>
  BY DEF Prepare, Write, RemoteUnchanged
<1>2. next.state = "Prepared" /\ next.attempt = 0 /\ next.receipts = {}
      /\ next.version = 0
  BY DEF NoRecord
<1>3. record'[e] = next /\ \A f \in Effects : f # e => record'[f] = record[f]
  BY <1>1 DEF TypeOK
<1>. HIDE DEF next
<1>4. record[e].attempt = 0
  BY <1>1 DEF KernelInv, AttemptsInOrder
<1>5. \A v \in Workers : InConnector(v) => worker[v].effect # e
  BY <1>4 DEF KernelInv, OwnersAreUnique
<1>6. \A v \in Workers : MaySend(v) => worker[v].effect # e
  BY <1>5 DEF MaySend, InConnector
<1>7. (\A v \in Workers : InConnector(v)' <=> InConnector(v))
      /\ (\A v \in Workers : MaySend(v)' <=> MaySend(v))
      /\ (\A f \in Effects : Live(f)' <=> Live(f))
  BY <1>1 DEF InConnector, MaySend, Live
<1>8. AttemptsInOrder'
  BY <1>2, <1>3, ConstantsAssumption DEF KernelInv, AttemptsInOrder
<1>9. FutureUnsent'
  BY <1>1, <1>2, <1>3, <1>4 DEF KernelInv, FutureUnsent
<1>10. OneSendPerAttempt' /\ Coalesced'
  BY <1>1 DEF KernelInv, OneSendPerAttempt, Coalesced
<1>11. OwnersAreUnique'
  BY <1>1, <1>3, <1>5, <1>7, WorkerTypes
  DEF KernelInv, OwnersAreUnique, InConnector
<1>12. OwnersAreCurrent'
  BY <1>1, <1>3, <1>5, <1>7, WorkerTypes
  DEF KernelInv, OwnersAreCurrent, InConnector
<1>13. PersistsAreCurrent'
  <2>1. \A v \in Workers : worker[v].pc = "persist" /\ worker[v].effect = e =>
            worker[v].version < record[e].version
    <3>. SUFFICES ASSUME NEW v \in Workers, worker[v].pc = "persist",
                         worker[v].effect = e
                  PROVE  worker[v].version < record[e].version
      OBVIOUS
    <3>1. worker[v].version # record[e].version
      BY <1>1 DEF KernelInv, PersistsAreCurrent, OpenStates
    <3>2. worker[v].version <= record[e].version
      BY DEF KernelInv, PersistsAreCurrent
    <3>3. worker[v].version \in Nat /\ record[e].version \in Nat
      BY WorkerTypes DEF TypeOK, Records
    <3>. QED
      BY <3>1, <3>2, <3>3
  <2>2. record[e].version = 0
    BY <1>1 DEF KernelInv, AttemptsInOrder
  <2>3. \A v \in Workers : worker[v].pc = "persist" => worker[v].effect # e
    BY <2>1, <2>2, WorkerTypes
  <2>. QED
    BY <1>1, <1>3, <1>7, <2>3, WorkerTypes DEF KernelInv, PersistsAreCurrent
<1>14. OneLiveRequest'
  BY <1>1, <1>3, <1>7 DEF KernelInv, OneLiveRequest, OpenStates
<1>15. KeysAreUnique'
  BY <1>1, <1>3 DEF KernelInv, KeysAreUnique, KeyFree
<1>. QED
  BY <1>8, <1>9, <1>10, <1>11, <1>12, <1>13, <1>14, <1>15 DEF KernelInv

\* Every operation on a single record keeps the invariant.
LEMMA JournalKernel ==
    ASSUME TypeOK, KernelInv, NEW e \in Effects, Journal(e)
    PROVE  KernelInv'
<1>. TypeOK'
  BY JournalTypes
<1>. DEFINE Early == {"PendingApproval", "Rejected", "Expired", "Cancelled"}
<1>1. ASSUME NEW now \in Nat, now <= clock, NEW to \in Early, Step(e, to, now)
      PROVE  KernelInv'
  <2>1. CanTransition(record[e].state, to)
    BY <1>1 DEF Step, MayTransition
  <2>2. record[e].state \in OpenStates
    BY <2>1 DEF CanTransition, Transitions, OpenStates
  <2>. QED
    BY <1>1, <2>2, StepKernel
<1>2. ASSUME NEW auth \in Authorizations, AuthorizeIdempotentRetry(e, auth)
      PROVE  KernelInv'
  BY <1>2, StepKernel, AuthorizationTypes DEF AuthorizeIdempotentRetry
<1>3. ASSUME NEW auth \in Authorizations, ManualResolution(e, auth)
      PROVE  KernelInv'
  BY <1>3, StepKernel, AuthorizationTypes DEF ManualResolution, OpenStates
<1>4. ASSUME NEW auth \in Authorizations, NEW approval, NEW approved,
             NEW kind, Authorize(e, auth, approval, approved, kind)
      PROVE  KernelInv'
  <2>. DEFINE t == Transition(record[e], "Authorized", auth.now)
              next == [t EXCEPT !.approval = approval]
  <2>1. CanTransition(record[e].state, "Authorized")
    BY <1>4 DEF Authorize, MayTransition
  <2>2. record[e].state \in OpenStates \ {"Absent"}
    BY <2>1 DEF CanTransition, Transitions, OpenStates
  <2>3. record[e] \in Records /\ auth.now \in Nat /\ "Authorized" \in States
    BY AuthorizationTypes DEF TypeOK, States
  <2>4. t \in Records /\ t.version = record[e].version + 1
        /\ t.attempt = record[e].attempt /\ t.state = "Authorized"
        /\ t.receipts = record[e].receipts
    BY <2>3, TransitionFacts
  <2>5. record' = [record EXCEPT ![e] = next]
        /\ UNCHANGED <<request, sends, clock, worker>>
    BY <1>4 DEF Authorize, Write, RemoteUnchanged
  <2>6. next \in Records
    BY <2>5 DEF TypeOK
  <2>. HIDE DEF t
  <2>7. next.version = record[e].version + 1 /\ next.attempt = record[e].attempt
        /\ next.state = "Authorized" /\ next.receipts = record[e].receipts
    BY <2>4 DEF Records
  <2>8. ~Idempotent(e) => ~Live(e)
    BY <2>2 DEF KernelInv, OneLiveRequest
  <2>. HIDE DEF next
  <2>. QED
    BY <2>2, <2>5, <2>6, <2>7, <2>8, Advance DEF OpenStates
<1>5. ASSUME NEW now \in Nat, RecoverInflight(e, now)
      PROVE  KernelInv'
  <2>. DEFINE t == Transition(record[e], "Unknown", now)
              next == [t EXCEPT !.outbox = "completed"]
  <2>1. record[e].state = "Dispatching" /\ record[e] \in Records
        /\ "Unknown" \in States
    BY <1>5 DEF RecoverInflight, TypeOK, States
  <2>2. t \in Records /\ t.version = record[e].version + 1
        /\ t.attempt = record[e].attempt /\ t.state = "Unknown"
        /\ t.receipts = record[e].receipts
    BY <2>1, TransitionFacts
  <2>3. record' = [record EXCEPT ![e] = next]
        /\ UNCHANGED <<request, sends, clock, worker>>
    BY <1>5 DEF RecoverInflight, Write, RemoteUnchanged
  <2>. HIDE DEF t
  <2>4. next \in Records
        /\ next.version = record[e].version + 1 /\ next.attempt = record[e].attempt
        /\ next.state = "Unknown" /\ next.receipts = record[e].receipts
    BY <2>2 DEF Records
  <2>. HIDE DEF next
  <2>. QED
    BY <2>1, <2>3, <2>4, Advance DEF OpenStates
<1>6. ASSUME NEW auth \in Authorizations,
             \/ Prepare(e, auth)
             \/ RequestApproval(e, auth)
             \/ Reject(e, auth)
             \/ Cancel(e, auth)
      PROVE  KernelInv'
  BY <1>1, <1>6, PrepareKernel, AuthorizationTypes
  DEF RequestApproval, Reject, Cancel
<1>7. ASSUME NEW now \in 0 .. clock, Expire(e, now)
      PROVE  KernelInv'
  BY <1>1, <1>7 DEF Expire, TypeOK
<1>. QED
  <2>1. clock \in Nat
    BY DEF TypeOK
  <2>. QED
    BY <1>2, <1>3, <1>4, <1>5, <1>6, <1>7, <2>1 DEF Journal

\* Workers that go idle or take a permit, and nothing else, keep the invariant.
LEMMA RetireKernel ==
    ASSUME TypeOK, KernelInv, UNCHANGED <<record, request, sends, clock>>,
           \A v \in Workers :
                worker'[v] = worker[v] \/ worker'[v].pc \in {"idle", "permit"}
    PROVE  KernelInv'
<1>1. \A v \in Workers : InConnector(v)' => worker'[v] = worker[v] /\ InConnector(v)
  BY DEF InConnector
<1>2. \A v \in Workers : MaySend(v)' => worker'[v] = worker[v] /\ MaySend(v)
  BY DEF MaySend
<1>3. \A f \in Effects : Live(f)' <=> Live(f)
  BY DEF Live
<1>4. OwnersAreUnique'
  BY <1>1 DEF KernelInv, OwnersAreUnique
<1>5. OwnersAreCurrent'
  BY <1>1, <1>2 DEF KernelInv, OwnersAreCurrent
<1>6. PersistsAreCurrent'
  BY <1>2, <1>3, WorkerTypes DEF KernelInv, PersistsAreCurrent
<1>7. OneLiveRequest'
  BY <1>2, <1>3 DEF KernelInv, OneLiveRequest
<1>. QED
  BY <1>4, <1>5, <1>6, <1>7
  DEF KernelInv, AttemptsInOrder, FutureUnsent, OneSendPerAttempt, Coalesced,
      KeysAreUnique

\* Computing a record without committing it: reconciliation and compensation
\* start from a record that is not open and that nobody may still send for.
LEMMA ComputeKernel ==
    ASSUME TypeOK, KernelInv, NEW w \in Workers, NEW e \in Effects,
           NEW next \in Records, NEW reserve \in SUBSET Effects,
           Become(w, Persisting(e, next, reserve)),
           UNCHANGED <<record, reserved, clock>>, RemoteUnchanged,
           record[e].state \notin OpenStates,
           next.version = record[e].version + 1, next.event = "other",
           next.attempt = record[e].attempt, next.receipts = record[e].receipts,
           next.state \in OpenStates =>
                next.state = "AuthorizedForRetry" /\ ~Live(e),
           record[e].state = "Unknown" =>
                \A v \in Workers : MaySend(v) => worker[v].effect # e
    PROVE  KernelInv'
<1>1. UNCHANGED <<record, request, sends, clock>>
  BY DEF RemoteUnchanged
<1>2. /\ worker'[w].pc = "persist" /\ worker'[w].effect = e
      /\ worker'[w].version = record[e].version /\ worker'[w].next = next
      /\ \A v \in Workers : v # w => worker'[v] = worker[v]
  BY DEF Become, Persisting, TypeOK
<1>3. \A v \in Workers : InConnector(v)' => v # w /\ InConnector(v)
  BY <1>2 DEF InConnector
<1>4. \A v \in Workers : MaySend(v)' => v # w /\ MaySend(v)
  BY <1>1, <1>2 DEF MaySend
<1>5. \A f \in Effects : Live(f)' <=> Live(f)
  BY <1>1 DEF Live
<1>6. OwnersAreUnique'
  BY <1>1, <1>2, <1>3 DEF KernelInv, OwnersAreUnique
<1>7. OwnersAreCurrent'
  BY <1>1, <1>2, <1>3, <1>4 DEF KernelInv, OwnersAreCurrent
<1>8. PersistsAreCurrent'
  <2>. SUFFICES ASSUME NEW v \in Workers, (worker[v].pc = "persist")'
                PROVE  LET f == worker[v].effect
                           r == record[f]
                           n == worker[v].next IN
                       (/\ worker[v].version <= r.version
                        /\ n.version = worker[v].version + 1
                        /\ worker[v].version = r.version =>
                            /\ r.state \notin OpenStates
                            /\ n.attempt = r.attempt /\ n.receipts = r.receipts
                            /\ n.event = "other"
                            /\ n.state \in OpenStates =>
                                n.state = "AuthorizedForRetry" /\ ~Live(f)
                            /\ r.state = "Unknown" =>
                                \A u \in Workers :
                                    MaySend(u) => worker[u].effect # f)'
    BY DEF PersistsAreCurrent
  <2>1. CASE v = w
    <3>1. record[e].version \in Nat
      BY DEF TypeOK, Records
    <3>. QED
      BY <2>1, <3>1, <1>1, <1>2, <1>4, <1>5
  <2>2. CASE v # w
    <3>1. worker'[v] = worker[v] /\ worker[v].effect \in Effects
      BY <2>2, <1>2, WorkerTypes
    <3>. QED
      BY <2>2, <3>1, <1>1, <1>2, <1>4, <1>5 DEF KernelInv, PersistsAreCurrent
  <2>. QED
    BY <2>1, <2>2
<1>9. OneLiveRequest'
  BY <1>1, <1>2, <1>4, <1>5 DEF KernelInv, OneLiveRequest
<1>. QED
  BY <1>1, <1>6, <1>7, <1>8, <1>9
  DEF KernelInv, AttemptsInOrder, FutureUnsent, OneSendPerAttempt, Coalesced,
      KeysAreUnique

\* Connector entry: from a claimed attempt, which nobody else has entered and
\* nobody can overwrite.
LEMMA AcquireKernel ==
    ASSUME TypeOK, KernelInv, NEW w \in Workers, NEW auth \in Authorizations,
           AcquireDispatchOwnership(w, auth)
    PROVE  KernelInv'
<1>. DEFINE e == worker[w].effect
            next == Entered(record[e], auth.now)
<1>. USE DEF KernelInv
<1>1. e \in Effects /\ auth.now \in Nat
  BY WorkerTypes, AuthorizationTypes DEF AcquireDispatchOwnership
<1>2. record[e] \in Records
  BY <1>1 DEF TypeOK
<1>3. /\ next.state = "Unknown" /\ next.version = record[e].version + 1
      /\ next.event = "entry" /\ next.attempt = record[e].attempt
      /\ next.deadline = record[e].deadline
      /\ next.receipts = record[e].receipts
  BY <1>1, <1>2, EnteredFacts
<1>4. /\ record[e].state = "Dispatching"
      /\ record' = [record EXCEPT ![e] = next]
      /\ worker' = [worker EXCEPT ![w] =
            [pc |-> "entered", effect |-> e, attempt |-> record[e].attempt,
             version |-> record[e].version + 1, deadline |-> record[e].deadline]]
      /\ UNCHANGED <<request, sends, clock>>
  BY DEF AcquireDispatchOwnership, VerifyPermit, Write, Become, RemoteUnchanged
<1>5. record'[e] = next /\ \A f \in Effects : f # e => record'[f] = record[f]
  BY <1>1, <1>4 DEF TypeOK
<1>6. /\ worker'[w].pc = "entered" /\ worker'[w].effect = e
      /\ worker'[w].attempt = record[e].attempt
      /\ worker'[w].version = record[e].version + 1
      /\ worker'[w].deadline = record[e].deadline
      /\ \A v \in Workers : v # w => worker'[v] = worker[v]
  BY <1>4 DEF TypeOK
<1>. HIDE DEF e, next
<1>7. record[e].attempt \in AttemptNumbers /\ record[e].attempt \notin record[e].receipts
  BY <1>1, <1>2, <1>4, ConstantsAssumption
  DEF AttemptsInOrder, AttemptNumbers, Records
<1>8. \A v \in Workers : v # w =>
        (InConnector(v)' <=> InConnector(v)) /\ (MaySend(v)' <=> MaySend(v))
  BY <1>4, <1>6 DEF InConnector, MaySend
<1>9. \A f \in Effects : Live(f)' <=> Live(f)
  BY <1>4 DEF Live
<1>10. \A v \in Workers : InConnector(v) /\ worker[v].effect = e =>
            /\ worker[v].attempt # record[e].attempt
            /\ worker[v].version < record[e].version
            /\ ~MaySend(v)
  <2>. SUFFICES ASSUME NEW v \in Workers, InConnector(v), worker[v].effect = e
                PROVE  /\ worker[v].attempt # record[e].attempt
                       /\ worker[v].version < record[e].version
                       /\ ~MaySend(v)
    OBVIOUS
  <2>1. worker[v].version \in Nat /\ record[e].version \in Nat
    BY <1>2, WorkerTypes DEF InConnector, Records
  <2>. QED
    BY <1>4, <2>1 DEF OwnersAreUnique, OwnersAreCurrent
<1>11. AttemptsInOrder'
  BY <1>3, <1>4, <1>5 DEF AttemptsInOrder
<1>12. FutureUnsent'
  BY <1>3, <1>4, <1>5 DEF FutureUnsent
<1>13. OwnersAreUnique'
  <2>. SUFFICES ASSUME NEW v \in Workers, InConnector(v)'
                PROVE  LET f == worker[v].effect
                           a == worker[v].attempt IN
                       (/\ a \in 1 .. record[f].attempt
                        /\ record[f].state = "Dispatching" => a # record[f].attempt
                        /\ worker[v].pc = "entered" => sends[f][a] = 0
                        /\ \A u \in Workers :
                            InConnector(u) /\ worker[u].effect = f
                            /\ worker[u].attempt = a => u = v)'
    BY DEF OwnersAreUnique
  <2>1. CASE v = w
    <3>1. record[e].attempt \in 1 .. record[e].attempt
      BY <1>7 DEF AttemptNumbers
    <3>2. sends[e][record[e].attempt] = 0
      BY <1>1, <1>4, <1>7 DEF FutureUnsent
    <3>3. \A u \in Workers :
            InConnector(u)' /\ worker'[u].effect = e
            /\ worker'[u].attempt = record[e].attempt => u = w
      BY <1>6, <1>8, <1>10
    <3>. QED
      BY <2>1, <3>1, <3>2, <3>3, <1>3, <1>4, <1>5, <1>6
  <2>2. CASE v # w
    <3>1. worker'[v] = worker[v] /\ InConnector(v) /\ worker[v].effect \in Effects
      BY <2>2, <1>6, <1>8, WorkerTypes DEF InConnector
    <3>2. worker[v].attempt \in 1 .. record[worker[v].effect].attempt
          /\ (worker[v].pc = "entered" =>
                sends[worker[v].effect][worker[v].attempt] = 0)
      BY <3>1 DEF OwnersAreUnique
    <3>3. record'[worker[v].effect].attempt = record[worker[v].effect].attempt
          /\ (record'[worker[v].effect].state = "Dispatching" =>
                record[worker[v].effect].state = "Dispatching")
      BY <3>1, <1>3, <1>4, <1>5
    <3>4. \A u \in Workers :
            InConnector(u)' /\ worker'[u].effect = worker[v].effect
            /\ worker'[u].attempt = worker[v].attempt => u = v
      BY <3>1, <1>6, <1>8, <1>10 DEF OwnersAreUnique
    <3>5. record[worker[v].effect].state = "Dispatching" =>
            worker[v].attempt # record[worker[v].effect].attempt
      BY <3>1 DEF OwnersAreUnique
    <3>. QED
      BY <3>1, <3>2, <3>3, <3>4, <3>5, <1>4
  <2>. QED
    BY <2>1, <2>2
<1>14. OwnersAreCurrent'
  <2>. SUFFICES ASSUME NEW v \in Workers, InConnector(v)'
                PROVE  LET r == record[worker[v].effect] IN
                       (/\ worker[v].version <= r.version
                        /\ worker[v].version = r.version =>
                            /\ r.state = "Unknown" /\ r.event = "entry"
                            /\ r.attempt = worker[v].attempt
                            /\ r.deadline = worker[v].deadline
                            /\ r.attempt \notin r.receipts
                        /\ MaySend(v) => worker[v].version = r.version)'
    BY DEF OwnersAreCurrent
  <2>1. CASE v = w
    <3>1. record[e].version + 1 \in Nat
      BY <1>2 DEF Records
    <3>2. record'[worker'[v].effect] = next
      BY <2>1, <1>5, <1>6
    <3>3. worker'[v].version = next.version /\ next.version <= next.version
      BY <2>1, <3>1, <1>3, <1>6
    <3>. QED
      BY <2>1, <3>2, <3>3, <1>3, <1>6, <1>7
  <2>2. CASE v # w /\ worker[v].effect # e
    <3>1. worker'[v] = worker[v] /\ InConnector(v) /\ worker[v].effect \in Effects
      BY <2>2, <1>6, <1>8, WorkerTypes DEF InConnector
    <3>. QED
      BY <2>2, <3>1, <1>5, <1>8 DEF OwnersAreCurrent
  <2>3. CASE v # w /\ worker[v].effect = e
    <3>1. worker'[v] = worker[v] /\ InConnector(v)
      BY <2>3, <1>6, <1>8
    <3>2. worker[v].version \in Nat /\ record[e].version \in Nat
      BY <3>1, <1>2, WorkerTypes DEF InConnector, Records
    <3>3. ~MaySend(v)' /\ worker[v].version < next.version
          /\ next.version \in Nat
      BY <2>3, <3>1, <3>2, <1>3, <1>8, <1>10
    <3>. QED
      BY <2>3, <3>1, <3>2, <3>3, <1>5
  <2>. QED
    BY <2>1, <2>2, <2>3
<1>15. PersistsAreCurrent'
  <2>. SUFFICES ASSUME NEW v \in Workers, (worker[v].pc = "persist")'
                PROVE  LET f == worker[v].effect
                           r == record[f]
                           n == worker[v].next IN
                       (/\ worker[v].version <= r.version
                        /\ n.version = worker[v].version + 1
                        /\ worker[v].version = r.version =>
                            /\ r.state \notin OpenStates
                            /\ n.attempt = r.attempt /\ n.receipts = r.receipts
                            /\ n.event = "other"
                            /\ n.state \in OpenStates =>
                                n.state = "AuthorizedForRetry" /\ ~Live(f)
                            /\ r.state = "Unknown" =>
                                \A u \in Workers :
                                    MaySend(u) => worker[u].effect # f)'
    BY DEF PersistsAreCurrent
  <2>1. v # w /\ worker'[v] = worker[v] /\ worker[v].pc = "persist"
        /\ worker[v].effect \in Effects /\ worker[v].version \in Nat
    BY <1>6, WorkerTypes
  <2>2. CASE worker[v].effect # e
    <3>1. record'[worker[v].effect] = record[worker[v].effect]
      BY <2>1, <2>2, <1>5
    <3>2. \A u \in Workers : MaySend(u)' /\ worker'[u].effect = worker[v].effect
            => MaySend(u) /\ worker[u].effect = worker[v].effect
      BY <2>2, <1>6, <1>8
    <3>. QED
      BY <2>1, <3>1, <3>2, <1>9 DEF PersistsAreCurrent
  <2>3. CASE worker[v].effect = e
    <3>1. worker[v].version # record[e].version
      BY <2>1, <2>3, <1>4 DEF PersistsAreCurrent, OpenStates
    <3>2. worker[v].version <= record[e].version
          /\ worker[v].next.version = worker[v].version + 1
      BY <2>1, <2>3 DEF PersistsAreCurrent
    <3>3. record[e].version \in Nat
      BY <1>2 DEF Records
    <3>4. worker[v].version < next.version /\ next.version \in Nat
      BY <3>1, <3>2, <3>3, <2>1, <1>3
    <3>. QED
      BY <3>2, <3>4, <2>1, <2>3, <1>5
  <2>. QED
    BY <2>2, <2>3
<1>16. OneLiveRequest'
  <2>1. ~Idempotent(e) => ~Live(e)
    BY <1>1, <1>4 DEF OneLiveRequest, OpenStates
  <2>. QED
    BY <2>1, <1>1, <1>3, <1>4, <1>5, <1>6, <1>8, <1>9 DEF OneLiveRequest, OpenStates
<1>17. KeysAreUnique'
  BY <1>3, <1>4, <1>5 DEF KeysAreUnique
<1>18. OneSendPerAttempt' /\ Coalesced'
  BY <1>4 DEF OneSendPerAttempt, Coalesced
<1>. QED
  BY <1>11, <1>12, <1>13, <1>14, <1>15, <1>16, <1>17, <1>18

\* The one send of an attempt: while its owner can send, the record is the
\* owner's entry, so no other owner, no computed record and no other live
\* request of the effect stands beside it.
LEMMA SendKernel ==
    ASSUME TypeOK, KernelInv, NEW w \in Workers, ConnectorSend(w)
    PROVE  KernelInv'
<1>. DEFINE e == worker[w].effect
            a == worker[w].attempt
<1>. USE DEF KernelInv
<1>1. /\ worker[w].pc = "entered" /\ clock < worker[w].deadline
      /\ worker' = [worker EXCEPT ![w] = [worker[w] EXCEPT !.pc = "sent"]]
      /\ request' = [request EXCEPT ![e][a] = "inflight"]
      /\ sends' = [sends EXCEPT ![e][a] = @ + 1]
      /\ UNCHANGED <<record, clock>>
  BY DEF ConnectorSend, Become
<1>2. InConnector(w) /\ MaySend(w)
  BY <1>1 DEF InConnector, MaySend
<1>3. e \in Effects /\ a \in Nat /\ worker[w].version \in Nat
  BY <1>1, WorkerTypes
<1>4. /\ record[e].state = "Unknown" /\ record[e].attempt = a
      /\ worker[w].version = record[e].version
  BY <1>2 DEF OwnersAreCurrent
<1>5. a \in AttemptNumbers /\ sends[e][a] = 0
  <2>1. a \in 1 .. record[e].attempt /\ sends[e][a] = 0
    BY <1>1, <1>2 DEF OwnersAreUnique
  <2>2. record[e].attempt <= MaxAttempts /\ record[e].attempt \in Nat
    BY <1>3 DEF AttemptsInOrder, TypeOK, Records
  <2>. QED
    BY <2>1, <2>2, <1>3, ConstantsAssumption DEF AttemptNumbers
<1>6. /\ worker'[w].pc = "sent" /\ worker'[w].effect = e
      /\ worker'[w].attempt = a /\ worker'[w].version = worker[w].version
      /\ worker'[w].deadline = worker[w].deadline
      /\ \A v \in Workers : v # w => worker'[v] = worker[v]
  <2>. DEFINE Owners == [pc : {"entered", "sent"}, effect : Effects,
                         attempt : Nat, version : Nat, deadline : Nat]
  <2>1. worker[w] \in Owners
    BY <1>1, WorkerTypes DEF WorkerStates, Idle
  <2>2. /\ worker'[w] = [worker[w] EXCEPT !.pc = "sent"]
        /\ \A v \in Workers : v # w => worker'[v] = worker[v]
    BY <1>1 DEF TypeOK
  <2>. QED
    BY <2>1, <2>2
<1>7. \A f \in Effects, b \in AttemptNumbers :
        IF f = e /\ b = a
          THEN request'[f][b] = "inflight" /\ sends'[f][b] = 1
          ELSE request'[f][b] = request[f][b] /\ sends'[f][b] = sends[f][b]
  BY <1>1, <1>3, <1>5 DEF TypeOK
<1>8. \A v \in Workers : InConnector(v)' <=> InConnector(v)
  BY <1>2, <1>6 DEF InConnector
<1>9. \A v \in Workers : MaySend(v)' => v # w /\ MaySend(v)
  BY <1>1, <1>6 DEF MaySend
<1>10. \A v \in Workers : v # w /\ MaySend(v) => worker[v].effect # e
  <2>. SUFFICES ASSUME NEW v \in Workers, v # w, MaySend(v), worker[v].effect = e
                PROVE  FALSE
    OBVIOUS
  <2>1. InConnector(v)
    BY DEF MaySend, InConnector
  <2>2. worker[v].attempt = a
    BY <2>1, <1>4 DEF OwnersAreCurrent
  <2>. QED
    BY <2>1, <2>2, <1>2 DEF OwnersAreUnique
<1>. HIDE DEF e, a
<1>11. \A f \in Effects : f # e => (Live(f)' <=> Live(f))
  BY <1>7 DEF Live
<1>12. FutureUnsent'
  <2>. SUFFICES ASSUME NEW f \in Effects, NEW b \in AttemptNumbers,
                       \/ b > record[f].attempt
                       \/ b = record[f].attempt /\ record[f].state = "Dispatching"
                PROVE  sends'[f][b] = 0 /\ request'[f][b] = "none"
    BY <1>1 DEF FutureUnsent
  <2>1. ~(f = e /\ b = a)
    BY <1>3, <1>4
  <2>. QED
    BY <2>1, <1>7 DEF FutureUnsent
<1>13. OneSendPerAttempt'
  BY <1>7 DEF OneSendPerAttempt
<1>14. OwnersAreUnique'
  <2>. SUFFICES ASSUME NEW v \in Workers, InConnector(v)'
                PROVE  LET f == worker[v].effect
                           b == worker[v].attempt IN
                       (/\ b \in 1 .. record[f].attempt
                        /\ record[f].state = "Dispatching" => b # record[f].attempt
                        /\ worker[v].pc = "entered" => sends[f][b] = 0
                        /\ \A u \in Workers :
                            InConnector(u) /\ worker[u].effect = f
                            /\ worker[u].attempt = b => u = v)'
    BY DEF OwnersAreUnique
  <2>1. InConnector(v) /\ worker[v].effect \in Effects /\ worker[v].attempt \in Nat
    BY <1>8, WorkerTypes DEF InConnector
  <2>2. worker'[v].effect = worker[v].effect /\ worker'[v].attempt = worker[v].attempt
    BY <1>6 DEF e, a
  <2>3. worker[v].attempt \in 1 .. record[worker[v].effect].attempt
        /\ (record[worker[v].effect].state = "Dispatching" =>
                worker[v].attempt # record[worker[v].effect].attempt)
    BY <2>1 DEF OwnersAreUnique
  <2>4. worker[v].attempt \in AttemptNumbers
    <3>1. record[worker[v].effect].attempt <= MaxAttempts
          /\ record[worker[v].effect].attempt \in Nat
      BY <2>1 DEF AttemptsInOrder, TypeOK, Records
    <3>. QED
      BY <2>1, <2>3, <3>1, ConstantsAssumption DEF AttemptNumbers
  <2>5. worker'[v].pc = "entered" =>
            sends'[worker[v].effect][worker[v].attempt] = 0
    <3>. SUFFICES ASSUME worker'[v].pc = "entered"
                  PROVE  sends'[worker[v].effect][worker[v].attempt] = 0
      OBVIOUS
    <3>1. v # w /\ worker[v].pc = "entered"
      BY <1>6
    <3>2. ~(worker[v].effect = e /\ worker[v].attempt = a)
      BY <3>1, <2>1, <1>2 DEF OwnersAreUnique, e, a
    <3>. QED
      BY <3>1, <3>2, <2>1, <2>4, <1>7 DEF OwnersAreUnique
  <2>6. \A u \in Workers :
            InConnector(u)' /\ worker'[u].effect = worker[v].effect
            /\ worker'[u].attempt = worker[v].attempt => u = v
    BY <2>1, <1>6, <1>8 DEF OwnersAreUnique, e, a
  <2>. QED
    BY <2>2, <2>3, <2>5, <2>6, <1>1
<1>15. OwnersAreCurrent'
  <2>1. \A v \in Workers : /\ worker'[v].effect = worker[v].effect
                           /\ worker'[v].attempt = worker[v].attempt
                           /\ worker'[v].version = worker[v].version
                           /\ worker'[v].deadline = worker[v].deadline
    BY <1>6 DEF e, a
  <2>. QED
    BY <2>1, <1>1, <1>8, <1>9 DEF OwnersAreCurrent
<1>16. PersistsAreCurrent'
  <2>. SUFFICES ASSUME NEW v \in Workers, (worker[v].pc = "persist")'
                PROVE  LET f == worker[v].effect
                           r == record[f]
                           n == worker[v].next IN
                       (/\ worker[v].version <= r.version
                        /\ n.version = worker[v].version + 1
                        /\ worker[v].version = r.version =>
                            /\ r.state \notin OpenStates
                            /\ n.attempt = r.attempt /\ n.receipts = r.receipts
                            /\ n.event = "other"
                            /\ n.state \in OpenStates =>
                                n.state = "AuthorizedForRetry" /\ ~Live(f)
                            /\ r.state = "Unknown" =>
                                \A u \in Workers :
                                    MaySend(u) => worker[u].effect # f)'
    BY DEF PersistsAreCurrent
  <2>1. v # w /\ worker'[v] = worker[v] /\ worker[v].pc = "persist"
        /\ worker[v].effect \in Effects
    BY <1>6, WorkerTypes
  <2>2. worker[v].version = record[worker[v].effect].version =>
            worker[v].effect # e
    BY <2>1, <1>2, <1>4 DEF PersistsAreCurrent, e
  <2>3. \A u \in Workers : MaySend(u)' => worker'[u] = worker[u] /\ MaySend(u)
    BY <1>6, <1>9
  <2>. QED
    BY <2>1, <2>2, <2>3, <1>1, <1>11 DEF PersistsAreCurrent
<1>17. OneLiveRequest'
  <2>. SUFFICES ASSUME NEW f \in Effects, ~Idempotent(f)
                PROVE  (/\ \A b, c \in AttemptNumbers :
                            /\ request[f][b] \in {"inflight", "mutated"}
                            /\ request[f][c] \in {"inflight", "mutated"}
                            => b = c
                        /\ record[f].state \in OpenStates => ~Live(f)
                        /\ \A v \in Workers :
                            MaySend(v) /\ worker[v].effect = f => ~Live(f))'
    BY DEF OneLiveRequest, Idempotent
  <2>1. \A v \in Workers : MaySend(v)' => worker'[v] = worker[v] /\ MaySend(v)
    BY <1>6, <1>9
  <2>2. CASE f # e
    BY <2>1, <2>2, <1>1, <1>7, <1>11 DEF OneLiveRequest
  <2>3. CASE f = e
    <3>1. ~Live(e)
      BY <2>3, <1>2, <1>3 DEF OneLiveRequest, e
    <3>2. \A b \in AttemptNumbers :
            request'[e][b] \in {"inflight", "mutated"} => b = a
      BY <3>1, <1>3, <1>7 DEF Live
    <3>. QED
      BY <2>1, <2>3, <3>2, <1>1, <1>4, <1>9, <1>10 DEF OpenStates
  <2>. QED
    BY <2>2, <2>3
<1>18. Coalesced'
  BY <1>7 DEF Coalesced, Idempotent
<1>. QED
  BY <1>1, <1>12, <1>13, <1>14, <1>15, <1>16, <1>17, <1>18
  DEF AttemptsInOrder, KeysAreUnique

\* Every step of a worker keeps the invariant.
LEMMA WorkKernel ==
    ASSUME TypeOK, KernelInv, NEW w \in Workers, Work(w)
    PROVE  KernelInv'
<1>. TypeOK'
  BY WorkTypes
<1>0. ASSUME NEW s, s.pc \in {"idle", "permit"}, Become(w, s)
      PROVE  /\ \A v \in Workers :
                    worker'[v] = worker[v] \/ worker'[v].pc \in {"idle", "permit"}
             /\ worker'[w].pc \in {"idle", "permit"}
  BY <1>0 DEF Become, TypeOK
<1>1. ASSUME NEW auth \in Authorizations, NEW to \in States,
             DispatchWithoutSend(w, auth, to)
      PROVE  KernelInv'
  <2>. DEFINE e == worker[w].effect
              next == Receipted(record[e], to, auth.now)
  <2>1. e \in Effects /\ auth.now \in Nat
    BY <1>1, WorkerTypes, AuthorizationTypes DEF DispatchWithoutSend
  <2>2. record[e] \in Records
    BY <2>1 DEF TypeOK
  <2>3. /\ next \in Records /\ next.version = record[e].version + 1
        /\ next.attempt = record[e].attempt /\ next.state = to
        /\ next.receipts = record[e].receipts \cup {record[e].attempt}
    BY <2>1, <2>2, ReceiptedFacts
  <2>4. /\ record[e].state = "Dispatching" /\ to \in {"Failed", "Unknown"}
        /\ record' = [record EXCEPT ![e] = next]
        /\ Become(w, Idle) /\ UNCHANGED <<request, sends, clock>>
    BY <1>1 DEF DispatchWithoutSend, VerifyPermit, Write, RemoteUnchanged
  <2>5. record[e].attempt > 0
    BY <2>1, <2>4 DEF KernelInv, AttemptsInOrder
  <2>. HIDE DEF e, next
  <2>6. \A v \in Workers :
            worker'[v] = worker[v] \/ worker'[v].pc \in {"idle", "permit"}
    BY <2>4, <1>0 DEF Idle
  <2>. QED
    BY <2>1, <2>3, <2>4, <2>5, <2>6, Advance DEF OpenStates
<1>2. ASSUME NEW auth \in Authorizations, NEW e \in Effects,
             NEW deadline \in 1 .. Intent[e].expires,
             ClaimDispatch(w, e, auth, deadline)
      PROVE  KernelInv'
  <2>. DEFINE next == Claimed(record[e], deadline, auth.now)
  <2>1. deadline \in Nat /\ auth.now \in Nat /\ record[e] \in Records
    BY ConstantsAssumption, AuthorizationTypes DEF TypeOK, Intents
  <2>2. /\ next \in Records /\ next.version = record[e].version + 1
        /\ next.attempt = record[e].attempt + 1 /\ next.state = "Dispatching"
        /\ next.receipts = record[e].receipts
    <3>1. PICK r \in Records, d \in Nat, now \in Nat :
            r = record[e] /\ d = deadline /\ now = auth.now
      BY <2>1
    <3>2. /\ Claimed(r, d, now) \in Records
          /\ Claimed(r, d, now).version = r.version + 1
          /\ Claimed(r, d, now).attempt = r.attempt + 1
          /\ Claimed(r, d, now).state = "Dispatching"
          /\ Claimed(r, d, now).receipts = r.receipts
      BY ClaimedFacts
    <3>. QED
      BY <3>1, <3>2
  <2>3. /\ record[e].state \in {"Authorized", "AuthorizedForRetry"}
        /\ record[e].attempt < MaxAttempts
        /\ record' = [record EXCEPT ![e] = next]
        /\ Become(w, Permit(e, next)) /\ UNCHANGED <<request, sends, clock>>
    BY <1>2 DEF ClaimDispatch, ValidateRetryClaim, Write, RemoteUnchanged
  <2>4. next.attempt <= MaxAttempts
    BY <2>1, <2>2, <2>3, ConstantsAssumption DEF Records
  <2>5. ~Idempotent(e) => ~Live(e)
    BY <2>3 DEF KernelInv, OneLiveRequest, OpenStates
  <2>. HIDE DEF next
  <2>6. \A v \in Workers :
            worker'[v] = worker[v] \/ worker'[v].pc \in {"idle", "permit"}
    BY <2>3, <1>0 DEF Permit
  <2>. QED
    BY <2>2, <2>3, <2>4, <2>5, <2>6, Advance
<1>3. ASSUME NEW auth \in Authorizations, NEW e \in Effects,
             NEW answer \in Lookups, Reconcile(w, e, auth, answer)
      PROVE  KernelInv'
  <2>. DEFINE to == ReconcileTarget(e, answer)
              t == Transition(record[e], to, auth.now)
              next == [t EXCEPT !.lookups = @ + 1, !.lastLookup = answer]
  <2>1. record[e] \in Records /\ auth.now \in Nat /\ auth.now <= clock /\ to \in States
    BY <1>3, AuthorizationTypes, TargetIsState DEF TypeOK, Reconcile, MayTransition
  <2>2. /\ t \in Records /\ t.version = record[e].version + 1
        /\ t.attempt = record[e].attempt /\ t.state = to /\ t.event = "other"
        /\ t.receipts = record[e].receipts
    BY <2>1, TransitionFacts
  <2>3. /\ record[e].state = "Unknown" /\ ~OwnerMaySend(record[e], auth.now)
        /\ answer \in LookupAnswers(e)
        /\ Become(w, Persisting(e, next, {}))
        /\ UNCHANGED <<record, reserved, clock>> /\ RemoteUnchanged
    BY <1>3 DEF Reconcile, ReconcileEligible
  <2>4. to \in OpenStates => to = "AuthorizedForRetry" /\ ~Live(e)
    BY <2>3 DEF ReconcileTarget, OpenStates, LookupAnswers
  <2>5. \A v \in Workers : MaySend(v) => worker[v].effect # e
    BY <2>1, <2>3, OwnerIsOver
  <2>6. PICK n \in Nat : n = t.lookups + 1
    BY <2>2 DEF Records
  <2>. HIDE DEF t, to
  <2>7. /\ next \in Records /\ next.version = record[e].version + 1
        /\ next.attempt = record[e].attempt /\ next.state = to
        /\ next.event = "other" /\ next.receipts = record[e].receipts
    BY <2>2, <2>6 DEF Records
  <2>. HIDE DEF next
  <2>. QED
    BY <2>3, <2>4, <2>5, <2>7, ComputeKernel DEF OpenStates
<1>4. ASSUME NEW auth \in Authorizations, NEW e \in Effects, NEW child \in Effects,
             RequestCompensation(w, e, child, auth)
      PROVE  KernelInv'
  <2>. DEFINE t == Transition(record[e], "CompensationPending", auth.now)
              next == [t EXCEPT !.link = {child}]
  <2>1. record[e] \in Records /\ auth.now \in Nat /\ "CompensationPending" \in States
    BY AuthorizationTypes DEF TypeOK, States
  <2>2. /\ t \in Records /\ t.version = record[e].version + 1
        /\ t.attempt = record[e].attempt /\ t.state = "CompensationPending"
        /\ t.event = "other" /\ t.receipts = record[e].receipts
    BY <2>1, TransitionFacts
  <2>3. /\ CanTransition(record[e].state, "CompensationPending")
        /\ Become(w, Persisting(e, next, {child}))
        /\ UNCHANGED <<record, reserved, clock>> /\ RemoteUnchanged
    BY <1>4 DEF RequestCompensation, MayTransition
  <2>4. record[e].state = "Succeeded"
    BY <2>3 DEF CanTransition, Transitions
  <2>. HIDE DEF t
  <2>5. /\ next \in Records /\ next.version = record[e].version + 1
        /\ next.attempt = record[e].attempt /\ next.state = "CompensationPending"
        /\ next.event = "other" /\ next.receipts = record[e].receipts
    BY <2>2 DEF Records
  <2>. HIDE DEF next
  <2>. QED
    BY <2>3, <2>4, <2>5, ComputeKernel DEF OpenStates
<1>5. ASSUME NEW auth \in Authorizations, NEW e \in Effects, NEW to \in States,
             \/ BeginCompensation(w, e, auth) /\ to = "Compensating"
             \/ ResolveCompensation(w, e, to, auth)
      PROVE  KernelInv'
  <2>. DEFINE next == Transition(record[e], to, auth.now)
  <2>1. record[e] \in Records /\ auth.now \in Nat
    BY AuthorizationTypes DEF TypeOK
  <2>2. /\ next \in Records /\ next.version = record[e].version + 1
        /\ next.attempt = record[e].attempt /\ next.state = to
        /\ next.event = "other" /\ next.receipts = record[e].receipts
    BY <2>1, TransitionFacts
  <2>3. /\ record[e].state \in {"CompensationPending", "Compensating"}
        /\ CanTransition(record[e].state, to)
        /\ Become(w, Persisting(e, next, {}))
        /\ UNCHANGED <<record, reserved, clock>> /\ RemoteUnchanged
    BY <1>5 DEF BeginCompensation, ResolveCompensation, MayTransition
  <2>4. to \notin OpenStates
    BY <2>3 DEF CanTransition, Transitions, OpenStates
  <2>. HIDE DEF next
  <2>. QED
    BY <2>2, <2>3, <2>4, ComputeKernel DEF OpenStates
<1>6. ASSUME NEW e \in Effects, ResumeDispatch(w, e)
      PROVE  KernelInv'
  BY <1>0, <1>6, RetireKernel DEF ResumeDispatch, Permit, RemoteUnchanged
<1>7. ASSUME DispatchRefused(w) \/ Crash(w)
      PROVE  KernelInv'
  BY <1>0, <1>7, RetireKernel DEF DispatchRefused, Crash, Idle, RemoteUnchanged
<1>8. ASSUME NEW to \in States, FinalizeObservation(w, to)
      PROVE  KernelInv'
  <2>. DEFINE e == worker[w].effect
              next == Receipted(record[e], to, record[e].at)
  <2>1. /\ InConnector(w) /\ e \in Effects
        /\ Become(w, Idle) /\ UNCHANGED <<request, sends, clock>>
        /\ to \in {"Unknown", "Succeeded", "Failed"}
    BY <1>8, WorkerTypes
    DEF FinalizeObservation, Observations, InConnector, RemoteUnchanged
  <2>2. /\ \A v \in Workers :
                worker'[v] = worker[v] \/ worker'[v].pc \in {"idle", "permit"}
        /\ worker'[w].pc \in {"idle", "permit"}
    BY <2>1, <1>0 DEF Idle
  <2>3. CASE record[e].version # worker[w].version
    BY <1>8, <2>1, <2>2, <2>3, RetireKernel DEF FinalizeObservation
  <2>4. CASE record[e].version = worker[w].version
    <3>1. record[e] \in Records /\ record[e].at \in Nat
      BY <2>1 DEF TypeOK, Records
    <3>2. /\ next \in Records /\ next.version = record[e].version + 1
          /\ next.attempt = record[e].attempt /\ next.state = to
          /\ next.receipts = record[e].receipts \cup {record[e].attempt}
      BY <3>1, ReceiptedFacts
    <3>3. record' = [record EXCEPT ![e] = next]
      BY <1>8, <2>4 DEF FinalizeObservation, Write
    <3>4. record[e].state = "Unknown" /\ record[e].attempt = worker[w].attempt
      BY <2>1, <2>4 DEF KernelInv, OwnersAreCurrent
    <3>5. record[e].attempt > 0
      <4>1. worker[w].attempt \in 1 .. record[e].attempt
        BY <2>1 DEF KernelInv, OwnersAreUnique
      <4>. QED
        BY <4>1, <3>1 DEF Records
    <3>6. \A v \in Workers : MaySend(v) /\ worker[v].effect = e => v = w
      <4>. SUFFICES ASSUME NEW v \in Workers, MaySend(v), worker[v].effect = e
                    PROVE  v = w
        OBVIOUS
      <4>1. InConnector(v)
        BY DEF MaySend, InConnector
      <4>2. worker[v].attempt = record[e].attempt
        BY <4>1 DEF KernelInv, OwnersAreCurrent
      <4>. QED
        BY <4>1, <4>2, <3>4, <2>1 DEF KernelInv, OwnersAreUnique
    <3>. HIDE DEF e, next
    <3>. QED
      BY <2>1, <2>2, <3>2, <3>3, <3>4, <3>5, <3>6, Advance DEF OpenStates
  <2>. QED
    BY <2>3, <2>4
<1>9. ASSUME Persist(w)
      PROVE  KernelInv'
  <2>. DEFINE e == worker[w].effect
              next == worker[w].next
  <2>1. /\ worker[w].pc = "persist" /\ Become(w, Idle)
        /\ UNCHANGED <<request, sends, clock>>
        /\ \/ UNCHANGED record
           \/ /\ record[e].version = worker[w].version
              /\ record' = [record EXCEPT ![e] = next]
    BY <1>9 DEF Persist, Write, RemoteUnchanged
  <2>2. /\ \A v \in Workers :
                worker'[v] = worker[v] \/ worker'[v].pc \in {"idle", "permit"}
        /\ worker'[w].pc \in {"idle", "permit"}
    BY <2>1, <1>0 DEF Idle
  <2>3. CASE UNCHANGED record
    BY <2>1, <2>2, <2>3, RetireKernel
  <2>4. CASE /\ record[e].version = worker[w].version
             /\ record' = [record EXCEPT ![e] = next]
    <3>1. e \in Effects /\ next \in Records
      BY <2>1, WorkerTypes
    <3>2. /\ record[e].state \notin OpenStates
          /\ next.version = record[e].version + 1
          /\ next.attempt = record[e].attempt /\ next.receipts = record[e].receipts
          /\ next.state \in OpenStates => next.state = "AuthorizedForRetry" /\ ~Live(e)
          /\ record[e].state = "Unknown" =>
                \A v \in Workers : MaySend(v) => worker[v].effect # e
      BY <2>1, <2>4 DEF KernelInv, PersistsAreCurrent
    <3>3. /\ record[e].state # "Absent" /\ next.state # "Absent"
          /\ next.state # "Dispatching"
      BY <3>2 DEF OpenStates
    <3>. HIDE DEF e, next
    <3>. QED
      BY <2>1, <2>2, <2>4, <3>1, <3>2, <3>3, Advance
  <2>. QED
    BY <2>1, <2>3, <2>4
<1>10. "Compensating" \in States
  BY DEF States
<1>. QED
  BY <1>1, <1>2, <1>3, <1>4, <1>5, <1>6, <1>7, <1>8, <1>9, <1>10,
     AcquireKernel, SendKernel DEF Work

\* The remote settles a request: fewer requests are live, and an idempotent
\* remote changes only if it has not yet.
LEMMA RemoteKernel ==
    ASSUME TypeOK, KernelInv, Remote
    PROVE  KernelInv'
<1>. USE DEF KernelInv
<1>. PICK e \in Effects, a \in AttemptNumbers, to \in RequestStates :
        RemoteProcess(e, a, to)
  BY DEF Remote
<1>1. /\ request[e][a] = "inflight"
      /\ to \in {"mutated", "coalesced", "rejected", "lost"}
      /\ Idempotent(e) /\ to = "mutated" => ~Mutated(e)
      /\ request' = [request EXCEPT ![e][a] = to]
      /\ UNCHANGED <<record, worker, sends, clock>>
  BY DEF RemoteProcess
<1>2. \A f \in Effects, b \in AttemptNumbers :
        request'[f][b] = IF f = e /\ b = a THEN to ELSE request[f][b]
  BY <1>1 DEF TypeOK
<1>3. \A f \in Effects, b \in AttemptNumbers :
        request'[f][b] \in {"inflight", "mutated"} =>
            request[f][b] \in {"inflight", "mutated"}
  BY <1>1, <1>2
<1>4. \A f \in Effects : Live(f)' => Live(f)
  BY <1>3 DEF Live
<1>5. (\A v \in Workers : InConnector(v)' <=> InConnector(v))
      /\ (\A v \in Workers : MaySend(v)' <=> MaySend(v))
  BY <1>1 DEF InConnector, MaySend
<1>6. FutureUnsent'
  <2>1. ~(a > record[e].attempt
          \/ (a = record[e].attempt /\ record[e].state = "Dispatching"))
    BY <1>1 DEF FutureUnsent
  <2>. QED
    BY <2>1, <1>1, <1>2 DEF FutureUnsent
<1>7. PersistsAreCurrent'
  BY <1>1, <1>4, <1>5, WorkerTypes DEF PersistsAreCurrent
<1>8. OneLiveRequest'
  BY <1>1, <1>3, <1>4, <1>5 DEF OneLiveRequest
<1>9. Coalesced'
  <2>1. Idempotent(e) /\ to = "mutated" =>
            \A b \in AttemptNumbers : request[e][b] # "mutated"
    BY <1>1 DEF Mutated
  <2>. QED
    BY <2>1, <1>2 DEF Coalesced
<1>10. OwnersAreUnique' /\ OwnersAreCurrent'
  BY <1>1, <1>5 DEF OwnersAreUnique, OwnersAreCurrent
<1>. QED
  BY <1>1, <1>6, <1>7, <1>8, <1>9, <1>10
  DEF AttemptsInOrder, OneSendPerAttempt, KeysAreUnique

\* As time passes fewer workers may send.
LEMMA TickKernel ==
    ASSUME TypeOK, KernelInv, Tick
    PROVE  KernelInv'
<1>1. UNCHANGED <<record, worker, request, sends>> /\ clock' = clock + 1
  BY DEF Tick, RemoteUnchanged
<1>2. \A v \in Workers : InConnector(v)' <=> InConnector(v)
  BY <1>1 DEF InConnector
<1>3. \A v \in Workers : MaySend(v)' => MaySend(v)
  BY <1>1, WorkerTypes DEF MaySend, TypeOK
<1>4. \A f \in Effects : Live(f)' <=> Live(f)
  BY <1>1 DEF Live
<1>5. OwnersAreUnique' /\ OwnersAreCurrent'
  BY <1>1, <1>2, <1>3 DEF KernelInv, OwnersAreUnique, OwnersAreCurrent
<1>6. PersistsAreCurrent'
  BY <1>1, <1>3, <1>4, WorkerTypes DEF KernelInv, PersistsAreCurrent
<1>7. OneLiveRequest'
  BY <1>1, <1>3, <1>4 DEF KernelInv, OneLiveRequest
<1>. QED
  BY <1>1, <1>5, <1>6, <1>7
  DEF KernelInv, AttemptsInOrder, FutureUnsent, OneSendPerAttempt, Coalesced,
      KeysAreUnique

\* A stuttering step keeps the invariant.
LEMMA StutterKernel ==
    ASSUME KernelInv, UNCHANGED vars
    PROVE  KernelInv'
<1>1. UNCHANGED <<record, worker, request, sends, clock>>
  BY DEF vars
<1>2. (\A v \in Workers : InConnector(v)' <=> InConnector(v))
      /\ (\A v \in Workers : MaySend(v)' <=> MaySend(v))
      /\ (\A f \in Effects : Live(f)' <=> Live(f))
  BY <1>1 DEF InConnector, MaySend, Live
<1>3. OwnersAreUnique' /\ OwnersAreCurrent'
  BY <1>1, <1>2 DEF KernelInv, OwnersAreUnique, OwnersAreCurrent
<1>4. PersistsAreCurrent'
  BY <1>1, <1>2 DEF KernelInv, PersistsAreCurrent, Live, MaySend
<1>5. OneLiveRequest'
  BY <1>1, <1>2 DEF KernelInv, OneLiveRequest
<1>. QED
  BY <1>1, <1>3, <1>4, <1>5
  DEF KernelInv, AttemptsInOrder, FutureUnsent, OneSendPerAttempt, Coalesced,
      KeysAreUnique

\* KernelInv holds in every state the kernel, its crashing workers and the
\* remote service can reach.
THEOREM KernelIsInvariant == Spec => []KernelInv
<1>1. Init => KernelInv
  BY InitKernel
<1>2. TypeOK /\ KernelInv /\ [Next]_vars => KernelInv'
  BY JournalKernel, WorkKernel, RemoteKernel, TickKernel, StutterKernel DEF Next
<1>. QED
  BY <1>1, <1>2, TypesAreInvariant, PTL DEF Spec

\* However many workers resume the same durable claim, each attempt puts at
\* most one request on the wire.
THEOREM OneSendPerAttemptHolds == Spec => []OneSendPerAttempt
<1>1. KernelInv => OneSendPerAttempt
  BY DEF KernelInv
<1>. QED
  BY <1>1, KernelIsInvariant, PTL

\* Under one idempotency key the remote changes at most once.
THEOREM AtMostOneMutationHolds == Spec => []AtMostOneMutation
<1>1. TypeOK /\ KernelInv => AtMostOneMutation
  <2>. SUFFICES ASSUME TypeOK, KernelInv, NEW e \in Effects, NEW f \in Effects,
                       NEW a \in AttemptNumbers, NEW b \in AttemptNumbers,
                       Intent[e].key = Intent[f].key,
                       request[e][a] = "mutated", request[f][b] = "mutated"
                PROVE  e = f /\ a = b
    BY DEF AtMostOneMutation
  <2>1. \A g \in Effects, c \in AttemptNumbers :
            request[g][c] = "mutated" => record[g].state # "Absent"
    BY ConstantsAssumption
    DEF KernelInv, FutureUnsent, AttemptsInOrder, AttemptNumbers
  <2>2. e = f
    BY <2>1 DEF KernelInv, KeysAreUnique
  <2>3. a = b
    BY <2>2 DEF KernelInv, OneLiveRequest, Coalesced
  <2>. QED
    BY <2>2, <2>3
<1>. QED
  BY <1>1, TypesAreInvariant, KernelIsInvariant, PTL

\* A request goes on the wire only for the current attempt of an effect that
\* still waits for that attempt's result.
THEOREM SendsAreCurrentHolds == Spec => SendsAreCurrent
<1>. DEFINE Current ==
        \A e \in Effects, a \in AttemptNumbers :
            sends[e][a] # sends'[e][a] =>
                record[e].state = "Unknown" /\ record[e].attempt = a
                /\ a \notin record[e].receipts
<1>1. ASSUME TypeOK, KernelInv, NEW w \in Workers, ConnectorSend(w)
      PROVE  Current
  <2>. DEFINE e == worker[w].effect
              a == worker[w].attempt
  <2>1. InConnector(w) /\ MaySend(w) /\ sends' = [sends EXCEPT ![e][a] = @ + 1]
    BY <1>1 DEF ConnectorSend, InConnector, MaySend
  <2>2. /\ record[e].state = "Unknown" /\ record[e].attempt = a
        /\ a \notin record[e].receipts
    BY <1>1, <2>1 DEF KernelInv, OwnersAreCurrent
  <2>3. \A f \in Effects, b \in AttemptNumbers :
            ~(f = e /\ b = a) => sends'[f][b] = sends[f][b]
    <3>. HIDE DEF e, a
    <3>. QED
      BY <1>1, <2>1 DEF TypeOK
  <2>. HIDE DEF e, a
  <2>. QED
    BY <2>2, <2>3
<1>2. ASSUME NEW e \in Effects, Journal(e)
      PROVE  UNCHANGED sends
  BY <1>2
  DEF Journal, Prepare, RequestApproval, Reject, Cancel, AuthorizeIdempotentRetry,
      ManualResolution, Authorize, Expire, RecoverInflight, Step, RemoteUnchanged
<1>3. ASSUME NEW w \in Workers, Work(w)
      PROVE  ConnectorSend(w) \/ UNCHANGED sends
  <2>1. ASSUME NEW auth, NEW to,
               DispatchWithoutSend(w, auth, to) \/ AcquireDispatchOwnership(w, auth)
        PROVE  UNCHANGED sends
    BY <2>1 DEF DispatchWithoutSend, AcquireDispatchOwnership, RemoteUnchanged
  <2>2. ASSUME NEW e, NEW auth, NEW deadline, NEW answer,
               \/ ClaimDispatch(w, e, auth, deadline)
               \/ Reconcile(w, e, auth, answer)
        PROVE  UNCHANGED sends
    BY <2>2 DEF ClaimDispatch, Reconcile, RemoteUnchanged
  <2>3. ASSUME NEW e, NEW child, NEW to, NEW auth,
               \/ RequestCompensation(w, e, child, auth)
               \/ BeginCompensation(w, e, auth)
               \/ ResolveCompensation(w, e, to, auth)
        PROVE  UNCHANGED sends
    BY <2>3
    DEF RequestCompensation, BeginCompensation, ResolveCompensation, RemoteUnchanged
  <2>4. ASSUME NEW e, NEW to,
               \/ ResumeDispatch(w, e) \/ DispatchRefused(w)
               \/ FinalizeObservation(w, to) \/ Persist(w) \/ Crash(w)
        PROVE  UNCHANGED sends
    BY <2>4
    DEF ResumeDispatch, DispatchRefused, FinalizeObservation, Persist, Crash,
        RemoteUnchanged
  <2>. QED
    BY <1>3, <2>1, <2>2, <2>3, <2>4 DEF Work
<1>4. ASSUME Remote \/ Tick
      PROVE  UNCHANGED sends
  BY <1>4 DEF Remote, RemoteProcess, Tick, RemoteUnchanged
<1>5. TypeOK /\ KernelInv /\ [Next]_vars => [Current]_vars
  <2>. SUFFICES ASSUME TypeOK, KernelInv, Next PROVE Current
    OBVIOUS
  <2>1. CASE UNCHANGED sends
    BY <2>1
  <2>. HIDE DEF Current
  <2>. QED
    BY <2>1, <1>1, <1>2, <1>3, <1>4 DEF Next
<1>. QED
  BY <1>5, TypesAreInvariant, KernelIsInvariant, PTL DEF Spec, SendsAreCurrent

-----------------------------------------------------------------------------
(* What the journal says of what happened.                                 *)

\* Effects that a lookup has to judge.
Judged(e) == Intent[e].policy # "same_key"

\* All that VerdictInv says of r if it is the record of e.
Sound(e, r) ==
    /\ (r.outbox = "claimed") <=> (r.state = "Dispatching")
    /\ (r.outbox = "none") <=> (r.attempt = 0)
    /\ r.receipts \subseteq 1 .. r.attempt
    /\ r.attempt > 0 => r.deadline <= Intent[e].expires
    /\ r.version > 0 => Intent[e].created <= r.at /\ r.at <= clock
    /\ r.state \notin {"Absent", "Prepared"} => r.version > 0
    /\ r.state \in SuccessStates => Mutated(e)
    /\ Judged(e) /\ r.state \in ClosedStates \cup OpenStates => ~Live(e)
    /\ r.state = "Compensated" => \E child \in r.link : Mutated(child)

\* VerdictInv, record by record.
LEMMA VerdictsAreSound ==
    ASSUME VerdictInv
    PROVE  \A e \in Effects : Sound(e, record[e])
  BY DEF VerdictInv, RecordVerifies, JournalStarted, SuccessIsReal,
         ClosedMeansNotExecuted, JudgedAreQuiet, CompensatedIsReal, Sound,
         SuccessStates, ClosedStates, Judged

\* The same of the state a step leads to.
LEMMA SoundVerdicts ==
    ASSUME (\A e \in Effects : Sound(e, record[e]))', OwnersActAlone',
           CoalescedIsReal', UnsentIsNone', LinksAreReserved', CommitsAreTrue'
    PROVE  VerdictInv'
<1>1. RecordVerifies' /\ JournalStarted' /\ SuccessIsReal'
  BY DEF RecordVerifies, JournalStarted, SuccessIsReal, Sound, SuccessStates
<1>2. ClosedMeansNotExecuted' /\ JudgedAreQuiet' /\ CompensatedIsReal'
  BY DEF ClosedMeansNotExecuted, JudgedAreQuiet, CompensatedIsReal, Sound,
         ClosedStates, Judged
<1>. QED
  BY <1>1, <1>2 DEF VerdictInv

\* Nothing is stored, sent or computed.
LEMMA InitVerdicts == Init => VerdictInv
<1>. SUFFICES ASSUME Init PROVE VerdictInv
  OBVIOUS
<1>1. /\ record = [e \in Effects |-> NoRecord] /\ reserved = {}
      /\ worker = [w \in Workers |-> Idle]
      /\ request = [e \in Effects |-> [a \in AttemptNumbers |-> "none"]]
  BY DEF Init
<1>2. ASSUME NEW e \in Effects
      PROVE  Sound(e, record[e])
  <2>1. record[e] = NoRecord /\ ~Live(e)
    BY <1>1 DEF Live
  <2>2. /\ NoRecord.state = "Absent" /\ NoRecord.version = 0
        /\ NoRecord.attempt = 0 /\ NoRecord.receipts = {}
        /\ NoRecord.outbox = "none"
    BY DEF NoRecord
  <2>. QED
    BY <2>1, <2>2 DEF Sound, SuccessStates
<1>3. OwnersActAlone /\ CommitsAreTrue
  BY <1>1 DEF OwnersActAlone, CommitsAreTrue, Idle, InConnector
<1>4. CoalescedIsReal /\ UnsentIsNone
  BY <1>1 DEF CoalescedIsReal, UnsentIsNone
<1>5. LinksAreReserved
  <2>1. \A e \in Effects : record[e].link = {}
    BY <1>1 DEF NoRecord
  <2>. QED
    BY <1>1, <2>1 DEF LinksAreReserved
<1>. QED
  BY <1>2, <1>3, <1>4, <1>5
  DEF VerdictInv, RecordVerifies, JournalStarted, SuccessIsReal,
      ClosedMeansNotExecuted, JudgedAreQuiet, CompensatedIsReal, Sound,
      SuccessStates, ClosedStates, Judged

-----------------------------------------------------------------------------
(* Writing a record.                                                       *)

\* Nobody in the connector, and nobody about to commit, knows the next version
\* of a record, or any version of a record that is not there.
LEMMA NextIsNews ==
    ASSUME TypeOK, KernelInv, NEW e \in Effects, NEW version \in Nat,
           version = record[e].version + 1 \/ record[e].state = "Absent",
           NEW v \in Workers, worker[v].effect = e,
           InConnector(v) \/ worker[v].pc = "persist"
    PROVE  worker[v].version # version
<1>1. record[e] \in Records /\ worker[v].version \in Nat
  BY WorkerTypes DEF TypeOK, InConnector
<1>2. worker[v].version <= record[e].version
  BY DEF KernelInv, OwnersAreCurrent, PersistsAreCurrent
<1>3. record[e].state # "Absent"
  <2>. SUFFICES ASSUME record[e].state = "Absent" PROVE FALSE
    OBVIOUS
  <2>1. record[e].attempt = 0 /\ record[e].version = 0
    BY DEF KernelInv, AttemptsInOrder
  <2>2. CASE InConnector(v)
    BY <2>1, <2>2 DEF KernelInv, OwnersAreUnique
  <2>3. CASE worker[v].pc = "persist"
    BY <2>1, <2>3, <1>1, <1>2 DEF KernelInv, PersistsAreCurrent, OpenStates
  <2>. QED
    BY <2>2, <2>3
<1>. QED
  BY <1>1, <1>2, <1>3 DEF Records

\* Writing a sound next version of one record keeps the verdicts true, if the
\* children it links are reserved; whoever computed or entered with an earlier
\* version has lost the race.
LEMMA SoundWrite ==
    ASSUME TypeOK, KernelInv, VerdictInv, NEW e \in Effects, NEW next \in Records,
           record' = [record EXCEPT ![e] = next],
           UNCHANGED <<request, sends, clock>>,
           \A v \in Workers :
                worker'[v] = worker[v] \/ worker'[v].pc \in {"idle", "permit"},
           next.version = record[e].version + 1 \/ record[e].state = "Absent",
           Sound(e, next),
           LinksAreReserved'
    PROVE  VerdictInv'
<1>1. record[e] \in Records /\ record'[e] = next
      /\ \A f \in Effects : f # e => record'[f] = record[f]
  BY DEF TypeOK
<1>2. \A f \in Effects : (Live(f)' <=> Live(f)) /\ (Mutated(f)' <=> Mutated(f))
  BY DEF Live, Mutated
<1>3. ASSUME NEW f \in Effects
      PROVE  Sound(f, record[f])'
  <2>1. PICK r \in Records : r = record'[f]
    BY <1>1 DEF TypeOK
  <2>2. Sound(f, r)
    BY <1>1, <2>1, VerdictsAreSound
  <2>3. r.link \subseteq Effects
    BY DEF Records
  <2>4. Sound(f, r)'
    BY <2>2, <2>3, <1>2 DEF Sound
  <2>. QED
    BY <2>1, <2>4 DEF Sound
<1>4. OwnersActAlone'
  <2>. SUFFICES ASSUME NEW v \in Workers, InConnector(v)'
                PROVE  LET f == worker[v].effect IN
                       (/\ Intent[f].policy # "same_key"
                        /\ worker[v].version = record[f].version
                        => \A a \in AttemptNumbers :
                            request[f][a] \in {"inflight", "mutated"} =>
                                a = worker[v].attempt /\ worker[v].pc = "sent")'
    BY DEF OwnersActAlone
  <2>1. worker'[v] = worker[v] /\ InConnector(v)
        /\ worker[v].effect \in Effects /\ worker[v].version \in Nat
    BY WorkerTypes DEF InConnector
  <2>2. CASE worker[v].effect # e
    BY <2>1, <2>2, <1>1 DEF VerdictInv, OwnersActAlone
  <2>3. CASE worker[v].effect = e
    <3>1. next.version \in Nat
      BY DEF Records
    <3>2. worker[v].version # next.version
      BY <3>1, <2>1, <2>3, NextIsNews
    <3>. QED
      BY <3>2, <2>1, <2>3, <1>1
  <2>. QED
    BY <2>2, <2>3
<1>5. CommitsAreTrue'
  <2>. SUFFICES ASSUME NEW v \in Workers, (worker[v].pc = "persist")',
                       (worker[v].version = record[worker[v].effect].version)'
                PROVE  LET f == worker[v].effect
                           r == record[f]
                           n == worker[v].next IN
                       (/\ CanTransition(r.state, n.state)
                        /\ n.outbox = r.outbox /\ n.deadline = r.deadline
                        /\ Intent[f].created <= n.at /\ n.at <= clock
                        /\ n.state \in SuccessStates => Mutated(f)
                        /\ n.state \in ClosedStates => ~Live(f)
                        /\ n.link \subseteq r.link \cup worker[v].reserve
                        /\ n.state = "Compensated" =>
                            \E child \in n.link : Mutated(child))'
    BY DEF CommitsAreTrue
  <2>1. worker'[v] = worker[v] /\ worker[v].pc = "persist"
        /\ worker[v].effect \in Effects /\ worker[v].version \in Nat
        /\ worker[v].next \in Records
    BY WorkerTypes
  <2>2. worker[v].effect # e
    <3>. SUFFICES ASSUME worker[v].effect = e PROVE FALSE
      OBVIOUS
    <3>1. next.version \in Nat
      BY DEF Records
    <3>. QED
      BY <3>1, <2>1, <1>1, NextIsNews
  <2>3. record'[worker[v].effect] = record[worker[v].effect]
    BY <2>1, <2>2, <1>1
  <2>4. worker[v].next.link \subseteq Effects
    BY <2>1 DEF Records
  <2>. QED
    BY <2>1, <2>3, <2>4, <1>2 DEF VerdictInv, CommitsAreTrue
<1>6. CoalescedIsReal' /\ UnsentIsNone'
  BY <1>2 DEF VerdictInv, CoalescedIsReal, UnsentIsNone
<1>. QED
  BY <1>3, <1>4, <1>5, <1>6, SoundVerdicts

\* A write that links no new child keeps the links reserved.
LEMMA LinksKept ==
    ASSUME TypeOK, LinksAreReserved, NEW e \in Effects, NEW next \in Records,
           record' = [record EXCEPT ![e] = next], UNCHANGED reserved,
           next.link \subseteq record[e].link
    PROVE  LinksAreReserved'
<1>1. \A f \in Effects : record'[f].link \subseteq record[f].link
  BY DEF TypeOK
<1>. QED
  BY <1>1 DEF LinksAreReserved

-----------------------------------------------------------------------------
(* Operations on a single record.                                          *)

\* One transition that is not a dispatch: the journal gains an event of the
\* caller's time, and the new state is one that may be claimed of e.
LEMMA SoundTransition ==
    ASSUME TypeOK, VerdictInv, NEW e \in Effects, NEW to, NEW now \in Nat,
           now <= clock, MayTransition(e, record[e], to, now),
           NEW next \in Records, next.state = to, next.at = now,
           next.version = record[e].version + 1,
           next.attempt = record[e].attempt, next.receipts = record[e].receipts,
           next.deadline = record[e].deadline,
           \/ /\ next.outbox = record[e].outbox
              /\ record[e].state # "Dispatching"
           \/ next.outbox = "completed" /\ record[e].attempt > 0,
           to \notin {"Dispatching", "Compensated"},
           to \in SuccessStates => Mutated(e),
           Judged(e) /\ to \in ClosedStates \cup OpenStates => ~Live(e)
    PROVE  Sound(e, next)
<1>1. Sound(e, record[e]) /\ record[e] \in Records
  BY VerdictsAreSound DEF TypeOK
<1>2. now >= Intent[e].created /\ next.version > 0
  BY <1>1 DEF MayTransition, Records
<1>. QED
  BY <1>1, <1>2 DEF Sound, Records

\* One read, one transition, one write: before any send, or from ambiguity.
LEMMA StepVerdicts ==
    ASSUME TypeOK, KernelInv, VerdictInv, NEW e \in Effects, NEW to,
           NEW now \in Nat, now <= clock, Step(e, to, now),
           \/ /\ record[e].state \in OpenStates \ {"Dispatching"}
              /\ to \in {"PendingApproval", "Rejected", "Expired", "Cancelled"}
           \/ to = "AuthorizedForRetry" /\ ~Judged(e)
           \/ to = "ManualResolution"
    PROVE  VerdictInv'
<1>. DEFINE next == Transition(record[e], to, now)
<1>1. MayTransition(e, record[e], to, now) /\ CanTransition(record[e].state, to)
  BY DEF Step, MayTransition
<1>2. record[e] \in Records /\ to \in States /\ record[e].state # "Dispatching"
  BY <1>1, TargetIsState DEF TypeOK, CanTransition, Transitions
<1>3. /\ next \in Records /\ next.state = to /\ next.at = now
      /\ next.version = record[e].version + 1
      /\ next.attempt = record[e].attempt /\ next.receipts = record[e].receipts
      /\ next.deadline = record[e].deadline /\ next.outbox = record[e].outbox
      /\ next.link = record[e].link
  BY <1>2, TransitionFacts
<1>4. record' = [record EXCEPT ![e] = next]
      /\ UNCHANGED <<reserved, request, sends, clock, worker>>
  BY DEF Step, Write, RemoteUnchanged
<1>5. /\ to \notin {"Dispatching", "Compensated"} /\ to \notin SuccessStates
      /\ Judged(e) /\ to \in ClosedStates \cup OpenStates => ~Live(e)
  BY VerdictsAreSound DEF Sound, SuccessStates, ClosedStates, OpenStates
<1>. HIDE DEF next
<1>6. Sound(e, next)
  BY <1>1, <1>2, <1>3, <1>5, SoundTransition
<1>7. LinksAreReserved'
  BY <1>3, <1>4, LinksKept DEF VerdictInv
<1>. QED
  BY <1>3, <1>4, <1>6, <1>7, SoundWrite

\* Every operation on a single record keeps the verdicts true.
LEMMA JournalVerdicts ==
    ASSUME TypeOK, KernelInv, VerdictInv, NEW e \in Effects, Journal(e)
    PROVE  VerdictInv'
<1>1. ASSUME NEW auth \in Authorizations, Prepare(e, auth)
      PROVE  VerdictInv'
  <2>. DEFINE next == [NoRecord EXCEPT !.state = "Prepared"]
  <2>1. /\ record[e].state = "Absent"
        /\ record' = [record EXCEPT ![e] = next]
        /\ UNCHANGED <<reserved, request, sends, clock, worker>>
    BY <1>1 DEF Prepare, Write, RemoteUnchanged
  <2>2. /\ next \in Records
        /\ next.state = "Prepared" /\ next.attempt = 0 /\ next.receipts = {}
        /\ next.version = 0 /\ next.outbox = "none" /\ next.link = {}
    BY DEF NoRecord, Records, States, Lookups
  <2>3. Judged(e) => ~Live(e)
    BY <2>1, VerdictsAreSound DEF Sound, OpenStates
  <2>. HIDE DEF next
  <2>4. Sound(e, next)
    BY <2>2, <2>3 DEF Sound, SuccessStates
  <2>5. LinksAreReserved'
    BY <2>1, <2>2, LinksKept DEF VerdictInv
  <2>. QED
    BY <2>1, <2>2, <2>4, <2>5, SoundWrite
<1>2. ASSUME NEW now \in Nat, now <= clock, Step(e, "PendingApproval", now)
                \/ Step(e, "Rejected", now) \/ Step(e, "Expired", now)
                \/ Step(e, "Cancelled", now)
      PROVE  VerdictInv'
  <2>1. PICK to \in {"PendingApproval", "Rejected", "Expired", "Cancelled"} :
            Step(e, to, now)
    BY <1>2
  <2>2. CanTransition(record[e].state, to)
    BY <2>1 DEF Step, MayTransition
  <2>3. record[e].state \in OpenStates \ {"Dispatching"}
    BY <2>2 DEF CanTransition, Transitions, OpenStates
  <2>. QED
    BY <1>2, <2>1, <2>3, StepVerdicts
<1>3. ASSUME NEW auth \in Authorizations,
             \/ RequestApproval(e, auth) \/ Reject(e, auth) \/ Cancel(e, auth)
      PROVE  VerdictInv'
  BY <1>2, <1>3, AuthorizationTypes DEF RequestApproval, Reject, Cancel
<1>4. ASSUME NEW auth \in Authorizations,
             AuthorizeIdempotentRetry(e, auth) \/ ManualResolution(e, auth)
      PROVE  VerdictInv'
  BY <1>4, StepVerdicts, AuthorizationTypes
  DEF AuthorizeIdempotentRetry, ManualResolution, Judged
<1>5. ASSUME NEW auth \in Authorizations, NEW approval, NEW approved,
             NEW kind, Authorize(e, auth, approval, approved, kind), TypeOK'
      PROVE  VerdictInv'
  <2>. DEFINE t == Transition(record[e], "Authorized", auth.now)
              next == [t EXCEPT !.approval = approval]
  <2>1. /\ MayTransition(e, record[e], "Authorized", auth.now)
        /\ CanTransition(record[e].state, "Authorized")
        /\ record' = [record EXCEPT ![e] = next]
        /\ UNCHANGED <<reserved, request, sends, clock, worker>>
    BY <1>5 DEF Authorize, MayTransition, Write, RemoteUnchanged
  <2>2. record[e] \in Records /\ auth.now \in Nat /\ auth.now <= clock
        /\ "Authorized" \in States
    BY AuthorizationTypes DEF TypeOK, States
  <2>3. /\ t \in Records /\ t.version = record[e].version + 1
        /\ t.attempt = record[e].attempt /\ t.state = "Authorized"
        /\ t.receipts = record[e].receipts /\ t.at = auth.now
        /\ t.deadline = record[e].deadline /\ t.outbox = record[e].outbox
        /\ t.link = record[e].link
    BY <2>2, TransitionFacts
  <2>4. next \in Records
    BY <1>5, <2>1 DEF TypeOK
  <2>. HIDE DEF t
  <2>5. /\ next.version = record[e].version + 1
        /\ next.attempt = record[e].attempt /\ next.state = "Authorized"
        /\ next.receipts = record[e].receipts /\ next.at = auth.now
        /\ next.deadline = record[e].deadline /\ next.outbox = record[e].outbox
        /\ next.link = record[e].link
    BY <2>3 DEF Records
  <2>6. record[e].state \in OpenStates \ {"Dispatching"}
    BY <2>1 DEF CanTransition, Transitions, OpenStates
  <2>7. Judged(e) => ~Live(e)
    BY <2>6, VerdictsAreSound DEF Sound
  <2>. HIDE DEF next
  <2>8. Sound(e, next)
    BY <2>1, <2>2, <2>4, <2>5, <2>6, <2>7, SoundTransition DEF SuccessStates
  <2>9. LinksAreReserved'
    BY <2>1, <2>4, <2>5, LinksKept DEF VerdictInv
  <2>. QED
    BY <2>1, <2>4, <2>5, <2>8, <2>9, SoundWrite
<1>6. ASSUME NEW now \in Nat, now <= clock, RecoverInflight(e, now)
      PROVE  VerdictInv'
  <2>. DEFINE t == Transition(record[e], "Unknown", now)
              next == [t EXCEPT !.outbox = "completed"]
  <2>1. /\ record[e].state = "Dispatching" /\ record[e] \in Records
        /\ "Unknown" \in States
        /\ MayTransition(e, record[e], "Unknown", now)
        /\ record' = [record EXCEPT ![e] = next]
        /\ UNCHANGED <<reserved, request, sends, clock, worker>>
    BY <1>6 DEF RecoverInflight, TypeOK, States, Write, RemoteUnchanged
  <2>2. /\ t \in Records /\ t.version = record[e].version + 1
        /\ t.attempt = record[e].attempt /\ t.state = "Unknown"
        /\ t.receipts = record[e].receipts /\ t.at = now
        /\ t.deadline = record[e].deadline /\ t.link = record[e].link
    BY <2>1, TransitionFacts
  <2>. HIDE DEF t
  <2>3. /\ next \in Records /\ next.version = record[e].version + 1
        /\ next.attempt = record[e].attempt /\ next.state = "Unknown"
        /\ next.receipts = record[e].receipts /\ next.at = now
        /\ next.deadline = record[e].deadline /\ next.link = record[e].link
        /\ next.outbox = "completed"
    BY <2>2 DEF Records
  <2>4. record[e].attempt > 0
    BY <2>1 DEF KernelInv, AttemptsInOrder
  <2>. HIDE DEF next
  <2>5. Sound(e, next)
    BY <1>6, <2>1, <2>3, <2>4, SoundTransition
    DEF SuccessStates, ClosedStates, OpenStates
  <2>6. LinksAreReserved'
    BY <2>1, <2>3, LinksKept DEF VerdictInv
  <2>. QED
    BY <2>1, <2>3, <2>5, <2>6, SoundWrite
<1>7. ASSUME NEW now \in 0 .. clock, Expire(e, now) \/ RecoverInflight(e, now)
      PROVE  VerdictInv'
  <2>1. now \in Nat /\ now <= clock
    BY DEF TypeOK
  <2>. QED
    BY <2>1, <1>2, <1>6, <1>7 DEF Expire
<1>. QED
  BY <1>1, <1>3, <1>4, <1>5, <1>7, JournalTypes DEF Journal

-----------------------------------------------------------------------------
(* The steps of a worker.                                                  *)

\* Workers that go idle or take a permit, and nothing else, keep the verdicts
\* true.
LEMMA RetireVerdicts ==
    ASSUME TypeOK, VerdictInv, UNCHANGED <<record, request, sends, clock>>,
           \A v \in Workers :
                worker'[v] = worker[v] \/ worker'[v].pc \in {"idle", "permit"},
           LinksAreReserved'
    PROVE  VerdictInv'
<1>1. \A f \in Effects : (Live(f)' <=> Live(f)) /\ (Mutated(f)' <=> Mutated(f))
  BY DEF Live, Mutated
<1>2. (\A f \in Effects : Sound(f, record[f]))'
  <2>1. \A f \in Effects : Sound(f, record[f]) /\ record[f].link \subseteq Effects
    BY VerdictsAreSound DEF TypeOK, Records
  <2>. QED
    BY <2>1, <1>1 DEF Sound
<1>3. OwnersActAlone'
  BY DEF VerdictInv, OwnersActAlone, InConnector
<1>4. CoalescedIsReal' /\ UnsentIsNone'
  BY <1>1 DEF VerdictInv, CoalescedIsReal, UnsentIsNone
<1>5. CommitsAreTrue'
  <2>1. \A v \in Workers : worker[v].pc = "persist" =>
            worker[v].effect \in Effects /\ worker[v].next.link \subseteq Effects
    BY WorkerTypes DEF Records
  <2>. QED
    BY <2>1, <1>1 DEF VerdictInv, CommitsAreTrue
<1>. QED
  BY <1>2, <1>3, <1>4, <1>5, SoundVerdicts

\* A computed record is one that may be committed now.
LEMMA ComputeVerdicts ==
    ASSUME TypeOK, VerdictInv, NEW w \in Workers, NEW e \in Effects,
           NEW next \in Records, NEW reserve \in SUBSET Effects,
           Become(w, Persisting(e, next, reserve)),
           UNCHANGED <<record, reserved, clock>>, RemoteUnchanged,
           CanTransition(record[e].state, next.state),
           next.outbox = record[e].outbox, next.deadline = record[e].deadline,
           Intent[e].created <= next.at, next.at <= clock,
           next.state \in SuccessStates => Mutated(e),
           next.state \in ClosedStates => ~Live(e),
           next.link \subseteq record[e].link \cup reserve,
           next.state = "Compensated" => \E child \in next.link : Mutated(child)
    PROVE  VerdictInv'
<1>1. UNCHANGED <<record, reserved, request, sends, clock>>
  BY DEF RemoteUnchanged
<1>2. /\ worker'[w].pc = "persist" /\ worker'[w].effect = e
      /\ worker'[w].version = record[e].version /\ worker'[w].next = next
      /\ worker'[w].reserve = reserve
      /\ \A v \in Workers : v # w => worker'[v] = worker[v]
  BY DEF Become, Persisting, TypeOK
<1>3. \A f \in Effects : (Live(f)' <=> Live(f)) /\ (Mutated(f)' <=> Mutated(f))
  BY <1>1 DEF Live, Mutated
<1>4. (\A f \in Effects : Sound(f, record[f]))'
  <2>1. \A f \in Effects : Sound(f, record[f]) /\ record[f].link \subseteq Effects
    BY VerdictsAreSound DEF TypeOK, Records
  <2>. QED
    BY <2>1, <1>1, <1>3 DEF Sound
<1>5. OwnersActAlone'
  BY <1>1, <1>2 DEF VerdictInv, OwnersActAlone, InConnector
<1>6. CoalescedIsReal' /\ UnsentIsNone' /\ LinksAreReserved'
  BY <1>1, <1>3 DEF VerdictInv, CoalescedIsReal, UnsentIsNone, LinksAreReserved
<1>7. CommitsAreTrue'
  <2>1. next.link \subseteq Effects
    BY DEF Records
  <2>2. \A v \in Workers : worker[v].pc = "persist" =>
            worker[v].effect \in Effects /\ worker[v].next.link \subseteq Effects
    BY WorkerTypes DEF Records
  <2>. QED
    BY <1>1, <1>2, <1>3, <2>1, <2>2 DEF VerdictInv, CommitsAreTrue
<1>. QED
  BY <1>4, <1>5, <1>6, <1>7, SoundVerdicts

\* Connector entry: the claimed effect has no live request.
LEMMA AcquireVerdicts ==
    ASSUME TypeOK, KernelInv, VerdictInv, NEW w \in Workers,
           NEW auth \in Authorizations, AcquireDispatchOwnership(w, auth)
    PROVE  VerdictInv'
<1>. DEFINE e == worker[w].effect
            next == Entered(record[e], auth.now)
<1>1. e \in Effects /\ auth.now \in Nat /\ auth.now <= clock
  BY WorkerTypes, AuthorizationTypes DEF AcquireDispatchOwnership
<1>2. record[e] \in Records
  BY <1>1 DEF TypeOK
<1>3. /\ next \in Records /\ next.state = "Unknown" /\ next.at = auth.now
      /\ next.version = record[e].version + 1
      /\ next.attempt = record[e].attempt /\ next.receipts = record[e].receipts
      /\ next.deadline = record[e].deadline /\ next.link = record[e].link
      /\ next.outbox = "completed"
  BY <1>1, <1>2, EnteredFacts
<1>4. /\ record[e].state = "Dispatching"
      /\ MayTransition(e, record[e], "Unknown", auth.now)
      /\ record' = [record EXCEPT ![e] = next]
      /\ worker' = [worker EXCEPT ![w] =
            [pc |-> "entered", effect |-> e, attempt |-> record[e].attempt,
             version |-> record[e].version + 1, deadline |-> record[e].deadline]]
      /\ UNCHANGED <<reserved, request, sends, clock>>
  BY DEF AcquireDispatchOwnership, VerifyPermit, Write, Become, RemoteUnchanged
<1>5. record'[e] = next /\ \A f \in Effects : f # e => record'[f] = record[f]
  BY <1>1, <1>4 DEF TypeOK
<1>6. /\ worker'[w].pc = "entered" /\ worker'[w].effect = e
      /\ \A v \in Workers : v # w => worker'[v] = worker[v]
  BY <1>4 DEF TypeOK
<1>7. \A f \in Effects : (Live(f)' <=> Live(f)) /\ (Mutated(f)' <=> Mutated(f))
  BY <1>4 DEF Live, Mutated
<1>8. record[e].attempt > 0
  BY <1>1, <1>4 DEF KernelInv, AttemptsInOrder
<1>9. Judged(e) => ~Live(e)
  BY <1>1, <1>4, VerdictsAreSound DEF Sound, OpenStates
<1>. HIDE DEF e, next
<1>10. Sound(e, next)
  BY <1>1, <1>3, <1>4, <1>8, SoundTransition
  DEF SuccessStates, ClosedStates, OpenStates
<1>11. ASSUME NEW f \in Effects
       PROVE  Sound(f, record[f])'
  <2>1. PICK r \in Records : r = record'[f]
    BY <1>2, <1>3, <1>5 DEF TypeOK
  <2>2. Sound(f, r)
    BY <1>5, <1>10, <2>1, VerdictsAreSound
  <2>3. r.link \subseteq Effects
    BY DEF Records
  <2>4. Sound(f, r)'
    BY <2>2, <2>3, <1>4, <1>7 DEF Sound
  <2>. QED
    BY <2>1, <2>4 DEF Sound
<1>12. \A v \in Workers : v # w /\ worker[v].effect = e
            /\ (InConnector(v) \/ worker[v].pc = "persist") =>
                worker[v].version # next.version
  <2>1. next.version \in Nat
    BY <1>3 DEF Records
  <2>. QED
    BY <1>1, <1>3, <2>1, NextIsNews
<1>13. OwnersActAlone'
  <2>. SUFFICES ASSUME NEW v \in Workers, InConnector(v)'
                PROVE  LET f == worker[v].effect IN
                       (/\ Intent[f].policy # "same_key"
                        /\ worker[v].version = record[f].version
                        => \A a \in AttemptNumbers :
                            request[f][a] \in {"inflight", "mutated"} =>
                                a = worker[v].attempt /\ worker[v].pc = "sent")'
    BY DEF OwnersActAlone
  <2>1. CASE v = w
    BY <2>1, <1>1, <1>4, <1>6, <1>9 DEF Judged, Live
  <2>2. CASE v # w
    <3>1. worker'[v] = worker[v] /\ InConnector(v) /\ worker[v].effect \in Effects
      BY <2>2, <1>6, WorkerTypes DEF InConnector
    <3>2. CASE worker[v].effect = e
      BY <2>2, <3>1, <3>2, <1>5, <1>12
    <3>3. CASE worker[v].effect # e
      BY <3>1, <3>3, <1>4, <1>5 DEF VerdictInv, OwnersActAlone
    <3>. QED
      BY <3>2, <3>3
  <2>. QED
    BY <2>1, <2>2
<1>14. CommitsAreTrue'
  <2>1. \A v \in Workers : worker'[v].pc = "persist" =>
            /\ worker'[v] = worker[v] /\ v # w
            /\ worker[v].effect \in Effects /\ worker[v].next.link \subseteq Effects
    BY <1>6, WorkerTypes DEF Records
  <2>2. \A v \in Workers : worker'[v].pc = "persist"
            /\ worker'[v].version = record'[worker[v].effect].version =>
                worker[v].effect # e
    BY <2>1, <1>5, <1>12
  <2>. QED
    BY <2>1, <2>2, <1>4, <1>5, <1>7 DEF VerdictInv, CommitsAreTrue
<1>15. CoalescedIsReal' /\ UnsentIsNone'
  BY <1>4, <1>7 DEF VerdictInv, CoalescedIsReal, UnsentIsNone
<1>16. LinksAreReserved'
  BY <1>1, <1>3, <1>4, LinksKept DEF VerdictInv
<1>. QED
  BY <1>11, <1>13, <1>14, <1>15, <1>16, SoundVerdicts

\* The send: while its owner can send, the record is Unknown, so no verdict
\* denies the request, and nobody holds a computed one that would.
LEMMA SendVerdicts ==
    ASSUME TypeOK, KernelInv, VerdictInv, NEW w \in Workers, ConnectorSend(w)
    PROVE  VerdictInv'
<1>. DEFINE e == worker[w].effect
            a == worker[w].attempt
<1>1. /\ worker[w].pc = "entered" /\ clock < worker[w].deadline
      /\ worker' = [worker EXCEPT ![w] = [worker[w] EXCEPT !.pc = "sent"]]
      /\ request' = [request EXCEPT ![e][a] = "inflight"]
      /\ UNCHANGED <<record, reserved, clock>>
  BY DEF ConnectorSend, Become
<1>2. InConnector(w) /\ MaySend(w)
  BY <1>1 DEF InConnector, MaySend
<1>3. e \in Effects /\ a \in Nat
  BY <1>1, WorkerTypes
<1>4. /\ record[e].state = "Unknown" /\ record[e].attempt = a
      /\ worker[w].version = record[e].version
  BY <1>2 DEF KernelInv, OwnersAreCurrent
<1>5. /\ worker'[w].pc = "sent" /\ worker'[w].effect = e
      /\ worker'[w].attempt = a /\ worker'[w].version = worker[w].version
      /\ \A v \in Workers : v # w => worker'[v] = worker[v]
  <2>. DEFINE Owners == [pc : {"entered", "sent"}, effect : Effects,
                         attempt : Nat, version : Nat, deadline : Nat]
  <2>1. worker[w] \in Owners
    BY <1>1, WorkerTypes DEF WorkerStates, Idle
  <2>2. /\ worker'[w] = [worker[w] EXCEPT !.pc = "sent"]
        /\ \A v \in Workers : v # w => worker'[v] = worker[v]
    BY <1>1 DEF TypeOK
  <2>. QED
    BY <2>1, <2>2
<1>6. \A f \in Effects, b \in AttemptNumbers :
        request'[f][b] = IF f = e /\ b = a THEN "inflight" ELSE request[f][b]
  BY <1>1, <1>3 DEF TypeOK
<1>7. a \in AttemptNumbers => request[e][a] = "none"
  BY <1>1, <1>2, <1>3 DEF KernelInv, OwnersAreUnique, VerdictInv, UnsentIsNone
<1>8. \A f \in Effects : /\ Mutated(f)' <=> Mutated(f)
                         /\ f # e => (Live(f)' <=> Live(f))
  BY <1>6, <1>7 DEF Mutated, Live
<1>. HIDE DEF e, a
<1>9. (\A f \in Effects : Sound(f, record[f]))'
  <2>1. \A f \in Effects : Sound(f, record[f]) /\ record[f].link \subseteq Effects
    BY VerdictsAreSound DEF TypeOK, Records
  <2>. QED
    BY <2>1, <1>1, <1>4, <1>8 DEF Sound, ClosedStates, OpenStates
<1>10. OwnersActAlone'
  <2>. SUFFICES ASSUME NEW v \in Workers, InConnector(v)'
                PROVE  LET f == worker[v].effect IN
                       (/\ Intent[f].policy # "same_key"
                        /\ worker[v].version = record[f].version
                        => \A b \in AttemptNumbers :
                            request[f][b] \in {"inflight", "mutated"} =>
                                b = worker[v].attempt /\ worker[v].pc = "sent")'
    BY DEF OwnersActAlone
  <2>1. CASE v = w
    <3>1. Intent[e].policy # "same_key" =>
            \A b \in AttemptNumbers : request[e][b] \notin {"inflight", "mutated"}
      BY <1>1, <1>2, <1>4 DEF VerdictInv, OwnersActAlone, e
    <3>. QED
      BY <2>1, <3>1, <1>3, <1>5, <1>6
  <2>2. CASE v # w
    <3>1. worker'[v] = worker[v] /\ InConnector(v) /\ worker[v].effect \in Effects
      BY <2>2, <1>5, WorkerTypes DEF InConnector
    <3>2. CASE worker[v].effect # e
      BY <3>1, <3>2, <1>1, <1>6 DEF VerdictInv, OwnersActAlone
    <3>3. CASE worker[v].effect = e
      <4>1. worker[v].version = record[e].version => worker[v].attempt = a
        BY <3>1, <3>3, <1>4 DEF KernelInv, OwnersAreCurrent
      <4>2. worker[v].attempt # a
        BY <2>2, <3>1, <3>3, <1>2 DEF KernelInv, OwnersAreUnique, e, a
      <4>. QED
        BY <3>1, <3>3, <4>1, <4>2, <1>1
    <3>. QED
      BY <3>2, <3>3
  <2>. QED
    BY <2>1, <2>2
<1>11. CommitsAreTrue'
  <2>1. \A v \in Workers : worker'[v].pc = "persist" =>
            /\ worker'[v] = worker[v]
            /\ worker[v].effect \in Effects /\ worker[v].next.link \subseteq Effects
    BY <1>5, WorkerTypes DEF Records
  <2>2. \A v \in Workers : worker[v].pc = "persist" /\ worker[v].effect = e =>
            worker[v].version # record[e].version
    BY <1>2, <1>4 DEF KernelInv, PersistsAreCurrent, e
  <2>. QED
    BY <2>1, <2>2, <1>1, <1>8 DEF VerdictInv, CommitsAreTrue
<1>12. CoalescedIsReal' /\ LinksAreReserved'
  BY <1>1, <1>6, <1>8 DEF VerdictInv, CoalescedIsReal, LinksAreReserved
<1>13. UnsentIsNone'
  <2>1. sends' = [sends EXCEPT ![e][a] = @ + 1]
    BY DEF ConnectorSend, e, a
  <2>2. \A f \in Effects, b \in AttemptNumbers :
            sends'[f][b] = IF f = e /\ b = a THEN sends[f][b] + 1 ELSE sends[f][b]
    BY <2>1, <1>3 DEF TypeOK
  <2>3. \A f \in Effects, b \in AttemptNumbers : sends[f][b] \in Nat
    BY DEF TypeOK
  <2>. QED
    BY <2>2, <2>3, <1>6 DEF VerdictInv, UnsentIsNone
<1>. QED
  BY <1>9, <1>10, <1>11, <1>12, <1>13, SoundVerdicts

\* Every step of a worker keeps the verdicts true.
LEMMA WorkVerdicts ==
    ASSUME TypeOK, KernelInv, VerdictInv, NEW w \in Workers, Work(w)
    PROVE  VerdictInv'
<1>0. ASSUME NEW s, s.pc \in {"idle", "permit"}, Become(w, s)
      PROVE  \A v \in Workers :
                worker'[v] = worker[v] \/ worker'[v].pc \in {"idle", "permit"}
  BY <1>0 DEF Become, TypeOK
<1>1. ASSUME NEW auth \in Authorizations, NEW to \in States,
             DispatchWithoutSend(w, auth, to)
      PROVE  VerdictInv'
  <2>. DEFINE e == worker[w].effect
              next == Receipted(record[e], to, auth.now)
  <2>1. e \in Effects /\ auth.now \in Nat /\ auth.now <= clock
    BY <1>1, WorkerTypes, AuthorizationTypes DEF DispatchWithoutSend
  <2>2. record[e] \in Records
    BY <2>1 DEF TypeOK
  <2>3. /\ next \in Records /\ next.version = record[e].version + 1
        /\ next.attempt = record[e].attempt /\ next.state = to
        /\ next.receipts = record[e].receipts \cup {record[e].attempt}
        /\ next.at = auth.now /\ next.deadline = record[e].deadline
        /\ next.link = record[e].link /\ next.outbox = "completed"
    BY <2>1, <2>2, ReceiptedFacts
  <2>4. /\ record[e].state = "Dispatching" /\ to \in {"Failed", "Unknown"}
        /\ MayTransition(e, record[e], to, auth.now)
        /\ record' = [record EXCEPT ![e] = next]
        /\ Become(w, Idle) /\ UNCHANGED <<reserved, request, sends, clock>>
    BY <1>1 DEF DispatchWithoutSend, VerifyPermit, Write, RemoteUnchanged
  <2>5. record[e].attempt > 0
    BY <2>1, <2>4 DEF KernelInv, AttemptsInOrder
  <2>6. Judged(e) => ~Live(e)
    BY <2>1, <2>4, VerdictsAreSound DEF Sound, OpenStates
  <2>. HIDE DEF e, next
  <2>7. Sound(e, next)
    <3>1. Sound(e, record[e])
      BY <2>1, VerdictsAreSound
    <3>2. Intent[e].created <= auth.now
      BY <2>4 DEF MayTransition
    <3>3. next.version > 0 /\ next.receipts \subseteq 1 .. next.attempt
      BY <2>2, <2>3, <2>5, <3>1 DEF Sound, Records
    <3>. QED
      BY <3>1, <3>2, <3>3, <2>1, <2>2, <2>3, <2>4, <2>5, <2>6 DEF Sound, SuccessStates
  <2>8. LinksAreReserved'
    BY <2>1, <2>3, <2>4, LinksKept DEF VerdictInv
  <2>9. \A v \in Workers :
            worker'[v] = worker[v] \/ worker'[v].pc \in {"idle", "permit"}
    BY <2>4, <1>0 DEF Idle
  <2>. QED
    BY <2>1, <2>3, <2>4, <2>7, <2>8, <2>9, SoundWrite
<1>2. ASSUME NEW auth \in Authorizations, NEW e \in Effects,
             NEW deadline \in 1 .. Intent[e].expires,
             ClaimDispatch(w, e, auth, deadline)
      PROVE  VerdictInv'
  <2>. DEFINE next == Claimed(record[e], deadline, auth.now)
  <2>1. deadline \in Nat /\ auth.now \in Nat /\ auth.now <= clock
        /\ record[e] \in Records /\ Intent[e].expires \in Nat
        /\ deadline <= Intent[e].expires
    BY ConstantsAssumption, AuthorizationTypes DEF TypeOK, Intents
  <2>2. /\ next \in Records /\ next.version = record[e].version + 1
        /\ next.attempt = record[e].attempt + 1 /\ next.state = "Dispatching"
        /\ next.receipts = record[e].receipts /\ next.at = auth.now
        /\ next.deadline = deadline /\ next.link = record[e].link
        /\ next.outbox = "claimed"
    <3>1. PICK r \in Records, d \in Nat, now \in Nat :
            r = record[e] /\ d = deadline /\ now = auth.now
      BY <2>1
    <3>2. LET c == Claimed(r, d, now) IN
          /\ c \in Records /\ c.version = r.version + 1
          /\ c.attempt = r.attempt + 1 /\ c.state = "Dispatching"
          /\ c.receipts = r.receipts /\ c.at = now /\ c.deadline = d
          /\ c.link = r.link /\ c.outbox = "claimed"
      BY ClaimedFacts
    <3>. QED
      BY <3>1, <3>2
  <2>3. /\ record[e].state \in {"Authorized", "AuthorizedForRetry"}
        /\ MayTransition(e, record[e], "Dispatching", auth.now)
        /\ record' = [record EXCEPT ![e] = next]
        /\ Become(w, Permit(e, next)) /\ UNCHANGED <<reserved, request, sends, clock>>
    BY <1>2 DEF ClaimDispatch, ValidateRetryClaim, Write, RemoteUnchanged
  <2>4. Judged(e) => ~Live(e)
    BY <2>3, VerdictsAreSound DEF Sound, OpenStates
  <2>. HIDE DEF next
  <2>5. Sound(e, next)
    <3>1. Sound(e, record[e])
      BY VerdictsAreSound
    <3>2. Intent[e].created <= auth.now
      BY <2>3 DEF MayTransition
    <3>3. /\ next.version > 0 /\ next.receipts \subseteq 1 .. next.attempt
          /\ next.attempt # 0
      BY <2>1, <2>2, <3>1 DEF Sound, Records
    <3>. QED
      BY <3>2, <3>3, <2>1, <2>2, <2>4 DEF Sound, SuccessStates
  <2>6. LinksAreReserved'
    BY <2>2, <2>3, LinksKept DEF VerdictInv
  <2>7. \A v \in Workers :
            worker'[v] = worker[v] \/ worker'[v].pc \in {"idle", "permit"}
    BY <2>3, <1>0 DEF Permit
  <2>. QED
    BY <2>2, <2>3, <2>5, <2>6, <2>7, SoundWrite
<1>3. ASSUME NEW auth \in Authorizations, NEW e \in Effects,
             NEW answer \in Lookups, Reconcile(w, e, auth, answer)
      PROVE  VerdictInv'
  <2>. DEFINE to == ReconcileTarget(e, answer)
              t == Transition(record[e], to, auth.now)
              next == [t EXCEPT !.lookups = @ + 1, !.lastLookup = answer]
  <2>1. record[e] \in Records /\ auth.now \in Nat /\ auth.now <= clock /\ to \in States
    BY <1>3, AuthorizationTypes, TargetIsState DEF TypeOK, Reconcile, MayTransition
  <2>2. /\ t \in Records /\ t.state = to /\ t.at = auth.now
        /\ t.outbox = record[e].outbox /\ t.deadline = record[e].deadline
        /\ t.link = record[e].link
    BY <2>1, TransitionFacts
  <2>3. /\ CanTransition(record[e].state, to)
        /\ answer \in LookupAnswers(e) /\ auth.now >= Intent[e].created
        /\ Become(w, Persisting(e, next, {}))
        /\ UNCHANGED <<record, reserved, clock>> /\ RemoteUnchanged
    BY <1>3 DEF Reconcile, MayTransition
  <2>4. /\ to # "Compensated"
        /\ to \in SuccessStates => Mutated(e)
        /\ to \in ClosedStates => ~Live(e)
    BY <2>3 DEF ReconcileTarget, SuccessStates, ClosedStates, LookupAnswers
  <2>5. PICK n \in Nat : n = t.lookups + 1
    BY <2>2 DEF Records
  <2>. HIDE DEF t, to
  <2>6. /\ next \in Records /\ next.state = to /\ next.at = auth.now
        /\ next.outbox = record[e].outbox /\ next.deadline = record[e].deadline
        /\ next.link = record[e].link
    BY <2>2, <2>5 DEF Records
  <2>. HIDE DEF next
  <2>. QED
    BY <2>1, <2>3, <2>4, <2>6, ComputeVerdicts
<1>4. ASSUME NEW auth \in Authorizations, NEW e \in Effects, NEW child \in Effects,
             RequestCompensation(w, e, child, auth)
      PROVE  VerdictInv'
  <2>. DEFINE t == Transition(record[e], "CompensationPending", auth.now)
              next == [t EXCEPT !.link = {child}]
  <2>1. record[e] \in Records /\ auth.now \in Nat /\ auth.now <= clock
        /\ "CompensationPending" \in States
    BY AuthorizationTypes DEF TypeOK, States
  <2>2. /\ t \in Records /\ t.state = "CompensationPending" /\ t.at = auth.now
        /\ t.outbox = record[e].outbox /\ t.deadline = record[e].deadline
    BY <2>1, TransitionFacts
  <2>3. /\ CanTransition(record[e].state, "CompensationPending")
        /\ auth.now >= Intent[e].created
        /\ Become(w, Persisting(e, next, {child}))
        /\ UNCHANGED <<record, reserved, clock>> /\ RemoteUnchanged
    BY <1>4 DEF RequestCompensation, MayTransition
  <2>4. record[e].state = "Succeeded"
    BY <2>3 DEF CanTransition, Transitions
  <2>5. Mutated(e)
    BY <2>4, VerdictsAreSound DEF Sound, SuccessStates
  <2>. HIDE DEF t
  <2>6. /\ next \in Records /\ next.state = "CompensationPending"
        /\ next.at = auth.now /\ next.link = {child}
        /\ next.outbox = record[e].outbox /\ next.deadline = record[e].deadline
    BY <2>2 DEF Records
  <2>. HIDE DEF next
  <2>. QED
    BY <2>1, <2>3, <2>5, <2>6, ComputeVerdicts DEF ClosedStates
<1>5. ASSUME NEW auth \in Authorizations, NEW e \in Effects, NEW to \in States,
             \/ BeginCompensation(w, e, auth) /\ to = "Compensating"
             \/ ResolveCompensation(w, e, to, auth)
      PROVE  VerdictInv'
  <2>. DEFINE next == Transition(record[e], to, auth.now)
  <2>1. record[e] \in Records /\ auth.now \in Nat /\ auth.now <= clock
    BY AuthorizationTypes DEF TypeOK
  <2>2. /\ next \in Records /\ next.state = to /\ next.at = auth.now
        /\ next.outbox = record[e].outbox /\ next.deadline = record[e].deadline
        /\ next.link = record[e].link
    BY <2>1, TransitionFacts
  <2>3. /\ record[e].state \in {"CompensationPending", "Compensating"}
        /\ CanTransition(record[e].state, to) /\ auth.now >= Intent[e].created
        /\ Become(w, Persisting(e, next, {}))
        /\ UNCHANGED <<record, reserved, clock>> /\ RemoteUnchanged
    BY <1>5 DEF BeginCompensation, ResolveCompensation, MayTransition
  <2>4. to \notin ClosedStates
    BY <2>3 DEF CanTransition, Transitions, ClosedStates
  <2>5. Mutated(e)
    BY <2>3, VerdictsAreSound DEF Sound, SuccessStates
  <2>6. to = "Compensated" => \E child \in record[e].link : Mutated(child)
    <3>. SUFFICES ASSUME to = "Compensated"
                  PROVE  \E child \in record[e].link : Mutated(child)
      OBVIOUS
    <3>1. PICK child \in record[e].link : <<record[child].state, to>> \in Projections
      BY <1>5 DEF ResolveCompensation
    <3>2. child \in Effects /\ record[child].state \in {"Succeeded", "Compensated"}
      BY <3>1, <2>1 DEF Projections, Records
    <3>. QED
      BY <3>1, <3>2, VerdictsAreSound DEF Sound, SuccessStates
  <2>. HIDE DEF next
  <2>. QED
    BY <2>1, <2>2, <2>3, <2>4, <2>5, <2>6, ComputeVerdicts
<1>6. ASSUME NEW e \in Effects, ResumeDispatch(w, e)
      PROVE  VerdictInv'
  BY <1>0, <1>6, RetireVerdicts
  DEF ResumeDispatch, Permit, RemoteUnchanged, VerdictInv, LinksAreReserved
<1>7. ASSUME DispatchRefused(w) \/ Crash(w)
      PROVE  VerdictInv'
  BY <1>0, <1>7, RetireVerdicts
  DEF DispatchRefused, Crash, Idle, RemoteUnchanged, VerdictInv, LinksAreReserved
<1>8. ASSUME NEW to \in States, FinalizeObservation(w, to)
      PROVE  VerdictInv'
  <2>. DEFINE e == worker[w].effect
              a == worker[w].attempt
              next == Receipted(record[e], to, record[e].at)
  <2>1. /\ InConnector(w) /\ e \in Effects
        /\ Become(w, Idle) /\ UNCHANGED <<reserved, request, sends, clock>>
        /\ \/ to = "Unknown"
           \/ /\ to = "Succeeded" /\ worker[w].pc = "sent"
              /\ request[e][a] \in {"mutated", "coalesced"}
           \/ to = "Failed" /\ request[e][a] = "rejected"
    BY <1>8, WorkerTypes
    DEF FinalizeObservation, Observations, InConnector, RemoteUnchanged
  <2>2. \A v \in Workers :
            worker'[v] = worker[v] \/ worker'[v].pc \in {"idle", "permit"}
    BY <2>1, <1>0 DEF Idle
  <2>3. CASE record[e].version # worker[w].version
    BY <1>8, <2>1, <2>2, <2>3, RetireVerdicts
    DEF FinalizeObservation, VerdictInv, LinksAreReserved
  <2>4. CASE record[e].version = worker[w].version
    <3>1. record[e] \in Records /\ record[e].at \in Nat
      BY <2>1 DEF TypeOK, Records
    <3>2. /\ next \in Records /\ next.version = record[e].version + 1
          /\ next.attempt = record[e].attempt /\ next.state = to
          /\ next.receipts = record[e].receipts \cup {record[e].attempt}
          /\ next.at = record[e].at /\ next.deadline = record[e].deadline
          /\ next.link = record[e].link /\ next.outbox = "completed"
      <4>. DEFINE r == record[e]
                  at == record[e].at
      <4>1. r \in Records /\ at \in Nat
        BY <3>1
      <4>. HIDE DEF r, at
      <4>2. LET n == Receipted(r, to, at) IN
            /\ n \in Records /\ n.version = r.version + 1 /\ n.attempt = r.attempt
            /\ n.state = to /\ n.receipts = r.receipts \cup {r.attempt} /\ n.at = at
            /\ n.deadline = r.deadline /\ n.link = r.link /\ n.outbox = "completed"
        BY <4>1, ReceiptedFacts
      <4>. QED  BY <4>2, Zenon DEF r, at
    <3>3. record' = [record EXCEPT ![e] = next]
      BY <1>8, <2>4 DEF FinalizeObservation, Write
    <3>4. record[e].state = "Unknown" /\ record[e].attempt = a
      BY <2>1, <2>4 DEF KernelInv, OwnersAreCurrent
    <3>5. a \in 1 .. record[e].attempt /\ a \in AttemptNumbers
      <4>1. a \in 1 .. record[e].attempt
        BY <2>1 DEF KernelInv, OwnersAreUnique
      <4>2. record[e].attempt <= MaxAttempts
        BY <2>1 DEF KernelInv, AttemptsInOrder
      <4>. QED
        BY <4>1, <4>2, <3>1, ConstantsAssumption DEF AttemptNumbers, Records
    <3>6. to = "Succeeded" => Mutated(e)
      BY <2>1, <3>5 DEF VerdictInv, CoalescedIsReal, Mutated
    <3>7. to = "Failed" /\ Judged(e) => ~Live(e)
      BY <2>1, <2>4, <3>5 DEF VerdictInv, OwnersActAlone, Judged, Live
    <3>. HIDE DEF e, a, next
    <3>8. Sound(e, next)
      <4>1. Sound(e, record[e]) /\ record[e].version > 0
        BY <2>1, <3>4, VerdictsAreSound DEF Sound
      <4>2. /\ next.version > 0 /\ next.receipts \subseteq 1 .. next.attempt
            /\ next.attempt # 0
        BY <3>1, <3>2, <3>4, <3>5, <4>1 DEF Sound, Records
      <4>. QED
        BY <4>1, <4>2, <2>1, <3>2, <3>4, <3>6, <3>7
        DEF Sound, SuccessStates, ClosedStates, OpenStates
    <3>9. LinksAreReserved'
      BY <2>1, <3>2, <3>3, LinksKept DEF VerdictInv
    <3>. QED
      BY <2>1, <2>2, <3>2, <3>3, <3>8, <3>9, SoundWrite
  <2>. QED
    BY <2>3, <2>4
<1>9. ASSUME Persist(w)
      PROVE  VerdictInv'
  <2>. DEFINE e == worker[w].effect
              next == worker[w].next
              reserve == worker[w].reserve
              mine == {<<child, e>> : child \in reserve}
  <2>1. /\ worker[w].pc = "persist" /\ Become(w, Idle)
        /\ UNCHANGED <<request, sends, clock>>
        /\ \/ UNCHANGED <<record, reserved>>
           \/ /\ record[e].version = worker[w].version
              /\ \A child \in reserve : ReservationFree(child, e)
              /\ reserved' = reserved \cup mine
              /\ UNCHANGED record \/ record' = [record EXCEPT ![e] = next]
    BY <1>9 DEF Persist, Write, RemoteUnchanged
  <2>2. \A v \in Workers :
            worker'[v] = worker[v] \/ worker'[v].pc \in {"idle", "permit"}
    BY <2>1, <1>0 DEF Idle
  <2>3. e \in Effects /\ next \in Records /\ reserve \subseteq Effects
    BY <2>1, WorkerTypes
  <2>4. CASE UNCHANGED <<record, reserved>>
    BY <2>1, <2>2, <2>4, RetireVerdicts DEF VerdictInv, LinksAreReserved
  <2>5. CASE /\ record[e].version = worker[w].version
             /\ \A child \in reserve : ReservationFree(child, e)
             /\ reserved' = reserved \cup mine
    <3>1. \A f, g, child \in Effects :
            <<child, f>> \in reserved' /\ <<child, g>> \in reserved' => f = g
      BY <2>3, <2>5 DEF VerdictInv, LinksAreReserved, ReservationFree
    <3>2. CASE UNCHANGED record
      <4>1. LinksAreReserved'
        BY <2>5, <3>1, <3>2 DEF VerdictInv, LinksAreReserved
      <4>. QED
        BY <2>1, <2>2, <3>2, <4>1, RetireVerdicts
    <3>3. CASE record' = [record EXCEPT ![e] = next]
      <4>1. /\ record[e].state \notin OpenStates
            /\ next.version = record[e].version + 1
            /\ next.attempt = record[e].attempt
            /\ next.receipts = record[e].receipts
            /\ next.state \in OpenStates =>
                    next.state = "AuthorizedForRetry" /\ ~Live(e)
        BY <2>1, <2>5 DEF KernelInv, PersistsAreCurrent
      <4>2. /\ next.outbox = record[e].outbox /\ next.deadline = record[e].deadline
            /\ Intent[e].created <= next.at /\ next.at <= clock
            /\ next.state \in SuccessStates => Mutated(e)
            /\ next.state \in ClosedStates => ~Live(e)
            /\ next.link \subseteq record[e].link \cup reserve
            /\ next.state = "Compensated" => \E child \in next.link : Mutated(child)
        BY <2>1, <2>5 DEF VerdictInv, CommitsAreTrue
      <4>3. record[e] \in Records
        BY <2>3 DEF TypeOK
      <4>. HIDE DEF e, next, reserve
      <4>4. Sound(e, next)
        <5>1. Sound(e, record[e])
          BY <2>3, VerdictsAreSound
        <5>2. next.version > 0
          BY <4>1, <4>3 DEF Records
        <5>. QED
          BY <5>1, <5>2, <4>1, <4>2 DEF Sound, OpenStates
      <4>5. LinksAreReserved'
        <5>1. record'[e] = next
              /\ \A f \in Effects : f # e => record'[f] = record[f]
          BY <2>3, <3>3 DEF TypeOK
        <5>. QED
          BY <5>1, <4>2, <2>5, <3>1 DEF VerdictInv, LinksAreReserved
      <4>. QED
        BY <2>1, <2>2, <2>3, <3>3, <4>1, <4>4, <4>5, SoundWrite
    <3>. QED
      BY <2>1, <2>5, <3>2, <3>3, <2>4
  <2>. QED
    BY <2>1, <2>4, <2>5
<1>10. "Compensating" \in States
  BY DEF States
<1>. QED
  BY <1>1, <1>2, <1>3, <1>4, <1>5, <1>6, <1>7, <1>8, <1>9, <1>10,
     AcquireVerdicts, SendVerdicts DEF Work

-----------------------------------------------------------------------------
(* The remote, time, and the theorems.                                     *)

\* What the remote does to a request in flight contradicts no verdict: it is
\* in flight only while the effect is ambiguous or same-key retried.
LEMMA RemoteVerdicts ==
    ASSUME TypeOK, KernelInv, VerdictInv, Remote
    PROVE  VerdictInv'
<1>. PICK e \in Effects, a \in AttemptNumbers, to \in RequestStates :
        RemoteProcess(e, a, to)
  BY DEF Remote
<1>1. /\ request[e][a] = "inflight"
      /\ to \in {"mutated", "coalesced", "rejected", "lost"}
      /\ to = "coalesced" => Mutated(e)
      /\ request' = [request EXCEPT ![e][a] = to]
      /\ UNCHANGED <<record, reserved, worker, sends, clock>>
  BY DEF RemoteProcess
<1>2. \A f \in Effects, b \in AttemptNumbers :
        request'[f][b] = IF f = e /\ b = a THEN to ELSE request[f][b]
  BY <1>1 DEF TypeOK
<1>3. \A f \in Effects : (Live(f)' => Live(f)) /\ (Mutated(f) => Mutated(f)')
  BY <1>1, <1>2 DEF Live, Mutated
<1>4. (\A f \in Effects : Sound(f, record[f]))'
  <2>1. \A f \in Effects : Sound(f, record[f]) /\ record[f].link \subseteq Effects
    BY VerdictsAreSound DEF TypeOK, Records
  <2>. QED
    BY <2>1, <1>1, <1>3 DEF Sound
<1>5. OwnersActAlone'
  BY <1>1, <1>2, WorkerTypes DEF VerdictInv, OwnersActAlone, InConnector
<1>6. CoalescedIsReal' /\ UnsentIsNone'
  BY <1>1, <1>2, <1>3 DEF VerdictInv, CoalescedIsReal, UnsentIsNone
<1>7. LinksAreReserved'
  BY <1>1 DEF VerdictInv, LinksAreReserved
<1>8. CommitsAreTrue'
  <2>1. \A v \in Workers : worker[v].pc = "persist" =>
            worker[v].effect \in Effects /\ worker[v].next.link \subseteq Effects
    BY WorkerTypes DEF Records
  <2>. QED
    BY <2>1, <1>1, <1>3 DEF VerdictInv, CommitsAreTrue
<1>. QED
  BY <1>4, <1>5, <1>6, <1>7, <1>8, SoundVerdicts

\* Time passing, or nothing at all, keeps the verdicts true.
LEMMA TickVerdicts ==
    ASSUME TypeOK, VerdictInv,
           UNCHANGED <<record, reserved, worker, request, sends>>,
           clock' = clock \/ clock' = clock + 1
    PROVE  VerdictInv'
<1>1. clock \in Nat /\ clock' \in Nat /\ clock <= clock'
  BY DEF TypeOK
<1>2. \A f \in Effects : (Live(f)' <=> Live(f)) /\ (Mutated(f)' <=> Mutated(f))
  BY DEF Live, Mutated
<1>3. (\A f \in Effects : Sound(f, record[f]))'
  <2>1. \A f \in Effects : /\ Sound(f, record[f])
                           /\ record[f].link \subseteq Effects /\ record[f].at \in Nat
    BY VerdictsAreSound DEF TypeOK, Records
  <2>. QED
    BY <2>1, <1>1, <1>2 DEF Sound
<1>4. OwnersActAlone' /\ LinksAreReserved'
  BY DEF VerdictInv, OwnersActAlone, InConnector, LinksAreReserved
<1>5. CoalescedIsReal' /\ UnsentIsNone'
  BY <1>2 DEF VerdictInv, CoalescedIsReal, UnsentIsNone
<1>6. CommitsAreTrue'
  <2>1. \A v \in Workers : worker[v].pc = "persist" =>
            /\ worker[v].effect \in Effects /\ worker[v].next.link \subseteq Effects
            /\ worker[v].next.at \in Nat
    BY WorkerTypes DEF Records
  <2>. QED
    BY <2>1, <1>1, <1>2 DEF VerdictInv, CommitsAreTrue
<1>. QED
  BY <1>3, <1>4, <1>5, <1>6, SoundVerdicts

\* VerdictInv holds in every state the kernel, its crashing workers and the
\* remote service can reach.
THEOREM VerdictsAreInvariant == Spec => []VerdictInv
<1>1. Init => VerdictInv
  BY InitVerdicts
<1>2. TypeOK /\ KernelInv /\ VerdictInv /\ [Next]_vars => VerdictInv'
  BY JournalVerdicts, WorkVerdicts, RemoteVerdicts, TickVerdicts
  DEF Next, Tick, RemoteUnchanged, vars
<1>. QED
  BY <1>1, <1>2, TypesAreInvariant, KernelIsInvariant, PTL DEF Spec

\* verify_record succeeds on every record any operation leaves behind.
THEOREM RecordVerifiesHolds == Spec => []RecordVerifies
<1>1. VerdictInv => RecordVerifies
  BY DEF VerdictInv
<1>. QED
  BY <1>1, VerdictsAreInvariant, PTL

\* No lookup answer that is stale when it commits, no receipt and no
\* compensation ever claims success of an effect that did not happen.
THEOREM SuccessIsRealHolds == Spec => []SuccessIsReal
<1>1. VerdictInv => SuccessIsReal
  BY DEF VerdictInv
<1>. QED
  BY <1>1, VerdictsAreInvariant, PTL

\* Failed, rejected, expired and cancelled effects that are not retried under
\* their own key did not happen, and no request of them is under way.
THEOREM ClosedMeansNotExecutedHolds == Spec => []ClosedMeansNotExecuted
<1>1. VerdictInv => ClosedMeansNotExecuted
  BY DEF VerdictInv
<1>. QED
  BY <1>1, VerdictsAreInvariant, PTL

\* Originals that compete for a child are told apart by its reservation.
THEOREM ChildCompensatesOneHolds == Spec => []ChildCompensatesOne
<1>1. TypeOK /\ VerdictInv => ChildCompensatesOne
  <2>. SUFFICES ASSUME TypeOK, VerdictInv, NEW e \in Effects, NEW f \in Effects,
                       NEW child \in record[e].link \cap record[f].link
                PROVE  e = f
    BY DEF ChildCompensatesOne
  <2>1. child \in Effects
    BY DEF TypeOK, Records
  <2>. QED
    BY <2>1 DEF VerdictInv, LinksAreReserved
<1>. QED
  BY <1>1, TypesAreInvariant, VerdictsAreInvariant, PTL

\* Compensated is projected from a child that executed, whatever the child's
\* record has become between the read and the commit.
THEOREM CompensatedIsRealHolds == Spec => []CompensatedIsReal
<1>1. VerdictInv => CompensatedIsReal
  BY DEF VerdictInv
<1>. QED
  BY <1>1, VerdictsAreInvariant, PTL

-----------------------------------------------------------------------------
(* The refinement of LogicalEffect.                                        *)

\* The verdicts as sets of states.
LEMMA VerdictStates ==
    ASSUME NEW e, record[e].state \in States
    PROVE  /\ Verdict(e) = "ambiguous" <=> record[e].state = "Unknown"
           /\ Verdict(e) = "manual" <=> record[e].state = "ManualResolution"
           /\ Verdict(e) = "closed" <=> record[e].state \in ClosedStates
           /\ Verdict(e) = "succeeded" <=> record[e].state \in SuccessStates
           /\ Verdict(e) = "open" <=> record[e].state \in OpenStates
           /\ Verdict(e) \in {"open", "ambiguous", "succeeded", "closed", "manual"}
  BY DEF Verdict, ClosedStates, SuccessStates, OpenStates, States

\* The same of the state a step leads to.
LEMMA NextVerdictStates ==
    ASSUME NEW e, record'[e].state \in States
    PROVE  /\ Verdict(e)' = "ambiguous" <=> record'[e].state = "Unknown"
           /\ Verdict(e)' = "manual" <=> record'[e].state = "ManualResolution"
           /\ Verdict(e)' = "closed" <=> record'[e].state \in ClosedStates
           /\ Verdict(e)' = "succeeded" <=> record'[e].state \in SuccessStates
           /\ Verdict(e)' = "open" <=> record'[e].state \in OpenStates
           /\ Verdict(e)' \in {"open", "ambiguous", "succeeded", "closed", "manual"}
  BY DEF Verdict, ClosedStates, SuccessStates, OpenStates, States

\* A step that changes neither verdicts nor what happened is none of the
\* logical effects'.
LEMMA LogicalStutter ==
    ASSUME \A e \in JudgedEffects :
                Verdict(e)' = Verdict(e) /\ (Mutated(e)' <=> Mutated(e))
    PROVE  UNCHANGED Logical!logical
<1>1. [e \in JudgedEffects |-> Verdict(e)]' = [e \in JudgedEffects |-> Verdict(e)]
  BY DEF JudgedEffects
<1>2. [e \in JudgedEffects |-> Mutated(e)]' = [e \in JudgedEffects |-> Mutated(e)]
  BY Zenon DEF JudgedEffects, Mutated
<1>. QED
  BY <1>1, <1>2 DEF Logical!logical

\* A change of one verdict is the function update of the logical effects.
LEMMA LogicalJudge ==
    ASSUME NEW e \in JudgedEffects, NEW from, NEW to,
           Verdict(e) = from, Verdict(e)' = to,
           \A f \in JudgedEffects : f # e => Verdict(f)' = Verdict(f),
           \A f \in JudgedEffects : Mutated(f)' <=> Mutated(f)
    PROVE  Logical!Judge(e, from, to)
<1>1. [f \in JudgedEffects |-> Verdict(f)]' =
        [[f \in JudgedEffects |-> Verdict(f)] EXCEPT ![e] = to]
  BY DEF JudgedEffects
<1>2. [f \in JudgedEffects |-> Mutated(f)]' = [f \in JudgedEffects |-> Mutated(f)]
  BY Zenon DEF JudgedEffects, Mutated
<1>. QED
  BY <1>1, <1>2 DEF Logical!Judge

\* Every write of a record is a step of its logical effect or none: the state
\* machine's transitions project to the verdicts', and VerdictInv supplies what
\* happened.
LEMMA LogicalWrite ==
    ASSUME TypeOK, VerdictInv, TypeOK', VerdictInv',
           NEW e \in Effects, NEW next,
           record' = [record EXCEPT ![e] = next], UNCHANGED request,
           \/ CanTransition(record[e].state, next.state)
           \/ record[e].state = "Absent" /\ next.state = "Prepared"
    PROVE  Logical!Next \/ UNCHANGED Logical!logical
<1>1. record'[e] = next /\ \A f \in Effects : f # e => record'[f] = record[f]
  BY DEF TypeOK
<1>2. \A f \in Effects : (Live(f)' <=> Live(f)) /\ (Mutated(f)' <=> Mutated(f))
  BY DEF Live, Mutated
<1>3. \A f \in JudgedEffects : f # e => Verdict(f)' = Verdict(f)
  BY <1>1 DEF Verdict, JudgedEffects
<1>4. \A f \in JudgedEffects : f \in Effects /\ (Mutated(f)' <=> Mutated(f))
  BY <1>2 DEF JudgedEffects
<1>5. CASE e \notin JudgedEffects \/ Verdict(e)' = Verdict(e)
  BY <1>3, <1>4, <1>5, LogicalStutter
<1>6. CASE e \in JudgedEffects /\ Verdict(e)' # Verdict(e)
  <2>1. record[e].state \in States /\ record'[e].state \in States
    BY DEF TypeOK, Records
  <2>2. \A from, to : Verdict(e) = from /\ Verdict(e)' = to =>
            Logical!Judge(e, from, to)
    BY <1>3, <1>4, <1>6, LogicalJudge
  <2>3. /\ Verdict(e)' \in {"closed", "open"} => ~Mutated(e)
        /\ Verdict(e)' = "succeeded" => Mutated(e)
        /\ Verdict(e) = "open" => ~Mutated(e)
    <3>1. Mutated(e) => Live(e)
      BY DEF Mutated, Live
    <3>2. /\ record'[e].state \in ClosedStates => ~Live(e)'
          /\ record'[e].state \in OpenStates => ~Live(e)'
          /\ record[e].state \in OpenStates => ~Live(e)
          /\ record'[e].state \in SuccessStates => Mutated(e)'
      BY <1>6 DEF VerdictInv, ClosedMeansNotExecuted, JudgedAreQuiet, SuccessIsReal,
                  JudgedEffects, ClosedStates, SuccessStates
    <3>. QED
      BY <3>1, <3>2, <2>1, <1>2, VerdictStates, NextVerdictStates
  <2>4. \/ Verdict(e) = "open" /\ Verdict(e)' \in {"ambiguous", "closed"}
        \/ Verdict(e) = "ambiguous"
        \/ Verdict(e) = "succeeded" /\ Verdict(e)' = "ambiguous"
    <3>1. \/ CanTransition(record[e].state, record'[e].state)
          \/ record[e].state = "Absent" /\ record'[e].state = "Prepared"
      BY <1>1
    <3>2. \/ /\ record[e].state \in OpenStates
             /\ record'[e].state \in OpenStates \cup ClosedStates \cup SuccessStates
                    \cup {"Unknown"}
          \/ record[e].state = "Unknown"
          \/ /\ record[e].state \in SuccessStates
             /\ record'[e].state \in SuccessStates \cup {"Unknown"}
      BY <3>1
      DEF CanTransition, Transitions, OpenStates, ClosedStates, SuccessStates
    <3>. QED
      BY <3>2, <2>1, <2>3, <1>6, VerdictStates, NextVerdictStates
  <2>5. Verdict(e)' \in {"open", "ambiguous", "succeeded", "closed", "manual"}
    BY <2>1, NextVerdictStates
  <2>6. [f \in JudgedEffects |-> Mutated(f)][e] <=> Mutated(e)
    BY <1>6
  <2>7. \/ Logical!Enter(e) \/ Logical!Close(e) \/ Logical!Confirm(e)
        \/ Logical!Reopen(e) \/ Logical!GiveUp(e) \/ Logical!Doubt(e)
    BY <2>2, <2>3, <2>4, <2>5, <2>6, <1>6
    DEF Logical!Enter, Logical!Close, Logical!Confirm, Logical!Reopen,
        Logical!GiveUp, Logical!Doubt
  <2>. QED
    BY <2>7, <1>6 DEF Logical!Next
<1>. QED
  BY <1>5, <1>6

\* The remote acts once, behind no definitive verdict.
LEMMA LogicalRemote ==
    ASSUME TypeOK, KernelInv, VerdictInv, Remote
    PROVE  Logical!Next \/ UNCHANGED Logical!logical
<1>. PICK e \in Effects, a \in AttemptNumbers, to \in RequestStates :
        RemoteProcess(e, a, to)
  BY DEF Remote
<1>1. /\ request[e][a] = "inflight"
      /\ Idempotent(e) /\ to = "mutated" => ~Mutated(e)
      /\ request' = [request EXCEPT ![e][a] = to]
      /\ UNCHANGED record
  BY DEF RemoteProcess
<1>2. \A f \in Effects, b \in AttemptNumbers :
        request'[f][b] = IF f = e /\ b = a THEN to ELSE request[f][b]
  BY <1>1 DEF TypeOK
<1>3. /\ \A f \in Effects : f # e \/ to # "mutated" => (Mutated(f)' <=> Mutated(f))
      /\ to = "mutated" => Mutated(e)'
  BY <1>1, <1>2 DEF Mutated
<1>4. \A f \in JudgedEffects : f \in Effects /\ Verdict(f)' = Verdict(f)
  BY <1>1 DEF Verdict, JudgedEffects
<1>5. CASE e \notin JudgedEffects \/ to # "mutated"
  BY <1>3, <1>4, <1>5, LogicalStutter
<1>6. CASE e \in JudgedEffects /\ to = "mutated"
  <2>1. ~Mutated(e)
    BY <1>1, <1>6 DEF KernelInv, OneLiveRequest, Mutated
  <2>2. Live(e)
    BY <1>1 DEF Live
  <2>3. /\ record[e].state \notin ClosedStates
        /\ record[e].state \notin OpenStates
        /\ record[e].state \notin SuccessStates
    BY <2>1, <2>2, <1>6
    DEF VerdictInv, ClosedMeansNotExecuted, JudgedAreQuiet, SuccessIsReal,
        JudgedEffects, ClosedStates, SuccessStates
  <2>4. Verdict(e) \in {"ambiguous", "manual"}
    <3>1. record[e].state \in States
      BY DEF TypeOK, Records
    <3>. QED
      BY <3>1, <2>3, VerdictStates
  <2>5. [f \in JudgedEffects |-> Verdict(f)]' = [f \in JudgedEffects |-> Verdict(f)]
    BY <1>4 DEF JudgedEffects
  <2>6. [f \in JudgedEffects |-> Mutated(f)]' =
            [[f \in JudgedEffects |-> Mutated(f)] EXCEPT ![e] = TRUE]
    <3>1. \A f \in JudgedEffects :
            Mutated(f)' = (IF f = e THEN TRUE ELSE Mutated(f))
      BY <1>3, <1>4, <1>6 DEF Mutated
    <3>. QED
      BY <3>1, <1>6 DEF JudgedEffects
  <2>7. [f \in JudgedEffects |-> Mutated(f)][e] = Mutated(e)
    BY <1>6
  <2>8. Logical!Happen(e)
    BY <2>1, <2>4, <2>5, <2>6, <2>7, <1>6 DEF Logical!Happen
  <2>. QED
    BY <2>8, <1>6 DEF Logical!Next
<1>. QED
  BY <1>5, <1>6

\* A journal operation writes one transition of one record.
LEMMA JournalWrites ==
    ASSUME TypeOK, NEW e \in Effects, Journal(e)
    PROVE  /\ UNCHANGED request
           /\ \E next :
                /\ record' = [record EXCEPT ![e] = next]
                /\ \/ CanTransition(record[e].state, next.state)
                   \/ record[e].state = "Absent" /\ next.state = "Prepared"
<1>. DEFINE Goal == /\ UNCHANGED request
                    /\ \E next :
                        /\ record' = [record EXCEPT ![e] = next]
                        /\ \/ CanTransition(record[e].state, next.state)
                           \/ record[e].state = "Absent" /\ next.state = "Prepared"
<1>1. ASSUME NEW to, NEW now \in Nat, Step(e, to, now)
      PROVE  Goal
  <2>1. /\ CanTransition(record[e].state, to) /\ UNCHANGED request
        /\ record' = [record EXCEPT ![e] = Transition(record[e], to, now)]
    BY <1>1 DEF Step, MayTransition, Write, RemoteUnchanged
  <2>2. Transition(record[e], to, now).state = to
    BY <2>1, TargetIsState, TransitionFacts DEF TypeOK
  <2>. QED
    BY <2>1, <2>2
<1>2. ASSUME NEW auth \in Authorizations, Prepare(e, auth)
      PROVE  Goal
  <2>1. [NoRecord EXCEPT !.state = "Prepared"].state = "Prepared"
    BY DEF NoRecord
  <2>. QED
    BY <1>2, <2>1 DEF Prepare, Write, RemoteUnchanged
<1>3. ASSUME NEW auth \in Authorizations, NEW approval, NEW approved, NEW kind,
             Authorize(e, auth, approval, approved, kind)
      PROVE  Goal
  <2>. DEFINE t == Transition(record[e], "Authorized", auth.now)
  <2>1. /\ CanTransition(record[e].state, "Authorized") /\ UNCHANGED request
        /\ record' = [record EXCEPT ![e] = [t EXCEPT !.approval = approval]]
    BY <1>3 DEF Authorize, MayTransition, Write, RemoteUnchanged
  <2>2. t \in Records /\ t.state = "Authorized"
    <3>1. record[e] \in Records /\ auth.now \in Nat /\ "Authorized" \in States
      BY AuthorizationTypes DEF TypeOK, States
    <3>. QED
      BY <3>1, TransitionFacts
  <2>. HIDE DEF t
  <2>3. [t EXCEPT !.approval = approval].state = "Authorized"
    BY <2>2 DEF Records
  <2>. QED
    BY <2>1, <2>3
<1>4. ASSUME NEW now \in Nat, RecoverInflight(e, now)
      PROVE  Goal
  <2>. DEFINE t == Transition(record[e], "Unknown", now)
  <2>1. /\ CanTransition(record[e].state, "Unknown") /\ UNCHANGED request
        /\ record' = [record EXCEPT ![e] = [t EXCEPT !.outbox = "completed"]]
    BY <1>4 DEF RecoverInflight, MayTransition, Write, RemoteUnchanged
  <2>2. t \in Records /\ t.state = "Unknown"
    BY TransitionFacts DEF TypeOK, States
  <2>. HIDE DEF t
  <2>3. [t EXCEPT !.outbox = "completed"].state = "Unknown"
    BY <2>2 DEF Records
  <2>. QED
    BY <2>1, <2>3
<1>5. 0 .. clock \subseteq Nat
  BY DEF TypeOK
<1>. HIDE DEF Goal
<1>6. ASSUME NEW auth \in Authorizations,
             \/ RequestApproval(e, auth) \/ Reject(e, auth) \/ Cancel(e, auth)
             \/ AuthorizeIdempotentRetry(e, auth) \/ ManualResolution(e, auth)
      PROVE  Goal
  BY <1>1, <1>6, AuthorizationTypes
  DEF RequestApproval, Reject, Cancel, AuthorizeIdempotentRetry, ManualResolution
<1>7. Goal
  BY <1>1, <1>2, <1>3, <1>4, <1>5, <1>6 DEF Journal, Expire
<1>. QED
  BY <1>7 DEF Goal

\* A worker's step writes one transition of one record, or none; only the send
\* touches a request, and none that the remote has acted on.
LEMMA WorkWrites ==
    ASSUME TypeOK, KernelInv, VerdictInv, NEW w \in Workers, Work(w)
    PROVE  \/ UNCHANGED record /\ \A f \in Effects : Mutated(f)' <=> Mutated(f)
           \/ /\ UNCHANGED request
              /\ \E e \in Effects : \E next :
                    /\ record' = [record EXCEPT ![e] = next]
                    /\ CanTransition(record[e].state, next.state)
<1>. DEFINE Quiet == UNCHANGED record /\ \A f \in Effects : Mutated(f)' <=> Mutated(f)
            Writes == /\ UNCHANGED request
                      /\ \E e \in Effects : \E next :
                            /\ record' = [record EXCEPT ![e] = next]
                            /\ CanTransition(record[e].state, next.state)
<1>0. ASSUME UNCHANGED <<record, request>>
      PROVE  Quiet
  BY <1>0 DEF Mutated
<1>1. ASSUME NEW auth \in Authorizations, NEW to \in States,
             DispatchWithoutSend(w, auth, to)
      PROVE  Writes
  <2>. DEFINE e == worker[w].effect
              next == Receipted(record[e], to, auth.now)
  <2>1. e \in Effects /\ auth.now \in Nat
    BY <1>1, WorkerTypes, AuthorizationTypes DEF DispatchWithoutSend
  <2>2. next.state = to
    BY <2>1, ReceiptedFacts DEF TypeOK
  <2>3. /\ CanTransition(record[e].state, to) /\ UNCHANGED request
        /\ record' = [record EXCEPT ![e] = next]
    BY <1>1 DEF DispatchWithoutSend, MayTransition, Write, RemoteUnchanged
  <2>. HIDE DEF e, next
  <2>. QED
    BY <2>1, <2>2, <2>3
<1>2. ASSUME NEW auth \in Authorizations, AcquireDispatchOwnership(w, auth)
      PROVE  Writes
  <2>. DEFINE e == worker[w].effect
              next == Entered(record[e], auth.now)
  <2>1. e \in Effects /\ auth.now \in Nat
    BY <1>2, WorkerTypes, AuthorizationTypes DEF AcquireDispatchOwnership
  <2>2. next.state = "Unknown"
    BY <2>1, EnteredFacts DEF TypeOK
  <2>3. /\ CanTransition(record[e].state, "Unknown") /\ UNCHANGED request
        /\ record' = [record EXCEPT ![e] = next]
    BY <1>2 DEF AcquireDispatchOwnership, MayTransition, Write, RemoteUnchanged
  <2>. HIDE DEF e, next
  <2>. QED
    BY <2>1, <2>2, <2>3
<1>3. ASSUME NEW auth \in Authorizations, NEW e \in Effects,
             NEW deadline \in 1 .. Intent[e].expires,
             ClaimDispatch(w, e, auth, deadline)
      PROVE  Writes
  <2>. DEFINE next == Claimed(record[e], deadline, auth.now)
  <2>1. deadline \in Nat /\ auth.now \in Nat /\ record[e] \in Records
    BY ConstantsAssumption, AuthorizationTypes DEF TypeOK, Intents
  <2>2. next.state = "Dispatching"
    <3>1. PICK r \in Records, d \in Nat, now \in Nat :
            r = record[e] /\ d = deadline /\ now = auth.now
      BY <2>1
    <3>2. Claimed(r, d, now).state = "Dispatching"
      BY ClaimedFacts
    <3>. QED
      BY <3>1, <3>2
  <2>3. /\ CanTransition(record[e].state, "Dispatching") /\ UNCHANGED request
        /\ record' = [record EXCEPT ![e] = next]
    BY <1>3 DEF ClaimDispatch, MayTransition, Write, RemoteUnchanged
  <2>. HIDE DEF next
  <2>. QED
    BY <2>2, <2>3
<1>4. /\ \A e, auth, answer : Reconcile(w, e, auth, answer) => Quiet
      /\ \A e, auth, child : RequestCompensation(w, e, child, auth) => Quiet
      /\ \A e, auth : BeginCompensation(w, e, auth) => Quiet
      /\ \A e, auth, to : ResolveCompensation(w, e, to, auth) => Quiet
      /\ \A e : ResumeDispatch(w, e) => Quiet
      /\ DispatchRefused(w) \/ Crash(w) => Quiet
  <2>. HIDE DEF Quiet
  <2>1. ASSUME NEW e, NEW auth, NEW answer, Reconcile(w, e, auth, answer)
        PROVE  Quiet
    BY <1>0, <2>1 DEF Reconcile, RemoteUnchanged
  <2>2. ASSUME NEW e, NEW auth, NEW child, RequestCompensation(w, e, child, auth)
        PROVE  Quiet
    BY <1>0, <2>2 DEF RequestCompensation, RemoteUnchanged
  <2>3. ASSUME NEW e, NEW auth, BeginCompensation(w, e, auth)
        PROVE  Quiet
    BY <1>0, <2>3 DEF BeginCompensation, RemoteUnchanged
  <2>4. ASSUME NEW e, NEW auth, NEW to, ResolveCompensation(w, e, to, auth)
        PROVE  Quiet
    BY <1>0, <2>4 DEF ResolveCompensation, RemoteUnchanged
  <2>5. ASSUME NEW e, ResumeDispatch(w, e)
        PROVE  Quiet
    BY <1>0, <2>5 DEF ResumeDispatch, RemoteUnchanged
  <2>6. ASSUME DispatchRefused(w) \/ Crash(w)
        PROVE  Quiet
    BY <1>0, <2>6 DEF DispatchRefused, Crash, RemoteUnchanged
  <2>. QED
    BY <2>1, <2>2, <2>3, <2>4, <2>5, <2>6
<1>5. ASSUME ConnectorSend(w)
      PROVE  Quiet
  <2>. DEFINE e == worker[w].effect
              a == worker[w].attempt
  <2>1. /\ InConnector(w) /\ worker[w].pc = "entered" /\ UNCHANGED record
        /\ request' = [request EXCEPT ![e][a] = "inflight"]
    BY <1>5 DEF ConnectorSend, InConnector
  <2>2. e \in Effects /\ sends[e][a] = 0
    BY <2>1, WorkerTypes DEF KernelInv, OwnersAreUnique
  <2>3. a \in AttemptNumbers => request[e][a] = "none"
    BY <2>2 DEF VerdictInv, UnsentIsNone
  <2>. HIDE DEF e, a
  <2>4. \A f \in Effects, b \in AttemptNumbers :
            request'[f][b] = IF f = e /\ b = a THEN "inflight" ELSE request[f][b]
    BY <2>1, <2>2 DEF TypeOK
  <2>. QED
    BY <2>1, <2>3, <2>4 DEF Mutated
<1>6. ASSUME NEW to \in States, FinalizeObservation(w, to)
      PROVE  Quiet \/ Writes
  <2>. DEFINE e == worker[w].effect
              next == Receipted(record[e], to, record[e].at)
  <2>1. /\ InConnector(w) /\ e \in Effects /\ UNCHANGED request
        /\ to \in {"Unknown", "Succeeded", "Failed"}
    BY <1>6, WorkerTypes
    DEF FinalizeObservation, Observations, InConnector, RemoteUnchanged
  <2>2. CASE record[e].version # worker[w].version
    BY <1>6, <2>1, <2>2, <1>0 DEF FinalizeObservation
  <2>3. CASE record[e].version = worker[w].version
    <3>1. record' = [record EXCEPT ![e] = next]
      BY <1>6, <2>3 DEF FinalizeObservation, Write
    <3>2. next.state = to
      <4>1. record[e] \in Records /\ record[e].at \in Nat
        BY <2>1 DEF TypeOK, Records
      <4>. QED
        BY <4>1, ReceiptedFacts
    <3>3. record[e].state = "Unknown"
      BY <2>1, <2>3 DEF KernelInv, OwnersAreCurrent
    <3>4. CanTransition(record[e].state, to)
      BY <2>1, <3>3 DEF CanTransition, Transitions
    <3>. HIDE DEF e, next
    <3>. QED
      BY <2>1, <3>1, <3>2, <3>4
  <2>. QED
    BY <2>2, <2>3
<1>7. ASSUME Persist(w)
      PROVE  Quiet \/ Writes
  <2>. DEFINE e == worker[w].effect
              next == worker[w].next
  <2>1. /\ worker[w].pc = "persist" /\ UNCHANGED request
        /\ \/ UNCHANGED record
           \/ /\ record[e].version = worker[w].version
              /\ record' = [record EXCEPT ![e] = next]
    BY <1>7 DEF Persist, Write, RemoteUnchanged
  <2>2. e \in Effects
    BY <2>1, WorkerTypes
  <2>3. record[e].version = worker[w].version =>
            CanTransition(record[e].state, next.state)
    BY <2>1 DEF VerdictInv, CommitsAreTrue
  <2>. HIDE DEF e, next
  <2>. QED
    BY <2>1, <2>2, <2>3, <1>0
<1>. HIDE DEF Quiet, Writes
<1>8. Quiet \/ Writes
  BY <1>1, <1>2, <1>3, <1>4, <1>5, <1>6, <1>7 DEF Work
<1>. QED
  BY <1>8 DEF Quiet, Writes

\* Every step of the kernel and its remote is a step of a logical effect or
\* changes none.
LEMMA LogicalStep ==
    ASSUME TypeOK, KernelInv, VerdictInv, TypeOK', VerdictInv', [Next]_vars
    PROVE  [Logical!Next]_(Logical!logical)
<1>1. ASSUME NEW e \in Effects, Journal(e)
      PROVE  Logical!Next \/ UNCHANGED Logical!logical
  BY <1>1, JournalWrites, LogicalWrite
<1>2. ASSUME UNCHANGED record, \A f \in Effects : Mutated(f)' <=> Mutated(f)
      PROVE  UNCHANGED Logical!logical
  BY <1>2, LogicalStutter DEF Verdict, JudgedEffects
<1>3. ASSUME NEW w \in Workers, Work(w)
      PROVE  Logical!Next \/ UNCHANGED Logical!logical
  BY <1>2, <1>3, WorkWrites, LogicalWrite
<1>4. CASE Tick \/ UNCHANGED vars
  <2>1. UNCHANGED <<record, request>>
    BY <1>4 DEF Tick, RemoteUnchanged, vars
  <2>2. \A f \in Effects : Mutated(f)' <=> Mutated(f)
    BY <2>1 DEF Mutated
  <2>. QED
    BY <2>1, <2>2, <1>2
<1>. QED
  BY <1>1, <1>3, <1>4, LogicalRemote DEF Next

\* The kernel with its remote implements LogicalEffect: an effect that is
\* judged before it is retried happens at most once, only while its outcome is
\* ambiguous, and every definitive verdict agrees with what happened.
THEOREM LogicalEffectIsImplemented == Spec => ImplementsLogicalEffect
<1>1. Init => Logical!Init
  <2>. SUFFICES ASSUME Init PROVE Logical!Init
    OBVIOUS
  <2>1. \A e \in JudgedEffects : record[e].state = "Absent"
    <3>1. NoRecord.state = "Absent"
      BY DEF NoRecord
    <3>2. \A e \in Effects : record[e] = NoRecord
      BY DEF Init
    <3>3. JudgedEffects \subseteq Effects
      BY DEF JudgedEffects
    <3>. QED
      BY <3>1, <3>2, <3>3
  <2>2. \A e \in JudgedEffects : Verdict(e) = "open"
    BY <2>1 DEF Verdict
  <2>3. \A e \in JudgedEffects, a \in AttemptNumbers : request[e][a] # "mutated"
    BY DEF Init, JudgedEffects
  <2>4. \A e \in JudgedEffects : Mutated(e) = FALSE
    BY <2>3 DEF Mutated
  <2>5. [e \in JudgedEffects |-> Mutated(e)] = [e \in JudgedEffects |-> FALSE]
    <3>. HIDE DEF Mutated
    <3>. QED BY <2>4
  <2>6. [e \in JudgedEffects |-> Verdict(e)] = [e \in JudgedEffects |-> "open"]
    BY <2>2
  <2>. QED
    BY <2>5, <2>6, Zenon DEF Logical!Init
<1>2. TypeOK /\ KernelInv /\ VerdictInv /\ TypeOK' /\ VerdictInv' /\ [Next]_vars
        => [Logical!Next]_(Logical!logical)
  BY LogicalStep
<1>. QED
  BY <1>1, <1>2, TypesAreInvariant, KernelIsInvariant, VerdictsAreInvariant, PTL
  DEF Spec, ImplementsLogicalEffect, Logical!Spec

=============================================================================
