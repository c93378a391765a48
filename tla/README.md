# A TLA+ verification of CIGAR

CIGAR (this repository) is a context and effect runtime for agents, written in
Rust: it compiles context for agents, lets them propose changes of the outside
world ("effects"), and keeps what they share in spaces and stores. This
directory models its parts that are concurrent, may crash between two writes,
or promise something about the outside world; TLC checks the models on small
instances and TLAPS proves the theorems listed below for all instances.

## 1. Inventory

Line counts are those of `crates/*/src`.

| Component | State it keeps | Operations | What is hard about it | What makes it correct |
|---|---|---|---|---|
| **Effect kernel** `cigar-effects` (2,900), transitions in `cigar-protocol/src/effect.rs` | one durable, versioned record per effect: state, attempts, receipts, approval, outbox item, compensation link | prepare, request_approval, authorize, reject, cancel, expire, claim_dispatch, resume_dispatch/dispatch, recover_inflight, authorize_idempotent_retry, reconcile, manual_resolution, request/begin/resolve_compensation | several workers on one record; death between the commit of ownership and the receipt; lost responses; answers that are old when committed | one send per attempt, one mutation per key, verdicts agree with what happened, records stay verifiable, ambiguity that is due is looked into |
| **Broker scheduler** `cigar-context/src/broker/scheduler.rs` (500) | lanes per grant, turn list, host queue, byte counters, a shared flag per job | host_register, host_revoke, host_prune, host_drain, enqueue_agent, enqueue_host, pop/dispatch, cancel | cancel() takes no lock; two structures describe the same queue; leases end while jobs wait | exact turns and counters, definitive cancellation, no starvation |
| **Broker runtime** `cigar-context/src/broker_worker.rs` (880) | `closed`, the condition variable, reply channels, budgets | owner loop, connection handler, host calls, listener, drop | lost wakeups, shutdown from four sides, waits without timeout | nothing stranded, calls return, shutdown ends, "not dispatched" is true |
| **Context broker** `cigar-context/src/broker/{mod,execution,ingestion,types}.rs` (1,900) | grants, sources with versions and lineage, documents and their relations, staged replacements, proposals, tickets with submissions and execution bindings | host_grant/revoke, host_replace_source, host_set_edge, begin/append/commit/abort a staged replacement, propose/admit/reject/forget, compile, submit_answer, bind and take an execution | evidence an agent cannot read changes under what it can; leases of four kinds; one retention limit over five kinds of things | a handoff is taken once and while its evidence stands; nothing outlives its grant; retention is bounded |
| **Broker recovery** `broker/recovery.rs`, `broker_worker/persistence` (1,000) | checkpoint, receipts | checkpoint, restore, commit | death or failure around a commit; legal commands whose result recovery refuses | what is served is durable, what is stored can be restored, no old authority survives |
| Broker protocol, authentication (1,100) | one exchange | framing, mutual proof | - | cryptographic |
| Local graph and selection `cigar-context/src/{graph,views,select,...}.rs` (4,000) | documents, edges, views | upsert, replace_source, link, select | sequential | selection respects budget and scope |
| **Context spaces** `cigar-space/src/service.rs` (1,500) | the commits of a space, overlays, conflicts, events, leases, focus branches, project links | create, propose, publish, resolve_conflict, append/poll events, acquire/renew/release a lease, fork/checkpoint/switch/resume a focus | publication against a head that moved, pages that end among invisible events, leases taken over | no value is overwritten unseen, streams miss nothing, fencing tokens are not reused |
| **Handoffs** `cigar-space/src/handoff.rs` (1,800) | capsules, acceptances, results, revocations | create, accept, revoke, record_result, merge material | two recipients; a revocation between inspection and use | one acceptance, a revocation stops later use |
| **Durable snapshots** `cigar-daemon/src/durable_snapshot.rs` (1,900) | chunks and a root per service in the repository, a copy in the memory of every daemon | transact, publish, reload, poison, open | two daemons, commits whose answer is lost, failure between chunks and root | no publication is lost, what is acknowledged is durable, what is served was published |
| **Mutation idempotency** `cigar-daemon/src/{durable_idempotency,governed_facade}.rs` (1,100) | a record per request key | reserve, execute, complete, wait, recover | retries on two daemons, death between mutation and record | a key acts once, its answers are those of that one execution |
| **Space and handoff adapters** `cigar-daemon/src/space_handoff_adapters.rs` (2,500) | the services of each tenant | one handler per API call, event streams | read in one service, write in another | - |
| Store `cigar-store` (35,000) | revisions, blobs, outbox, snapshots | read snapshots, commit, gc, backup | MVCC, GC against readers, crash | snapshot isolation, nothing reachable is collected |
| API `cigar-api` (8,800) | in-memory idempotency, quota reservations, cursors | call, retry, page | concurrent duplicates | one execution per key, quota returned |
| Daemon `cigar-daemon` (58,000) | worker leases, lifecycle, replay jobs | poll, drain, recover | shutdown and restart | leases exclusive, drain ends |
| Policy `cigar-policy`, crypto, canon, protocol | none | decide, sign, encode | - | pure functions |
| Compiler, catalog, retrieval, replay | caches and indexes | pack, ingest, rank, re-execute | algorithms | budget, determinism |
| Extension host `cigar-extension-host` (8,100) | subprocesses | start, call, kill | I/O | isolation |
| CLI, MCP, hook, dashboard, SDKs, adapters, tools | - | - | interfaces | - |

How they interact. Callers reach the kernel through the daemon, which holds the
workers: a worker claims an effect in the store, calls a connector, and commits
a receipt. The kernel talks to the store through compare-and-swap on the
record's version only. The context broker is a process of its own: agents
connect to it over loopback, the host commands it over stdio, and one owner
thread executes everything; the scheduler is the only thing its threads share.
A broker's `host_take_execution_handoff` yields what an effect is prepared from.
Spaces and handoffs are served by the daemon: a call goes through the governed
facade, which reserves its key durably, to a handler, which calls a durable
service, which runs the in-memory service and publishes its new snapshot. Two
daemons may serve the same repository.

The full list of what is hard to test, each at its line and with the property
that watches it, is `hazards` in `PROJECT.json`.

## 2. Modules

| Module | Models | Needs |
|---|---|---|
| `EffectKernel` | the kernel, its workers, the store's compare-and-swap, key and reservation bindings, the remote | - |
| `LogicalEffect` | what the kernel promises of one effect (abstract specification) | - |
| `EffectKernelInvariant` | the inductive invariants `KernelInv` and `VerdictInv` | `EffectKernel` |
| `EffectKernelProofs` | theorems about what is sent and what it changes, about what the journal says of it, and the refinement of `LogicalEffect` | `EffectKernelInvariant` |
| `FoldLemmas` | induction with sets, sums over finite sets, sequences (lemmas that several proofs share) | - |
| `BrokerScheduler` | the admission queue | - |
| `BrokerSchedulerProofs` | theorems about cancellation and the queue | `BrokerScheduler`, `FoldLemmas` |
| `BrokerRuntime` | the threads of the broker process around that queue (composition) | `BrokerScheduler` |
| `BrokerRuntimeProofs` | theorems about the process | `BrokerRuntime`, `BrokerSchedulerProofs` |
| `BrokerEvidence` | sources, lineage, documents, relations, their checkpoint and its restoration, as operators | - |
| `ContextBroker` | the broker's commands over that evidence, its store, its end and its restart | `BrokerEvidence` |
| `ContextBrokerProofs` | theorems about the broker | `ContextBroker`, `FoldLemmas` |
| `DurableSnapshots` | the protocol of a durable service: memory, chunks, root, failures, several instances; the service is a parameter | - |
| `DurableSnapshotsProofs` | theorems about that protocol, for every service | `DurableSnapshots` |
| `ContextSpace` | the operations of a context space, as operators from a state and a request to the states after it | - |
| `DurableSpaces` | spaces under the protocol (composition) | `ContextSpace`, `DurableSnapshots` |
| `DurableSpacesProofs` | theorems about leases, publications and event streams | `DurableSpaces`, `DurableSnapshotsProofs`, `FoldLemmas` |
| `Handoffs` | the operations of the handoff service, in the same form | - |
| `IdempotentCalls` | reservation and completion of requests under a key | - |
| `HandoffRequests` | clients, facade, handlers and the handoff service on several daemons (composition) | `Handoffs`, `IdempotentCalls`, `DurableSnapshots` |
| `HandoffRequestsProofs` | theorems about requests, handoffs and daemons together | `HandoffRequests`, `DurableSnapshotsProofs`, `FoldLemmas` |
| `MCEffectKernel`, `MCBrokerScheduler`, `MCBrokerRuntime`, `MCContextBroker`, `MCDurableSpaces`, `MCHandoffRequests` | instances for TLC | |

Operators whose comment begins with "Mutant" are wrong versions of the
definition that follows them; `mutants` in `PROJECT.json` says which property
notices each. They are used nowhere else.

### Effect kernel

`record[e]` is the durable projection of one effect; its `version` is the length
of the journal, `attempt` both the number and the fencing token of the last
attempt, `event` and `at` describe the last event. Digests, evidence and
identifiers are left out, since nothing branches on their content except
equality with what was stored.

An operation that reads a record and commits it with nothing external in
between is one action: the code's retry loop around a failed compare-and-swap
re-reads and re-checks everything, so it adds no behaviour. Operations that
consult something else between read and commit (`reconcile` the connector, the
compensation operations a second record) are split in two: the first leaves the
computed record in the worker (`pc = "persist"`), `Persist` commits it if the
version is still the one read. `dispatch` is `VerifyPermit` and a check, then
either `DispatchWithoutSend`, or `AcquireDispatchOwnership` (commit of
`Unknown`), `ConnectorSend` and `FinalizeObservation`; `Crash` may fall between
any two.

A caller's clock may be behind: `Authorizations` gives every call some instant
up to the present, as `EffectAuthorization.now` is filled in before the call.

The remote is external. It follows what `connector.rs` demands of a connector:
no request leaves at or after the attempt's deadline, equal keys of an operation
declared idempotent change the remote once, and a lookup says only what is so.
A request that left may arrive at any later time or never. `sends` and
`request` are the remote's side and invisible to the kernel.

### Broker scheduler

Each `host_*`, `enqueue_*` and `pop` call is one action, because the mutex is
held throughout, except that `pop` is `Pop` followed by `Dispatch`: the flag is
read, then compared and swapped, and `cancel()` may fall between. `Register`
takes the lanes that were pruned in the same critical section, so that the
runtime's Grant command can use it. Job slots are used again (`Retire`) so that
finite instances have infinite behaviours. Secrets and digests are model values.

### Broker runtime

`owner.pc` follows `own()` and `next_job()`; the mutex is held across steps only
at `parking` (test done, wait not yet registered) and inside `dispatch()`, which
is what `LockFree` says; all other critical sections are single steps. A
notification wakes the owner only if it is `parked`; spurious wakeups are
allowed. A connection is one request and shares its job's name. It may leave
whenever its peer, a deadline or `closed` may make it; that is one action,
`Leave`, with the cancellation that `CancelOnDrop` performs. The host's thread
is sequential (`rx.recv()` has no timeout) and ends in `Runtime::drop`.

The broker's `grants` are kept beside the queue's `lanes`. The two deadlines of
one grant come from two readings of the clock, so a lane may live a moment
longer (`ClockReads`); this is the only way `host_register` can refuse a grant
the broker just made, and the model takes that path.

The host's commands are five kinds: Grant, Revoke, Close, those that are
persisted (`Mutate`) and those that are not (`Read`). What the commands do to
sources and proposals is in `ContextBroker`; budgets of connections and bytes
are modelled by their effect, a refused connection or a lost reply.

### Context broker

The owner runs one command at a time, so a command is one action. Evidence and
authority are kept apart: `evidence` is what a checkpoint saves, `memory`
(grants, tickets, proposals, staged sources) dies with its process. A command
that changes the evidence goes through `Commit`, which has the three outcomes of
`own()`: committed and answered, or the owner stops without an answer, with the
transaction in the store or not. `Restart` restores the checkpoint under a new
epoch and binds the lineage to it. A refused command leaves behind only what
`prune()` removed (`RefusedCall`); a staged commit that is refused consumes its
staging all the same.

A ticket keeps the versions of the readable sources and the context compiled
from them, as the code does; `lineage` and `touched` are history variables that
say what it rested on and whether any of that has changed since, and no guard
reads them. Left out: the bound of 64 on the depth of a lineage, the byte quotas
of sources, provenance and relations (retention is counted in items), view
handles (made and revoked with their grant), a broker without a store, and more
than one request key per grant. The wall clock and the monotonic clock are one,
which is never set back.

### Durable snapshots, spaces and handoffs

A durable service holds a mutex while it runs an operation on its memory,
validates and exports the result, stores the chunks, commits the root under the
version it expects, and on failure reloads. `DurableSnapshots` has one action
per access to the repository; between any two, other instances move and the
process may end. The root's history is `roots`. A commit may fail before or
after it took effect (`MaxFaults` bounds such faults); the instance then looks
at the root and takes it for its own if version and content are what it wrote
(`FoundOwn`), otherwise returns to the state it finds, and if the reload fails
too it is poisoned until its process ends. `Empty`, `Valid`, `Apply` and
`Requests` are the service: `DurableSpaces` gives those of a space,
`HandoffRequests` those of handoffs.

`ContextSpace` has one space, whose requests carry the instants at which they
are made. A commit is its resources and its parent; digests and identifiers are
the values themselves. `PageLimits` are the page sizes clients ask for. `Publish`, `ResolveConflict` and `ResolveAndPublish` are
separate, as in the code, and `ValidSpace` is `validate_space_snapshot()`, which
every export runs. `Alternating` in `MCDurableSpaces` bounds the requests that
reach each instance.

`IdempotentCalls` follows a call through `call_mutation()`: the record is read,
claimed by compare-and-swap or replayed, the delegate runs, and its outcome is
stored; a call that finds another in progress waits until the record is
complete or its wait ends. An error of the delegate keeps the reservation
(`ConservativeMutationExecutor`). `Recover` is the reconciliation by an
operator, which knows what was published; nothing forces it. In
`HandoffRequests` the delegate of a call is a transaction of `DurableSnapshots`,
and a merge is two steps, because it reads the handoff service and writes the
space service. Signatures, expiry and the narrowing of capabilities only refuse
requests (`Refuse`).

## 3. Runs

State counts are distinct states.

| Run | Instance | Checks | States |
|---|---|---|---|
| `effect_retry` | 1 effect retried after reconciliation, 2 workers, 2 attempts, 2 lookups, clock to 2 | `OneSendPerAttempt`, `AtMostOneMutation`, `ClosedMeansNotExecuted`, `SendsAreCurrent`, refinement `ImplementsLogicalEffect` | 208,684 |
| `effect_compensation` | 2 originals, 1 child, 2 workers | `ChildCompensatesOne`, `CompensatedIsReal` | 731,511 |
| `effect_liveness` | 2 risky intents with one key, one retried under the key, approvals that expire, 2 lookups, 1 worker that may die | `RecordVerifies`, `AtMostOneMutation`, `SuccessIsReal`, `DispatchingEnds`, `UnknownIsLookedUp` | 72,451 |
| `scheduler` | 3 agents, 3 grants, 3 jobs of unequal size, 1 host job, waits beyond the lease | `TurnsAreExact`, `BytesAreExact`, `CancelIsDefinitive`, `ReadyIsCovered`, `NobodyOvertakes` | 653,435 |
| `runtime` | 2 connections, 2 agents with room for 1, 2 grants | `GrantsMatchLanes`, `NotDispatchedNeverRan`, `NothingStranded` | 3,373,284 |
| `runtime_liveness` | 1 connection, every command of the host, slots used again | `NobodyStarves`, `HostCallReturns`, `ShutdownCompletes` | 250,126 |
| `broker` | 1 agent, a source derived from another it cannot read, 2 documents, 1 restart, clock to 1 | `HandoffIsFresh`, `CheckpointRestores`, `ServedIsDurable`, `RetainedWithinBounds`, `NothingOutlivesItsGrant` | 766,822 |
| `spaces` | 2 authors, 2 instances, 1 key, 3 values, 5 events, 11 roots, 1 fault | `RootIsReadable`, `ServesPublished`, `EventsAreComplete`, `TokenNamesOneLease`, `SeenBeforeOverwritten`, `RootsChain`, `AckedIsDurable` | 353,845 |
| `handoff_requests` | 11 calls, retries among them, on 2 daemons from four histories of a capsule, 5 roots, 1 fault | `ActsOnce`, `AnswerIsExact`, `AcceptedOnce`, `RevocationStopsUse`, `CallsReturn` | 89,035 |
| `space_lost_update`, `space_resolution`, `handoff_barrier` | - | three statements of the documentation that the code does not keep (section 6) | violated |

Why the bounds are enough to see what is interesting:

* Effects: two workers give every race of two callers on one record; two
  attempts give one retry, which is where an old request, an old owner and a new
  attempt meet; an intent that ends at 2 with attempt deadlines from 1 on gives
  attempts that time out before and at the end of the intent. More effects share
  nothing but keys and compensation links, which have runs of their own.
* Scheduler: two of the three jobs fit in one lane, so that a lane with more work
  goes behind the others after its turn, and the three lanes give turns in which
  somebody is behind two others. A lane refuses what exceeds it; all jobs
  together fill exactly what the agents may queue. That a third lane never
  exceeds it is left to `BytesAreExactHolds`: it takes four jobs, which are too
  many for TLC. A lease of 1 and waits of 1 and 2 give jobs that outwait their
  grant.
* Runtime: a second connection matters for a lane with two jobs and for a grant
  that is replaced while one job waits and another is admitted; the second agent
  matters for `MaxAgents`. `runtime_liveness` has every command of the host, one
  connection and one clock, since liveness is checked without symmetry.
* Broker: two sources are the least lineage, three versions of the derived one
  let it go forth and back; the raw one may expire, be withdrawn, or be derived
  from what was derived from it, which is the cycle that must be refused. One
  agent suffices, since agents share only the retention limit, which one agent
  and the host's batches already contend for.
* Spaces: a second author and a second instance give every race of two
  publications; five events with one urgent and two projects give pages of one
  and two that end among invisible ones. One fault is enough for each kind of
  lost answer, because an instance that fails has no memory of earlier faults.
* Handoffs: each history of a capsule (none, created, accepted, recorded) is
  met by the calls that could race for it, a retry of each with the same key, one
  with the same key and another content, and a restart.

Deadlock checking is off everywhere: an effect whose states are all final, a
queue nobody uses and a broker that has exited may stop.

Symmetry is used for workers, originals, grants, agents and equal jobs, only in
runs without liveness properties.

### Fairness

* `FairSpec` (effects): the daemon's workers poll for claimed effects and for
  those whose reconciliation is due, so the steps that resume, dispatch, commit
  and `PollReconciliation` are strongly fair: a worker may die at any step but
  not each time at the same one. A poll that fails, as on an effect whose owner
  may still send, ends the loop of its daemon; the fairness assumes that a daemon
  is started again, that the policy permits its lookups, and that the certainty
  window of an inconclusive lookup ends. It does not assume more than
  `reconciliation_is_due()` gives: after a report that is not inconclusive the
  daemon never polls for an effect again, so that an effect that is retried on a
  proof and becomes `Unknown` once more waits for a client's lookup or for manual
  resolution, which nobody is obliged to. Nor does it choose between due effects,
  and once one of them has used up its lookups no poll is owed to any: the poll
  meets `LimitExceeded` there and closes the daemon's loop (`LookupsUsedUp`).
  Connector calls end (their deadline is hard). Nobody has to propose, approve,
  cancel, retry or drive a compensation, which no worker of the daemon does.
* `FairRuntimeSpec`: threads that can run do; the host takes a reply that is
  there. Calls, connections, disconnections, failures and spurious wakeups are
  never forced. Weak fairness of the owner is enough because every other
  critical section is short and nobody but the owner waits under the mutex.
  `NobodyStarves` is checked here, with the queue in its place and one agent:
  the owner is woken for every job and takes it, although the host keeps adding
  work. Between agents it rests on `NobodyOvertakes`, an action property that
  needs no fairness: it is checked with three agents and proved for any number,
  and with it every `pop()` brings a waiting job closer to its turn.
* `FairSpec` (handoff requests): some runnable task of a live daemon moves, which
  is weak fairness of the steps of calls and instances together. Clients,
  recovery, faults, the end of a daemon and its restart are never forced;
  a call whose daemon ends is gone, and its client may retry it elsewhere.

## 4. Theorems

| Module | Theorem | Says, for all constants |
|---|---|---|
| `EffectKernelProofs` | `TypesAreInvariant` | `Spec => []TypeOK` |
| | `KernelIsInvariant` | `Spec => []KernelInv` |
| | `OneSendPerAttemptHolds` | at most one request per attempt |
| | `AtMostOneMutationHolds` | at most one mutation per idempotency key |
| | `SendsAreCurrentHolds` | requests leave only for the current, open attempt |
| | `VerdictsAreInvariant` | `Spec => []VerdictInv` |
| | `RecordVerifiesHolds` | every stored record passes the checks of a reader |
| | `SuccessIsRealHolds` | what is recorded as executed was executed |
| | `ClosedMeansNotExecutedHolds` | what is closed as not executed was not and will not be |
| | `ChildCompensatesOneHolds` | a child compensates one original |
| | `CompensatedIsRealHolds` | what is recorded as compensated was |
| | `LogicalEffectIsImplemented` | every effect of the kernel is a `LogicalEffect` |
| `BrokerSchedulerProofs` | `CancelIsInvariant` | flags, statuses and what handlers were told agree |
| | `CancelIsDefinitiveHolds` | a job whose `cancel()` returned true never becomes Ready |
| | `SchedulerIsInvariant` | `SchedulerSpec => []SchedulerInv` |
| | `SchedulerTypes` | `SchedulerSpec => []SchedulerTypeOK` |
| | `TurnsAreExactHolds` | the turn list has each lane with jobs once, and no other |
| | `BytesAreExactHolds` | every byte counter is the sum over the jobs that wait |
| | `ReadyIsCoveredHolds` | a job becomes Ready only under a lease that has not ended |
| | `NobodyOvertakesHolds` | turns, lanes and the host's queue are served in order; host and agents alternate |
| `BrokerRuntimeProofs` | `RuntimeIsInvariant` | `RuntimeSpec => []RuntimeInv` |
| | `RuntimeTypes` | the types of the queue and of the owner, in the process |
| | `NotDispatchedNeverRanHolds` | "not dispatched" is never said of a job that ran |
| | `NothingStrandedHolds` | when the owner has ended, no job waits for an answer |
| | `GrantsMatchLanesHolds` | the broker's grants and the queue's lanes agree |
| | `RuntimeKeepsQueue` | the queue's own properties hold in the process |
| `DurableSnapshotsProofs` | `SnapshotsAreInvariant` | `SnapshotsSpec => []SnapshotsInv` |
| | `SnapshotsTypes` | generations, faults and control states keep their types |
| | `RootIsReadableHolds` | every root ever published has its chunks |
| | `ServesPublishedHolds` | what an instance serves was published, and is not older than its own last publication |
| | `RootsChainHolds` | every root is the one before it with one request applied |
| | `AckedIsDurableHolds` | a request answered Ok is in the root that follows the one it was made from |
| | `EveryRootFollowsHolds` | over the whole history, every root is valid and one request away from the one before it |
| `DurableSpacesProofs` | `SpacesTypes` | every root is a space of the declared types |
| | `TokenNamesOneLeaseHolds` | a fencing token names one holder of a resource for ever |
| | `SeenBeforeOverwrittenHolds` | a publication replaces only values its author has been shown, or by the value it started from |
| | `EventsAreCompleteHolds` | pages and streams of events miss nothing and repeat nothing |
| `ContextBrokerProofs` | `BrokerInvariant` | `Spec => []BrokerInv` |
| | `CheckpointRestoresHolds` | whatever is stored can be restored |
| | `ServedIsDurableHolds` | a restart gives the evidence that is served |
| | `RetainedWithinBoundsHolds` | what is retained is within the limits of all and of each grant |
| | `NothingOutlivesItsGrantHolds` | tickets and proposals belong to a live grant and end with it |
| | `HandoffIsFreshHolds` | a submission is handed out once, while all it rests on stands |
| `HandoffRequestsProofs` | `HandoffsAreInvariant` | `Spec => []HandoffsInv` |
| | `CallsTypes` | records and calls keep their types: an owner per reservation, a response per completed record, no more lost races than the bound |
| | `ActsOnceHolds` | a key's request acts at most once |
| | `AnswerIsExactHolds` | an answer is that of a durable execution of that request |
| | `AcceptedOnceHolds` | a capsule that is not reusable is accepted once |
| | `RevocationStopsUseHolds` | after a revocation no acceptance and no result is published |

Assumptions: `ConstantsAssumption`, `SchedulerAssumption`, `RuntimeAssumption`,
`EvidenceAssumption`, `BrokerAssumption`, `SnapshotsAssumption`,
`CallsAssumption`, `SpaceAssumption` and `PagesAssumption` type the constants
(the broker's sources and documents are finitely many, and so are the identities
of events, since a batch of events is a vector; a page asks for at least one
event, as `poll_events()` demands). `RequestsAssumption` says that a request has the fields of its
operation and that calls whose effect is in the initial root have ended, with a
key that no live call uses. TLC evaluates each of them in the runs of its
component. The theorems of `HandoffRequestsProofs` have the hypothesis
`ServiceIsHandoffs`: `Empty`, `Valid`, `Requests` and `Apply` of
`DurableSnapshots` are those of `Handoffs`, which is what `HandoffRequests.cfg`
gives them. Those of `DurableSpacesProofs` have `ServiceIsSpaces`, which says the
same of spaces and is what `Spaces.cfg` does. Nothing is assumed about the number
of effects, workers, attempts, jobs, grants, sources, calls, overlays, leases or
daemons, nor about the bounds, nor about the requests that `Offered` lets through.

**Induction.** The library's induction theorems take an operator as a parameter.
`FoldLemmas` states induction with a set (`NatSetInduction`,
`FiniteSetInduction`), from the well-foundedness of `<`, and derives what a sum
over a finite set is and how one member more or less changes it. Byte counters,
retained charges, lineages and histories of roots rest on it.

**The kernel's argument.** `AtMostOneMutation` is far from inductive: that a
retry is safe depends on what a worker computed some time ago and on what
another worker may still send. `KernelInv` adds

* `OwnersAreCurrent`: as long as a worker that entered the connector can send
  (its deadline has not come), the stored record is the one it wrote on entry.
  It holds because every other operation on an `Unknown` record with an open
  entry waits for that deadline (`OwnerMaySend`), however old the caller's clock
  is, since an old clock waits longer;
* `OwnersAreUnique` and `FutureUnsent`: an attempt has one owner, and nothing
  has left for an attempt that is only claimed;
* `PersistsAreCurrent`: a computed record that can still be committed was
  computed when nobody could send any more, and leads back to a state from
  which requests are sent only if no request is live. This is what makes old
  answers of a lookup harmless;
* `OneLiveRequest` (for remotes that do not coalesce) and `Coalesced` (for those
  that do), from which the theorem follows with `KeysAreUnique`.

Each action has its step in the proof, with the lemmas `ComputeKernel`,
`AcquireKernel`, `SendKernel`, `WorkKernel`, `RemoteKernel` and `TickKernel` for
those that disturb it.

**Verdicts.** `VerdictInv` is inductive given `KernelInv`. Its core is
`CommitsAreTrue`: a record that a worker computed and can still commit says only
what is so, however long ago it looked, because nothing that could make it false
happens while the version it read is the current one. `OwnersActAlone` is why an
observation of the connector speaks for the whole effect, and `LinksAreReserved`
why two originals never share a child. With both invariants every step of the
kernel is a step of `LogicalEffect` or changes nothing it sees
(`LogicalEffectIsImplemented`, safety and steps; `LogicalEffect` promises no
progress).

**The scheduler's argument.** For cancellation the queues play no part: whoever
was told is `cancelled`, and `Ready` is only ever said of a job whose flag
`dispatch()` has just won; no step leads from one to the other until the slot is
free again. For the queue, `WaitsOnce` says that a job waits in one place and
once there, so that the counters, which are sums over sets of jobs, follow every
job that comes or goes; `WaitsEnd` says that a wait ends no later than the lease
of its lane, so that a job popped in time is covered. For the order, `Ahead` is
who is in front of somebody in a queue. Joining at the end and taking the first
change it as they should (`JoinsBehind`, `FirstLeaves`), and so does removing
lanes from the middle of the turns (`TurnsKept`, by induction over the turns);
`TurnsAreExact` and `WaitsOnce` are what make "in front" unambiguous. What follows
from `NobodyOvertakes` is that a lane's turn comes after at most one turn of each
lane in front of it and as many of the host, whoever registers, is revoked or
adds jobs meanwhile.

**The process.** A job is in a queue, in the owner's hands, or answered
(`OwnerHolds`, `AnswerInv`): the owner's program counter fixes the flag of the
job it holds, and the answer fixes the flag of a job that is nobody's.
`ClosedStaysEmpty` makes the last drain final. `GrantInv` pairs lanes with
grants up to the moment between the two readings of the clock, and says that
what has no partner is over.

**The argument for snapshots.** The service is a parameter, so the theorems hold
for spaces, for handoffs and for anything else kept this way. `SnapshotsInv` says
for every instance, at every point of its transaction, what its memory is: idle,
the root of the version it holds; busy, what its one request makes of that root.
A commit at the expected version therefore appends exactly one request to the
newest root, which is `RootsChain`. The chunks of a state are in the repository
from the moment the instance may commit it, which is `RootIsReadable`. After a
lost answer, the root at the next version with the instance's own state is the
only one that makes it answer Ok, and that root is in `roots` for good:
`AckedIsDurable`.

**Spaces.** `EveryRootFollows` carries what one operation does along the history.
`Evolves` says what every operation does to a state, one lemma per operation: the
result is a space; no lease disappears, its token never falls, and with the same
token it is the same lease; and if an overlay was published, each value it
replaced had been shown to its author or was replaced by the one the author
started from. By induction over the versions `Evolves` relates every two
neighbours (`VersionsAreSpaces`), and leases any two (`LeasesAdvanced`).
`SeenBeforeOverwritten` needs more than types: a resolution rebases an overlay on
the value its conflict shows, so the proof needs that this value is true,
`ConflictsAreTrue`: a conflict on record names a commit of the history and the
value that commit has. `resolve_conflict()` demands that this commit is the head,
and in the same transaction nothing can come between. It also uses that
what `validate_space_snapshot()` accepts has, in every overlay, the resources of
the commit it names; without that an overlay could be compared with a base its
author never saw.

`EventsAreComplete` is a fact about every log. `VisibleAfter` is shown to satisfy
its recursive equation, and to list the visible cursors after a given one in
order; a page and what comes after its resume cursor, or after its last event,
are together what was to come (`PageFacts`, where `NothingBetween` covers the
invisible events that a resume cursor skips); so a client that goes on until
there is no more gets them all, by an induction down from the end of the log.

**The broker's argument.** `Lineage` is a recursive function; it is shown to be
the least set that holds some sources and, with a source, its inputs. `Sound`
says of the served evidence what recovery asks of a checkpoint, and every
command keeps it; in particular the inputs of a replaced source are never
derived from it. A change of the evidence advances the version of each source it
affects, and a source's version is never lower again (`Advances`); a ticket keeps
the versions of what it could read, and a derived source names the versions of
what it was derived from. So after any change up the lineage, also one forth and
back, `current_ticket()` meets another version of a readable source or a stale
dependency on the way to it (`ChangeIsNoticed`). `AuthorityInv` has the
rest: charges are sums over tickets, proposals and staged sources, of which a
command changes one; what a grant owns ends with it; a submission is in one
ticket.

**Requests.** `Ledger` relates the records of the keys and the calls to the set
of calls that have acted durably, in the last root or in a space: a call works
only under its own reservation; a call that has acted owns the record of its key
or is its response, unless it is of the past; a free record that a call has
loaded is still free if its version is still the same. So a record becomes free
again only when its owner has not acted and never will, which is `ActsOnce`, and
its response is always an execution, which is `AnswerIsExact`. `InstanceFits`
ties a busy instance to a running call of its daemon, so that writing a root is
that call's act and `FoundOwn` finds no other's. `History` says that whatever is
in any root was left by a call that asked for it; with the validation of the
last root that gives `AcceptedOnce`, and from the one operation between two
roots `RevocationStopsUse`.

## 5. What is only model-checked

* Liveness: `DispatchingEnds`, `UnknownIsLookedUp`, `NobodyStarves`,
  `HostCallReturns`, `ShutdownCompletes`, `CallsReturn`. The prover handles
  neither ENABLED nor fairness.
* The three violations of section 6.

Every safety property that a run expects to hold is also a theorem. The inductive
invariants are proved and are not part of a run. `BrokerInv`, `HandoffsInv`,
`SpacesTypeOK` and `ConflictsAreTrue` of every root hold in each of the states
that the runs `broker`, `handoff_requests` and `spaces` reach. `TypeOK`,
`SchedulerTypeOK`, `RuntimeTypeOK` and `CallsTypeOK` are theorems and are in no run. `BrokerTypeOK`
documents the types of the broker's variables and holds in the states that its
run reaches; what the proofs need of it is in `BrokerInv`.

## 6. Where code and documentation disagree

* `space_lost_update`: an overlay that proposes the value it started from meets
  no conflict and overwrites what somebody else published in between; `prd.md`
  says that there is no last-writer-wins. `SeenBeforeOverwritten` is what holds:
  nothing else is overwritten unseen.
* `space_resolution`: a conflict resolution changes what an overlay started from
  without changing the commit it names, and the validation of snapshots refuses
  exactly that; the durable service undoes every resolution that is not published
  in the same transaction.
* `handoff_barrier`: a merge reads its material before it publishes in another
  service; a revocation that commits in between, or that this daemon has not
  loaded, does not stop it, although the reference calls revocation a barrier.

`findings` in `PROJECT.json` quotes the lines. Three more were found in the
kernel; none of them touches at-most-once:

* A retry under the same key that is denied before it is sent is recorded as
  `Failed`, although the first attempt is unresolved and may have changed the
  remote; `Failed` is documented as confirmed. `ClosedMeansNotExecuted` leaves
  effects retried under their key out for this reason.
* `cancel` accepts an effect waiting for such a retry, while the first request
  may be in flight; its comment excludes that.
* If the compensating child finishes before `begin_compensation` commits, the
  original never shows its outcome.

## 7. Plan

1. **Store** (`cigar-store`): snapshots, commits and garbage collection against
   readers; the compare-and-swap of `EffectKernel`, `DurableSnapshots` and
   `IdempotentCalls` becomes an instance of its specification.
2. **Daemon workers** (`worker.rs`, `lifecycle.rs`, `replay_jobs.rs`): leased
   jobs, drain and shutdown.
3. **API quotas and cursors**.
4. **Compiler and selection** as algorithms against reference definitions.

## 8. Not modelled, and why

The repository has some 263,000 lines of Rust, of which the models stand for a
few percent. Most of the rest is not a protocol: tools that build, qualify and
release (`xtask`, the conformance runner, dashboards), transports and their
typed mappings, storage backends whose SQL would be transliterated rather than
modelled, vendored client code, sequential algorithms over text and numbers.
What is modelled is where several actors, failures or restarts meet.

Encodings, digests, signatures and the handshake are taken to work. Policy
decisions are inputs of the kernel's actions. The compiler, retrieval, catalog
and replay are sequential algorithms over large data and would be checked
against reference definitions if at all. Transports, CLI, dashboards, SDKs,
adapters, vendored crates and test tooling carry no protocol of their own.
`ProcessEffectAuthenticator::observe_latest`, which remembers the highest
version a process has seen, is left out of the kernel: every read returns the
current record; a slower reader with an older version may in the code be told
that the journal is corrupt instead of that it lost a race. An original whose
compensating child ends without a verdict stays in Compensating; the code
promises nothing else. Reservations of connections and bytes in the broker's
process are returned by drop order and are not modelled, and neither is a
daemon's map of tenants, in which a poisoned service stays until a restart.
Poisoned mutexes are left out of the broker: no critical section
in it is expected to panic.
