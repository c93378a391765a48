---------------------------- MODULE ContextBroker ----------------------------
(***************************************************************************)
(* The context broker: the authority that one owner thread holds over the  *)
(* evidence, what it grants to agents, and the store that outlives it.     *)
(* Translated from cigar-context/src/broker/{mod,execution,ingestion}.rs,  *)
(* own() in broker_worker.rs and broker_worker/persistence.                *)
(*                                                                         *)
(* The owner executes one command at a time, so that a command is one      *)
(* action.  A command that changes the evidence is committed before it is  *)
(* answered; the process may end, or the commit fail, on either side of    *)
(* the transaction.  A command that is refused changes nothing but what    *)
(* prune() removes, which is RefusedCall.                                  *)
(***************************************************************************)
EXTENDS BrokerEvidence, FiniteSetsExt

CONSTANTS
    Agents,
    Scope, Writable,        \* the sources that an agent may read, and propose
    Reviews,                \* identities of reviews that release an answer
    NoReview,
    Offers,                 \* what the host or an agent may offer for a source
    Drafts,                 \* those that come in batches or as proposals
    Relations,              \* the edges that the host may set
    Lease, TicketLifetime, ProposalLifetime, StagingLease,
    MaxAgents, MaxTickets, MaxOwnTickets, MaxProposals, MaxStaged,
    MaxRetained,            \* retained charge of all, and of one grant
    MaxOwnRetained,
    MaxIssued, MaxEpoch, MaxTime  \* bounds of the instance

ASSUME BrokerAssumption ==
    /\ Scope \in [Agents -> SUBSET Sources] /\ Writable \in [Agents -> SUBSET Sources]
    /\ \A a \in Agents : Writable[a] \subseteq Scope[a]
    /\ NoReview \notin Reviews
    /\ \A s \in Sources :
          Drafts[s] \cup Offers[s] \subseteq [documents : SUBSET Nodes, inputs : SUBSET Sources, until : Nat]
    /\ Relations \subseteq Edges
    /\ {Lease, TicketLifetime, ProposalLifetime, StagingLease} \subseteq Nat \ {0}
    /\ {MaxAgents, MaxTickets, MaxOwnTickets, MaxProposals, MaxStaged} \subseteq Nat
    /\ {MaxRetained, MaxOwnRetained} \subseteq Nat
    /\ {MaxIssued, MaxEpoch, MaxTime} \subseteq Nat
    /\ MaxTime < Never

VARIABLES
    now,
    up,         \* a broker process is running
    evidence,   \* its graph and source records
    memory,     \* its authority: grants, tickets, proposals, staged sources
    disk,       \* the checkpoint of the last committed transaction
    issued,     \* how many secrets and submissions were drawn, by all processes
    handoffs    \* how often each submission was handed to an execution

vars == <<now, up, evidence, memory, disk, issued, handoffs>>

-----------------------------------------------------------------------------
(* The broker's authority.                                                 *)

NoAuthority ==
    [grants |-> <<>>, tickets |-> {}, proposals |-> {}, staged |-> {}]

\* A grant is known by its secret.  A ticket keeps what its context was
\* compiled from; lineage and touched are history variables: the sources it
\* rests on and whether any of them has changed since.
Grants == [agent : Agents, expires : Nat]

\* live_grant()
Live(owner) == owner \in DOMAIN memory.grants /\ memory.grants[owner].expires > now

ScopeOf(owner) == Scope[memory.grants[owner].agent]

\* The charge of what is retained: a ticket, its submission and its binding;
\* a proposal; a staged source and each of its documents.
TicketCharge(t) ==
    1 + (IF t.submission = 0 THEN 0 ELSE 1) + (IF t.review = NoReview THEN 0 ELSE 1)

StagedCharge(x) == 1 + Cardinality(x.documents)

StagedBytes(m) == MapThenSumSet(StagedCharge, m.staged)

OwnBytes(m, owner) ==
    MapThenSumSet(TicketCharge, {t \in m.tickets : t.owner = owner})
        + Cardinality({p \in m.proposals : p.owner = owner})

TotalBytes(m) ==
    MapThenSumSet(TicketCharge, m.tickets) + Cardinality(m.proposals) + StagedBytes(m)

\* Mutant: agents are not charged for what the host has staged.
RetainsUnstaged(m, owner, replacing, bytes) ==
    /\ TotalBytes(m) - StagedBytes(m) - replacing + bytes <= MaxRetained
    /\ OwnBytes(m, owner) - replacing + bytes <= MaxOwnRetained

\* check_retention()
Retains(m, owner, replacing, bytes) ==
    /\ TotalBytes(m) - replacing + bytes <= MaxRetained
    /\ OwnBytes(m, owner) - replacing + bytes <= MaxOwnRetained

\* Mutant: the proposals of an owner stay.
WithoutTicketsOf(m, owners) ==
    [m EXCEPT !.grants = [o \in DOMAIN @ \ owners |-> @[o]],
              !.tickets = {t \in @ : t.owner \notin owners}]

\* remove_owner()
WithoutOwners(m, owners) ==
    [m EXCEPT !.grants = [o \in DOMAIN @ \ owners |-> @[o]],
              !.tickets = {t \in @ : t.owner \notin owners},
              !.proposals = {p \in @ : p.owner \notin owners}]

\* prune()
Pruned ==
    LET m == WithoutOwners(memory, {o \in DOMAIN memory.grants : ~Live(o)})
    IN  [m EXCEPT !.tickets = {t \in @ : t.expires > now},
                  !.proposals = {p \in @ : p.expires > now},
                  !.staged = {x \in @ : x.expires > now}]

Earlier(a, b) == IF a < b THEN a ELSE b

\* What an agent's context is compiled from: the documents in its scope and the
\* edges from them (scope_id).
ContextOf(e, scope) ==
    [documents |-> [n \in Nodes |-> IF e.documents[n] \in scope THEN e.documents[n] ELSE NoSource],
     edges |-> {x \in e.edges : e.documents[x.from] \in scope}]

\* The sources that a context rests on: the readable ones, and what those that
\* are present were derived from.
RestsOn(e, scope) == scope \cup Lineage(e, {s \in scope : Present(e, s)})

\* scope_versions()
ScopeVersions(e, scope) == [s \in scope |-> Revision(e, s)]

\* Mutant: lineage is checked when a context is compiled, and not again.
TicketIsCompiled(t) ==
    /\ Live(t.owner)
    /\ t.expires > now
    /\ t.versions = ScopeVersions(evidence, ScopeOf(t.owner))
    /\ t.context = ContextOf(evidence, ScopeOf(t.owner))

\* current_ticket(): the grant and the ticket are live, the scope and its
\* lineage are valid, every readable source has the version it had, and the
\* same context would be compiled again.
TicketIsCurrent(t) ==
    /\ Live(t.owner)
    /\ t.expires > now
    /\ ScopeIsValid(evidence, ScopeOf(t.owner), now)
    /\ t.versions = ScopeVersions(evidence, ScopeOf(t.owner))
    /\ t.context = ContextOf(evidence, ScopeOf(t.owner))

-----------------------------------------------------------------------------
(* The store, and the end of a process.                                    *)

\* The process ends; nothing but the store remains.
Die ==
    /\ up' = FALSE
    /\ evidence' = EmptyEvidence(0)
    /\ memory' = NoAuthority

\* Mutant: a commit that fails is reported as an error, and the owner goes on.
CommitOrGoOn(e, m) ==
    /\ disk' \in {disk, Checkpoint(e)}
    /\ evidence' = e /\ memory' = m
    /\ UNCHANGED up

\* own() after a command that changed the evidence to e and the authority to
\* m, with Persistence::commit() and Store::commit(): the transaction is
\* committed and the command answered, or the owner stops without an answer,
\* whether the transaction reached the store or not.
Commit(e, m) ==
    \/ /\ disk' = Checkpoint(e)
       /\ evidence' = e /\ memory' = m
       /\ UNCHANGED up
    \/ /\ disk' \in {disk, Checkpoint(e)}
       /\ Die

\* The tickets after the evidence changed to e.
Touch(tickets, e) ==
    {[t EXCEPT !.touched = @ \/ t.lineage \cap Changed(evidence, e) # {}] : t \in tickets}

\* A command that replaces source s, on the authority m that it leaves.
Replace(s, expected, docs, provenance, m) ==
    LET e == ReplaceSource(evidence, s, docs, provenance)
    IN  /\ MayReplace(evidence, s, expected, docs, provenance, now)
        /\ Commit(e, [m EXCEPT !.tickets = Touch(@, e)])

\* A command that answers at once, with nothing to commit.
Answered(m) ==
    /\ memory' = m
    /\ UNCHANGED <<now, up, evidence, disk>>

-----------------------------------------------------------------------------
(* Commands of the host.                                                   *)

\* host_grant(), with the previous grant of the agent.
HostGrant(a) ==
    LET m == Pruned
        previous == {o \in DOMAIN m.grants : m.grants[o].agent = a}
        secret == issued.grants + 1
        n == WithoutOwners(m, previous)
    IN  /\ up
        /\ issued.grants + issued.submissions < MaxIssued
        /\ previous = {} => Cardinality(DOMAIN m.grants) < MaxAgents
        /\ issued' = [issued EXCEPT !.grants = secret]
        /\ Answered([n EXCEPT !.grants = [o \in DOMAIN @ \cup {secret} |->
                IF o = secret THEN [agent |-> a, expires |-> now + Lease] ELSE @[o]]])
        /\ UNCHANGED handoffs

\* host_revoke()
HostRevoke(a) ==
    LET owners == {o \in DOMAIN memory.grants : memory.grants[o].agent = a}
    IN  /\ up /\ owners # {}
        /\ Answered(WithoutOwners(memory, owners))
        /\ UNCHANGED <<issued, handoffs>>

\* The provenance that the host declares: inputs at their present versions.
Declared(offer) ==
    [derived_from |-> {[source |-> i, revision |-> Revision(evidence, i)] : i \in offer.inputs},
     until |-> offer.until]

\* host_replace_source(); a host that names another version is refused.
HostReplaceSource(s, offer) ==
    /\ up
    /\ Replace(s, Revision(evidence, s), offer.documents, Declared(offer), memory)
    /\ UNCHANGED <<now, issued, handoffs>>

\* host_set_edge(), named with the present versions of the affected sources.
HostSetEdge(m, n, kind, present) ==
    LET e == SetEdge(evidence, m, n, kind, present)
    IN  /\ up
        /\ MaySetEdge(evidence, m, n, kind, present)
        /\ Commit(e, [memory EXCEPT !.tickets = Touch(@, e)])
        /\ UNCHANGED <<now, issued, handoffs>>

-----------------------------------------------------------------------------
(* Staged replacements.                                                    *)

\* host_begin_source_replace(); the transaction is the staged record itself.
BeginSourceReplace(s, offer) ==
    LET m == Pruned
        provenance == Declared(offer)
        staged == [source |-> s, expected |-> Revision(evidence, s), provenance |-> provenance,
                   documents |-> {}, expires |-> now + StagingLease]
    IN  /\ up
        /\ Cardinality(m.staged) < MaxStaged
        /\ staged \notin m.staged
        /\ ProvenanceIsValid(evidence, s, provenance, now)
        /\ TotalBytes(m) + StagedCharge(staged) <= MaxRetained
        /\ Answered([m EXCEPT !.staged = @ \cup {staged}])
        /\ UNCHANGED <<issued, handoffs>>

\* host_append_source_documents()
AppendSourceDocuments(x, docs) ==
    LET m == Pruned
        next == [x EXCEPT !.documents = @ \cup docs]
    IN  /\ up /\ x \in m.staged
        /\ docs # {} /\ docs \cap x.documents = {}
        /\ next \notin m.staged
        /\ MayOwn(evidence, x.source, docs)
        /\ TotalBytes(m) + Cardinality(docs) <= MaxRetained
        /\ Answered([m EXCEPT !.staged = (@ \ {x}) \cup {next}])
        /\ UNCHANGED <<issued, handoffs>>

\* host_commit_source_replace(): the staging is consumed even if the source has
\* changed since, or its provenance is no longer valid.
CommitSourceReplace(x) ==
    LET m == Pruned
        n == [m EXCEPT !.staged = @ \ {x}]
    IN  /\ up /\ x \in m.staged
        /\ \/ Replace(x.source, x.expected, x.documents, x.provenance, n)
           \/ /\ ~MayReplace(evidence, x.source, x.expected, x.documents, x.provenance, now)
              /\ memory' = n
              /\ UNCHANGED <<up, evidence, disk>>
        /\ UNCHANGED <<now, issued, handoffs>>

\* host_abort_source_replace()
AbortSourceReplace(x) ==
    /\ up /\ x \in memory.staged
    /\ Answered([memory EXCEPT !.staged = @ \ {x}])
    /\ UNCHANGED <<issued, handoffs>>

-----------------------------------------------------------------------------
(* Proposals.                                                              *)

\* propose_source(); one request key, so that a grant has one proposal at a
\* time, which it may have named with any version it then was.
ProposeSource(o, s, docs) ==
    LET m == Pruned
        proposal == [owner |-> o, source |-> s, expected |-> Revision(evidence, s),
                     documents |-> docs, outcome |-> "pending",
                     expires |-> Earlier(now + ProposalLifetime, memory.grants[o].expires)]
    IN  /\ up /\ Live(o)
        /\ s \in Writable[memory.grants[o].agent]
        /\ ~\E p \in m.proposals : p.owner = o
        /\ Cardinality(m.proposals) < MaxProposals
        /\ MayOwn(evidence, s, docs)
        /\ Retains(m, o, 0, 1)
        /\ Answered([m EXCEPT !.proposals = @ \cup {proposal}])
        /\ UNCHANGED <<issued, handoffs>>

\* forget_proposal()
ForgetProposal(p) ==
    /\ up /\ Live(p.owner) /\ p.expires > now
    /\ Answered([memory EXCEPT !.proposals = @ \ {p}])
    /\ UNCHANGED <<issued, handoffs>>

\* pending_proposal()
ProposalIsPending(p) ==
    /\ p.expires > now
    /\ Live(p.owner)
    /\ p.source \in Writable[memory.grants[p.owner].agent]
    /\ p.outcome = "pending"

\* The proposals after p was decided: its documents go, its outcome stays.
Decided(p, outcome) ==
    (memory.proposals \ {p}) \cup {[p EXCEPT !.documents = {}, !.outcome = outcome]}

\* host_admit_proposal()
AdmitProposal(p, offer) ==
    /\ up /\ ProposalIsPending(p)
    /\ Replace(p.source, p.expected, p.documents, Declared(offer),
               [memory EXCEPT !.proposals = Decided(p, "admitted")])
    /\ UNCHANGED <<now, issued, handoffs>>

\* host_reject_proposal()
RejectProposal(p) ==
    /\ up /\ ProposalIsPending(p)
    /\ Answered([memory EXCEPT !.proposals = Decided(p, "rejected")])
    /\ UNCHANGED <<issued, handoffs>>

-----------------------------------------------------------------------------
(* Tickets, answers and executions.                                        *)

\* compile(): the ticket is told apart from others by what it was made from.
Compile(o) ==
    LET m == Pruned
        scope == ScopeOf(o)
        ticket == [owner |-> o, versions |-> ScopeVersions(evidence, scope),
                   context |-> ContextOf(evidence, scope),
                   expires |-> Earlier(now + TicketLifetime, memory.grants[o].expires),
                   submission |-> 0, review |-> NoReview, taken |-> FALSE,
                   lineage |-> RestsOn(evidence, scope), touched |-> FALSE]
    IN  /\ up /\ Live(o)
        /\ Cardinality(m.tickets) < MaxTickets
        /\ Cardinality({t \in m.tickets : t.owner = o}) < MaxOwnTickets
        /\ ticket \notin m.tickets
        /\ ScopeIsValid(evidence, scope, now)
        /\ Retains(m, o, 0, TicketCharge(ticket))
        /\ Answered([m EXCEPT !.tickets = @ \cup {ticket}])
        /\ UNCHANGED <<issued, handoffs>>

\* The tickets after t became u.
Instead(t, u) == [memory EXCEPT !.tickets = (@ \ {t}) \cup {u}]

\* forget_ticket()
ForgetTicket(t) ==
    /\ up /\ Live(t.owner)
    /\ Answered([memory EXCEPT !.tickets = @ \ {t}])
    /\ UNCHANGED <<issued, handoffs>>

\* submit_answer(): a new submission replaces the one before and its binding.
SubmitAnswer(t) ==
    LET id == issued.submissions + 1
        u == [t EXCEPT !.submission = id, !.review = NoReview, !.taken = FALSE]
    IN  /\ up /\ TicketIsCurrent(t)
        /\ issued.grants + issued.submissions < MaxIssued
        /\ Retains(memory, t.owner, TicketCharge(t), TicketCharge(u))
        /\ Answered(Instead(t, u))
        /\ issued' = [issued EXCEPT !.submissions = id]
        /\ UNCHANGED handoffs

\* host_bind_execution() with review r, which releases the answer.
BindExecution(t, r) ==
    LET u == [t EXCEPT !.review = r]
    IN  /\ up /\ TicketIsCurrent(t)
        /\ t.submission # 0 /\ t.review = NoReview
        /\ Retains(memory, t.owner, TicketCharge(t), TicketCharge(u))
        /\ Answered(Instead(t, u))
        /\ UNCHANGED <<issued, handoffs>>

\* host_take_execution_handoff(); its reply may be lost.
TakeExecutionHandoff(t, r) ==
    /\ up
    /\ t.review = r
    /\ ~t.taken
    /\ TicketIsCurrent(t)
    /\ Answered(Instead(t, [t EXCEPT !.taken = TRUE]))
    /\ handoffs' = [handoffs EXCEPT ![t.submission] = @ + 1]
    /\ UNCHANGED issued

-----------------------------------------------------------------------------
(* The process.                                                            *)

\* A command that prunes and is then refused.
RefusedCall ==
    /\ up
    /\ Pruned # memory
    /\ Answered(Pruned)
    /\ UNCHANGED <<issued, handoffs>>

\* Close, or the end of the process between two commands.
Crash ==
    /\ up
    /\ Die
    /\ UNCHANGED <<now, disk, issued, handoffs>>

\* Store::open(): the checkpoint is restored under a new epoch, which is
\* committed before anybody learns it.
Restart ==
    LET e == Restored(disk, issued.epoch + 1)
    IN  /\ ~up /\ issued.epoch < MaxEpoch
        /\ Restorable(disk)
        /\ issued' = [issued EXCEPT !.epoch = @ + 1]
        /\ \/ /\ disk' = Checkpoint(e)
              /\ evidence' = e /\ up' = TRUE
           \/ disk' \in {disk, Checkpoint(e)} /\ UNCHANGED <<evidence, up>>
        /\ UNCHANGED <<now, memory, handoffs>>

Tick ==
    /\ now < MaxTime
    /\ now' = now + 1
    /\ UNCHANGED <<up, evidence, memory, disk, issued, handoffs>>

Init ==
    /\ now = 0
    /\ up = TRUE
    /\ evidence = EmptyEvidence(1)
    /\ memory = NoAuthority
    /\ disk = Checkpoint(EmptyEvidence(1))
    /\ issued = [epoch |-> 1, grants |-> 0, submissions |-> 0]
    /\ handoffs = [i \in 1..MaxIssued |-> 0]

Next ==
    \/ \E a \in Agents : HostGrant(a) \/ HostRevoke(a)
    \/ \E s \in Sources :
          \/ \E offer \in Offers[s] : HostReplaceSource(s, offer)
          \/ \E offer \in Drafts[s] : BeginSourceReplace(s, offer)
    \/ \E x \in Relations, present \in BOOLEAN : HostSetEdge(x.from, x.to, x.kind, present)
    \/ \E x \in memory.staged :
          \/ \E offer \in Drafts[x.source] : AppendSourceDocuments(x, offer.documents)
          \/ CommitSourceReplace(x)
          \/ AbortSourceReplace(x)
    \/ \E p \in memory.proposals :
          \/ ForgetProposal(p)
          \/ RejectProposal(p)
          \/ \E offer \in Offers[p.source] : AdmitProposal(p, offer)
    \/ \E o \in DOMAIN memory.grants :
          \/ Compile(o)
          \/ \E s \in Sources : \E offer \in Drafts[s] : ProposeSource(o, s, offer.documents)
    \/ \E t \in memory.tickets :
          \/ ForgetTicket(t)
          \/ SubmitAnswer(t)
          \/ \E r \in Reviews : BindExecution(t, r) \/ TakeExecutionHandoff(t, r)
    \/ RefusedCall
    \/ Crash
    \/ Restart
    \/ Tick

Spec == Init /\ [][Next]_vars

-----------------------------------------------------------------------------
(* Properties.                                                             *)

TicketOK(t) ==
    /\ t.owner \in 1..MaxIssued /\ t.expires \in Nat
    /\ t.lineage \subseteq Sources /\ DOMAIN t.versions \subseteq t.lineage
    /\ \A s \in DOMAIN t.versions : t.versions[s] \in Revisions
    /\ t.context \in [documents : [Nodes -> Sources \cup {NoSource}], edges : SUBSET Edges]
    /\ t.submission \in 0..MaxIssued
    /\ t.review \in IF t.submission = 0 THEN {NoReview} ELSE Reviews \cup {NoReview}
    /\ t.taken \in IF t.review = NoReview THEN {FALSE} ELSE BOOLEAN
    /\ t.touched \in BOOLEAN

ProposalType ==
    [owner : 1..MaxIssued, source : Sources, expected : Revisions, documents : SUBSET Nodes,
     outcome : {"pending", "admitted", "rejected"}, expires : Nat]

StagedType ==
    [source : Sources, expected : Revisions, provenance : Provenances,
     documents : SUBSET Nodes, expires : Nat]

\* The variables have their types.
BrokerTypeOK ==
    /\ now \in 0..MaxTime /\ up \in BOOLEAN
    /\ evidence \in Evidence
    /\ DOMAIN memory.grants \subseteq 1..issued.grants
    /\ \A o \in DOMAIN memory.grants : memory.grants[o] \in Grants
    /\ \A t \in memory.tickets : TicketOK(t)
    /\ memory.proposals \subseteq ProposalType
    /\ memory.staged \subseteq StagedType
    /\ issued \in [epoch : 1..MaxEpoch, grants : 0..MaxIssued, submissions : 0..MaxIssued]
    /\ handoffs \in [1..MaxIssued -> Nat]

\* A submission is handed to an execution once, however often the host asks and
\* whether or not the broker restarts, and only if it still stands: since its
\* context was compiled no readable source and nothing in their lineage has
\* changed, not even forth and back, none of it has expired, and the grant it
\* was compiled for is still there.
HandoffIsFresh ==
    [][\A i \in 1..MaxIssued : handoffs'[i] # handoffs[i] =>
        /\ handoffs[i] = 0
        /\ \E t \in memory.tickets :
              /\ t.submission = i
              /\ ~t.touched
              /\ Live(t.owner)
              /\ \A s \in t.lineage :
                    Present(evidence, s) => evidence.sources[s].provenance.until > now]_vars

\* What the commands wrote, from_checkpoint() accepts: no sequence of them
\* leaves a lineage with a cycle or of another epoch, a document without its
\* source, or an edge whose ends are not owned.
CheckpointRestores == Restorable(disk)

\* The evidence that a running broker serves is what a restart would give: no
\* answer rests on a change that is not in the store, and the counts of the
\* edge nodes are those that recovery finds.
ServedIsDurable == up => Restored(disk, evidence.epoch) = evidence

\* The retained charge of the broker and of each grant stays within its limit,
\* whatever is replaced, bound and staged.
RetainedWithinBounds ==
    /\ TotalBytes(memory) <= MaxRetained
    /\ \A o \in DOMAIN memory.grants : OwnBytes(memory, o) <= MaxOwnRetained

\* An agent has one grant, and what was made under a grant ends with it: no
\* ticket and no proposal is left when the grant is revoked, replaced or gone
\* with its process, and none has a later deadline.
NothingOutlivesItsGrant ==
    /\ \A o, q \in DOMAIN memory.grants :
          memory.grants[o].agent = memory.grants[q].agent => o = q
    /\ \A t \in memory.tickets \cup memory.proposals :
          t.owner \in DOMAIN memory.grants /\ t.expires <= memory.grants[t.owner].expires

=============================================================================
