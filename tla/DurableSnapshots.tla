-------------------------- MODULE DurableSnapshots --------------------------
(***************************************************************************)
(* How the daemon keeps a service durable                                  *)
(* (crates/cigar-daemon/src/durable_snapshot.rs): the service lives in     *)
(* memory, and every operation that changes it is followed by the          *)
(* publication of its whole snapshot, first the chunks and then a root     *)
(* record that is compared and swapped.  DurableContextSpaceService and    *)
(* DurableHandoffService share this protocol; the service itself is a      *)
(* parameter.                                                              *)
(*                                                                         *)
(* A snapshot and the state it encodes are the same value, and a snapshot  *)
(* has one chunk.  An instance holds its mutex for a whole operation, so   *)
(* it has one request at a time; several instances share the repository.   *)
(***************************************************************************)
EXTENDS Naturals, Sequences

CONSTANTS
    Instances,
    Requests(_, _),     \* the requests made to an instance in a state
    Empty,              \* the service without any state
    Apply(_, _),        \* the states a request may lead to; none if it is refused
    Valid(_),           \* a state that export and import let pass
    NoRequest,
    Starts,             \* what earlier processes may have published: sequences of roots
    MaxRoots,           \* bounds of the model: publications,
    MaxFaults           \* failed publications and crashes

\* What version v of the root stands for; there is no root before the first.
Version(versions, v) == IF v = 0 THEN Empty ELSE versions[v]

\* Version v is valid, and the version before it with a single request applied.
Follows(versions, v) ==
    /\ Valid(versions[v])
    /\ \E i \in Instances : \E r \in Requests(i, Version(versions, v - 1)) :
        versions[v] \in Apply(r, Version(versions, v - 1))

ASSUME SnapshotsAssumption ==
    /\ MaxRoots \in Nat /\ MaxFaults \in Nat
    /\ Valid(Empty)
    /\ \A start \in Starts :
        /\ start \in Seq({start[v] : v \in DOMAIN start}) /\ Len(start) <= MaxRoots
        /\ \A v \in 1 .. Len(start) : Follows(start, v)

VARIABLES
    roots,      \* the versions of the root record: version v encodes roots[v]
    chunks,     \* snapshots whose chunks are stored
    inst,       \* every instance: [pc, mem, prior, gen, req]
    own,        \* the last version of the root that an instance wrote
    faults

snapshotVars == <<roots, chunks, inst, own, faults>>

PCs == {"idle", "chunk", "commit", "reconcile", "poisoned", "down"}

At(v) == Version(roots, v)

Latest == At(Len(roots))

\* An instance that serves state as generation v.
Serving(state, v) ==
    [pc |-> "idle", mem |-> state, prior |-> state, gen |-> v, req |-> NoRequest]

SnapshotsInit ==
    /\ roots \in Starts
    /\ chunks = {roots[v] : v \in 1 .. Len(roots)}
    /\ inst = [i \in Instances |-> Serving(Latest, Len(roots))]
    /\ own = [i \in Instances |-> 0]
    /\ faults = 0

Goto(i, pc) == inst' = [inst EXCEPT ![i] = [@ EXCEPT !.pc = pc]]

Fault == faults < MaxFaults /\ faults' = faults + 1

-----------------------------------------------------------------------------
(* transact(): the operation in memory.                                    *)

\* The request's new state is in memory and not yet published.  There is no
\* step if the service refuses the request, if it changes nothing, or if the
\* new state cannot be exported: then the prior state is restored.
Transact(i, r) ==
    /\ inst[i].pc = "idle" /\ inst[i].gen < MaxRoots
    /\ \E s \in Apply(r, inst[i].mem) \ {inst[i].mem} :
        /\ Valid(s)
        /\ inst' = [inst EXCEPT ![i] =
                [pc |-> "chunk", mem |-> s, prior |-> @.mem, gen |-> @.gen, req |-> r]]
    /\ UNCHANGED <<roots, chunks, own, faults>>

-----------------------------------------------------------------------------
(* publish(): the chunks, then the root.                                   *)

\* Mutant: the root record is written without its chunks.
SkipChunk(s) == chunks

WithChunk(s) == chunks \cup {s}

\* ensure_chunk(): a chunk that is there already is only compared.
EnsureChunk(i) ==
    /\ inst[i].pc = "chunk"
    /\ \/ chunks' = WithChunk(inst[i].mem) /\ Goto(i, "commit") /\ UNCHANGED faults
       \/ chunks' \in {chunks, WithChunk(inst[i].mem)} /\ Fault /\ Goto(i, "reconcile")
    /\ UNCHANGED <<roots, own>>

\* Mutant: the root is written whatever its version is.
AnyVersion(i) == TRUE

\* The repository's comparison with ServiceExpectedVersion.
ExpectedVersion(i) == Len(roots) = inst[i].gen

Published(i) == Serving(inst[i].mem, inst[i].gen + 1)

WriteRoot(i) ==
    /\ ExpectedVersion(i)
    /\ roots' = Append(roots, inst[i].mem)
    /\ own' = [own EXCEPT ![i] = Len(roots) + 1]

\* service_commit() of the root: it succeeds, it succeeds and its answer is
\* lost, or it fails, as it must when another instance was first.
CommitRoot(i) ==
    /\ inst[i].pc = "commit"
    /\ \/ /\ WriteRoot(i)
          /\ inst' = [inst EXCEPT ![i] = Published(i)]
          /\ UNCHANGED faults
       \/ WriteRoot(i) /\ Fault /\ Goto(i, "reconcile")
       \/ /\ IF ExpectedVersion(i) THEN Fault ELSE UNCHANGED faults
          /\ Goto(i, "reconcile") /\ UNCHANGED <<roots, own>>
    /\ UNCHANGED chunks

-----------------------------------------------------------------------------
(* After a failed publication.                                             *)

\* Mutant: the version alone decides whether the lost commit was ours.
SameVersion(i) == Len(roots) = inst[i].gen + 1

\* The root that load() finds is the one this instance tried to publish.
FoundOwn(i) == Len(roots) = inst[i].gen + 1 /\ Latest = inst[i].mem

\* load(), and then the lost answer is made up for, or the root that is there
\* is installed and the request fails.
Reconcile(i) ==
    /\ inst[i].pc = "reconcile"
    /\ inst' = [inst EXCEPT ![i] =
            IF FoundOwn(i) THEN Published(i)
                           ELSE Serving(Latest, Len(roots))]
    /\ UNCHANGED <<roots, chunks, own, faults>>

\* Mutant: an instance that could not load goes on with what it had.
KeepServing(i) == Serving(inst[i].prior, inst[i].gen)

Poisoned(i) == [KeepServing(i) EXCEPT !.pc = "poisoned"]

\* load() fails too, and the instance serves nothing any more.
Poison(i) ==
    /\ inst[i].pc = "reconcile"
    /\ inst' = [inst EXCEPT ![i] = Poisoned(i)]
    /\ UNCHANGED <<roots, chunks, own, faults>>

\* The process ends, with whatever it was doing.
Crash(i) ==
    /\ inst[i].pc # "down" /\ Fault
    /\ inst' = [inst EXCEPT ![i] = [Serving(Empty, 0) EXCEPT !.pc = "down"]]
    /\ UNCHANGED <<roots, chunks, own>>

\* open_authenticated(), in a new process.
Open(i) ==
    /\ inst[i].pc = "down"
    /\ inst' = [inst EXCEPT ![i] = Serving(Latest, Len(roots))]
    /\ UNCHANGED <<roots, chunks, own, faults>>

InstanceStep(i) ==
    \/ \E r \in Requests(i, inst[i].mem) : Transact(i, r)
    \/ EnsureChunk(i) \/ CommitRoot(i) \/ Reconcile(i) \/ Poison(i) \/ Crash(i) \/ Open(i)

SnapshotsNext == \E i \in Instances : InstanceStep(i)

SnapshotsSpec == SnapshotsInit /\ [][SnapshotsNext]_snapshotVars

-----------------------------------------------------------------------------
(* Properties.                                                             *)

\* Types of the protocol's own variables.
SnapshotsTypeOK ==
    /\ Len(roots) <= MaxRoots
    /\ \A i \in Instances :
        /\ inst[i].pc \in PCs
        /\ inst[i].gen \in 0 .. Len(roots)
        /\ own[i] \in 0 .. Len(roots)
    /\ faults \in 0 .. MaxFaults

\* "Root-last" publication: whatever step fails or process ends, every root
\* that was ever published can be read.
RootIsReadable == \A v \in 1 .. Len(roots) : roots[v] \in chunks

\* No publication is lost: a new root is the one before it with a single
\* request applied, whichever instances wrote the two.
RootsChain == [][roots' # roots => Follows(roots', Len(roots'))]_snapshotVars

\* A request answered Ok is durable, also when the answer of its commit was
\* lost: the instance goes on with what the request made of its memory only if
\* that is the next root, and made from the root it knew.
AckedIsDurable ==
    [][\A i \in Instances :
        inst[i].req # NoRequest /\ inst'[i] = Published(i) =>
            LET v == inst[i].gen IN
            /\ v < Len(roots') /\ roots'[v + 1] = inst[i].mem
            /\ roots'[v + 1] \in Apply(inst[i].req, At(v))
      ]_snapshotVars

\* "A repository error that cannot be reconciled poisons the instance so stale
\* state is never read": an instance that serves has exactly a published
\* state, and none older than what it published itself.
ServesPublished ==
    \A i \in Instances :
        inst[i].pc = "idle" => inst[i].mem = At(inst[i].gen) /\ inst[i].gen >= own[i]

-----------------------------------------------------------------------------
(* The inductive invariant behind them.                                    *)

\* In the middle of transact().
Busy(i) == inst[i].pc \in {"chunk", "commit", "reconcile"}

\* What an instance knows: its generation is a version of the root; idle, it
\* holds that version, and busy, what its request makes of that version.
InstanceInv(i) ==
    LET x == inst[i] IN
    /\ x \in [pc : PCs, mem : {x.mem}, prior : {x.prior}, gen : 0 .. Len(roots), req : {x.req}]
    /\ own[i] \in 0 .. Len(roots)
    /\ x.pc = "idle" => x.mem = At(x.gen) /\ own[i] <= x.gen
    /\ Busy(i) => /\ x.gen < MaxRoots /\ Valid(x.mem)
                  /\ x.req \in Requests(i, At(x.gen)) /\ x.mem \in Apply(x.req, At(x.gen))
    /\ ~Busy(i) => x.req = NoRequest
    /\ x.pc = "commit" => x.mem \in chunks

\* The roots are sequences of stored snapshots, and every instance holds what
\* some version of the root, and at most one request, account for.
SnapshotsInv ==
    /\ roots \in Seq(chunks) /\ Len(roots) <= MaxRoots
    /\ inst \in [Instances -> {inst[i] : i \in Instances}]
    /\ own \in [Instances -> Nat]
    /\ faults \in 0 .. MaxFaults
    /\ \A i \in Instances : InstanceInv(i)

=============================================================================
