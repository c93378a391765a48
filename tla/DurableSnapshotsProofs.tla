----------------------- MODULE DurableSnapshotsProofs -----------------------
(***************************************************************************)
(* Proofs about DurableSnapshots, for every service, every number of       *)
(* instances and every bound.                                              *)
(***************************************************************************)
EXTENDS DurableSnapshots, TLAPS

\* What an appended root leaves as it was, and what it adds.
LEMMA AppendedVersion ==
    ASSUME NEW S, NEW versions \in Seq(S), NEW s \in S
    PROVE  /\ Append(versions, s) \in Seq(S)
           /\ Len(Append(versions, s)) = Len(versions) + 1
           /\ Append(versions, s)[Len(versions) + 1] = s
           /\ \A v \in 0 .. Len(versions) :
                Version(Append(versions, s), v) = Version(versions, v)
  BY DEF Version

\* More chunks do not make a sequence of stored snapshots anything else.
LEMMA StoredSequence ==
    ASSUME NEW S, NEW T, S \subseteq T, NEW versions \in Seq(S)
    PROVE  versions \in Seq(T)
  OBVIOUS

\* The initial states satisfy the invariant: nobody is busy, and everybody
\* serves the newest root.
LEMMA InitEstablishes == SnapshotsInit => SnapshotsInv
  <1> SUFFICES ASSUME SnapshotsInit PROVE SnapshotsInv
    OBVIOUS
  <1>1. roots \in Seq(chunks) /\ Len(roots) <= MaxRoots
    <2>1. roots \in Seq({roots[v] : v \in DOMAIN roots})
      BY SnapshotsAssumption DEF SnapshotsInit
    <2>2. DOMAIN roots = 1 .. Len(roots)
      BY <2>1
    <2> QED
      BY <2>1, <2>2, SnapshotsAssumption DEF SnapshotsInit
  <1>2. Len(roots) \in Nat
    BY <1>1
  <1>3. ASSUME NEW i \in Instances PROVE InstanceInv(i)
    BY <1>2 DEF SnapshotsInit, InstanceInv, Serving, Latest, PCs, Busy
  <1> QED
    BY <1>1, <1>3, SnapshotsAssumption DEF SnapshotsInit, SnapshotsInv

-----------------------------------------------------------------------------
(* Steps.                                                                  *)

\* The roots grow, and no version changes.
RootsGrow ==
    /\ Len(roots') \in Nat /\ Len(roots) \in Nat /\ Len(roots) <= Len(roots')
    /\ \A v \in 0 .. Len(roots) : At(v)' = At(v)

\* An instance that takes no step keeps what it knows while others store
\* chunks and publish roots.
LEMMA Undisturbed ==
    ASSUME NEW i \in Instances, InstanceInv(i), RootsGrow, chunks \subseteq chunks',
           inst'[i] = inst[i], own'[i] = own[i]
    PROVE  InstanceInv(i)'
  <1> DEFINE x == inst[i]
  <1>1. x.gen \in 0 .. Len(roots) /\ At(x.gen)' = At(x.gen)
    BY DEF InstanceInv, RootsGrow
  <1>2. Busy(i)' = Busy(i)
    BY DEF Busy
  <1>3. inst'[i].gen \in 0 .. Len(roots') /\ own'[i] \in 0 .. Len(roots')
    BY DEF InstanceInv, RootsGrow
  <1> QED
    BY <1>1, <1>2, <1>3 DEF InstanceInv, At

\* A step of instance i: what has to be shown of it alone.
LEMMA StepPreserves ==
    ASSUME NEW i \in Instances, SnapshotsInv, RootsGrow, chunks \subseteq chunks',
           roots' \in Seq(chunks'), Len(roots') <= MaxRoots,
           faults' \in 0 .. MaxFaults,
           NEW x, inst' = [inst EXCEPT ![i] = x],
           NEW n \in Nat, own' = [own EXCEPT ![i] = n],
           InstanceInv(i)'
    PROVE  SnapshotsInv'
  <1>1. ASSUME NEW j \in Instances, j # i PROVE InstanceInv(j)'
    <2>1. inst'[j] = inst[j] /\ own'[j] = own[j] /\ InstanceInv(j)
      BY <1>1 DEF SnapshotsInv
    <2> QED
      BY <2>1, Undisturbed
  <1>2. \A j \in Instances : InstanceInv(j)'
    BY <1>1
  <1>3. inst' \in [Instances -> {inst'[j] : j \in Instances}]
    BY DEF SnapshotsInv
  <1>4. own' \in [Instances -> Nat]
    BY DEF SnapshotsInv
  <1> QED
    BY <1>2, <1>3, <1>4 DEF SnapshotsInv

\* Without a publication.
LEMMA RootsStay ==
    ASSUME SnapshotsInv, roots' = roots, chunks \subseteq chunks'
    PROVE  RootsGrow /\ roots' \in Seq(chunks') /\ Len(roots') <= MaxRoots
  <1>1. roots \in Seq(chunks) /\ Len(roots) \in Nat /\ Len(roots) <= MaxRoots
    BY DEF SnapshotsInv
  <1>2. roots \in Seq(chunks')
    BY <1>1, StoredSequence
  <1> QED
    BY <1>1, <1>2 DEF RootsGrow, At

\* A step of instance i that publishes nothing and stores no chunk.
LEMMA QuietStepPreserves ==
    ASSUME NEW i \in Instances, SnapshotsInv, UNCHANGED <<roots, chunks, own>>,
           faults' \in 0 .. MaxFaults,
           NEW x, inst' = [inst EXCEPT ![i] = x], InstanceInv(i)'
    PROVE  SnapshotsInv'
  <1>1. RootsGrow /\ roots' \in Seq(chunks') /\ Len(roots') <= MaxRoots
    BY RootsStay
  <1>2. own[i] \in Nat /\ own' = [own EXCEPT ![i] = own[i]]
    BY DEF SnapshotsInv
  <1> QED
    BY <1>1, <1>2, StepPreserves

\* transact() up to the publication.
LEMMA TransactPreserves ==
    ASSUME NEW i \in Instances, SnapshotsInv,
           NEW r \in Requests(i, inst[i].mem), Transact(i, r)
    PROVE  SnapshotsInv'
  <1> DEFINE x == inst[i]
  <1>0. InstanceInv(i) /\ i \in DOMAIN inst /\ faults \in 0 .. MaxFaults
    BY DEF SnapshotsInv
  <1> DEFINE y(s) == [pc |-> "chunk", mem |-> s, prior |-> x.mem, gen |-> x.gen, req |-> r]
  <1>1. PICK s \in Apply(r, x.mem) : Valid(s) /\ inst' = [inst EXCEPT ![i] = y(s)]
    BY DEF Transact
  <1>2. x.mem = At(x.gen) /\ x.gen < MaxRoots
    BY <1>0 DEF InstanceInv, Transact
  <1>4. inst'[i] = y(s)
    BY <1>0, <1>1
  <1>5. UNCHANGED <<roots, chunks, own, faults>>
    BY DEF Transact
  <1>6. InstanceInv(i)'
    BY <1>0, <1>1, <1>2, <1>4, <1>5 DEF InstanceInv, Busy, PCs, At
  <1> QED
    BY <1>0, <1>1, <1>5, <1>6, QuietStepPreserves

\* A step that only moves the program counter of a busy instance.
LEMMA GotoEffect ==
    ASSUME NEW i \in Instances, SnapshotsInv, NEW pc, Goto(i, pc)
    PROVE  /\ inst' = [inst EXCEPT ![i] = inst'[i]]
           /\ inst'[i] = [pc |-> pc, mem |-> inst[i].mem, prior |-> inst[i].prior,
                          gen |-> inst[i].gen, req |-> inst[i].req]
  <1>1. InstanceInv(i) /\ i \in DOMAIN inst
    BY DEF SnapshotsInv
  <1>2. [inst[i] EXCEPT !.pc = pc] =
            [pc |-> pc, mem |-> inst[i].mem, prior |-> inst[i].prior,
             gen |-> inst[i].gen, req |-> inst[i].req]
    BY <1>1 DEF InstanceInv
  <1> QED
    BY <1>1, <1>2 DEF Goto

\* A fault stays within its bound.
LEMMA FaultCounted ==
    ASSUME SnapshotsInv, Fault \/ UNCHANGED faults
    PROVE  faults' \in 0 .. MaxFaults
  BY SnapshotsAssumption DEF SnapshotsInv, Fault

\* ensure_chunk(), whether or not it fails.
LEMMA EnsureChunkPreserves ==
    ASSUME NEW i \in Instances, SnapshotsInv, EnsureChunk(i)
    PROVE  SnapshotsInv'
  <1>0. InstanceInv(i) /\ own \in [Instances -> Nat]
    BY DEF SnapshotsInv
  <1>1. roots' = roots /\ own' = own /\ chunks \subseteq chunks'
    BY DEF EnsureChunk, WithChunk
  <1>2. PICK pc \in {"commit", "reconcile"} :
            Goto(i, pc) /\ (pc = "commit" => inst[i].mem \in chunks')
    BY DEF EnsureChunk, WithChunk
  <1>3. faults' \in 0 .. MaxFaults
    BY FaultCounted DEF EnsureChunk
  <1>4. /\ inst' = [inst EXCEPT ![i] = inst'[i]]
        /\ inst'[i] = [pc |-> pc, mem |-> inst[i].mem, prior |-> inst[i].prior,
                       gen |-> inst[i].gen, req |-> inst[i].req]
    BY <1>2, GotoEffect
  <1>5. InstanceInv(i)'
    BY <1>0, <1>1, <1>2, <1>4 DEF InstanceInv, Busy, PCs, At, EnsureChunk
  <1>6. own[i] \in Nat /\ own' = [own EXCEPT ![i] = own[i]]
    BY <1>0, <1>1
  <1>7. RootsGrow /\ roots' \in Seq(chunks') /\ Len(roots') <= MaxRoots
    BY <1>1, RootsStay
  <1> QED
    BY <1>1, <1>3, <1>4, <1>5, <1>6, <1>7, StepPreserves

\* What a written root is: the next version, made from the version that the
\* instance knew by the request it serves.
LEMMA WrittenRoot ==
    ASSUME NEW i \in Instances, SnapshotsInv, inst[i].pc = "commit", WriteRoot(i), UNCHANGED chunks
    PROVE  /\ RootsGrow /\ roots' \in Seq(chunks') /\ Len(roots') <= MaxRoots
           /\ Len(roots) = inst[i].gen /\ Len(roots') = inst[i].gen + 1
           /\ roots'[inst[i].gen + 1] = inst[i].mem
           /\ Version(roots', inst[i].gen + 1) = inst[i].mem
  <1> DEFINE x == inst[i]
  <1>1. /\ roots \in Seq(chunks) /\ x.mem \in chunks /\ x.gen < MaxRoots
        /\ Len(roots) \in Nat /\ Len(roots) <= MaxRoots
    BY DEF SnapshotsInv, InstanceInv, Busy
  <1>2. Len(roots) = x.gen /\ roots' = Append(roots, x.mem)
    BY DEF WriteRoot, ExpectedVersion
  <1>3. /\ Append(roots, x.mem) \in Seq(chunks)
        /\ Len(Append(roots, x.mem)) = Len(roots) + 1
        /\ Append(roots, x.mem)[Len(roots) + 1] = x.mem
        /\ \A v \in 0 .. Len(roots) :
            Version(Append(roots, x.mem), v) = Version(roots, v)
    BY <1>1, AppendedVersion
  <1>4. RootsGrow
    BY <1>1, <1>2, <1>3 DEF RootsGrow, At
  <1>5. Version(roots', x.gen + 1) = x.mem
    BY <1>1, <1>2, <1>3 DEF At, Version
  <1>6. MaxRoots \in Nat
    BY SnapshotsAssumption
  <1> QED
    BY <1>1, <1>2, <1>3, <1>4, <1>5, <1>6

\* service_commit() of the root, with its three outcomes.
LEMMA CommitRootPreserves ==
    ASSUME NEW i \in Instances, SnapshotsInv, CommitRoot(i)
    PROVE  SnapshotsInv'
  <1> DEFINE x == inst[i]
  <1>0. InstanceInv(i) /\ i \in DOMAIN inst /\ own \in [Instances -> Nat] /\ Len(roots) \in Nat
    BY DEF SnapshotsInv
  <1>1. x.pc = "commit" /\ UNCHANGED chunks
    BY DEF CommitRoot
  <1>2. faults' \in 0 .. MaxFaults
    BY FaultCounted DEF CommitRoot
  <1>3. CASE WriteRoot(i) /\ inst' = [inst EXCEPT ![i] = Published(i)]
    <2>1. /\ RootsGrow /\ roots' \in Seq(chunks') /\ Len(roots') <= MaxRoots
          /\ Len(roots) = x.gen /\ Len(roots') = x.gen + 1 /\ Version(roots', x.gen + 1) = x.mem
      BY <1>1, <1>3, WrittenRoot
    <2>2. own' = [own EXCEPT ![i] = x.gen + 1] /\ x.gen + 1 \in Nat
      BY <1>0, <1>3, <2>1 DEF WriteRoot
    <2>3. /\ inst'[i] = [pc |-> "idle", mem |-> x.mem, prior |-> x.mem,
                         gen |-> x.gen + 1, req |-> NoRequest]
          /\ own'[i] = x.gen + 1
      BY <1>0, <1>3, <2>2 DEF Published, Serving
    <2>4. InstanceInv(i)'
      BY <1>0, <2>1, <2>2, <2>3 DEF InstanceInv, Busy, PCs, At
    <2> QED
      BY <1>1, <1>2, <1>3, <2>1, <2>2, <2>4, StepPreserves
  <1>4. CASE WriteRoot(i) /\ Goto(i, "reconcile")
    <2>1. /\ RootsGrow /\ roots' \in Seq(chunks') /\ Len(roots') <= MaxRoots
          /\ Len(roots) = x.gen /\ Len(roots') = x.gen + 1
      BY <1>1, <1>4, WrittenRoot
    <2>2. own' = [own EXCEPT ![i] = x.gen + 1] /\ x.gen + 1 \in Nat /\ own'[i] = x.gen + 1
      BY <1>0, <1>4, <2>1 DEF WriteRoot
    <2>3. /\ inst' = [inst EXCEPT ![i] = inst'[i]]
          /\ inst'[i] = [pc |-> "reconcile", mem |-> x.mem, prior |-> x.prior,
                         gen |-> x.gen, req |-> x.req]
      BY <1>4, GotoEffect
    <2>4. Version(roots', x.gen) = At(x.gen)
      BY <1>0, <2>1 DEF RootsGrow, At
    <2>5. InstanceInv(i)'
      BY <1>0, <1>1, <2>1, <2>2, <2>3, <2>4 DEF InstanceInv, Busy, PCs, At
    <2> QED
      BY <1>1, <1>2, <2>1, <2>2, <2>3, <2>5, StepPreserves
  <1>5. CASE Goto(i, "reconcile") /\ UNCHANGED <<roots, own>>
    <2>1. /\ inst' = [inst EXCEPT ![i] = inst'[i]]
          /\ inst'[i] = [pc |-> "reconcile", mem |-> x.mem, prior |-> x.prior,
                         gen |-> x.gen, req |-> x.req]
      BY <1>5, GotoEffect
    <2>2. InstanceInv(i)'
      BY <1>0, <1>1, <1>5, <2>1 DEF InstanceInv, Busy, PCs, At
    <2> QED
      BY <1>1, <1>2, <1>5, <2>1, <2>2, QuietStepPreserves
  <1> QED
    BY <1>3, <1>4, <1>5 DEF CommitRoot

\* Serving the newest root satisfies the invariant of an instance.
LEMMA ServingLatest ==
    ASSUME NEW i \in Instances, SnapshotsInv, UNCHANGED <<roots, chunks, own>>,
           inst' = [inst EXCEPT ![i] = Serving(Latest, Len(roots))],
           faults' \in 0 .. MaxFaults
    PROVE  SnapshotsInv'
  <1>0. /\ InstanceInv(i) /\ i \in DOMAIN inst /\ Len(roots) \in Nat
    BY DEF SnapshotsInv
  <1>1. inst'[i] = [pc |-> "idle", mem |-> At(Len(roots)), prior |-> At(Len(roots)),
                    gen |-> Len(roots), req |-> NoRequest]
    BY <1>0 DEF Serving, Latest
  <1>2. InstanceInv(i)'
    BY <1>0, <1>1 DEF InstanceInv, Busy, PCs, At
  <1> QED
    BY <1>2, QuietStepPreserves

\* load() after a failed publication.
LEMMA ReconcilePreserves ==
    ASSUME NEW i \in Instances, SnapshotsInv, Reconcile(i)
    PROVE  SnapshotsInv'
  <1>1. inst' = [inst EXCEPT ![i] = Serving(Latest, Len(roots))]
    <2>1. FoundOwn(i) => Published(i) = Serving(Latest, Len(roots))
      BY DEF FoundOwn, Published
    <2> QED
      BY <2>1 DEF Reconcile
  <1>2. UNCHANGED <<roots, chunks, own>> /\ faults' \in 0 .. MaxFaults
    BY FaultCounted DEF Reconcile
  <1> QED
    BY <1>1, <1>2, ServingLatest

\* An instance that could not load, a process that ends, and a new one.
LEMMA PoisonPreserves ==
    ASSUME NEW i \in Instances, SnapshotsInv, Poison(i)
    PROVE  SnapshotsInv'
  <1> DEFINE x == inst[i]
  <1>0. InstanceInv(i) /\ i \in DOMAIN inst
    BY DEF SnapshotsInv
  <1>1. UNCHANGED <<roots, chunks, own>> /\ faults' \in 0 .. MaxFaults
    BY FaultCounted DEF Poison
  <1>2. Poisoned(i) = [pc |-> "poisoned", mem |-> x.prior, prior |-> x.prior,
                       gen |-> x.gen, req |-> NoRequest]
    BY DEF Poisoned, KeepServing, Serving
  <1>3. inst' = [inst EXCEPT ![i] = Poisoned(i)] /\ inst'[i] = Poisoned(i)
    BY <1>0 DEF Poison
  <1>4. InstanceInv(i)'
    BY <1>0, <1>1, <1>2, <1>3 DEF InstanceInv, Busy, PCs, At
  <1> QED
    BY <1>1, <1>3, <1>4, QuietStepPreserves

LEMMA CrashPreserves ==
    ASSUME NEW i \in Instances, SnapshotsInv, Crash(i)
    PROVE  SnapshotsInv'
  <1> DEFINE x == [pc |-> "down", mem |-> Empty, prior |-> Empty, gen |-> 0, req |-> NoRequest]
  <1>0. InstanceInv(i) /\ i \in DOMAIN inst /\ Len(roots) \in Nat
    BY DEF SnapshotsInv
  <1>1. UNCHANGED <<roots, chunks, own>> /\ faults' \in 0 .. MaxFaults
    BY FaultCounted DEF Crash
  <1>2. [Serving(Empty, 0) EXCEPT !.pc = "down"] = x
    BY DEF Serving
  <1>3. inst' = [inst EXCEPT ![i] = x] /\ inst'[i] = x
    BY <1>0, <1>2 DEF Crash
  <1>4. InstanceInv(i)'
    BY <1>0, <1>1, <1>3 DEF InstanceInv, Busy, PCs, At
  <1> QED
    BY <1>1, <1>3, <1>4, QuietStepPreserves

LEMMA OpenPreserves ==
    ASSUME NEW i \in Instances, SnapshotsInv, Open(i)
    PROVE  SnapshotsInv'
  BY ServingLatest, FaultCounted DEF Open

\* Every step of every instance preserves the invariant.
LEMMA NextPreserves == SnapshotsInv /\ [SnapshotsNext]_snapshotVars => SnapshotsInv'
  <1> SUFFICES ASSUME SnapshotsInv, [SnapshotsNext]_snapshotVars PROVE SnapshotsInv'
    OBVIOUS
  <1>1. CASE UNCHANGED snapshotVars
    BY <1>1 DEF snapshotVars, SnapshotsInv, InstanceInv, Busy, At
  <1>2. ASSUME NEW i \in Instances, InstanceStep(i) PROVE SnapshotsInv'
    <2>1. CASE \E r \in Requests(i, inst[i].mem) : Transact(i, r)
      BY <2>1, TransactPreserves
    <2>2. CASE EnsureChunk(i)
      BY <2>2, EnsureChunkPreserves
    <2>3. CASE CommitRoot(i)
      BY <2>3, CommitRootPreserves
    <2>4. CASE Reconcile(i)
      BY <2>4, ReconcilePreserves
    <2>5. CASE Poison(i)
      BY <2>5, PoisonPreserves
    <2>6. CASE Crash(i)
      BY <2>6, CrashPreserves
    <2>7. CASE Open(i)
      BY <2>7, OpenPreserves
    <2> QED
      BY <1>2, <2>1, <2>2, <2>3, <2>4, <2>5, <2>6, <2>7 DEF InstanceStep
  <1> QED
    BY <1>1, <1>2 DEF SnapshotsNext

-----------------------------------------------------------------------------
(* Theorems.                                                               *)

\* The inductive invariant of transact() and publish(): what an idle or busy
\* instance holds is accounted for by a version of the root.
THEOREM SnapshotsAreInvariant == SnapshotsSpec => []SnapshotsInv
  BY InitEstablishes, NextPreserves, PTL DEF SnapshotsSpec

\* Every version of the root follows the one before it.
EveryRootFollows == \A v \in 1 .. Len(roots) : Follows(roots, v)

\* A version that is not the newest depends on none that comes later.
LEMMA FollowsStill ==
    ASSUME RootsGrow, NEW v \in 1 .. Len(roots), Follows(roots, v)
    PROVE  Follows(roots', v)
  <1>1. v \in 0 .. Len(roots) /\ v - 1 \in 0 .. Len(roots) /\ v # 0
    BY DEF RootsGrow
  <1>2. Version(roots', v) = Version(roots, v) /\ Version(roots', v - 1) = Version(roots, v - 1)
    BY <1>1 DEF RootsGrow, At
  <1>3. roots'[v] = roots[v]
    BY <1>1, <1>2 DEF Version
  <1> QED
    BY <1>2, <1>3 DEF Follows

\* A step either leaves the roots alone or publishes, with CommitRoot, the next
\* one: what an instance made of the newest by one request.
LEMMA RootStep ==
    ASSUME SnapshotsInv, [SnapshotsNext]_snapshotVars
    PROVE  \/ roots' = roots
           \/ RootsGrow /\ Len(roots') = Len(roots) + 1 /\ Follows(roots', Len(roots'))
  <1> SUFFICES ASSUME SnapshotsNext, roots' # roots
               PROVE  RootsGrow /\ Len(roots') = Len(roots) + 1 /\ Follows(roots', Len(roots'))
    BY DEF snapshotVars
  <1>1. PICK i \in Instances : inst[i].pc = "commit" /\ WriteRoot(i) /\ UNCHANGED chunks
    BY DEF SnapshotsNext, InstanceStep, Transact, EnsureChunk, CommitRoot, Reconcile,
           Poison, Crash, Open
  <1> DEFINE x == inst[i]
             n == x.gen
  <1>2. RootsGrow /\ Len(roots) = n /\ Len(roots') = n + 1 /\ roots'[n + 1] = x.mem
    BY <1>1, WrittenRoot
  <1>3. /\ Valid(x.mem) /\ x.req \in Requests(i, At(n)) /\ x.mem \in Apply(x.req, At(n))
        /\ n \in Nat
    BY <1>1 DEF SnapshotsInv, InstanceInv, Busy
  <1>4. Version(roots', n) = At(n)
    BY <1>2, <1>3 DEF RootsGrow, At
  <1>5. Len(roots') - 1 = n
    BY <1>2, <1>3
  <1> QED
    BY <1>2, <1>3, <1>4, <1>5 DEF Follows

\* Every root that was ever published, the ones found at the start included, is
\* valid and the one before it with a single request of the service applied.
THEOREM EveryRootFollowsHolds == SnapshotsSpec => []EveryRootFollows
  <1>1. SnapshotsInit => EveryRootFollows
    BY SnapshotsAssumption DEF SnapshotsInit, EveryRootFollows
  <1>2. SnapshotsInv /\ EveryRootFollows /\ [SnapshotsNext]_snapshotVars => EveryRootFollows'
    <2> SUFFICES ASSUME SnapshotsInv, EveryRootFollows, [SnapshotsNext]_snapshotVars
                 PROVE  EveryRootFollows'
      OBVIOUS
    <2>1. CASE roots' = roots
      BY <2>1 DEF EveryRootFollows
    <2>2. CASE RootsGrow /\ Len(roots') = Len(roots) + 1 /\ Follows(roots', Len(roots'))
      <3> SUFFICES ASSUME NEW v \in 1 .. Len(roots') PROVE Follows(roots', v)
        BY DEF EveryRootFollows
      <3>1. CASE v \in 1 .. Len(roots)
        BY <2>2, <3>1, FollowsStill DEF EveryRootFollows
      <3>2. CASE v \notin 1 .. Len(roots)
        <4>1. v = Len(roots')
          BY <2>2, <3>2 DEF RootsGrow
        <4> QED
          BY <2>2, <4>1
      <3> QED
        BY <3>1, <3>2
    <2> QED
      BY <2>1, <2>2, RootStep
  <1> QED
    BY <1>1, <1>2, SnapshotsAreInvariant, PTL DEF SnapshotsSpec

\* Every variable of the durable services keeps its type.
THEOREM SnapshotsTypes == SnapshotsSpec => []SnapshotsTypeOK
  <1>1. SnapshotsInv => SnapshotsTypeOK
    BY DEF SnapshotsInv, InstanceInv, SnapshotsTypeOK
  <1> QED
    BY <1>1, SnapshotsAreInvariant, PTL

\* Root-last publication: every root ever published can be read, whichever
\* commit of publish() fails and whichever process ends.
THEOREM RootIsReadableHolds == SnapshotsSpec => []RootIsReadable
  <1>1. SnapshotsInv => RootIsReadable
    BY DEF SnapshotsInv, RootIsReadable
  <1> QED
    BY <1>1, SnapshotsAreInvariant, PTL

\* An instance that read() lets serve holds exactly a published state, and
\* none older than what it published itself.
THEOREM ServesPublishedHolds == SnapshotsSpec => []ServesPublished
  <1>1. SnapshotsInv => ServesPublished
    BY DEF SnapshotsInv, InstanceInv, ServesPublished
  <1> QED
    BY <1>1, SnapshotsAreInvariant, PTL

\* No publication is lost: publish() makes every root from the one before it,
\* by one request of the service, whoever wrote the two.
THEOREM RootsChainHolds == SnapshotsSpec => RootsChain
  <1>1. SnapshotsInv /\ [SnapshotsNext]_snapshotVars
            => [roots' # roots => Follows(roots', Len(roots'))]_snapshotVars
    BY RootStep DEF snapshotVars
  <1> QED
    BY <1>1, SnapshotsAreInvariant, PTL DEF SnapshotsSpec, RootsChain

\* A request that transact() answers Ok is in the root that follows the one it
\* was made from, also when the answer of service_commit() was lost.
THEOREM AckedIsDurableHolds == SnapshotsSpec => AckedIsDurable
  <1> DEFINE Acked(i) ==
        inst[i].req # NoRequest /\ inst'[i] = Published(i) =>
            LET v == inst[i].gen IN
            /\ v < Len(roots') /\ roots'[v + 1] = inst[i].mem
            /\ roots'[v + 1] \in Apply(inst[i].req, At(v))
  <1>1. SnapshotsInv /\ [SnapshotsNext]_snapshotVars
            => [\A i \in Instances : Acked(i)]_snapshotVars
    <2> SUFFICES ASSUME SnapshotsInv, SnapshotsNext, NEW i \in Instances,
                        inst[i].req # NoRequest, inst'[i] = Published(i)
                 PROVE  LET v == inst[i].gen IN
                        /\ v < Len(roots') /\ roots'[v + 1] = inst[i].mem
                        /\ roots'[v + 1] \in Apply(inst[i].req, At(v))
      BY DEF snapshotVars
    <2> DEFINE x == inst[i]
    <2>1. /\ inst'[i].req = NoRequest /\ inst'[i].pc = "idle"
          /\ inst'[i].mem = x.mem /\ inst'[i].gen = x.gen + 1
      BY DEF Published, Serving
    <2>2. /\ InstanceInv(i) /\ i \in DOMAIN inst /\ roots \in Seq(chunks)
          /\ Busy(i) /\ x.gen \in 0 .. Len(roots) /\ x.mem \in Apply(x.req, At(x.gen))
      BY DEF SnapshotsInv, InstanceInv
    <2>3. PICK j \in Instances : InstanceStep(j)
      BY DEF SnapshotsNext
    <2>4. j = i
      BY <2>1, <2>2, <2>3 DEF InstanceStep, Transact, EnsureChunk, CommitRoot, Reconcile,
             Poison, Crash, Open, Goto
    <2>5. CASE CommitRoot(i)
      <3>1. ASSUME Goto(i, "reconcile") PROVE FALSE
        <4>1. inst'[i] = [pc |-> "reconcile", mem |-> x.mem, prior |-> x.prior,
                          gen |-> x.gen, req |-> x.req]
          BY <3>1, GotoEffect
        <4> QED
          BY <2>1, <4>1
      <3>2. WriteRoot(i) /\ x.pc = "commit" /\ UNCHANGED chunks
        BY <2>5, <3>1 DEF CommitRoot
      <3>3. Len(roots') = x.gen + 1 /\ roots'[x.gen + 1] = x.mem
        BY <3>2, WrittenRoot
      <3> QED
        BY <2>2, <3>3
    <2>6. CASE Reconcile(i)
      <3>1. inst'[i] = Serving(Latest, Len(roots)) /\ roots' = roots
        BY <2>2, <2>6 DEF Reconcile, FoundOwn, Published
      <3>2. Latest = x.mem /\ Len(roots) = x.gen + 1
        BY <2>1, <3>1 DEF Serving
      <3>3. roots[x.gen + 1] = x.mem
        BY <2>2, <3>2 DEF Latest, At, Version
      <3> QED
        BY <2>2, <3>1, <3>2, <3>3
    <2>7. CASE EnsureChunk(i)
      <3>1. PICK pc \in {"commit", "reconcile"} : Goto(i, pc)
        BY <2>7 DEF EnsureChunk
      <3>2. inst'[i] = [pc |-> pc, mem |-> x.mem, prior |-> x.prior,
                        gen |-> x.gen, req |-> x.req]
        BY <3>1, GotoEffect
      <3> QED
        BY <2>1, <3>2
    <2>8. CASE Poison(i)
      BY <2>1, <2>2, <2>8 DEF Poison, Poisoned, KeepServing, Serving
    <2>9. CASE Crash(i)
      BY <2>1, <2>2, <2>9 DEF Crash, Serving
    <2>10. ~Open(i) /\ ~(\E r \in Requests(i, inst[i].mem) : Transact(i, r))
      BY <2>2 DEF Open, Transact, Busy
    <2> QED
      BY <2>3, <2>4, <2>5, <2>6, <2>7, <2>8, <2>9, <2>10 DEF InstanceStep
  <1> QED
    BY <1>1, SnapshotsAreInvariant, PTL DEF SnapshotsSpec, AckedIsDurable

=============================================================================
