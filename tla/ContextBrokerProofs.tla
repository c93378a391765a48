------------------------- MODULE ContextBrokerProofs -------------------------
(***************************************************************************)
(* The context broker for every number of sources, documents, agents and   *)
(* tickets and all limits: what it serves is what a restart would give,    *)
(* what it holds stays within its bounds and ends with its grant, and what *)
(* it hands to an execution still stands.                                  *)
(*                                                                         *)
(* Everything about lineage rests on one fact: Lineage(e, S) is the least  *)
(* set that holds S and, with a source, the sources it was derived from.   *)
(* Everything about limits rests on another: a charge is a sum over what   *)
(* is held, and a command changes one member of it.                        *)
(***************************************************************************)
EXTENDS ContextBroker, FoldLemmas

-----------------------------------------------------------------------------
(* Lineage.                                                                *)

\* f is the function by which the lineage of S is defined, up to n steps.
IsReach(f, e, S, n) ==
    f = [i \in 0 .. n |-> IF i = 0 THEN S
                          ELSE f[i - 1] \cup UNION {Inputs(e, s) : s \in f[i - 1]}]

\* The recursion that defines a lineage ends.
LEMMA ReachExists ==
    ASSUME NEW e, NEW S, NEW n \in Nat
    PROVE  \E f : IsReach(f, e, S, n)
<1>. DEFINE Below(g, i) == g[i - 1] \cup UNION {Inputs(e, s) : s \in g[i - 1]}
            N == {k \in Nat : \E f : f = [i \in 0 .. k |-> IF i = 0 THEN S ELSE Below(f, i)]}
<1>1. 0 \in N
  <2>. DEFINE f == [i \in 0 .. 0 |-> S]
  <2>1. f = [i \in 0 .. 0 |-> IF i = 0 THEN S ELSE Below(f, i)]
    OBVIOUS
  <2>. QED  BY <2>1
<1>2. ASSUME NEW k \in Nat, k \in N PROVE k + 1 \in N
  <2>1. PICK f : f = [i \in 0 .. k |-> IF i = 0 THEN S ELSE Below(f, i)]
    BY <1>2
  <2>. DEFINE g == [i \in 0 .. k + 1 |-> IF i <= k THEN f[i] ELSE Below(f, k + 1)]
              h == [i \in 0 .. k + 1 |-> IF i = 0 THEN S ELSE Below(g, i)]
  <2>2. ASSUME NEW i \in 0 .. k + 1 PROVE g[i] = h[i]
    <3>1. CASE i = 0
      BY <2>1, <3>1
    <3>2. CASE i # 0
      <4>1. i - 1 \in 0 .. k
        BY <3>2
      <4>2. g[i - 1] = f[i - 1]
        BY <4>1
      <4>3. Below(g, i) = Below(f, i)
        BY <4>2
      <4>4. h[i] = Below(f, i)
        BY <3>2, <4>3
      <4>5. g[i] = Below(f, i)
        <5>1. CASE i <= k
          <6>1. g[i] = f[i] /\ i \in 0 .. k
            BY <5>1
          <6>2. f[i] = Below(f, i)
            BY <2>1, <6>1, <3>2
          <6>. QED  BY <6>1, <6>2
        <5>2. CASE ~(i <= k)
          <6>1. i = k + 1
            BY <5>2
          <6>. QED  BY <5>2, <6>1
        <5>. QED  BY <5>1, <5>2
      <4>. QED  BY <4>4, <4>5
    <3>. QED  BY <3>1, <3>2
  <2>3. g = h
    <3>. HIDE DEF Below
    <3>. QED  BY <2>2
  <2>. HIDE DEF g, Below
  <2>. QED  BY <2>3
<1>. HIDE DEF N
<1>3. n \in N
  BY <1>1, <1>2, NatSetInduction
<1>. QED  BY <1>3 DEF N, IsReach

\* A lineage is where that recursion ends.
LEMMA LineageIsReach ==
    ASSUME NEW e, NEW S
    PROVE  /\ Cardinality(Sources) \in Nat
           /\ \E f : /\ IsReach(f, e, S, Cardinality(Sources))
                     /\ Lineage(e, S) = f[Cardinality(Sources)]
<1>1. Cardinality(Sources) \in Nat
  BY EvidenceAssumption, FS_CardinalityType
<1>. DEFINE f == CHOOSE g : IsReach(g, e, S, Cardinality(Sources))
<1>2. Lineage(e, S) = f[Cardinality(Sources)]
  BY Zenon DEF Lineage, IsReach
<1>3. IsReach(f, e, S, Cardinality(Sources))
  BY <1>1, ReachExists
<1>. QED  BY <1>1, <1>2, <1>3

\* The sources T are closed under derivation.
Closed(e, T) == \A x \in T : Inputs(e, x) \subseteq T

\* A lineage is the least closed set that holds what it starts from: another
\* step would add to it, or it is closed, or it has all the sources.
LEMMA LineageIsLeast ==
    ASSUME NEW e, NEW S \in SUBSET Sources, Closed(e, Sources)
    PROVE  /\ Lineage(e, S) \in SUBSET Sources
           /\ S \subseteq Lineage(e, S)
           /\ Closed(e, Lineage(e, S))
           /\ \A T \in SUBSET Sources : S \subseteq T /\ Closed(e, T) => Lineage(e, S) \subseteq T
<1>. DEFINE N == Cardinality(Sources)
            Wider(T) == T \cup UNION {Inputs(e, s) : s \in T}
<1>1. N \in Nat
  BY LineageIsReach
<1>2. PICK f : IsReach(f, e, S, N) /\ Lineage(e, S) = f[N]
  BY LineageIsReach
<1>3. f[0] = S
  BY <1>1, <1>2 DEF IsReach
<1>4. \A i \in 1 .. N : f[i] = Wider(f[i - 1])
  BY <1>1, <1>2 DEF IsReach
<1>5. \A T \in SUBSET Sources : Wider(T) \in SUBSET Sources /\ T \subseteq Wider(T)
  BY DEF Closed
<1>6. \A T \in SUBSET Sources : Closed(e, T) <=> Wider(T) = T
  BY DEF Closed
<1>7. \A T, U : T \subseteq U /\ Closed(e, U) => Wider(T) \subseteq U
  BY DEF Closed
<1>. HIDE DEF N, Wider
<1>8. \A i \in 0 .. N : f[i] \in SUBSET Sources /\ S \subseteq f[i]
  <2>. DEFINE K == {i \in Nat : i \in 0 .. N => f[i] \in SUBSET Sources /\ S \subseteq f[i]}
  <2>1. 0 \in K
    BY <1>3
  <2>2. ASSUME NEW i \in Nat, i \in K PROVE i + 1 \in K
    <3>. SUFFICES ASSUME i + 1 \in 0 .. N
                  PROVE  f[i + 1] \in SUBSET Sources /\ S \subseteq f[i + 1]
      OBVIOUS
    <3>1. i \in 0 .. N /\ i + 1 \in 1 .. N /\ (i + 1) - 1 = i
      BY <1>1
    <3>2. f[i + 1] = Wider(f[i])
      BY <1>4, <3>1
    <3>. QED  BY <1>5, <2>2, <3>1, <3>2
  <2>. HIDE DEF K
  <2>3. Nat \subseteq K
    BY <2>1, <2>2, NatSetInduction
  <2>. QED  BY <1>1, <2>3 DEF K
<1>9. \A i \in 0 .. N : Closed(e, f[i]) \/ Cardinality(f[i]) >= i
  <2>. DEFINE K == {i \in Nat : i \in 0 .. N => Closed(e, f[i]) \/ Cardinality(f[i]) >= i}
  <2>0. \A T \in SUBSET Sources : IsFiniteSet(T) /\ Cardinality(T) \in Nat
    BY EvidenceAssumption, FS_Subset, FS_CardinalityType
  <2>1. 0 \in K
    BY <1>8, <2>0
  <2>2. ASSUME NEW i \in Nat, i \in K PROVE i + 1 \in K
    <3>. SUFFICES ASSUME i + 1 \in 0 .. N
                  PROVE  Closed(e, f[i + 1]) \/ Cardinality(f[i + 1]) >= i + 1
      OBVIOUS
    <3>1. i \in 0 .. N /\ i + 1 \in 1 .. N /\ (i + 1) - 1 = i
      BY <1>1
    <3>2. f[i + 1] = Wider(f[i]) /\ f[i] \in SUBSET Sources /\ f[i + 1] \in SUBSET Sources
      BY <1>4, <1>8, <3>1
    <3>3. CASE Closed(e, f[i])
      BY <1>6, <3>2, <3>3
    <3>4. CASE ~Closed(e, f[i])
      <4>1. f[i] \subseteq f[i + 1] /\ f[i] # f[i + 1]
        BY <1>5, <1>6, <3>2, <3>4
      <4>2. Cardinality(f[i]) < Cardinality(f[i + 1])
        BY <2>0, <3>2, <4>1, FS_Subset
      <4>3. Cardinality(f[i]) >= i
        BY <2>2, <3>1, <3>4
      <4>. QED  BY <2>0, <3>2, <4>2, <4>3
    <3>. QED  BY <3>3, <3>4
  <2>. HIDE DEF K
  <2>3. Nat \subseteq K
    BY <2>1, <2>2, NatSetInduction
  <2>. QED  BY <1>1, <2>3 DEF K
<1>10. Closed(e, f[N])
  <2>1. N \in 0 .. N
    BY <1>1
  <2>2. CASE Cardinality(f[N]) >= N
    <3>1. f[N] = Sources
      <4>1. f[N] \in SUBSET Sources /\ IsFiniteSet(Sources)
        BY <1>8, <2>1, EvidenceAssumption
      <4>2. Cardinality(f[N]) <= N /\ (N = Cardinality(f[N]) => Sources = f[N])
        BY <4>1, FS_Subset DEF N
      <4>3. Cardinality(f[N]) \in Nat
        BY <4>1, FS_Subset, FS_CardinalityType
      <4>. QED  BY <1>1, <2>2, <4>2, <4>3
    <3>. QED  BY <3>1
  <2>. QED  BY <1>9, <2>1, <2>2
<1>11. ASSUME NEW T \in SUBSET Sources, S \subseteq T, Closed(e, T) PROVE f[N] \subseteq T
  <2>. DEFINE K == {i \in Nat : i \in 0 .. N => f[i] \subseteq T}
  <2>1. 0 \in K
    BY <1>3, <1>11
  <2>2. ASSUME NEW i \in Nat, i \in K PROVE i + 1 \in K
    <3>. SUFFICES ASSUME i + 1 \in 0 .. N PROVE f[i + 1] \subseteq T
      OBVIOUS
    <3>1. i \in 0 .. N /\ i + 1 \in 1 .. N /\ (i + 1) - 1 = i
      BY <1>1
    <3>2. f[i + 1] = Wider(f[i])
      BY <1>4, <3>1
    <3>. QED  BY <1>7, <1>11, <2>2, <3>1, <3>2
  <2>. HIDE DEF K
  <2>3. Nat \subseteq K
    BY <2>1, <2>2, NatSetInduction
  <2>. QED  BY <1>1, <2>3 DEF K
<1>. QED
  <2>1. N \in 0 .. N
    BY <1>1
  <2>. QED  BY <1>2, <1>8, <1>10, <1>11, <2>1

\* A lineage depends on the inputs of its members alone.
LEMMA LineageIsLocal ==
    ASSUME NEW e, NEW g, Closed(e, Sources), Closed(g, Sources), NEW S \in SUBSET Sources,
           \A x \in Lineage(e, S) : Inputs(g, x) = Inputs(e, x)
    PROVE  Lineage(g, S) = Lineage(e, S)
<1>1. Closed(g, Lineage(e, S))
  BY LineageIsLeast DEF Closed
<1>2. Lineage(g, S) \subseteq Lineage(e, S)
  BY <1>1, LineageIsLeast
<1>3. Closed(e, Lineage(g, S))
  BY <1>2, LineageIsLeast DEF Closed
<1>4. Lineage(e, S) \subseteq Lineage(g, S)
  BY <1>3, LineageIsLeast
<1>. QED  BY <1>2, <1>4

\* Nothing in e is derived from itself.
Acyclic(e) == \A s \in Sources : s \notin Lineage(e, Inputs(e, s))

\* A larger set has a larger lineage.
LEMMA LineageOfPart ==
    ASSUME NEW e, Closed(e, Sources), NEW S \in SUBSET Sources, NEW T \in SUBSET Sources,
           T \subseteq Lineage(e, S)
    PROVE  Lineage(e, T) \subseteq Lineage(e, S)
BY LineageIsLeast

\* A source takes new inputs that were not derived from it: nothing is derived
\* from itself then.
LEMMA StaysAcyclic ==
    ASSUME NEW e, NEW g, Closed(e, Sources), Closed(g, Sources), Acyclic(e), NEW s \in Sources,
           \A x \in Sources \ {s} : Inputs(g, x) = Inputs(e, x),
           \A i \in Inputs(g, s) : s \notin Lineage(e, {i})
    PROVE  Acyclic(g)
<1>. DEFINE I == Inputs(g, s)
<1>1. I \in SUBSET Sources /\ \A x \in Sources : Inputs(e, x) \in SUBSET Sources
  BY DEF Closed
<1>2. s \notin Lineage(e, I)
  <2>. DEFINE U == UNION {Lineage(e, {i}) : i \in I}
  <2>1. ASSUME NEW i \in I
        PROVE  /\ Lineage(e, {i}) \in SUBSET Sources /\ i \in Lineage(e, {i})
               /\ \A x \in Lineage(e, {i}) : Inputs(e, x) \subseteq Lineage(e, {i})
    <3>1. {i} \in SUBSET Sources
      BY <1>1
    <3>. QED  BY <3>1, LineageIsLeast DEF Closed
  <2>2. U \in SUBSET Sources /\ I \subseteq U /\ s \notin U
    BY <2>1
  <2>3. Closed(e, U)
    BY <2>1 DEF Closed
  <2>. HIDE DEF U
  <2>. QED  BY <1>1, <2>2, <2>3, LineageIsLeast
<1>3. Lineage(g, I) = Lineage(e, I)
  BY <1>1, <1>2, LineageIsLocal, LineageIsLeast
<1>. HIDE DEF I
<1>4. ASSUME NEW x \in Sources, x # s PROVE x \notin Lineage(g, Inputs(g, x))
  <2>1. Inputs(g, x) = Inputs(e, x) /\ x \notin Lineage(e, Inputs(e, x))
    BY <1>4 DEF Acyclic
  <2>2. CASE s \notin Lineage(e, Inputs(e, x))
    <3>1. Lineage(g, Inputs(e, x)) = Lineage(e, Inputs(e, x))
      BY <1>1, <2>2, LineageIsLocal, LineageIsLeast
    <3>. QED  BY <2>1, <3>1
  <2>3. CASE s \in Lineage(e, Inputs(e, x))
    <3>. DEFINE U == Lineage(e, Inputs(e, x)) \cup Lineage(e, I)
    <3>1. U \in SUBSET Sources /\ Inputs(e, x) \subseteq U
      BY <1>1, LineageIsLeast
    <3>2. Closed(g, U)
      <4>1. ASSUME NEW y \in U, y # s PROVE Inputs(g, y) \subseteq U
        <5>1. y \in Sources /\ Inputs(g, y) = Inputs(e, y)
          BY <3>1, <4>1
        <5>2. Closed(e, Lineage(e, Inputs(e, x))) /\ Closed(e, Lineage(e, I))
          BY <1>1, LineageIsLeast
        <5>. QED  BY <5>1, <5>2 DEF Closed
      <4>2. I \subseteq U
        BY <1>1, LineageIsLeast
      <4>. QED  BY <4>1, <4>2 DEF Closed, I
    <3>3. Lineage(g, Inputs(e, x)) \subseteq U
      <4>. HIDE DEF U
      <4>. QED  BY <1>1, <3>1, <3>2, LineageIsLeast
    <3>4. x \notin Lineage(e, I)
      <4>. SUFFICES ASSUME x \in Lineage(e, I) PROVE FALSE
        OBVIOUS
      <4>1. Inputs(e, x) \subseteq Lineage(e, I)
        BY <1>1, LineageIsLeast DEF Closed
      <4>. QED  BY <1>1, <1>2, <2>3, <4>1, LineageOfPart
    <3>. QED  BY <2>1, <3>3, <3>4
  <2>. QED  BY <2>2, <2>3
<1>. QED  BY <1>2, <1>3, <1>4 DEF Acyclic, I

\* Evidence with the same inputs has the same lineages.
LEMMA SameInputs ==
    ASSUME NEW e, NEW g, Closed(e, Sources), \A x \in Sources : Inputs(g, x) = Inputs(e, x)
    PROVE  /\ Closed(g, Sources)
           /\ \A S \in SUBSET Sources : Lineage(g, S) = Lineage(e, S)
           /\ Acyclic(g) <=> Acyclic(e)
<1>1. Closed(g, Sources)
  BY DEF Closed
<1>2. ASSUME NEW S \in SUBSET Sources PROVE Lineage(g, S) = Lineage(e, S)
  BY <1>1, LineageIsLocal, LineageIsLeast
<1>3. \A x \in Sources : Inputs(e, x) \in SUBSET Sources
  BY DEF Closed
<1>. QED  BY <1>1, <1>2, <1>3 DEF Acyclic

-----------------------------------------------------------------------------
(* Evidence and its checkpoint.                                            *)

\* What a source was derived from is another source, at a version it has had in
\* this epoch.
DependenciesHold(e) ==
    \A s \in Sources : \A d \in e.sources[s].provenance.derived_from :
        /\ d.source # s
        /\ d.revision.epoch = e.epoch
        /\ d.revision.version \in 1 .. e.sources[d.source].version

\* What restore_relationships() asks of the graph.
GraphHolds(e) ==
    /\ \A n \in Nodes : e.documents[n] # NoSource => e.sources[e.documents[n]].version > 0
    /\ \A x \in e.edges : Stored(x.from, x.to, x.kind) \subseteq e.edges
    /\ \A x \in e.edges : \A n \in {x.from, x.to} :
          /\ e.edge_nodes[n].source # NoSource
          /\ e.sources[e.edge_nodes[n].source].version > 0
          /\ e.documents[n] \in {NoSource, e.edge_nodes[n].source}
    /\ \A n \in Nodes : e.edge_nodes[n].source # NoSource =>
          \E x \in e.edges : n \in {x.from, x.to}

\* The edge nodes are counted as recovery counts them.
Counted(e) == \A n \in Nodes : e.edge_nodes[n].references = References(e.edges, n)

\* An evidence that the commands have built.
Sound(e) ==
    /\ e \in Evidence /\ IsFiniteSet(e.edges)
    /\ DependenciesHold(e) /\ Acyclic(e)
    /\ GraphHolds(e) /\ Counted(e)

Checkpoints ==
    [epoch : Nat,
     sources : [Sources -> [version : Nat, provenance : Provenances]],
     documents : [Nodes -> Sources \cup {NoSource}],
     edges : SUBSET Edges,
     owners : [Nodes -> Sources \cup {NoSource}]]

\* The parts of an evidence, whose inputs are sources.
LEMMA EvidenceTypes ==
    ASSUME NEW e \in Evidence
    PROVE  /\ e.epoch \in Nat
           /\ e.sources \in [Sources -> [version : Nat, provenance : Provenances]]
           /\ e.documents \in [Nodes -> Sources \cup {NoSource}]
           /\ e.edges \in SUBSET Edges
           /\ e.edge_nodes \in [Nodes -> [source : Sources \cup {NoSource}, references : Nat]]
           /\ Closed(e, Sources)
<1>1. /\ e.epoch \in Nat
      /\ e.sources \in [Sources -> [version : Nat, provenance : Provenances]]
      /\ e.documents \in [Nodes -> Sources \cup {NoSource}]
      /\ e.edges \in SUBSET Edges
      /\ e.edge_nodes \in [Nodes -> [source : Sources \cup {NoSource}, references : Nat]]
  BY DEF Evidence
<1>2. ASSUME NEW s \in Sources PROVE Inputs(e, s) \subseteq Sources
  <2>1. e.sources[s].provenance \in Provenances
    BY <1>1
  <2>2. e.sources[s].provenance.derived_from \in SUBSET Dependencies
    BY <2>1 DEF Provenances
  <2>. QED  BY <2>2 DEF Inputs, Dependencies
<1>. QED  BY <1>1, <1>2 DEF Closed

\* write_checkpoint() writes a checkpoint.
LEMMA CheckpointType ==
    ASSUME NEW e \in Evidence
    PROVE  Checkpoint(e) \in Checkpoints
<1>1. [n \in Nodes |-> e.edge_nodes[n].source] \in [Nodes -> Sources \cup {NoSource}]
  BY EvidenceTypes
<1>. QED  BY <1>1, EvidenceTypes DEF Checkpoint, Checkpoints

\* What the commands built can be restored.
LEMMA SoundRestores ==
    ASSUME NEW e, Sound(e)
    PROVE  /\ Checkpoint(e) \in Checkpoints
           /\ IsFiniteSet(Checkpoint(e).edges)
           /\ Restorable(Checkpoint(e))
<1>. DEFINE c == Checkpoint(e)
<1>0. e \in Evidence
  BY DEF Sound
<1>1. /\ c.epoch = e.epoch /\ c.sources = e.sources /\ c.documents = e.documents
      /\ c.edges = e.edges /\ \A n \in Nodes : c.owners[n] = e.edge_nodes[n].source
  BY DEF Checkpoint
<1>2. \A x \in Sources : Inputs(c, x) = Inputs(e, x)
  BY <1>1 DEF Inputs
<1>. HIDE DEF c
<1>3. LineageIsAcyclic(c)
  BY <1>0, <1>2, SameInputs, EvidenceTypes DEF Sound, Acyclic, LineageIsAcyclic
<1>4. SourcesRestore(c)
  BY <1>1, <1>3 DEF SourcesRestore, Sound, DependenciesHold
<1>5. GraphRestores(c)
  <2>1. \A x \in e.edges : x.from \in Nodes /\ x.to \in Nodes
    BY <1>0, EvidenceTypes DEF Edges
  <2>. QED  BY <1>1, <2>1 DEF GraphRestores, Sound, GraphHolds
<1>. QED  BY <1>0, <1>1, <1>4, <1>5, CheckpointType DEF c, Restorable, Sound

\* The parts of an edge.
LEMMA NodesOfEdges ==
    \A x \in Edges : /\ x.from \in Nodes /\ x.to \in Nodes /\ x.from # x.to
                     /\ x.kind \in Kinds
                     /\ x = [kind |-> x.kind, from |-> x.from, to |-> x.to]
BY DEF Edges

\* Recovery counts finitely many references.
LEMMA ReferencesType ==
    ASSUME NEW edges, IsFiniteSet(edges), NEW n
    PROVE  References(edges, n) \in Nat
<1>. DEFINE R == {x \in edges : n \in {x.from, x.to} /\ (x.kind = "contradicts" => x.from = n)}
<1>1. R \in SUBSET edges
  OBVIOUS
<1>. HIDE DEF R
<1>2. Cardinality(R) \in Nat
  BY <1>1, FS_Subset, FS_CardinalityType
<1>. QED  BY <1>2 DEF References, R

\* What is restored from a checkpoint is as sound as what it was made from.
LEMMA RestoredIsSound ==
    ASSUME NEW c \in Checkpoints, IsFiniteSet(c.edges), Restorable(c), NEW epoch \in Nat
    PROVE  Sound(Restored(c, epoch))
<1>. DEFINE r == Restored(c, epoch)
            Bound(d) == [d EXCEPT !.revision.epoch = epoch]
<1>1. /\ c.sources \in [Sources -> [version : Nat, provenance : Provenances]]
      /\ c.documents \in [Nodes -> Sources \cup {NoSource}]
      /\ c.edges \in SUBSET Edges
      /\ c.owners \in [Nodes -> Sources \cup {NoSource}]
  BY DEF Checkpoints
<1>2. /\ r.epoch = epoch /\ r.documents = c.documents /\ r.edges = c.edges
      /\ r.edge_nodes = [n \in Nodes |->
            [source |-> c.owners[n], references |-> References(c.edges, n)]]
      /\ r.sources = [s \in Sources |->
            [c.sources[s] EXCEPT !.provenance.derived_from = {Bound(d) : d \in @}]]
      /\ r = [epoch |-> r.epoch, sources |-> r.sources, documents |-> r.documents,
              edges |-> r.edges, edge_nodes |-> r.edge_nodes]
  BY DEF Restored
<1>3. ASSUME NEW d \in Dependencies
      PROVE  /\ Bound(d) \in Dependencies
             /\ Bound(d).source = d.source
             /\ Bound(d).revision.epoch = epoch
             /\ Bound(d).revision.version = d.revision.version
  BY DEF Dependencies, Revisions
<1>. HIDE DEF r, Bound
<1>4. ASSUME NEW s \in Sources
      PROVE  /\ c.sources[s].provenance.derived_from \in SUBSET Dependencies
             /\ r.sources[s].version = c.sources[s].version
             /\ r.sources[s].provenance.derived_from =
                    {Bound(d) : d \in c.sources[s].provenance.derived_from}
             /\ r.sources[s] \in [version : Nat, provenance : Provenances]
  <2>1. c.sources[s] \in [version : Nat, provenance : Provenances]
    BY <1>1
  <2>2. c.sources[s].provenance.derived_from \in SUBSET Dependencies
    BY <2>1 DEF Provenances
  <2>3. {Bound(d) : d \in c.sources[s].provenance.derived_from} \in SUBSET Dependencies
    BY <1>3, <2>2
  <2>4. r.sources[s] = [c.sources[s] EXCEPT !.provenance.derived_from =
            {Bound(d) : d \in c.sources[s].provenance.derived_from}]
    BY <1>2
  <2>. QED  BY <2>1, <2>2, <2>3, <2>4 DEF Provenances
<1>5. \A n \in Nodes : References(c.edges, n) \in Nat
  BY ReferencesType
<1>6. r \in Evidence
  <2>1. r.sources \in [Sources -> [version : Nat, provenance : Provenances]]
    BY <1>2, <1>4
  <2>2. r.edge_nodes \in [Nodes -> [source : Sources \cup {NoSource}, references : Nat]]
    BY <1>1, <1>2, <1>5
  <2>. QED  BY <1>1, <1>2, <2>1, <2>2 DEF Evidence
<1>7. ASSUME NEW s \in Sources PROVE Inputs(c, s) = Inputs(r, s)
  BY <1>3, <1>4 DEF Inputs
<1>8. Acyclic(r)
  <2>1. Closed(r, Sources)
    BY <1>6, EvidenceTypes
  <2>2. Acyclic(c)
    BY DEF Restorable, SourcesRestore, LineageIsAcyclic, Acyclic
  <2>. QED  BY <1>7, <2>1, <2>2, SameInputs
<1>9. DependenciesHold(r)
  <2>. SUFFICES ASSUME NEW s \in Sources, NEW b \in r.sources[s].provenance.derived_from
                PROVE  /\ b.source # s
                       /\ b.revision.epoch = r.epoch
                       /\ b.revision.version \in 1 .. r.sources[b.source].version
    BY DEF DependenciesHold
  <2>1. PICK d \in c.sources[s].provenance.derived_from : b = Bound(d)
    BY <1>4
  <2>2. d \in Dependencies /\ d.source \in Sources
    BY <1>4 DEF Dependencies
  <2>3. d.source # s /\ d.revision.version \in 1 .. c.sources[d.source].version
    BY DEF Restorable, SourcesRestore
  <2>. QED  BY <1>2, <1>3, <1>4, <2>1, <2>2, <2>3
<1>10. GraphHolds(r)
  <2>1. \A n \in Nodes : r.edge_nodes[n].source = c.owners[n]
    BY <1>2
  <2>2. r.documents = c.documents /\ r.edges = c.edges
    BY <1>2
  <2>3. \A s \in Sources : r.sources[s].version = c.sources[s].version
    BY <1>4
  <2>4. \A x \in c.edges : x.from \in Nodes /\ x.to \in Nodes
    BY <1>1, NodesOfEdges
  <2>5. GraphRestores(c)
    BY DEF Restorable
  <2>. QED  BY <1>1, <2>1, <2>2, <2>3, <2>4, <2>5 DEF GraphRestores, GraphHolds
<1>11. Counted(r)
  BY <1>2 DEF Counted
<1>. QED  BY <1>2, <1>6, <1>8, <1>9, <1>10, <1>11 DEF Sound, r

\* A restart finds what a running broker serves.
LEMMA CheckpointIsFaithful ==
    ASSUME NEW e, Sound(e)
    PROVE  Restored(Checkpoint(e), e.epoch) = e
<1>. DEFINE c == Checkpoint(e)
            r == Restored(c, e.epoch)
            Bound(d) == [d EXCEPT !.revision.epoch = e.epoch]
<1>0. /\ e \in Evidence /\ e.edges \in SUBSET Edges
      /\ e.sources \in [Sources -> [version : Nat, provenance : Provenances]]
      /\ e.edge_nodes \in [Nodes -> [source : Sources \cup {NoSource}, references : Nat]]
  BY EvidenceTypes DEF Sound
<1>1. /\ c.sources = e.sources /\ c.documents = e.documents /\ c.edges = e.edges
      /\ \A n \in Nodes : c.owners[n] = e.edge_nodes[n].source
  BY DEF Checkpoint
<1>. HIDE DEF c
<1>2. /\ r.epoch = e.epoch /\ r.documents = c.documents /\ r.edges = c.edges
      /\ r.edge_nodes = [n \in Nodes |->
            [source |-> c.owners[n], references |-> References(c.edges, n)]]
      /\ r.sources = [s \in Sources |->
            [c.sources[s] EXCEPT !.provenance.derived_from = {Bound(d) : d \in @}]]
      /\ r = [epoch |-> r.epoch, sources |-> r.sources, documents |-> r.documents,
              edges |-> r.edges, edge_nodes |-> r.edge_nodes]
  BY DEF Restored
<1>3. ASSUME NEW d \in Dependencies, d.revision.epoch = e.epoch PROVE Bound(d) = d
  BY <1>3 DEF Dependencies, Revisions
<1>. HIDE DEF r, Bound
<1>4. ASSUME NEW s \in Sources PROVE r.sources[s] = e.sources[s]
  <2>1. e.sources[s] \in [version : Nat, provenance : Provenances]
    BY <1>0
  <2>2. e.sources[s].provenance.derived_from \in SUBSET Dependencies
    BY <2>1 DEF Provenances
  <2>3. {Bound(d) : d \in e.sources[s].provenance.derived_from}
            = e.sources[s].provenance.derived_from
    BY <1>3, <2>2 DEF Sound, DependenciesHold
  <2>4. r.sources[s] = [e.sources[s] EXCEPT !.provenance.derived_from =
            {Bound(d) : d \in e.sources[s].provenance.derived_from}]
    BY <1>1, <1>2
  <2>5. \A x \in [version : Nat, provenance : Provenances] :
            [x EXCEPT !.provenance.derived_from = x.provenance.derived_from] = x
    BY DEF Provenances
  <2>. QED  BY <2>1, <2>3, <2>4, <2>5
<1>5. r.sources = e.sources
  <2>1. r.sources = [s \in Sources |-> r.sources[s]]
    BY <1>2
  <2>2. e.sources = [s \in Sources |-> e.sources[s]]
    BY <1>0
  <2>. QED  BY <1>4, <2>1, <2>2
<1>6. ASSUME NEW n \in Nodes PROVE r.edge_nodes[n] = e.edge_nodes[n]
  BY <1>0, <1>1, <1>2 DEF Sound, Counted
<1>7. r.edge_nodes = e.edge_nodes
  BY <1>0, <1>2, <1>6
<1>8. e = [epoch |-> e.epoch, sources |-> e.sources, documents |-> e.documents,
           edges |-> e.edges, edge_nodes |-> e.edge_nodes]
  BY <1>0 DEF Evidence
<1>. QED  BY <1>1, <1>2, <1>5, <1>7, <1>8 DEF r, c

\* The evidence of a broker that was never given any.
LEMMA EmptyIsSound ==
    ASSUME NEW epoch \in Nat
    PROVE  Sound(EmptyEvidence(epoch))
<1>. DEFINE e == EmptyEvidence(epoch)
<1>1. e \in Evidence
  BY EvidenceAssumption DEF EmptyEvidence, Evidence, NoProvenance, Provenances
<1>2. \A s \in Sources : e.sources[s].provenance.derived_from = {}
  BY DEF EmptyEvidence, NoProvenance
<1>3. e.edges = {} /\ \A n \in Nodes : /\ e.documents[n] = NoSource
                                       /\ e.edge_nodes[n].source = NoSource
                                       /\ e.edge_nodes[n].references = 0
  BY DEF EmptyEvidence
<1>. HIDE DEF e
<1>4. Acyclic(e)
  <2>1. \A s \in Sources : Inputs(e, s) = {}
    BY <1>2 DEF Inputs
  <2>2. Closed(e, Sources) /\ Closed(e, {})
    BY <2>1 DEF Closed
  <2>3. Lineage(e, {}) \subseteq {}
    BY <2>2, LineageIsLeast
  <2>. QED  BY <2>1, <2>3 DEF Acyclic
<1>5. DependenciesHold(e) /\ GraphHolds(e)
  BY <1>2, <1>3 DEF DependenciesHold, GraphHolds
<1>6. IsFiniteSet(e.edges)
  BY <1>3, FS_EmptySet
<1>7. ASSUME NEW n \in Nodes PROVE References(e.edges, n) = 0
  <2>1. {x \in e.edges : n \in {x.from, x.to} /\ (x.kind = "contradicts" => x.from = n)} = {}
    BY <1>3
  <2>. QED  BY <2>1, FS_EmptySet DEF References
<1>. QED  BY <1>1, <1>3, <1>4, <1>5, <1>6, <1>7 DEF Sound, Counted, e

-----------------------------------------------------------------------------
(* Replacing a source.                                                     *)

\* What a replacement leaves, when it is a change.
IsReplaced(e, g, s, docs, provenance) ==
    /\ g.epoch = e.epoch /\ g.edges = e.edges /\ g.edge_nodes = e.edge_nodes
    /\ \A x \in Sources \ {s} : g.sources[x] = e.sources[x]
    /\ g.sources[s] = [version |-> e.sources[s].version + 1, provenance |-> provenance]
    /\ \A n \in Nodes :
          g.documents[n] = IF n \in docs THEN s
                           ELSE IF e.documents[n] = s THEN NoSource ELSE e.documents[n]

\* What host_replace_source() leaves, part by part.
LEMMA ReplaceChanges ==
    ASSUME NEW e \in Evidence, NEW s \in Sources, NEW docs \in SUBSET Nodes,
           NEW provenance \in Provenances
    PROVE  LET g == ReplaceSource(e, s, docs, provenance)
           IN  /\ g \in Evidence
               /\ g = e \/ IsReplaced(e, g, s, docs, provenance)
<1>. DEFINE changed == \/ e.sources[s].version = 0
                       \/ e.sources[s].provenance # provenance
                       \/ DocumentsOf(e, s) # docs
            g == ReplaceSource(e, s, docs, provenance)
            record == [version |-> e.sources[s].version + 1, provenance |-> provenance]
            documents == [n \in Nodes |-> IF n \in docs THEN s
                            ELSE IF e.documents[n] = s THEN NoSource ELSE e.documents[n]]
<1>1. CASE ~changed
  BY <1>1 DEF ReplaceSource
<1>2. CASE changed
  <2>1. g = [e EXCEPT !.sources[s] = record, !.documents = documents]
    BY <1>2 DEF ReplaceSource
  <2>2. e.sources[s].version + 1 \in Nat
    BY EvidenceTypes
  <2>3. record \in [version : Nat, provenance : Provenances]
    BY <2>2
  <2>4. documents \in [Nodes -> Sources \cup {NoSource}]
    BY EvidenceTypes
  <2>5. \A n \in Nodes : documents[n] = IF n \in docs THEN s
                            ELSE IF e.documents[n] = s THEN NoSource ELSE e.documents[n]
    OBVIOUS
  <2>. DEFINE f == [e EXCEPT !.sources = [@ EXCEPT ![s] = record], !.documents = documents]
  <2>6. g = f
    BY <2>1
  <2>. HIDE DEF g, record, documents
  <2>7. /\ f.epoch = e.epoch /\ f.edges = e.edges /\ f.edge_nodes = e.edge_nodes
        /\ f.sources = [e.sources EXCEPT ![s] = record] /\ f.documents = documents
        /\ f \in Evidence
    BY <2>3, <2>4 DEF Evidence
  <2>. HIDE DEF f
  <2>8. /\ \A x \in Sources \ {s} : f.sources[x] = e.sources[x]
        /\ f.sources[s] = record
    BY <2>7, EvidenceTypes
  <2>. QED  BY <2>5, <2>6, <2>7, <2>8 DEF IsReplaced, record, g
<1>. QED  BY <1>1, <1>2

\* Replacing a source keeps the evidence sound.
LEMMA ReplaceIsSound ==
    ASSUME NEW e, Sound(e), NEW s \in Sources, NEW docs \in SUBSET Nodes,
           NEW provenance \in Provenances, NEW expected, NEW time,
           MayReplace(e, s, expected, docs, provenance, time)
    PROVE  Sound(ReplaceSource(e, s, docs, provenance))
<1>. DEFINE g == ReplaceSource(e, s, docs, provenance)
<1>0. e \in Evidence
  BY DEF Sound
<1>1. g \in Evidence /\ (g = e \/ IsReplaced(e, g, s, docs, provenance))
  BY <1>0, ReplaceChanges
<1>. HIDE DEF g
<1>. SUFFICES ASSUME IsReplaced(e, g, s, docs, provenance) PROVE Sound(g)
  BY <1>1 DEF g
<1>2. /\ e.sources \in [Sources -> [version : Nat, provenance : Provenances]]
      /\ e.documents \in [Nodes -> Sources \cup {NoSource}]
      /\ e.edges \in SUBSET Edges
      /\ e.edge_nodes \in [Nodes -> [source : Sources \cup {NoSource}, references : Nat]]
      /\ Closed(e, Sources) /\ Closed(g, Sources)
  BY <1>0, <1>1, EvidenceTypes
<1>3. /\ g.epoch = e.epoch /\ g.edges = e.edges /\ g.edge_nodes = e.edge_nodes
      /\ \A x \in Sources \ {s} : g.sources[x] = e.sources[x]
      /\ g.sources[s].version = e.sources[s].version + 1
      /\ g.sources[s].provenance = provenance
      /\ \A n \in Nodes :
            g.documents[n] = IF n \in docs THEN s
                             ELSE IF e.documents[n] = s THEN NoSource ELSE e.documents[n]
  BY DEF IsReplaced
<1>4. ASSUME NEW x \in Sources
      PROVE  /\ e.sources[x].version \in Nat /\ g.sources[x].version \in Nat
             /\ e.sources[x].version <= g.sources[x].version
             /\ e.sources[x].provenance.derived_from \in SUBSET Dependencies
  BY <1>2, <1>3 DEF Provenances
<1>5. provenance.derived_from \in SUBSET Dependencies
  BY DEF Provenances
<1>6. ASSUME NEW d \in provenance.derived_from
      PROVE  /\ d.source \in Sources /\ d.source # s
             /\ d.revision.epoch = e.epoch
             /\ d.revision.version = e.sources[d.source].version
             /\ e.sources[d.source].version > 0
             /\ s \notin Lineage(e, {d.source})
  <2>1. d.source \in Sources
    BY <1>5 DEF Dependencies
  <2>2. d.source # s /\ DependencyIsCurrent(e, d) /\ SourceIsValid(e, d.source, {s}, time)
    BY DEF MayReplace, ProvenanceIsValid
  <2>3. d.revision = [epoch |-> e.epoch, version |-> e.sources[d.source].version]
    BY <2>2 DEF DependencyIsCurrent, Revision
  <2>4. Present(e, d.source)
    BY <2>2 DEF DependencyIsCurrent
  <2>5. e.sources[d.source].version > 0
    BY <2>1, <2>4, EvidenceAssumption DEF Present, Sound, GraphHolds
  <2>6. e.sources[d.source].version # 0
    BY <1>4, <2>1, <2>5
  <2>7. \A x \in Lineage(e, {d.source}) : x \notin {s}
    BY <2>2, <2>4, <2>6, Zenon DEF SourceIsValid
  <2>. QED  BY <2>1, <2>2, <2>3, <2>5, <2>7
<1>7. DependenciesHold(g)
  <2>. SUFFICES ASSUME NEW x \in Sources, NEW d \in g.sources[x].provenance.derived_from
                PROVE  /\ d.source # x
                       /\ d.revision.epoch = g.epoch
                       /\ d.revision.version \in 1 .. g.sources[d.source].version
    BY DEF DependenciesHold
  <2>1. CASE x = s
    <3>1. d \in provenance.derived_from
      BY <1>3, <2>1
    <3>2. d.source \in Sources /\ g.sources[d.source] = e.sources[d.source]
      BY <1>3, <1>6, <3>1
    <3>3. e.sources[d.source].version \in Nat
      BY <1>4, <3>2
    <3>4. /\ d.source # s /\ d.revision.epoch = e.epoch
          /\ d.revision.version = e.sources[d.source].version
          /\ e.sources[d.source].version > 0
      BY <1>6, <3>1
    <3>. QED  BY <1>3, <2>1, <3>2, <3>3, <3>4
  <2>2. CASE x # s
    <3>1. d \in e.sources[x].provenance.derived_from
      BY <1>3, <2>2
    <3>2. d.source \in Sources
      BY <1>4, <3>1 DEF Dependencies
    <3>3. /\ d.source # x /\ d.revision.epoch = e.epoch
          /\ d.revision.version \in 1 .. e.sources[d.source].version
      BY <3>1 DEF Sound, DependenciesHold
    <3>. QED  BY <1>3, <1>4, <3>2, <3>3
  <2>. QED  BY <2>1, <2>2
<1>8. Acyclic(g)
  <2>1. \A x \in Sources \ {s} : Inputs(g, x) = Inputs(e, x)
    BY <1>3 DEF Inputs
  <2>2. \A i \in Inputs(g, s) : s \notin Lineage(e, {i})
    BY <1>3, <1>6 DEF Inputs
  <2>. QED  BY <1>2, <2>1, <2>2, StaysAcyclic DEF Sound
<1>9. GraphHolds(g)
  <2>0. GraphHolds(e)
    BY DEF Sound
  <2>1. ASSUME NEW n \in Nodes, g.documents[n] # NoSource
        PROVE  g.sources[g.documents[n]].version > 0
    <3>1. CASE n \in docs
      BY <1>2, <1>3, <3>1
    <3>2. CASE n \notin docs
      <4>1. g.documents[n] = e.documents[n] /\ e.documents[n] # s /\ e.documents[n] \in Sources
        BY <1>2, <1>3, <2>1, <3>2
      <4>2. g.sources[e.documents[n]] = e.sources[e.documents[n]]
        BY <1>3, <4>1
      <4>. QED  BY <2>0, <2>1, <4>1, <4>2 DEF GraphHolds
    <3>. QED  BY <3>1, <3>2
  <2>2. ASSUME NEW x \in e.edges, NEW n \in {x.from, x.to}
        PROVE  /\ e.edge_nodes[n].source # NoSource
               /\ g.sources[e.edge_nodes[n].source].version > 0
               /\ g.documents[n] \in {NoSource, e.edge_nodes[n].source}
    <3>1. n \in Nodes /\ e.edge_nodes[n].source \in Sources \cup {NoSource}
      BY <1>2, NodesOfEdges
    <3>2. /\ e.edge_nodes[n].source # NoSource
          /\ e.sources[e.edge_nodes[n].source].version > 0
          /\ e.documents[n] \in {NoSource, e.edge_nodes[n].source}
      BY <2>0 DEF GraphHolds
    <3>3. g.sources[e.edge_nodes[n].source].version > 0
      BY <1>4, <3>1, <3>2
    <3>4. n \in docs => NodeSource(e, n) \in {NoSource, s}
      BY DEF MayReplace, MayOwn
    <3>5. n \in docs => e.edge_nodes[n].source = s
      BY <3>2, <3>4 DEF NodeSource
    <3>. QED  BY <1>3, <3>1, <3>2, <3>3, <3>5
  <2>. QED  BY <1>3, <2>0, <2>1, <2>2 DEF GraphHolds
<1>10. Counted(g)
  BY <1>3 DEF Sound, Counted
<1>. QED  BY <1>1, <1>3, <1>7, <1>8, <1>9, <1>10 DEF Sound

-----------------------------------------------------------------------------
(* Setting an edge.                                                        *)

\* The directions of one edge.
Pair(x) == Stored(x.from, x.to, x.kind)

\* The directions of an edge are edges, and each gives the same two.
LEMMA PairFacts ==
    ASSUME NEW x \in Edges
    PROVE  /\ x \in Pair(x) /\ Pair(x) \in SUBSET Edges /\ IsFiniteSet(Pair(x))
           /\ \A y \in Pair(x) : {y.from, y.to} = {x.from, x.to} /\ Pair(y) = Pair(x)
<1>. DEFINE back == [kind |-> x.kind, from |-> x.to, to |-> x.from]
<1>1. x = [kind |-> x.kind, from |-> x.from, to |-> x.to] /\ x.from # x.to
      /\ x.kind \in Kinds /\ x.from \in Nodes /\ x.to \in Nodes
  BY NodesOfEdges
<1>2. Pair(x) = IF x.kind = "contradicts" THEN {x, back} ELSE {x}
  BY <1>1 DEF Pair, Stored
<1>3. back \in Edges /\ back.from = x.to /\ back.to = x.from /\ back.kind = x.kind
  BY <1>1 DEF Edges
<1>4. x.kind = "contradicts" => Pair(back) = {x, back}
  BY <1>1, <1>3 DEF Pair, Stored
<1>5. IsFiniteSet({x}) /\ IsFiniteSet({x, back})
  <2>1. {x, back} = {x} \cup {back}
    OBVIOUS
  <2>2. IsFiniteSet({x})
    BY FS_Singleton
  <2>. QED  BY <2>1, <2>2, FS_AddElement
<1>. HIDE DEF back
<1>. QED  BY <1>2, <1>3, <1>4, <1>5

\* The edges that are counted for a node.
CountedFor(edges, n) ==
    {x \in edges : n \in {x.from, x.to} /\ (x.kind = "contradicts" => x.from = n)}

\* Of the directions of one edge, one is counted for each of its ends.
LEMMA OneIsCounted ==
    ASSUME NEW x \in Edges, NEW n \in Nodes
    PROVE  /\ n \in {x.from, x.to} => \E y \in Pair(x) : CountedFor(Pair(x), n) = {y}
           /\ n \notin {x.from, x.to} => CountedFor(Pair(x), n) = {}
<1>. DEFINE back == [kind |-> x.kind, from |-> x.to, to |-> x.from]
<1>1. x = [kind |-> x.kind, from |-> x.from, to |-> x.to] /\ x.from # x.to
  BY NodesOfEdges
<1>2. Pair(x) = IF x.kind = "contradicts" THEN {x, back} ELSE {x}
  BY <1>1 DEF Pair, Stored
<1>3. back.from = x.to /\ back.to = x.from /\ back.kind = x.kind
  OBVIOUS
<1>. HIDE DEF back
<1>4. CASE n \notin {x.from, x.to}
  BY <1>2, <1>3, <1>4 DEF CountedFor
<1>5. CASE n = x.from
  <2>1. CountedFor(Pair(x), n) = {x}
    BY <1>1, <1>2, <1>3, <1>5 DEF CountedFor
  <2>. QED  BY <1>2, <1>5, <2>1
<1>6. CASE n = x.to
  <2>1. CASE x.kind = "contradicts"
    <3>1. CountedFor(Pair(x), n) = {back}
      BY <1>1, <1>2, <1>3, <1>6, <2>1 DEF CountedFor
    <3>. QED  BY <1>2, <1>6, <2>1, <3>1
  <2>2. CASE x.kind # "contradicts"
    <3>1. CountedFor(Pair(x), n) = {x}
      BY <1>1, <1>2, <1>3, <1>6, <2>2 DEF CountedFor
    <3>. QED  BY <1>2, <1>6, <2>2, <3>1
  <2>. QED  BY <2>1, <2>2
<1>. QED  BY <1>4, <1>5, <1>6

\* Adding an edge, or removing one, counts one for each end and nothing else.
LEMMA CountsFollow ==
    ASSUME NEW edges \in SUBSET Edges, IsFiniteSet(edges), NEW x \in Edges, NEW n \in Nodes
    PROVE  /\ Pair(x) \cap edges = {} =>
                 References(edges \cup Pair(x), n) =
                     IF n \in {x.from, x.to} THEN References(edges, n) + 1
                     ELSE References(edges, n)
           /\ Pair(x) \subseteq edges =>
                 /\ n \in {x.from, x.to} => References(edges, n) > 0
                 /\ References(edges \ Pair(x), n) =
                     IF n \in {x.from, x.to} THEN References(edges, n) - 1
                     ELSE References(edges, n)
<1>. DEFINE C == CountedFor(edges, n)
            D == CountedFor(Pair(x), n)
<1>1. \A E : References(E, n) = Cardinality(CountedFor(E, n))
  BY DEF References, CountedFor
<1>2. /\ CountedFor(edges \cup Pair(x), n) = C \cup D
      /\ CountedFor(edges \ Pair(x), n) = C \ D
      /\ C \subseteq edges /\ D \subseteq Pair(x)
      /\ Pair(x) \subseteq edges => D \subseteq C
  BY DEF CountedFor
<1>3. IsFiniteSet(C) /\ Cardinality(C) \in Nat
  BY <1>2, FS_Subset, FS_CardinalityType
<1>. HIDE DEF C, D
<1>4. CASE n \notin {x.from, x.to}
  <2>1. D = {}
    BY <1>4, OneIsCounted DEF D
  <2>2. C \cup D = C /\ C \ D = C
    BY <2>1
  <2>. QED  BY <1>1, <1>2, <1>4, <2>2 DEF C
<1>5. CASE n \in {x.from, x.to}
  <2>1. PICK y \in Pair(x) : D = {y}
    BY <1>5, OneIsCounted DEF D
  <2>2. ASSUME Pair(x) \cap edges = {} PROVE Cardinality(C \cup D) = Cardinality(C) + 1
    BY <1>2, <1>3, <2>1, <2>2, FS_AddElement
  <2>3. ASSUME Pair(x) \subseteq edges
        PROVE  Cardinality(C \ D) = Cardinality(C) - 1 /\ Cardinality(C) > 0
    <3>1. y \in C
      BY <1>2, <2>1, <2>3
    <3>2. Cardinality(C \ {y}) = Cardinality(C) - 1 /\ C # {}
      BY <1>3, <3>1, FS_RemoveElement
    <3>3. Cardinality(C) # 0
      BY <1>3, <3>2, FS_EmptySet
    <3>. QED  BY <1>3, <2>1, <3>2, <3>3
  <2>. QED  BY <1>1, <1>2, <1>5, <2>2, <2>3 DEF C
<1>. QED  BY <1>4, <1>5

\* A node that is counted has an edge, and one that has an edge is counted.
LEMMA CountedHasEdge ==
    ASSUME NEW edges \in SUBSET Edges, IsFiniteSet(edges), NEW n \in Nodes,
           \A x \in edges : Pair(x) \subseteq edges
    PROVE  References(edges, n) > 0 <=> \E x \in edges : n \in {x.from, x.to}
<1>1. References(edges, n) = Cardinality(CountedFor(edges, n))
  BY DEF References, CountedFor
<1>2. CountedFor(edges, n) \subseteq edges
  BY DEF CountedFor
<1>3. /\ Cardinality(CountedFor(edges, n)) \in Nat
      /\ Cardinality(CountedFor(edges, n)) = 0 <=> CountedFor(edges, n) = {}
  BY <1>2, FS_Subset, FS_CardinalityType, FS_EmptySet
<1>4. ASSUME NEW x \in edges, n \in {x.from, x.to} PROVE CountedFor(edges, n) # {}
  <2>1. PICK y \in Pair(x) : CountedFor(Pair(x), n) = {y}
    BY <1>4, OneIsCounted
  <2>2. CountedFor(Pair(x), n) \subseteq CountedFor(edges, n)
    BY DEF CountedFor
  <2>. QED  BY <2>1, <2>2
<1>5. \A x \in CountedFor(edges, n) : x \in edges /\ n \in {x.from, x.to}
  BY DEF CountedFor
<1>. QED  BY <1>1, <1>3, <1>4, <1>5

\* What setting an edge leaves, when it is a change.
IsLinked(e, g, x, present) ==
    /\ g.epoch = e.epoch /\ g.documents = e.documents
    /\ g.edges = IF present THEN e.edges \cup Pair(x) ELSE e.edges \ Pair(x)
    /\ g.edge_nodes = Referenced(e, x.from, x.to, present)
    /\ \A s \in Sources :
          /\ g.sources[s].provenance = e.sources[s].provenance
          /\ g.sources[s].version = IF s \in Affected(e, x.from, x.to, x.kind)
                                    THEN e.sources[s].version + 1 ELSE e.sources[s].version
    /\ IF present THEN ~(Pair(x) \subseteq e.edges) ELSE x \in e.edges

\* What host_set_edge() leaves, part by part.
LEMMA SetEdgeChanges ==
    ASSUME NEW e, Sound(e), NEW x \in Edges, NEW present \in BOOLEAN
    PROVE  LET g == SetEdge(e, x.from, x.to, x.kind, present)
           IN  /\ g \in Evidence
               /\ g = e \/ IsLinked(e, g, x, present)
<1>. DEFINE stored == Stored(x.from, x.to, x.kind)
            changed == IF present THEN ~(stored \subseteq e.edges)
                       ELSE [kind |-> x.kind, from |-> x.from, to |-> x.to] \in e.edges
            affected == Affected(e, x.from, x.to, x.kind)
            edges == IF present THEN e.edges \cup stored ELSE e.edges \ stored
            edge_nodes == Referenced(e, x.from, x.to, present)
            sources == [s \in Sources |->
                            IF s \in affected
                            THEN [version |-> e.sources[s].version + 1,
                                  provenance |-> e.sources[s].provenance]
                            ELSE e.sources[s]]
            g == SetEdge(e, x.from, x.to, x.kind, present)
<1>0. e \in Evidence /\ e.edges \in SUBSET Edges
  BY EvidenceTypes DEF Sound
<1>1. CASE ~changed
  BY <1>0, <1>1 DEF SetEdge
<1>2. CASE changed
  <2>0. g = IF ~changed THEN e
            ELSE [e EXCEPT !.edges = edges, !.edge_nodes = edge_nodes, !.sources = sources]
    BY DEF SetEdge
  <2>1. g = [e EXCEPT !.edges = edges, !.edge_nodes = edge_nodes, !.sources = sources]
    BY <1>2, <2>0
  <2>2. edges \in SUBSET Edges
    BY <1>0, PairFacts DEF Pair
  <2>3. edge_nodes \in [Nodes -> [source : Sources \cup {NoSource}, references : Nat]]
    <3>1. ASSUME NEW n \in Nodes
          PROVE  /\ edge_nodes[n] = Referenced(e, x.from, x.to, present)[n]
                 /\ edge_nodes[n] \in [source : Sources \cup {NoSource}, references : Nat]
      <4>1. /\ e.documents[n] \in Sources \cup {NoSource}
            /\ e.edge_nodes[n] \in [source : Sources \cup {NoSource}, references : Nat]
        BY <1>0, EvidenceTypes
      <4>2. NodeSource(e, n) \in Sources \cup {NoSource}
        BY <4>1 DEF NodeSource
      <4>4. ~present /\ n \in {x.from, x.to} => e.edge_nodes[n].references > 0
        <5>1. ~present => x \in e.edges
          BY <1>2, NodesOfEdges
        <5>2. x \in e.edges => Pair(x) \subseteq e.edges
          BY DEF Sound, GraphHolds, Pair
        <5>3. e.edge_nodes[n].references = References(e.edges, n)
          BY DEF Sound, Counted
        <5>. QED  BY <1>0, <5>1, <5>2, <5>3, CountsFollow DEF Sound
      <4>5. CASE n \notin {x.from, x.to}
        BY <4>1, <4>5 DEF Referenced
      <4>6. CASE n \in {x.from, x.to} /\ present
        BY <4>1, <4>2, <4>6 DEF Referenced
      <4>7. CASE n \in {x.from, x.to} /\ ~present
        BY <4>1, <4>4, <4>7 DEF Referenced
      <4>. QED  BY <4>5, <4>6, <4>7
    <3>2. edge_nodes = [n \in Nodes |-> edge_nodes[n]]
      BY DEF Referenced
    <3>. HIDE DEF edge_nodes
    <3>. QED  BY <3>1, <3>2
  <2>4. ASSUME NEW s \in Sources
        PROVE  /\ sources[s] \in [version : Nat, provenance : Provenances]
               /\ sources[s].provenance = e.sources[s].provenance
               /\ sources[s].version = IF s \in affected
                                       THEN e.sources[s].version + 1 ELSE e.sources[s].version
    <3>1. e.sources[s] \in [version : Nat, provenance : Provenances]
      BY <1>0, EvidenceTypes
    <3>. HIDE DEF affected
    <3>. QED  BY <3>1
  <2>5. sources \in [Sources -> [version : Nat, provenance : Provenances]]
    <3>1. sources = [s \in Sources |-> sources[s]]
      OBVIOUS
    <3>. HIDE DEF sources
    <3>. QED  BY <2>4, <3>1
  <2>6. changed => IF present THEN ~(Pair(x) \subseteq e.edges) ELSE x \in e.edges
    BY NodesOfEdges DEF Pair
  <2>7. edges = IF present THEN e.edges \cup Pair(x) ELSE e.edges \ Pair(x)
    BY DEF Pair
  <2>. HIDE DEF changed, edges, edge_nodes, sources, affected, g
  <2>8. /\ g \in Evidence /\ g.epoch = e.epoch /\ g.documents = e.documents
        /\ g.edges = edges /\ g.edge_nodes = edge_nodes /\ g.sources = sources
    BY <1>0, <2>1, <2>2, <2>3, <2>5 DEF Evidence
  <2>. QED  BY <1>2, <2>4, <2>6, <2>7, <2>8 DEF IsLinked, affected, edge_nodes, g
<1>. QED  BY <1>1, <1>2

\* Setting an edge keeps the evidence sound.
LEMMA SetEdgeIsSound ==
    ASSUME NEW e, Sound(e), NEW x \in Edges, NEW present \in BOOLEAN,
           MaySetEdge(e, x.from, x.to, x.kind, present)
    PROVE  Sound(SetEdge(e, x.from, x.to, x.kind, present))
<1>. DEFINE g == SetEdge(e, x.from, x.to, x.kind, present)
<1>1. g \in Evidence /\ (g = e \/ IsLinked(e, g, x, present))
  BY SetEdgeChanges
<1>. HIDE DEF g
<1>. SUFFICES ASSUME IsLinked(e, g, x, present) PROVE Sound(g)
  BY <1>1 DEF g
<1>2. /\ e \in Evidence /\ IsFiniteSet(e.edges)
      /\ e.documents \in [Nodes -> Sources \cup {NoSource}]
      /\ e.edges \in SUBSET Edges
      /\ e.edge_nodes \in [Nodes -> [source : Sources \cup {NoSource}, references : Nat]]
      /\ Closed(e, Sources)
  BY EvidenceTypes DEF Sound
<1>3. /\ g.epoch = e.epoch /\ g.documents = e.documents
      /\ g.edges = IF present THEN e.edges \cup Pair(x) ELSE e.edges \ Pair(x)
      /\ g.edge_nodes = Referenced(e, x.from, x.to, present)
      /\ IF present THEN ~(Pair(x) \subseteq e.edges) ELSE x \in e.edges
  BY DEF IsLinked
<1>4. ASSUME NEW s \in Sources
      PROVE  /\ e.sources[s].version \in Nat /\ g.sources[s].version \in Nat
             /\ e.sources[s].version <= g.sources[s].version
             /\ g.sources[s].provenance = e.sources[s].provenance
             /\ e.sources[s].provenance.derived_from \in SUBSET Dependencies
  <2>1. /\ e.sources[s] \in [version : Nat, provenance : Provenances]
        /\ g.sources[s] \in [version : Nat, provenance : Provenances]
    BY <1>1, <1>2, EvidenceTypes
  <2>2. g.sources[s].version \in {e.sources[s].version, e.sources[s].version + 1}
        /\ g.sources[s].provenance = e.sources[s].provenance
    BY DEF IsLinked
  <2>. QED  BY <2>1, <2>2 DEF Provenances
<1>5. /\ \A y \in e.edges : Pair(y) \subseteq e.edges
      /\ \A y \in e.edges : \A n \in {y.from, y.to} :
            /\ e.edge_nodes[n].source # NoSource
            /\ e.sources[e.edge_nodes[n].source].version > 0
            /\ e.documents[n] \in {NoSource, e.edge_nodes[n].source}
      /\ \A n \in Nodes : e.edge_nodes[n].source # NoSource =>
            \E y \in e.edges : n \in {y.from, y.to}
      /\ \A n \in Nodes : e.edge_nodes[n].references = References(e.edges, n)
  BY DEF Sound, GraphHolds, Pair, Counted
<1>6. x \in Pair(x) /\ Pair(x) \in SUBSET Edges /\ IsFiniteSet(Pair(x))
      /\ \A y \in Pair(x) : {y.from, y.to} = {x.from, x.to} /\ Pair(y) = Pair(x)
      /\ x.from \in Nodes /\ x.to \in Nodes
  BY PairFacts, NodesOfEdges
<1>7. present => Pair(x) \cap e.edges = {}
  BY <1>3, <1>5, <1>6
<1>8. ~present => Pair(x) \subseteq e.edges
  BY <1>3, <1>5
<1>9. IsFiniteSet(g.edges) /\ g.edges \in SUBSET Edges
  <2>1. IsFiniteSet(e.edges \cup Pair(x)) /\ IsFiniteSet(e.edges \ Pair(x))
    BY <1>2, <1>6, FS_Union, FS_Difference
  <2>. QED  BY <1>2, <1>3, <1>6, <2>1
<1>10. ASSUME NEW y \in g.edges PROVE Pair(y) \subseteq g.edges
  <2>1. CASE present
    BY <1>3, <1>5, <1>6, <2>1
  <2>2. CASE ~present
    <3>1. y \in e.edges /\ y \notin Pair(x) /\ y \in Edges
      BY <1>2, <1>3, <2>2
    <3>2. y \in Pair(y) /\ \A z \in Pair(y) : Pair(z) = Pair(y)
      BY <3>1, PairFacts
    <3>3. Pair(y) \subseteq e.edges
      BY <1>5, <3>1
    <3>. QED  BY <1>3, <1>6, <2>2, <3>1, <3>2, <3>3
  <2>. QED  BY <2>1, <2>2
<1>11. ASSUME NEW n \in Nodes
       PROVE  /\ g.edge_nodes[n].source =
                    IF n \notin {x.from, x.to} THEN e.edge_nodes[n].source
                    ELSE IF present THEN NodeSource(e, n)
                    ELSE IF e.edge_nodes[n].references = 1 THEN NoSource
                    ELSE e.edge_nodes[n].source
              /\ g.edge_nodes[n].references =
                    IF n \notin {x.from, x.to} THEN e.edge_nodes[n].references
                    ELSE IF present THEN e.edge_nodes[n].references + 1
                    ELSE e.edge_nodes[n].references - 1
  <2>1. e.edge_nodes[n] \in [source : Sources \cup {NoSource}, references : Nat]
    BY <1>2
  <2>. DEFINE old == e.edge_nodes[n]
              fewer == [old EXCEPT !.references = @ - 1]
  <2>2. fewer.source = old.source /\ fewer.references = old.references - 1
    BY <2>1
  <2>3. g.edge_nodes[n] =
            IF n \notin {x.from, x.to} THEN old
            ELSE IF present
            THEN [source |-> NodeSource(e, n), references |-> old.references + 1]
            ELSE IF old.references = 1 THEN [source |-> NoSource, references |-> 0]
            ELSE fewer
    BY <1>3 DEF Referenced
  <2>. HIDE DEF old, fewer
  <2>4. old.references \in Nat
    BY <2>1 DEF old
  <2>5. /\ g.edge_nodes[n].source =
              IF n \notin {x.from, x.to} THEN old.source
              ELSE IF present THEN NodeSource(e, n)
              ELSE IF old.references = 1 THEN NoSource ELSE old.source
        /\ g.edge_nodes[n].references =
              IF n \notin {x.from, x.to} THEN old.references
              ELSE IF present THEN old.references + 1 ELSE old.references - 1
    <3>1. CASE n \notin {x.from, x.to}
      BY <2>3, <3>1
    <3>2. CASE n \in {x.from, x.to} /\ present
      BY <2>3, <3>2
    <3>3. CASE n \in {x.from, x.to} /\ ~present /\ old.references = 1
      BY <2>3, <3>3
    <3>4. CASE n \in {x.from, x.to} /\ ~present /\ old.references # 1
      BY <2>2, <2>3, <3>4
    <3>. QED  BY <3>1, <3>2, <3>3, <3>4
  <2>. QED  BY <2>5 DEF old
<1>12. ASSUME NEW n \in Nodes
       PROVE  /\ g.edge_nodes[n].references = References(g.edges, n)
              /\ References(g.edges, n) \in Nat /\ e.edge_nodes[n].references \in Nat
              /\ ~present /\ n \in {x.from, x.to} => e.edge_nodes[n].references > 0
  <2>1. e.edge_nodes[n].references = References(e.edges, n)
    BY <1>5
  <2>2. e.edge_nodes[n].references \in Nat /\ References(g.edges, n) \in Nat
    BY <1>2, <1>9, ReferencesType
  <2>3. CASE present
    <3>1. References(g.edges, n) = IF n \in {x.from, x.to} THEN References(e.edges, n) + 1
                                   ELSE References(e.edges, n)
      BY <1>2, <1>3, <1>7, <2>3, CountsFollow
    <3>. QED  BY <1>11, <2>1, <2>2, <2>3, <3>1
  <2>4. CASE ~present
    <3>1. /\ n \in {x.from, x.to} => References(e.edges, n) > 0
          /\ References(g.edges, n) = IF n \in {x.from, x.to} THEN References(e.edges, n) - 1
                                      ELSE References(e.edges, n)
      BY <1>2, <1>3, <1>8, <2>4, CountsFollow
    <3>. QED  BY <1>11, <2>1, <2>2, <2>4, <3>1
  <2>. QED  BY <2>3, <2>4
<1>13. ASSUME NEW n \in Nodes
       PROVE  References(g.edges, n) > 0 <=> \E y \in g.edges : n \in {y.from, y.to}
  BY <1>9, <1>10, CountedHasEdge
<1>14. \A n \in Nodes : e.documents[n] # NoSource =>
            e.documents[n] \in Sources /\ g.sources[e.documents[n]].version > 0
  <2>1. \A n \in Nodes : e.documents[n] # NoSource =>
            e.documents[n] \in Sources /\ e.sources[e.documents[n]].version > 0
    BY <1>2 DEF Sound, GraphHolds
  <2>. QED  BY <1>4, <2>1
<1>15. ASSUME NEW y \in g.edges, NEW n \in {y.from, y.to}
       PROVE  /\ g.edge_nodes[n].source # NoSource
              /\ g.sources[g.edge_nodes[n].source].version > 0
              /\ g.documents[n] \in {NoSource, g.edge_nodes[n].source}
  <2>1. n \in Nodes
    BY <1>9, NodesOfEdges
  <2>2. CASE g.edge_nodes[n].source = e.edge_nodes[n].source /\ y \in e.edges
    <3>1. /\ e.edge_nodes[n].source # NoSource
          /\ e.sources[e.edge_nodes[n].source].version > 0
          /\ e.documents[n] \in {NoSource, e.edge_nodes[n].source}
      BY <1>5, <2>2
    <3>2. e.edge_nodes[n].source \in Sources
      BY <1>2, <2>1, <3>1
    <3>. QED  BY <1>3, <1>4, <2>2, <3>1, <3>2
  <2>3. CASE present /\ n \in {x.from, x.to}
    <3>1. e.documents[n] # NoSource
      BY <2>3 DEF MaySetEdge
    <3>2. g.edge_nodes[n].source = e.documents[n]
      BY <1>11, <2>1, <2>3, <3>1 DEF NodeSource
    <3>. QED  BY <1>3, <1>14, <2>1, <3>1, <3>2
  <2>4. CASE n \notin {x.from, x.to}
    <3>1. g.edge_nodes[n].source = e.edge_nodes[n].source
      BY <1>11, <2>1, <2>4
    <3>2. y \in e.edges
      BY <1>3, <1>6, <2>4
    <3>. QED  BY <2>2, <3>1, <3>2
  <2>5. CASE ~present /\ n \in {x.from, x.to}
    <3>1. g.edge_nodes[n].references > 0
      BY <1>12, <1>13, <2>1
    <3>2. g.edge_nodes[n].source = e.edge_nodes[n].source
      BY <1>11, <2>1, <2>5, <3>1
    <3>3. y \in e.edges
      BY <1>3, <2>5
    <3>. QED  BY <2>2, <3>2, <3>3
  <2>. QED  BY <2>3, <2>4, <2>5
<1>16. ASSUME NEW n \in Nodes, g.edge_nodes[n].source # NoSource
       PROVE  \E y \in g.edges : n \in {y.from, y.to}
  <2>1. CASE n \notin {x.from, x.to}
    <3>1. g.edge_nodes[n].source = e.edge_nodes[n].source
      BY <1>11, <2>1
    <3>2. PICK y \in e.edges : n \in {y.from, y.to}
      BY <1>5, <1>16, <3>1
    <3>3. y \in g.edges
      BY <1>3, <1>6, <2>1, <3>2
    <3>. QED  BY <3>2, <3>3
  <2>2. CASE n \in {x.from, x.to} /\ present
    BY <1>3, <1>6, <2>2
  <2>3. CASE n \in {x.from, x.to} /\ ~present
    <3>1. e.edge_nodes[n].references # 1 /\ e.edge_nodes[n].references > 0
      BY <1>11, <1>12, <1>16, <2>3
    <3>2. g.edge_nodes[n].references = e.edge_nodes[n].references - 1
      BY <1>11, <2>3, <3>1
    <3>3. References(g.edges, n) > 0
      BY <1>12, <3>1, <3>2
    <3>. QED  BY <1>13, <3>3
  <2>. QED  BY <2>1, <2>2, <2>3
<1>17. GraphHolds(g)
  BY <1>3, <1>10, <1>14, <1>15, <1>16 DEF GraphHolds, Pair
<1>18. Counted(g)
  BY <1>12 DEF Counted
<1>19. DependenciesHold(g)
  <2>. SUFFICES ASSUME NEW s \in Sources, NEW d \in g.sources[s].provenance.derived_from
                PROVE  /\ d.source # s
                       /\ d.revision.epoch = g.epoch
                       /\ d.revision.version \in 1 .. g.sources[d.source].version
    BY DEF DependenciesHold
  <2>1. d \in e.sources[s].provenance.derived_from /\ d.source \in Sources
    BY <1>4 DEF Dependencies
  <2>2. /\ d.source # s /\ d.revision.epoch = e.epoch
        /\ d.revision.version \in 1 .. e.sources[d.source].version
    BY <2>1 DEF Sound, DependenciesHold
  <2>3. /\ e.sources[d.source].version \in Nat /\ g.sources[d.source].version \in Nat
        /\ e.sources[d.source].version <= g.sources[d.source].version
    BY <1>4, <2>1
  <2>. QED  BY <1>3, <2>2, <2>3
<1>20. Acyclic(g)
  <2>1. \A s \in Sources : Inputs(g, s) = Inputs(e, s)
    BY <1>4 DEF Inputs
  <2>. QED  BY <1>2, <2>1, SameInputs DEF Sound
<1>. QED  BY <1>1, <1>9, <1>17, <1>18, <1>19, <1>20 DEF Sound

-----------------------------------------------------------------------------
(* What is charged, as sums.                                               *)

TicketBytes(S) == MapThenSumSet(TicketCharge, S)

StagedBytesOf(S) == MapThenSumSet(StagedCharge, S)

\* The sums of charges, as sums of functions.
LEMMA BytesAreSums ==
    ASSUME NEW S, IsFiniteSet(S)
    PROVE  /\ TicketBytes(S) = SumFunctionOnSet([x \in S |-> TicketCharge(x)], S)
           /\ StagedBytesOf(S) = SumFunctionOnSet([x \in S |-> StagedCharge(x)], S)
<1>1. TicketBytes(S) = SumFunctionOnSet([x \in S |-> TicketCharge(x)], S)
  <2>. DEFINE f == [x \in S |-> TicketCharge(x)]
              Step(it, s) == IF s = {} THEN 0 ELSE TicketCharge(Some(s)) + it[s \ {Some(s)}]
              it == CHOOSE g : g = [s \in SUBSET S |-> Step(g, s)]
  <2>1. TicketBytes(S) = it[S]
    BY DEF TicketBytes, MapThenSumSet, MapThenFoldSet, Some
  <2>2. \A s \in SUBSET S : s # {} => f[Some(s)] = TicketCharge(Some(s))
    BY DEF Some
  <2>3. ASSUME NEW g PROVE g = [s \in SUBSET S |-> Step(g, s)] <=> IsSum(g, f, S)
    BY <2>2 DEF IsSum, IsSumOn
  <2>. HIDE DEF f, Step
  <2>4. PICK jt : IsSum(jt, f, S) /\ SumFunctionOnSet(f, S) = jt[S]
    BY SumIsSum
  <2>5. IsSum(it, f, S)
    BY <2>3, <2>4
  <2>. HIDE DEF it
  <2>6. it[S] = jt[S]
    BY <2>4, <2>5, SumUnique
  <2>. QED  BY <2>1, <2>4, <2>6 DEF f
<1>2. StagedBytesOf(S) = SumFunctionOnSet([x \in S |-> StagedCharge(x)], S)
  <2>. DEFINE f == [x \in S |-> StagedCharge(x)]
              Step(it, s) == IF s = {} THEN 0 ELSE StagedCharge(Some(s)) + it[s \ {Some(s)}]
              it == CHOOSE g : g = [s \in SUBSET S |-> Step(g, s)]
  <2>1. StagedBytesOf(S) = it[S]
    BY DEF StagedBytesOf, MapThenSumSet, MapThenFoldSet, Some
  <2>2. \A s \in SUBSET S : s # {} => f[Some(s)] = StagedCharge(Some(s))
    BY DEF Some
  <2>3. ASSUME NEW g PROVE g = [s \in SUBSET S |-> Step(g, s)] <=> IsSum(g, f, S)
    BY <2>2 DEF IsSum, IsSumOn
  <2>. HIDE DEF f, Step
  <2>4. PICK jt : IsSum(jt, f, S) /\ SumFunctionOnSet(f, S) = jt[S]
    BY SumIsSum
  <2>5. IsSum(it, f, S)
    BY <2>3, <2>4
  <2>. HIDE DEF it
  <2>6. it[S] = jt[S]
    BY <2>4, <2>5, SumUnique
  <2>. QED  BY <2>1, <2>4, <2>6 DEF f
<1>. QED  BY <1>1, <1>2

\* A charge is a number.
LEMMA TicketChargeType == \A t : TicketCharge(t) \in Nat
BY DEF TicketCharge

\* What the charges of a set of tickets are.
LEMMA TicketBytesFacts ==
    ASSUME NEW S, IsFiniteSet(S)
    PROVE  /\ TicketBytes(S) \in Nat
           /\ S = {} => TicketBytes(S) = 0
           /\ \A t \in S : TicketBytes(S) = TicketCharge(t) + TicketBytes(S \ {t})
           /\ \A T \in SUBSET S : TicketBytes(T) <= TicketBytes(S)
<1>. DEFINE f == [x \in S |-> TicketCharge(x)]
<1>1. \A x \in S : f[x] \in Nat /\ f[x] = TicketCharge(x)
  BY TicketChargeType
<1>. HIDE DEF f
<1>2. ASSUME NEW T \in SUBSET S PROVE TicketBytes(T) = SumFunctionOnSet(f, T)
  <2>. DEFINE g == [x \in T |-> TicketCharge(x)]
  <2>1. IsFiniteSet(T)
    BY FS_Subset
  <2>2. \A x \in T : f[x] \in Nat /\ f[x] = g[x]
    BY <1>1
  <2>3. TicketBytes(T) = SumFunctionOnSet(g, T)
    BY <2>1, BytesAreSums
  <2>. HIDE DEF g
  <2>. QED  BY <2>1, <2>2, <2>3, SumAgrees
<1>3. /\ SumFunctionOnSet(f, S) \in Nat
      /\ S = {} => SumFunctionOnSet(f, S) = 0
      /\ \A x \in S : SumFunctionOnSet(f, S) = f[x] + SumFunctionOnSet(f, S \ {x})
      /\ \A T \in SUBSET S : SumFunctionOnSet(f, T) <= SumFunctionOnSet(f, S)
  BY <1>1, SumOnSet, SumSubset
<1>. QED  BY <1>1, <1>2, <1>3

\* What the charges of a set of staged sources are.
LEMMA StagedBytesFacts ==
    ASSUME NEW S, IsFiniteSet(S), \A x \in S : StagedCharge(x) \in Nat
    PROVE  /\ StagedBytesOf(S) \in Nat
           /\ S = {} => StagedBytesOf(S) = 0
           /\ \A t \in S : StagedBytesOf(S) = StagedCharge(t) + StagedBytesOf(S \ {t})
           /\ \A T \in SUBSET S : StagedBytesOf(T) <= StagedBytesOf(S)
<1>. DEFINE f == [x \in S |-> StagedCharge(x)]
<1>1. \A x \in S : f[x] \in Nat /\ f[x] = StagedCharge(x)
  OBVIOUS
<1>. HIDE DEF f
<1>2. ASSUME NEW T \in SUBSET S PROVE StagedBytesOf(T) = SumFunctionOnSet(f, T)
  <2>. DEFINE g == [x \in T |-> StagedCharge(x)]
  <2>1. IsFiniteSet(T)
    BY FS_Subset
  <2>2. \A x \in T : f[x] \in Nat /\ f[x] = g[x]
    BY <1>1
  <2>3. StagedBytesOf(T) = SumFunctionOnSet(g, T)
    BY <2>1, BytesAreSums
  <2>. HIDE DEF g
  <2>. QED  BY <2>1, <2>2, <2>3, SumAgrees
<1>3. /\ SumFunctionOnSet(f, S) \in Nat
      /\ S = {} => SumFunctionOnSet(f, S) = 0
      /\ \A x \in S : SumFunctionOnSet(f, S) = f[x] + SumFunctionOnSet(f, S \ {x})
      /\ \A T \in SUBSET S : SumFunctionOnSet(f, T) <= SumFunctionOnSet(f, S)
  BY <1>1, SumOnSet, SumSubset
<1>. QED  BY <1>1, <1>2, <1>3

\* One ticket more, and one instead of another.
LEMMA TicketBytesStep ==
    ASSUME NEW S, IsFiniteSet(S), NEW t, NEW u
    PROVE  /\ IsFiniteSet(S \cup {u}) /\ IsFiniteSet((S \ {t}) \cup {u})
           /\ TicketBytes(S \cup {u}) <= TicketBytes(S) + TicketCharge(u)
           /\ t \in S => TicketBytes((S \ {t}) \cup {u})
                            <= TicketBytes(S) - TicketCharge(t) + TicketCharge(u)
<1>1. ASSUME NEW T, IsFiniteSet(T)
      PROVE  IsFiniteSet(T \cup {u}) /\ TicketBytes(T \cup {u}) <= TicketBytes(T) + TicketCharge(u)
  <2>1. IsFiniteSet(T \cup {u}) /\ u \in T \cup {u} /\ (T \cup {u}) \ {u} \in SUBSET T
    BY <1>1, FS_AddElement
  <2>2. TicketBytes(T \cup {u}) = TicketCharge(u) + TicketBytes((T \cup {u}) \ {u})
    BY <2>1, TicketBytesFacts
  <2>3. /\ TicketBytes((T \cup {u}) \ {u}) <= TicketBytes(T)
        /\ TicketBytes((T \cup {u}) \ {u}) \in Nat /\ TicketBytes(T) \in Nat
    BY <1>1, <2>1, TicketBytesFacts, FS_Subset
  <2>. QED  BY <2>1, <2>2, <2>3, TicketChargeType
<1>2. IsFiniteSet(S \ {t})
  BY FS_Subset
<1>3. t \in S => TicketBytes(S) = TicketCharge(t) + TicketBytes(S \ {t})
  BY TicketBytesFacts
<1>4. TicketBytes(S \ {t}) \in Nat /\ TicketBytes((S \ {t}) \cup {u}) \in Nat
  BY <1>1, <1>2, TicketBytesFacts
<1>5. TicketBytes((S \ {t}) \cup {u}) <= TicketBytes(S \ {t}) + TicketCharge(u)
  BY <1>1, <1>2
<1>. QED  BY <1>1, <1>2, <1>3, <1>4, <1>5, TicketChargeType

\* One staged source more, and one instead of another.
LEMMA StagedBytesStep ==
    ASSUME NEW S, IsFiniteSet(S), NEW t, NEW u, StagedCharge(u) \in Nat,
           \A x \in S : StagedCharge(x) \in Nat
    PROVE  /\ IsFiniteSet(S \cup {u}) /\ IsFiniteSet((S \ {t}) \cup {u})
           /\ StagedBytesOf(S \cup {u}) <= StagedBytesOf(S) + StagedCharge(u)
           /\ t \in S => StagedBytesOf((S \ {t}) \cup {u})
                            <= StagedBytesOf(S) - StagedCharge(t) + StagedCharge(u)
<1>1. ASSUME NEW T, IsFiniteSet(T), \A x \in T : StagedCharge(x) \in Nat
      PROVE  /\ IsFiniteSet(T \cup {u}) /\ StagedBytesOf(T \cup {u}) \in Nat
             /\ StagedBytesOf(T \cup {u}) <= StagedBytesOf(T) + StagedCharge(u)
  <2>1. /\ IsFiniteSet(T \cup {u}) /\ u \in T \cup {u} /\ (T \cup {u}) \ {u} \in SUBSET T
        /\ \A x \in T \cup {u} : StagedCharge(x) \in Nat
    BY <1>1, FS_AddElement
  <2>2. /\ StagedBytesOf(T \cup {u}) = StagedCharge(u) + StagedBytesOf((T \cup {u}) \ {u})
        /\ StagedBytesOf(T \cup {u}) \in Nat
    BY <2>1, StagedBytesFacts
  <2>3. IsFiniteSet((T \cup {u}) \ {u})
    BY <1>1, <2>1, FS_Subset
  <2>4. /\ StagedBytesOf((T \cup {u}) \ {u}) <= StagedBytesOf(T)
        /\ StagedBytesOf((T \cup {u}) \ {u}) \in Nat /\ StagedBytesOf(T) \in Nat
    BY <1>1, <2>1, <2>3, StagedBytesFacts
  <2>. QED  BY <2>1, <2>2, <2>4
<1>2. IsFiniteSet(S \ {t})
  BY FS_Subset
<1>3. t \in S => StagedBytesOf(S) = StagedCharge(t) + StagedBytesOf(S \ {t})
  BY StagedBytesFacts
<1>4. StagedBytesOf(S \ {t}) \in Nat
  BY <1>2, StagedBytesFacts
<1>5. /\ StagedBytesOf((S \ {t}) \cup {u}) <= StagedBytesOf(S \ {t}) + StagedCharge(u)
      /\ StagedBytesOf((S \ {t}) \cup {u}) \in Nat
  BY <1>1, <1>2
<1>. QED  BY <1>1, <1>2, <1>3, <1>4, <1>5

\* Tickets that become others of the same charge are not charged more.
LEMMA TicketBytesImage ==
    ASSUME NEW S, IsFiniteSet(S), NEW f, \A t \in S : TicketCharge(f[t]) = TicketCharge(t)
    PROVE  /\ IsFiniteSet({f[t] : t \in S})
           /\ TicketBytes({f[t] : t \in S}) <= TicketBytes(S)
<1>. DEFINE Image(X) == {f[t] : t \in X}
            P == {X \in SUBSET S : IsFiniteSet(Image(X)) /\ TicketBytes(Image(X)) <= TicketBytes(X)}
<1>1. {} \in P
  <2>1. Image({}) = {}
    OBVIOUS
  <2>2. IsFiniteSet({}) /\ TicketBytes({}) = 0
    BY FS_EmptySet, TicketBytesFacts
  <2>. QED  BY <2>1, <2>2
<1>2. ASSUME NEW X \in SUBSET S, X # {}, \A x \in X : X \ {x} \in P
      PROVE  X \in P
  <2>1. PICK x \in X : TRUE
    BY <1>2
  <2>2. IsFiniteSet(X) /\ IsFiniteSet(X \ {x})
    BY FS_Subset
  <2>3. Image(X) = Image(X \ {x}) \cup {f[x]}
    OBVIOUS
  <2>4. IsFiniteSet(Image(X \ {x})) /\ TicketBytes(Image(X \ {x})) <= TicketBytes(X \ {x})
    BY <1>2, <2>1
  <2>5. TicketBytes(X) = TicketCharge(x) + TicketBytes(X \ {x})
    BY <2>1, <2>2, TicketBytesFacts
  <2>6. TicketCharge(f[x]) = TicketCharge(x) /\ TicketCharge(x) \in Nat
    BY <2>1, TicketChargeType
  <2>. DEFINE I == Image(X \ {x})
              v == f[x]
  <2>7. IsFiniteSet(I) /\ Image(X) = I \cup {v}
    BY <2>3, <2>4
  <2>. HIDE DEF I, v
  <2>8. /\ IsFiniteSet(I \cup {v}) /\ TicketBytes(I \cup {v}) <= TicketBytes(I) + TicketCharge(v)
    BY <2>7, TicketBytesStep
  <2>9. TicketBytes(I \cup {v}) \in Nat /\ TicketBytes(I) \in Nat /\ TicketBytes(X \ {x}) \in Nat
    BY <2>2, <2>7, <2>8, TicketBytesFacts
  <2>10. TicketBytes(I \cup {v}) <= TicketBytes(X)
    BY <2>4, <2>5, <2>6, <2>8, <2>9 DEF I, v
  <2>. HIDE DEF Image
  <2>. QED  BY <2>7, <2>8, <2>10
<1>. HIDE DEF P
<1>3. S \in P
  BY <1>1, <1>2, FiniteSetInduction
<1>. QED  BY <1>3 DEF P

-----------------------------------------------------------------------------
(* What changes of the evidence a ticket can tell.                         *)

\* g came from e by one command: no version fell, and what changed has another.
Advances(e, g) ==
    /\ Sound(e) /\ Sound(g) /\ g.epoch = e.epoch
    /\ \A s \in Sources : e.sources[s].version <= g.sources[s].version
    /\ \A s \in Changed(e, g) : e.sources[s].version < g.sources[s].version

\* host_replace_source() advances the version of what it changes.
LEMMA ReplaceAdvances ==
    ASSUME NEW e, Sound(e), NEW s \in Sources, NEW docs \in SUBSET Nodes,
           NEW provenance \in Provenances, NEW expected, NEW time,
           MayReplace(e, s, expected, docs, provenance, time)
    PROVE  Advances(e, ReplaceSource(e, s, docs, provenance))
<1>. DEFINE g == ReplaceSource(e, s, docs, provenance)
<1>1. Sound(g)
  BY ReplaceIsSound
<1>2. e \in Evidence
  BY DEF Sound
<1>3. g = e \/ IsReplaced(e, g, s, docs, provenance)
  BY <1>2, ReplaceChanges
<1>. HIDE DEF g
<1>4. \A x \in Sources : e.sources[x].version \in Nat
  BY <1>2, EvidenceTypes
<1>5. CASE g = e
  <2>1. Changed(e, e) = {}
    BY DEF Changed
  <2>. QED  BY <1>1, <1>4, <1>5, <2>1 DEF Advances, g
<1>6. CASE IsReplaced(e, g, s, docs, provenance)
  <2>1. /\ g.epoch = e.epoch /\ g.edges = e.edges
        /\ \A x \in Sources \ {s} : g.sources[x] = e.sources[x]
        /\ g.sources[s].version = e.sources[s].version + 1
        /\ \A n \in Nodes :
              g.documents[n] = IF n \in docs THEN s
                               ELSE IF e.documents[n] = s THEN NoSource ELSE e.documents[n]
    BY <1>6 DEF IsReplaced
  <2>2. \A n \in docs : e.documents[n] \in {NoSource, s}
    BY DEF MayReplace, MayOwn, NodeSource
  <2>3. ASSUME NEW x \in Sources \ {s} PROVE x \notin Changed(e, g)
    <3>1. \A n \in Nodes : g.documents[n] = x <=> e.documents[n] = x
      BY <2>1, <2>2, EvidenceAssumption
    <3>2. DocumentsOf(e, x) = DocumentsOf(g, x)
      BY <3>1 DEF DocumentsOf
    <3>. QED  BY <2>1, <3>2 DEF Changed
  <2>4. Changed(e, g) \subseteq {s}
    BY <2>3 DEF Changed
  <2>. QED  BY <1>1, <1>4, <2>1, <2>4 DEF Advances, g
<1>. QED  BY <1>3, <1>5, <1>6

\* host_set_edge() advances the version of each source that it affects.
LEMMA SetEdgeAdvances ==
    ASSUME NEW e, Sound(e), NEW x \in Edges, NEW present \in BOOLEAN,
           MaySetEdge(e, x.from, x.to, x.kind, present)
    PROVE  Advances(e, SetEdge(e, x.from, x.to, x.kind, present))
<1>. DEFINE g == SetEdge(e, x.from, x.to, x.kind, present)
            A == Affected(e, x.from, x.to, x.kind)
<1>1. Sound(g)
  BY SetEdgeIsSound
<1>2. e \in Evidence /\ g \in Evidence
  BY <1>1 DEF Sound
<1>3. g = e \/ IsLinked(e, g, x, present)
  BY <1>2, SetEdgeChanges
<1>. HIDE DEF g
<1>4. \A s \in Sources : /\ e.sources[s] \in [version : Nat, provenance : Provenances]
                         /\ g.sources[s] \in [version : Nat, provenance : Provenances]
  BY <1>2, EvidenceTypes
<1>5. CASE g = e
  <2>1. Changed(e, e) = {}
    BY DEF Changed
  <2>. QED  BY <1>1, <1>4, <1>5, <2>1 DEF Advances, g
<1>6. CASE IsLinked(e, g, x, present)
  <2>1. /\ g.epoch = e.epoch /\ g.documents = e.documents
        /\ g.edges = IF present THEN e.edges \cup Pair(x) ELSE e.edges \ Pair(x)
        /\ g.edge_nodes = Referenced(e, x.from, x.to, present)
        /\ \A s \in Sources :
              /\ g.sources[s].provenance = e.sources[s].provenance
              /\ g.sources[s].version = IF s \in A THEN e.sources[s].version + 1
                                        ELSE e.sources[s].version
    BY <1>6 DEF IsLinked
  <2>2. \A s \in Sources : s \notin A => g.sources[s] = e.sources[s]
    BY <1>4, <2>1
  <2>3. \A s \in Sources : DocumentsOf(e, s) = DocumentsOf(g, s)
    BY <2>1 DEF DocumentsOf
  <2>4. ASSUME NEW y \in Pair(x), NEW s \in Sources,
               s \in {NodeSource(e, y.from), NodeSource(g, y.from)}
        PROVE  s \in A
    <3>1. y.from \in Nodes
      BY PairFacts, NodesOfEdges
    <3>2. NodeSource(e, y.from) \in A
      <4>1. x.from # x.to
        BY NodesOfEdges
      <4>2. \/ y.from = x.from
            \/ y.from = x.to /\ x.kind = "contradicts"
        BY DEF Pair, Stored
      <4>. QED  BY <4>2 DEF Affected
    <3>3. NodeSource(g, y.from) \in {NodeSource(e, y.from), NoSource}
      <4>1. e.edge_nodes[y.from] \in [source : Sources \cup {NoSource}, references : Nat]
        BY <1>2, <3>1, EvidenceTypes
      <4>2. g.edge_nodes[y.from].source \in
                {NodeSource(e, y.from), e.edge_nodes[y.from].source, NoSource}
        BY <2>1, <3>1, <4>1 DEF Referenced
      <4>. QED  BY <2>1, <4>2 DEF NodeSource
    <3>. QED  BY <2>4, <3>2, <3>3, EvidenceAssumption
  <2>5. (e.edges \ g.edges) \cup (g.edges \ e.edges) \subseteq Pair(x)
    BY <2>1
  <2>6. ASSUME NEW s \in Changed(e, g) PROVE s \in Sources /\ s \in A
    <3>1. /\ s \in Sources
          /\ \/ e.sources[s] # g.sources[s]
             \/ DocumentsOf(e, s) # DocumentsOf(g, s)
             \/ \E y \in (e.edges \ g.edges) \cup (g.edges \ e.edges) :
                   s \in {NodeSource(e, y.from), NodeSource(g, y.from)}
      BY DEF Changed
    <3>. QED  BY <2>2, <2>3, <2>4, <2>5, <3>1
  <2>. HIDE DEF A
  <2>. QED  BY <1>1, <1>4, <2>1, <2>6 DEF Advances, g
<1>. QED  BY <1>3, <1>5, <1>6

\* The sources of a scope that are there.
PresentOf(e, scope) == {s \in scope : Present(e, s)}

\* A dependency in the lineage of what is read is on another version.
Stale(e, scope) ==
    \E x \in Lineage(e, PresentOf(e, scope)) :
        \E d \in e.sources[x].provenance.derived_from : d.revision # Revision(e, d.source)

\* What a ticket knows of the evidence, by which current_ticket() finds out
\* whether anything it rests on has changed.
Follows(t, e, scope) ==
    /\ t.versions \in [scope -> Revisions]
    /\ \A s \in scope : /\ t.versions[s].epoch = e.epoch
                        /\ t.versions[s].version <= e.sources[s].version
    /\ ~t.touched => t.versions = ScopeVersions(e, scope) /\ t.lineage = RestsOn(e, scope)
    /\ t.touched => t.versions # ScopeVersions(e, scope) \/ Stale(e, scope)

\* A source that did not change is what it was.
LEMMA UnchangedFacts ==
    ASSUME NEW e, NEW g, NEW s \in Sources, s \notin Changed(e, g)
    PROVE  /\ e.sources[s] = g.sources[s] /\ Inputs(e, s) = Inputs(g, s)
           /\ Present(e, s) <=> Present(g, s)
<1>1. e.sources[s] = g.sources[s] /\ DocumentsOf(e, s) = DocumentsOf(g, s)
  BY DEF Changed
<1>. QED  BY <1>1 DEF Inputs, Present, DocumentsOf

\* A change below what is read is noticed: either a source that is read has
\* changed, or a dependency on the way to it is on another version, or nothing
\* in the lineage of what is read has changed.
LEMMA ChangeIsNoticed ==
    ASSUME NEW e, NEW g, Advances(e, g), NEW scope \in SUBSET Sources,
           scope \cap Changed(e, g) = {}, ~Stale(g, scope)
    PROVE  /\ PresentOf(g, scope) = PresentOf(e, scope)
           /\ Lineage(e, PresentOf(e, scope)) \subseteq
                  Lineage(g, PresentOf(e, scope)) \ Changed(e, g)
<1>. DEFINE P == PresentOf(e, scope)
            T == Lineage(g, P) \ Changed(e, g)
<1>1. PresentOf(g, scope) = P
  BY UnchangedFacts DEF PresentOf
<1>2. Closed(e, Sources) /\ Closed(g, Sources) /\ P \in SUBSET Sources
  BY EvidenceTypes DEF Advances, Sound, PresentOf
<1>. HIDE DEF P
<1>3. Lineage(g, P) \in SUBSET Sources /\ P \subseteq Lineage(g, P) /\ Closed(g, Lineage(g, P))
  BY <1>2, LineageIsLeast
<1>4. T \in SUBSET Sources /\ P \subseteq T
  BY <1>3 DEF P, PresentOf
<1>5. ASSUME NEW x \in T, NEW i \in Inputs(e, x) PROVE i \in T
  <2>1. x \in Lineage(g, P) /\ x \in Sources /\ e.sources[x] = g.sources[x]
    BY <1>4, UnchangedFacts
  <2>2. PICK d \in e.sources[x].provenance.derived_from : i = d.source
    BY DEF Inputs
  <2>3. i \in Lineage(g, P)
    BY <1>3, <2>1, <2>2 DEF Closed, Inputs
  <2>4. i \in Sources
    BY <1>3, <2>3
  <2>5. d.revision = Revision(g, i)
    BY <1>1, <2>1, <2>2 DEF Stale
  <2>6. d.revision.version = g.sources[i].version
    BY <2>5 DEF Revision
  <2>7. d.revision.version \in 1 .. e.sources[i].version
    BY <2>1, <2>2 DEF Advances, Sound, DependenciesHold
  <2>8. e.sources[i].version \in Nat /\ g.sources[i].version \in Nat
    BY <2>4, EvidenceTypes DEF Advances, Sound
  <2>9. i \notin Changed(e, g)
    BY <2>4, <2>6, <2>7, <2>8 DEF Advances
  <2>. QED  BY <2>3, <2>9
<1>6. Closed(e, T)
  BY <1>5 DEF Closed
<1>. HIDE DEF T
<1>7. Lineage(e, P) \subseteq T
  BY <1>2, <1>4, <1>6, LineageIsLeast
<1>. QED  BY <1>1, <1>7 DEF T, P

\* The ticket t after the evidence changed from e to g.
Touched(t, e, g) == t.touched \/ t.lineage \cap Changed(e, g) # {}

\* A ticket goes on to follow the evidence when that changes.
LEMMA FollowsOn ==
    ASSUME NEW e, NEW g, Advances(e, g), NEW scope \in SUBSET Sources,
           NEW t, Follows(t, e, scope), NEW u, u.versions = t.versions, u.lineage = t.lineage,
           u.touched = Touched(t, e, g)
    PROVE  Follows(u, g, scope)
<1>. DEFINE C == Changed(e, g)
<1>1. /\ g.epoch = e.epoch
      /\ \A s \in Sources : /\ e.sources[s].version \in Nat /\ g.sources[s].version \in Nat
                            /\ e.sources[s].version <= g.sources[s].version
      /\ \A s \in C : s \in Sources /\ e.sources[s].version < g.sources[s].version
  BY EvidenceTypes DEF Advances, Sound, Changed
<1>2. /\ t.versions \in [scope -> Revisions]
      /\ \A s \in scope : /\ t.versions[s].epoch = e.epoch /\ t.versions[s].version \in Nat
                          /\ t.versions[s].version <= e.sources[s].version
  BY DEF Follows, Revisions
<1>3. \A s \in scope : /\ t.versions[s].epoch = g.epoch
                       /\ t.versions[s].version <= g.sources[s].version
  BY <1>1, <1>2
<1>4. ASSUME NEW s \in scope, t.versions[s].version < g.sources[s].version
      PROVE  t.versions # ScopeVersions(g, scope)
  <2>1. ScopeVersions(g, scope)[s].version = g.sources[s].version
    BY DEF ScopeVersions, Revision
  <2>. QED  BY <1>1, <1>2, <1>4, <2>1
<1>5. ASSUME NEW s \in scope, s \in C PROVE t.versions # ScopeVersions(g, scope)
  <2>1. t.versions[s].version < g.sources[s].version
    BY <1>1, <1>2, <1>5
  <2>. QED  BY <1>4, <2>1
<1>. DEFINE P == PresentOf(e, scope)
<1>6. ASSUME scope \cap C = {}, ~Stale(g, scope)
      PROVE  PresentOf(g, scope) = P /\ Lineage(e, P) \subseteq Lineage(g, P) \ C
  BY <1>6, ChangeIsNoticed
<1>. HIDE DEF C, P
<1>7. CASE ~t.touched /\ t.lineage \cap C = {}
  <2>1. t.versions = ScopeVersions(e, scope) /\ t.lineage = RestsOn(e, scope)
    BY <1>7 DEF Follows
  <2>2. scope \cap C = {} /\ Lineage(e, P) \cap C = {}
    BY <1>7, <2>1 DEF RestsOn, P, PresentOf
  <2>3. \A s \in scope : e.sources[s] = g.sources[s] /\ (Present(e, s) <=> Present(g, s))
    BY <2>2, UnchangedFacts DEF C
  <2>4. ScopeVersions(g, scope) = ScopeVersions(e, scope)
    BY <1>1, <2>3 DEF ScopeVersions, Revision
  <2>5. P = PresentOf(g, scope) /\ P \in SUBSET Sources
    BY <2>3 DEF P, PresentOf
  <2>6. Closed(e, Sources) /\ Closed(g, Sources)
    BY EvidenceTypes DEF Advances, Sound
  <2>7. \A x \in Lineage(e, P) : Inputs(g, x) = Inputs(e, x)
    <3>1. Lineage(e, P) \in SUBSET Sources
      BY <2>5, <2>6, LineageIsLeast
    <3>. QED  BY <2>2, <3>1, UnchangedFacts DEF C
  <2>8. Lineage(g, P) = Lineage(e, P)
    BY <2>5, <2>6, <2>7, LineageIsLocal
  <2>9. RestsOn(g, scope) = RestsOn(e, scope)
    BY <2>5, <2>8 DEF RestsOn, P, PresentOf
  <2>10. ~u.touched
    BY <1>7 DEF Touched, C
  <2>. QED  BY <1>2, <1>3, <2>1, <2>4, <2>9, <2>10 DEF Follows
<1>8. CASE ~t.touched /\ t.lineage \cap C # {}
  <2>1. t.lineage = scope \cup Lineage(e, P)
    BY <1>8 DEF Follows, RestsOn, P, PresentOf
  <2>2. t.versions # ScopeVersions(g, scope) \/ Stale(g, scope)
    BY <1>5, <1>6, <1>8, <2>1
  <2>3. u.touched
    BY <1>8 DEF Touched, C
  <2>. QED  BY <1>2, <1>3, <2>2, <2>3 DEF Follows
<1>9. CASE t.touched
  <2>1. t.versions # ScopeVersions(e, scope) \/ Stale(e, scope)
    BY <1>9 DEF Follows
  <2>2. ASSUME t.versions # ScopeVersions(e, scope) PROVE t.versions # ScopeVersions(g, scope)
    <3>1. PICK s \in scope : t.versions[s] # Revision(e, s)
      BY <1>2, <2>2 DEF ScopeVersions
    <3>2. t.versions[s].version # e.sources[s].version
      <4>1. t.versions[s] = [epoch |-> t.versions[s].epoch, version |-> t.versions[s].version]
        BY <1>2 DEF Revisions
      <4>. QED  BY <1>2, <3>1, <4>1 DEF Revision
    <3>3. t.versions[s].version < g.sources[s].version
      BY <1>1, <1>2, <3>2
    <3>. QED  BY <1>4, <3>3
  <2>3. ASSUME Stale(e, scope), scope \cap C = {}, ~Stale(g, scope) PROVE FALSE
    <3>1. PICK x \in Lineage(e, P) :
            \E d \in e.sources[x].provenance.derived_from : d.revision # Revision(e, d.source)
      BY <2>3 DEF Stale, P
    <3>2. PICK d \in e.sources[x].provenance.derived_from : d.revision # Revision(e, d.source)
      BY <3>1
    <3>3. x \in Lineage(g, PresentOf(g, scope)) /\ x \notin C
      BY <1>6, <2>3, <3>1
    <3>4. x \in Sources
      <4>1. P \in SUBSET Sources /\ Closed(e, Sources)
        BY EvidenceTypes DEF P, PresentOf, Advances, Sound
      <4>. QED  BY <4>1, LineageIsLeast
    <3>5. e.sources[x] = g.sources[x]
      BY <3>3, <3>4, UnchangedFacts DEF C
    <3>6. d.revision = Revision(g, d.source)
      BY <2>3, <3>3, <3>5 DEF Stale
    <3>7. d \in Dependencies /\ d.source \in Sources
      <4>1. e.sources[x] \in [version : Nat, provenance : Provenances]
        BY <3>4, EvidenceTypes DEF Advances, Sound
      <4>. QED  BY <4>1 DEF Provenances, Dependencies
    <3>8. d.revision.epoch = e.epoch /\ d.revision.version \in 1 .. e.sources[d.source].version
      BY <3>4 DEF Advances, Sound, DependenciesHold
    <3>9. d.revision.version = g.sources[d.source].version
      BY <3>6 DEF Revision
    <3>10. d.revision.version = e.sources[d.source].version
      BY <1>1, <3>7, <3>8, <3>9
    <3>11. d.revision = [epoch |-> d.revision.epoch, version |-> d.revision.version]
      BY <3>7 DEF Dependencies, Revisions
    <3>. QED  BY <3>2, <3>8, <3>10, <3>11 DEF Revision
  <2>4. t.versions # ScopeVersions(g, scope) \/ Stale(g, scope)
    BY <1>5, <2>1, <2>2, <2>3
  <2>5. u.touched
    BY <1>9 DEF Touched
  <2>. QED  BY <1>2, <1>3, <2>4, <2>5 DEF Follows
<1>. QED  BY <1>7, <1>8, <1>9

-----------------------------------------------------------------------------
(* The authority.                                                          *)

\* A lineage is that of its parts.
LEMMA LineageOfOne ==
    ASSUME NEW e, Closed(e, Sources), NEW S \in SUBSET Sources, NEW x \in Lineage(e, S)
    PROVE  \E s \in S : x \in Lineage(e, {s})
<1>. DEFINE U == UNION {Lineage(e, {s}) : s \in S}
<1>1. ASSUME NEW s \in S
      PROVE  /\ Lineage(e, {s}) \in SUBSET Sources /\ s \in Lineage(e, {s})
             /\ \A y \in Lineage(e, {s}) : Inputs(e, y) \subseteq Lineage(e, {s})
  <2>1. {s} \in SUBSET Sources
    OBVIOUS
  <2>. QED  BY <2>1, LineageIsLeast DEF Closed
<1>2. U \in SUBSET Sources /\ S \subseteq U
  BY <1>1
<1>3. Closed(e, U)
  BY <1>1 DEF Closed
<1>4. \A y \in U : \E s \in S : y \in Lineage(e, {s})
  OBVIOUS
<1>. HIDE DEF U
<1>5. x \in U
  BY <1>2, <1>3, LineageIsLeast
<1>. QED  BY <1>4, <1>5

\* What current_ticket() accepts rests on what it was compiled from.
LEMMA CurrentIsUntouched ==
    ASSUME NEW e, Sound(e), NEW scope \in SUBSET Sources, NEW time, NEW t,
           Follows(t, e, scope), t.versions = ScopeVersions(e, scope),
           ScopeIsValid(e, scope, time)
    PROVE  /\ ~t.touched
           /\ \A s \in t.lineage : Present(e, s) => e.sources[s].provenance.until > time
<1>. DEFINE P == PresentOf(e, scope)
<1>1. Closed(e, Sources) /\ P \in SUBSET Sources
  BY EvidenceTypes DEF Sound, PresentOf
<1>2. ASSUME NEW s \in P
      PROVE  \A x \in Lineage(e, {s}) :
                /\ e.sources[x].provenance.until > time
                /\ \A d \in e.sources[x].provenance.derived_from : d.revision = Revision(e, d.source)
  <2>1. s \in scope /\ s \in Sources /\ Present(e, s)
    BY DEF PresentOf
  <2>2. e.sources[s].version > 0 /\ e.sources[s].version \in Nat
    BY <2>1, EvidenceAssumption, EvidenceTypes DEF Present, Sound, GraphHolds
  <2>3. e.sources[s].version # 0
    BY <2>2
  <2>4. SourceIsValid(e, s, {}, time)
    BY <2>1 DEF ScopeIsValid
  <2>5. \A x \in Lineage(e, {s}) :
            /\ e.sources[x].provenance.until > time
            /\ \A d \in e.sources[x].provenance.derived_from : DependencyIsCurrent(e, d)
    BY <2>1, <2>3, <2>4, Zenon DEF SourceIsValid
  <2>. QED  BY <2>5 DEF DependencyIsCurrent
<1>. HIDE DEF P
<1>3. ASSUME NEW x \in Lineage(e, P)
      PROVE  /\ e.sources[x].provenance.until > time
             /\ \A d \in e.sources[x].provenance.derived_from : d.revision = Revision(e, d.source)
  <2>1. PICK s \in P : x \in Lineage(e, {s})
    BY <1>1, LineageOfOne
  <2>. QED  BY <1>2, <2>1
<1>4. ~Stale(e, scope)
  BY <1>3 DEF Stale, P
<1>5. ~t.touched
  BY <1>4 DEF Follows
<1>6. t.lineage = scope \cup Lineage(e, P)
  BY <1>5 DEF Follows, RestsOn, P, PresentOf
<1>7. \A s \in scope : Present(e, s) => s \in Lineage(e, P)
  BY <1>1, LineageIsLeast DEF P, PresentOf
<1>. QED  BY <1>3, <1>5, <1>6, <1>7

-----------------------------------------------------------------------------
(* The authority.                                                          *)

Contexts == [documents : [Nodes -> Sources \cup {NoSource}], edges : SUBSET Edges]

IsTicket(t) ==
    /\ t \in [owner : Nat, versions : {t.versions}, context : Contexts, expires : Nat,
              submission : Nat, review : Reviews \cup {NoReview}, taken : BOOLEAN,
              lineage : SUBSET Sources, touched : BOOLEAN]
    /\ DOMAIN t.versions \subseteq Sources
    /\ t.versions \in [DOMAIN t.versions -> Revisions]

Proposals ==
    [owner : Nat, source : Sources, expected : Revisions, documents : SUBSET Nodes,
     outcome : {"pending", "admitted", "rejected"}, expires : Nat]

\* Types of the broker's authority.
AuthorityTypes(m) ==
    /\ m \in [grants : [DOMAIN m.grants -> Grants], tickets : {m.tickets},
              proposals : SUBSET Proposals, staged : SUBSET StagedType]
    /\ \A t \in m.tickets : IsTicket(t)
    /\ IsFiniteSet(m.tickets) /\ IsFiniteSet(m.proposals) /\ IsFiniteSet(m.staged)

\* NothingOutlivesItsGrant, of an authority.
EndsWithGrant(m) ==
    /\ \A o, q \in DOMAIN m.grants : m.grants[o].agent = m.grants[q].agent => o = q
    /\ \A t \in m.tickets \cup m.proposals :
          t.owner \in DOMAIN m.grants /\ t.expires <= m.grants[t.owner].expires

\* RetainedWithinBounds, of an authority.
WithinBounds(m) ==
    /\ TotalBytes(m) <= MaxRetained
    /\ \A o \in DOMAIN m.grants : OwnBytes(m, o) <= MaxOwnRetained

\* Of the first n submissions each is in one ticket, and it has not been handed
\* out, by the count in h, before it is taken.
HandedOnce(m, n, h) ==
    /\ \A t \in m.tickets : t.submission \in 0 .. n
    /\ \A t \in m.tickets : t.review # NoReview => t.submission # 0
    /\ \A t \in m.tickets : t.submission # 0 /\ ~t.taken => h[t.submission] = 0
    /\ \A t, u \in m.tickets : t.submission = u.submission /\ t.submission # 0 => t = u

TicketsFollow(m, e) == \A t \in m.tickets : Follows(t, e, Scope[m.grants[t.owner].agent])

AuthorityInv(m, e, n, h) ==
    /\ AuthorityTypes(m) /\ EndsWithGrant(m) /\ WithinBounds(m)
    /\ HandedOnce(m, n, h) /\ TicketsFollow(m, e)

\* k is an authority that holds less than m does.
IsLess(k, m) ==
    /\ k = [grants |-> k.grants, tickets |-> k.tickets, proposals |-> k.proposals,
            staged |-> k.staged]
    /\ DOMAIN k.grants \subseteq DOMAIN m.grants
    /\ k.grants = [o \in DOMAIN k.grants |-> m.grants[o]]
    /\ k.tickets \subseteq {t \in m.tickets : t.owner \in DOMAIN k.grants}
    /\ k.proposals \subseteq {p \in m.proposals : p.owner \in DOMAIN k.grants}
    /\ k.staged \subseteq m.staged

\* The tickets and the proposals of one grant.
TicketsOf(m, o) == {t \in m.tickets : t.owner = o}

ProposalsOf(m, o) == {p \in m.proposals : p.owner = o}

\* The charge of a staged source is a number.
LEMMA StagedChargeType ==
    ASSUME NEW x \in StagedType
    PROVE  StagedCharge(x) \in Nat /\ IsFiniteSet(x.documents)
<1>1. x.documents \in SUBSET Nodes
  BY DEF StagedType
<1>2. IsFiniteSet(x.documents) /\ Cardinality(x.documents) \in Nat
  BY <1>1, EvidenceAssumption, FS_Subset, FS_CardinalityType
<1>. QED  BY <1>2 DEF StagedCharge

\* What is charged, as sums over the parts of the authority.
LEMMA ChargeFacts ==
    ASSUME NEW m, AuthorityTypes(m)
    PROVE  /\ TotalBytes(m) = TicketBytes(m.tickets) + Cardinality(m.proposals)
                                + StagedBytesOf(m.staged)
           /\ TicketBytes(m.tickets) \in Nat /\ Cardinality(m.proposals) \in Nat
           /\ StagedBytesOf(m.staged) \in Nat
           /\ \A o : /\ OwnBytes(m, o) = TicketBytes(TicketsOf(m, o))
                                            + Cardinality(ProposalsOf(m, o))
                     /\ IsFiniteSet(TicketsOf(m, o)) /\ IsFiniteSet(ProposalsOf(m, o))
                     /\ TicketBytes(TicketsOf(m, o)) \in Nat
                     /\ Cardinality(ProposalsOf(m, o)) \in Nat
           /\ \A x \in m.staged : StagedCharge(x) \in Nat
<1>1. m.staged \in SUBSET StagedType
  BY DEF AuthorityTypes
<1>2. IsFiniteSet(m.tickets) /\ IsFiniteSet(m.proposals) /\ IsFiniteSet(m.staged)
  BY DEF AuthorityTypes
<1>3. \A x \in m.staged : StagedCharge(x) \in Nat
  BY <1>1, StagedChargeType
<1>4. TicketBytes(m.tickets) \in Nat /\ Cardinality(m.proposals) \in Nat
  BY <1>2, TicketBytesFacts, FS_CardinalityType
<1>5. StagedBytesOf(m.staged) \in Nat
  BY <1>2, <1>3, StagedBytesFacts
<1>6. TotalBytes(m) = TicketBytes(m.tickets) + Cardinality(m.proposals)
                        + StagedBytesOf(m.staged)
  BY DEF TotalBytes, StagedBytes, TicketBytes, StagedBytesOf
<1>7. ASSUME NEW o
      PROVE  /\ OwnBytes(m, o) = TicketBytes(TicketsOf(m, o)) + Cardinality(ProposalsOf(m, o))
             /\ IsFiniteSet(TicketsOf(m, o)) /\ IsFiniteSet(ProposalsOf(m, o))
             /\ TicketBytes(TicketsOf(m, o)) \in Nat
             /\ Cardinality(ProposalsOf(m, o)) \in Nat
  <2>1. TicketsOf(m, o) \in SUBSET m.tickets /\ ProposalsOf(m, o) \in SUBSET m.proposals
    BY DEF TicketsOf, ProposalsOf
  <2>2. IsFiniteSet(TicketsOf(m, o)) /\ IsFiniteSet(ProposalsOf(m, o))
    BY <1>2, <2>1, FS_Subset
  <2>3. TicketBytes(TicketsOf(m, o)) \in Nat /\ Cardinality(ProposalsOf(m, o)) \in Nat
    BY <2>2, TicketBytesFacts, FS_CardinalityType
  <2>4. OwnBytes(m, o) = TicketBytes(TicketsOf(m, o)) + Cardinality(ProposalsOf(m, o))
    BY DEF OwnBytes, TicketBytes, TicketsOf, ProposalsOf
  <2>. QED  BY <2>2, <2>3, <2>4
<1>. QED  BY <1>3, <1>4, <1>5, <1>6, <1>7

\* What holds less is an authority too, and is charged no more.
LEMMA LessAuthority ==
    ASSUME NEW m, NEW e, NEW n, NEW h, AuthorityInv(m, e, n, h), NEW k, IsLess(k, m)
    PROVE  AuthorityInv(k, e, n, h)
<1>1. AuthorityTypes(m) /\ EndsWithGrant(m) /\ WithinBounds(m) /\ HandedOnce(m, n, h)
      /\ TicketsFollow(m, e)
  BY DEF AuthorityInv
<1>2. /\ k.tickets \in SUBSET m.tickets /\ k.proposals \in SUBSET m.proposals
      /\ k.staged \in SUBSET m.staged
      /\ DOMAIN k.grants \subseteq DOMAIN m.grants
      /\ \A o \in DOMAIN k.grants : k.grants[o] = m.grants[o]
      /\ \A t \in k.tickets \cup k.proposals : t.owner \in DOMAIN k.grants
  BY DEF IsLess
<1>3. AuthorityTypes(k)
  <2>1. IsFiniteSet(k.tickets) /\ IsFiniteSet(k.proposals) /\ IsFiniteSet(k.staged)
    BY <1>1, <1>2, FS_Subset DEF AuthorityTypes
  <2>2. m.grants \in [DOMAIN m.grants -> Grants] /\ m.proposals \in SUBSET Proposals
        /\ m.staged \in SUBSET StagedType /\ \A t \in m.tickets : IsTicket(t)
    BY <1>1 DEF AuthorityTypes
  <2>3. k.grants \in [DOMAIN k.grants -> Grants]
    BY <1>2, <2>2 DEF IsLess
  <2>4. k = [grants |-> k.grants, tickets |-> k.tickets, proposals |-> k.proposals,
             staged |-> k.staged]
    BY DEF IsLess
  <2>5. k \in [grants : [DOMAIN k.grants -> Grants], tickets : {k.tickets},
               proposals : SUBSET Proposals, staged : SUBSET StagedType]
    BY <1>2, <2>2, <2>3, <2>4
  <2>. QED  BY <1>2, <2>1, <2>2, <2>5 DEF AuthorityTypes
<1>4. EndsWithGrant(k)
  BY <1>1, <1>2 DEF EndsWithGrant
<1>5. WithinBounds(k)
  <2>1. /\ IsFiniteSet(m.tickets) /\ IsFiniteSet(m.proposals) /\ IsFiniteSet(m.staged)
        /\ \A x \in m.staged : StagedCharge(x) \in Nat
    BY <1>1, ChargeFacts DEF AuthorityTypes
  <2>2. /\ TicketBytes(k.tickets) <= TicketBytes(m.tickets)
        /\ Cardinality(k.proposals) <= Cardinality(m.proposals)
        /\ StagedBytesOf(k.staged) <= StagedBytesOf(m.staged)
    BY <1>2, <2>1, TicketBytesFacts, StagedBytesFacts, FS_Subset
  <2>3. TotalBytes(k) <= TotalBytes(m) /\ TotalBytes(k) \in Nat /\ TotalBytes(m) \in Nat
    <3>1. /\ TotalBytes(m) = TicketBytes(m.tickets) + Cardinality(m.proposals)
                                + StagedBytesOf(m.staged)
          /\ TicketBytes(m.tickets) \in Nat /\ Cardinality(m.proposals) \in Nat
          /\ StagedBytesOf(m.staged) \in Nat
      BY <1>1, ChargeFacts
    <3>2. /\ TotalBytes(k) = TicketBytes(k.tickets) + Cardinality(k.proposals)
                                + StagedBytesOf(k.staged)
          /\ TicketBytes(k.tickets) \in Nat /\ Cardinality(k.proposals) \in Nat
          /\ StagedBytesOf(k.staged) \in Nat
      BY <1>3, ChargeFacts
    <3>. QED  BY <2>2, <3>1, <3>2
  <2>4. ASSUME NEW o \in DOMAIN k.grants PROVE OwnBytes(k, o) <= MaxOwnRetained
    <3>1. TicketsOf(k, o) \in SUBSET TicketsOf(m, o) /\ ProposalsOf(k, o) \in SUBSET ProposalsOf(m, o)
      BY <1>2 DEF TicketsOf, ProposalsOf
    <3>2. /\ OwnBytes(m, o) = TicketBytes(TicketsOf(m, o)) + Cardinality(ProposalsOf(m, o))
          /\ IsFiniteSet(TicketsOf(m, o)) /\ IsFiniteSet(ProposalsOf(m, o))
          /\ TicketBytes(TicketsOf(m, o)) \in Nat /\ Cardinality(ProposalsOf(m, o)) \in Nat
      BY <1>1, ChargeFacts
    <3>3. /\ OwnBytes(k, o) = TicketBytes(TicketsOf(k, o)) + Cardinality(ProposalsOf(k, o))
          /\ TicketBytes(TicketsOf(k, o)) \in Nat /\ Cardinality(ProposalsOf(k, o)) \in Nat
      BY <1>3, ChargeFacts
    <3>4. /\ TicketBytes(TicketsOf(k, o)) <= TicketBytes(TicketsOf(m, o))
          /\ Cardinality(ProposalsOf(k, o)) <= Cardinality(ProposalsOf(m, o))
      BY <3>1, <3>2, TicketBytesFacts, FS_Subset
    <3>5. OwnBytes(m, o) <= MaxOwnRetained
      BY <1>1, <1>2 DEF WithinBounds
    <3>. QED  BY <3>2, <3>3, <3>4, <3>5, BrokerAssumption
  <2>. QED  BY <1>1, <2>3, <2>4, BrokerAssumption DEF WithinBounds
<1>6. HandedOnce(k, n, h)
  BY <1>1, <1>2 DEF HandedOnce
<1>7. TicketsFollow(k, e)
  BY <1>1, <1>2 DEF TicketsFollow
<1>. QED  BY <1>3, <1>4, <1>5, <1>6, <1>7 DEF AuthorityInv

\* The parts of an authority have their types.
LEMMA AuthorityRecord ==
    ASSUME NEW m, AuthorityTypes(m)
    PROVE  /\ m.grants \in [DOMAIN m.grants -> Grants]
           /\ m.proposals \in SUBSET Proposals /\ m.staged \in SUBSET StagedType
           /\ \A t \in m.tickets : IsTicket(t)
           /\ IsFiniteSet(m.tickets) /\ IsFiniteSet(m.proposals) /\ IsFiniteSet(m.staged)
BY DEF AuthorityTypes

\* An authority, part by part.
Parts(G, T, P, X) == [grants |-> G, tickets |-> T, proposals |-> P, staged |-> X]

\* The parts of an authority that is given by them.
LEMMA PartsOf ==
    \A G, T, P, X : /\ Parts(G, T, P, X).grants = G /\ Parts(G, T, P, X).tickets = T
                    /\ Parts(G, T, P, X).proposals = P /\ Parts(G, T, P, X).staged = X
BY DEF Parts

\* What replacing parts of an authority leaves.
LEMMA PartsReplaced ==
    ASSUME NEW m, AuthorityTypes(m), NEW G, NEW T, NEW P, NEW X
    PROVE  /\ m = Parts(m.grants, m.tickets, m.proposals, m.staged)
           /\ [m EXCEPT !.grants = G] = Parts(G, m.tickets, m.proposals, m.staged)
           /\ [m EXCEPT !.tickets = T] = Parts(m.grants, T, m.proposals, m.staged)
           /\ [m EXCEPT !.proposals = P] = Parts(m.grants, m.tickets, P, m.staged)
           /\ [m EXCEPT !.staged = X] = Parts(m.grants, m.tickets, m.proposals, X)
<1>1. m \in [grants : {m.grants}, tickets : {m.tickets}, proposals : {m.proposals},
            staged : {m.staged}]
  BY DEF AuthorityTypes
<1>. QED  BY <1>1 DEF Parts

\* What replacing three parts at once leaves.
LEMMA OwnersReplaced ==
    ASSUME NEW m, AuthorityTypes(m), NEW G, NEW T, NEW P
    PROVE  [m EXCEPT !.grants = G, !.tickets = T, !.proposals = P] = Parts(G, T, P, m.staged)
<1>. DEFINE a == [m EXCEPT !.grants = G]
            b == [a EXCEPT !.tickets = T]
            c == [b EXCEPT !.proposals = P]
<1>1. c = [m EXCEPT !.grants = G, !.tickets = T, !.proposals = P]
  OBVIOUS
<1>2. a = Parts(G, m.tickets, m.proposals, m.staged)
  BY PartsReplaced
<1>. HIDE DEF a
<1>3. b = Parts(G, T, m.proposals, m.staged)
  BY <1>2 DEF Parts
<1>. HIDE DEF b
<1>4. c = Parts(G, T, P, m.staged)
  BY <1>3 DEF Parts
<1>. HIDE DEF c
<1>. QED  BY <1>1, <1>4

\* An authority of parts that have their types.
LEMMA PartsType ==
    ASSUME NEW G, NEW T, NEW P, NEW X, G \in [DOMAIN G -> Grants], \A t \in T : IsTicket(t),
           P \in SUBSET Proposals, X \in SUBSET StagedType,
           IsFiniteSet(T), IsFiniteSet(P), IsFiniteSet(X)
    PROVE  AuthorityTypes(Parts(G, T, P, X))
<1>. DEFINE m == Parts(G, T, P, X)
<1>1. m.grants = G /\ m.tickets = T /\ m.proposals = P /\ m.staged = X
  BY PartsOf
<1>2. m \in [grants : [DOMAIN G -> Grants], tickets : {T}, proposals : SUBSET Proposals,
            staged : SUBSET StagedType]
  BY DEF Parts
<1>. HIDE DEF m
<1>. QED  BY <1>1, <1>2 DEF AuthorityTypes, m

\* remove_owner()
LEMMA WithoutOwnersIsLess ==
    ASSUME NEW m, AuthorityTypes(m), EndsWithGrant(m), NEW owners
    PROVE  /\ IsLess(WithoutOwners(m, owners), m)
           /\ DOMAIN WithoutOwners(m, owners).grants = DOMAIN m.grants \ owners
           /\ WithoutOwners(m, owners).staged = m.staged
<1>. DEFINE k == WithoutOwners(m, owners)
            D == DOMAIN m.grants \ owners
<1>0. k = Parts([o \in D |-> m.grants[o]], {t \in m.tickets : t.owner \notin owners},
                {p \in m.proposals : p.owner \notin owners}, m.staged)
  BY OwnersReplaced, Zenon DEF WithoutOwners
<1>1. /\ k.grants = [o \in D |-> m.grants[o]]
      /\ k.tickets = {t \in m.tickets : t.owner \notin owners}
      /\ k.proposals = {p \in m.proposals : p.owner \notin owners}
      /\ k.staged = m.staged
      /\ k = Parts(k.grants, k.tickets, k.proposals, k.staged)
  BY <1>0, PartsOf
<1>. HIDE DEF k
<1>2. DOMAIN k.grants = D
  BY <1>1
<1>3. \A t \in m.tickets \cup m.proposals : t.owner \in DOMAIN m.grants
  BY DEF EndsWithGrant
<1>. QED  BY <1>1, <1>2, <1>3 DEF IsLess, k, Parts

\* What is the same but for fewer tickets, proposals and staged sources.
LEMMA FewerIsLess ==
    ASSUME NEW m, AuthorityTypes(m), EndsWithGrant(m),
           NEW T \in SUBSET m.tickets, NEW P \in SUBSET m.proposals, NEW X \in SUBSET m.staged
    PROVE  IsLess(Parts(m.grants, T, P, X), m)
<1>. DEFINE k == Parts(m.grants, T, P, X)
<1>1. /\ k.grants = m.grants /\ k.tickets = T /\ k.proposals = P /\ k.staged = X
      /\ k = Parts(k.grants, k.tickets, k.proposals, k.staged)
  BY PartsOf
<1>. HIDE DEF k
<1>2. \A t \in m.tickets \cup m.proposals : t.owner \in DOMAIN m.grants
  BY DEF EndsWithGrant
<1>3. m.grants = [o \in DOMAIN m.grants |-> m.grants[o]]
  BY AuthorityRecord
<1>. QED  BY <1>1, <1>2, <1>3 DEF IsLess, k, Parts

\* prune(); what is live stays.
LEMMA PrunedIsLess ==
    ASSUME NEW e, NEW n, NEW h, AuthorityInv(memory, e, n, h)
    PROVE  /\ AuthorityInv(Pruned, e, n, h)
           /\ DOMAIN Pruned.grants = {o \in DOMAIN memory.grants : Live(o)}
           /\ \A o \in DOMAIN Pruned.grants : Pruned.grants[o] = memory.grants[o]
           /\ Pruned.staged \subseteq memory.staged
<1>. DEFINE owners == {o \in DOMAIN memory.grants : ~Live(o)}
            m == WithoutOwners(memory, owners)
<1>1. AuthorityTypes(memory) /\ EndsWithGrant(memory)
  BY DEF AuthorityInv
<1>2. IsLess(m, memory) /\ DOMAIN m.grants = DOMAIN memory.grants \ owners
      /\ m.staged = memory.staged
  BY <1>1, WithoutOwnersIsLess
<1>. DEFINE T == {t \in m.tickets : t.expires > now}
            P == {p \in m.proposals : p.expires > now}
            X == {x \in m.staged : x.expires > now}
            a == [m EXCEPT !.tickets = T]
            b == [a EXCEPT !.proposals = P]
            c == [b EXCEPT !.staged = X]
<1>3. Pruned = c
  BY DEF Pruned
<1>4. T \in SUBSET m.tickets /\ P \in SUBSET m.proposals /\ X \in SUBSET m.staged
  OBVIOUS
<1>. HIDE DEF m, T, P, X
<1>5. AuthorityInv(m, e, n, h)
  BY <1>2, LessAuthority
<1>6. AuthorityTypes(m) /\ EndsWithGrant(m)
  BY <1>5 DEF AuthorityInv
<1>10. Pruned = Parts(m.grants, T, P, X)
  <2>1. a = Parts(m.grants, T, m.proposals, m.staged)
    BY <1>6, PartsReplaced
  <2>. HIDE DEF a
  <2>2. b = Parts(m.grants, T, P, m.staged)
    BY <2>1 DEF Parts
  <2>. HIDE DEF b
  <2>3. c = Parts(m.grants, T, P, X)
    BY <2>2 DEF Parts
  <2>. HIDE DEF c
  <2>. QED  BY <1>3, <2>3
<1>7. IsLess(Pruned, m)
  BY <1>4, <1>6, <1>10, FewerIsLess
<1>8. AuthorityInv(Pruned, e, n, h)
  BY <1>5, <1>7, LessAuthority
<1>9. Pruned.grants = m.grants /\ Pruned.staged = X
  BY <1>10, PartsOf
<1>. QED  BY <1>2, <1>4, <1>8, <1>9 DEF IsLess

\* A grant more, for an agent that has none.
LEMMA MoreGrants ==
    ASSUME NEW m, NEW e, NEW n, NEW h, AuthorityInv(m, e, n, h),
           NEW secret, secret \notin DOMAIN m.grants, NEW grant \in Grants,
           \A o \in DOMAIN m.grants : m.grants[o].agent # grant.agent
    PROVE  AuthorityInv(Parts([o \in DOMAIN m.grants \cup {secret} |->
                                    IF o = secret THEN grant ELSE m.grants[o]],
                              m.tickets, m.proposals, m.staged), e, n, h)
<1>. DEFINE G == [o \in DOMAIN m.grants \cup {secret} |-> IF o = secret THEN grant ELSE m.grants[o]]
            k == Parts(G, m.tickets, m.proposals, m.staged)
<1>0. /\ AuthorityTypes(m) /\ EndsWithGrant(m) /\ WithinBounds(m)
      /\ HandedOnce(m, n, h) /\ TicketsFollow(m, e)
  BY DEF AuthorityInv
<1>1. /\ DOMAIN G = DOMAIN m.grants \cup {secret} /\ G[secret] = grant
      /\ \A o \in DOMAIN m.grants : G[o] = m.grants[o]
      /\ G \in [DOMAIN G -> Grants]
  BY <1>0, AuthorityRecord
<1>. HIDE DEF G
<1>2. /\ k.grants = G /\ k.tickets = m.tickets /\ k.proposals = m.proposals /\ k.staged = m.staged
  BY PartsOf
<1>. HIDE DEF k
<1>3. AuthorityTypes(k)
  BY <1>0, <1>1, <1>2, AuthorityRecord, PartsType DEF k
<1>4. \A t \in m.tickets \cup m.proposals :
          t.owner \in DOMAIN m.grants /\ t.expires <= m.grants[t.owner].expires
  BY <1>0 DEF EndsWithGrant
<1>5. EndsWithGrant(k)
  <2>1. \A o, q \in DOMAIN k.grants : k.grants[o].agent = k.grants[q].agent => o = q
    BY <1>0, <1>1, <1>2 DEF EndsWithGrant
  <2>2. \A t \in k.tickets \cup k.proposals :
            t.owner \in DOMAIN k.grants /\ t.expires <= k.grants[t.owner].expires
    BY <1>1, <1>2, <1>4
  <2>. QED  BY <2>1, <2>2 DEF EndsWithGrant
<1>6. WithinBounds(k)
  <2>1. TotalBytes(k) = TotalBytes(m)
    BY <1>2 DEF TotalBytes, StagedBytes
  <2>2. \A o : OwnBytes(k, o) = OwnBytes(m, o)
    BY <1>2 DEF OwnBytes
  <2>3. OwnBytes(m, secret) <= MaxOwnRetained
    <3>1. TicketsOf(m, secret) = {} /\ ProposalsOf(m, secret) = {}
      BY <1>4 DEF TicketsOf, ProposalsOf
    <3>2. OwnBytes(m, secret) = TicketBytes({}) + Cardinality({})
      BY <1>0, <3>1, ChargeFacts
    <3>3. TicketBytes({}) = 0 /\ Cardinality({}) = 0
      BY FS_EmptySet, TicketBytesFacts
    <3>. QED  BY <3>2, <3>3, BrokerAssumption
  <2>. QED  BY <1>0, <1>1, <1>2, <2>1, <2>2, <2>3 DEF WithinBounds
<1>7. HandedOnce(k, n, h)
  BY <1>0, <1>2 DEF HandedOnce
<1>8. TicketsFollow(k, e)
  BY <1>0, <1>1, <1>2, <1>4 DEF TicketsFollow
<1>. QED  BY <1>3, <1>5, <1>6, <1>7, <1>8 DEF AuthorityInv, k, G

\* A ticket more, of a grant that there is.
LEMMA MoreTickets ==
    ASSUME NEW m, NEW e, NEW n, NEW h, AuthorityInv(m, e, n, h), NEW u, IsTicket(u),
           u.owner \in DOMAIN m.grants, u.expires <= m.grants[u.owner].expires,
           TotalBytes(m) + TicketCharge(u) <= MaxRetained,
           OwnBytes(m, u.owner) + TicketCharge(u) <= MaxOwnRetained,
           u.submission \in 0 .. n, u.review # NoReview => u.submission # 0,
           u.submission # 0 /\ ~u.taken => h[u.submission] = 0,
           u.submission # 0 => \A t \in m.tickets : t.submission # u.submission,
           Follows(u, e, Scope[m.grants[u.owner].agent])
    PROVE  AuthorityInv(Parts(m.grants, m.tickets \cup {u}, m.proposals, m.staged), e, n, h)
<1>. DEFINE T == m.tickets \cup {u}
            k == Parts(m.grants, T, m.proposals, m.staged)
<1>0. /\ AuthorityTypes(m) /\ EndsWithGrant(m) /\ WithinBounds(m)
      /\ HandedOnce(m, n, h) /\ TicketsFollow(m, e)
  BY DEF AuthorityInv
<1>1. /\ k.grants = m.grants /\ k.tickets = T /\ k.proposals = m.proposals /\ k.staged = m.staged
  BY PartsOf
<1>2. IsFiniteSet(T) /\ TicketBytes(T) <= TicketBytes(m.tickets) + TicketCharge(u)
  <2>1. IsFiniteSet(m.tickets)
    BY <1>0, AuthorityRecord
  <2>. QED  BY <2>1, TicketBytesStep
<1>. HIDE DEF k
<1>3. AuthorityTypes(k)
  BY <1>0, <1>1, <1>2, AuthorityRecord, PartsType DEF k
<1>4. EndsWithGrant(k)
  BY <1>0, <1>1 DEF EndsWithGrant
<1>5. TotalBytes(k) <= MaxRetained
  <2>1. /\ TotalBytes(m) = TicketBytes(m.tickets) + Cardinality(m.proposals)
                              + StagedBytesOf(m.staged)
        /\ TicketBytes(m.tickets) \in Nat /\ Cardinality(m.proposals) \in Nat
        /\ StagedBytesOf(m.staged) \in Nat
    BY <1>0, ChargeFacts
  <2>2. /\ TotalBytes(k) = TicketBytes(T) + Cardinality(m.proposals) + StagedBytesOf(m.staged)
        /\ TicketBytes(T) \in Nat
    BY <1>1, <1>3, ChargeFacts
  <2>. QED  BY <1>2, <2>1, <2>2, TicketChargeType, BrokerAssumption
<1>6. ASSUME NEW o \in DOMAIN m.grants PROVE OwnBytes(k, o) <= MaxOwnRetained
  <2>1. ProposalsOf(k, o) = ProposalsOf(m, o)
    BY <1>1 DEF ProposalsOf
  <2>2. TicketsOf(k, o) = IF o = u.owner THEN TicketsOf(m, o) \cup {u} ELSE TicketsOf(m, o)
    BY <1>1 DEF TicketsOf
  <2>3. /\ OwnBytes(m, o) = TicketBytes(TicketsOf(m, o)) + Cardinality(ProposalsOf(m, o))
        /\ IsFiniteSet(TicketsOf(m, o))
        /\ TicketBytes(TicketsOf(m, o)) \in Nat /\ Cardinality(ProposalsOf(m, o)) \in Nat
    BY <1>0, ChargeFacts
  <2>4. /\ OwnBytes(k, o) = TicketBytes(TicketsOf(k, o)) + Cardinality(ProposalsOf(m, o))
        /\ TicketBytes(TicketsOf(k, o)) \in Nat
    BY <1>3, <2>1, ChargeFacts
  <2>5. OwnBytes(m, o) <= MaxOwnRetained
    BY <1>0 DEF WithinBounds
  <2>6. CASE o # u.owner
    BY <2>2, <2>3, <2>4, <2>5, <2>6
  <2>7. CASE o = u.owner
    <3>1. TicketBytes(TicketsOf(m, o) \cup {u}) <= TicketBytes(TicketsOf(m, o)) + TicketCharge(u)
      BY <2>3, TicketBytesStep
    <3>2. OwnBytes(m, o) + TicketCharge(u) <= MaxOwnRetained
      BY <2>7
    <3>. QED  BY <2>2, <2>3, <2>4, <2>7, <3>1, <3>2, TicketChargeType, BrokerAssumption
  <2>. QED  BY <2>6, <2>7
<1>7. WithinBounds(k)
  BY <1>1, <1>5, <1>6 DEF WithinBounds
<1>8. HandedOnce(k, n, h)
  <2>1. /\ \A t \in T : t.submission \in 0 .. n
        /\ \A t \in T : t.review # NoReview => t.submission # 0
        /\ \A t \in T : t.submission # 0 /\ ~t.taken => h[t.submission] = 0
    BY <1>0 DEF HandedOnce
  <2>2. \A t, v \in T : t.submission = v.submission /\ t.submission # 0 => t = v
    BY <1>0 DEF HandedOnce
  <2>. QED  BY <1>1, <2>1, <2>2 DEF HandedOnce
<1>9. TicketsFollow(k, e)
  BY <1>0, <1>1 DEF TicketsFollow
<1>. QED  BY <1>3, <1>4, <1>7, <1>8, <1>9 DEF AuthorityInv, k

\* A proposal more.
LEMMA MoreProposals ==
    ASSUME NEW m, NEW e, NEW n, NEW h, AuthorityInv(m, e, n, h), NEW p \in Proposals,
           p.owner \in DOMAIN m.grants, p.expires <= m.grants[p.owner].expires,
           TotalBytes(m) + 1 <= MaxRetained,
           OwnBytes(m, p.owner) + 1 <= MaxOwnRetained
    PROVE  AuthorityInv(Parts(m.grants, m.tickets, m.proposals \cup {p}, m.staged), e, n, h)
<1>. DEFINE P == m.proposals \cup {p}
            k == Parts(m.grants, m.tickets, P, m.staged)
<1>0. /\ AuthorityTypes(m) /\ EndsWithGrant(m) /\ WithinBounds(m)
      /\ HandedOnce(m, n, h) /\ TicketsFollow(m, e)
  BY DEF AuthorityInv
<1>1. /\ k.grants = m.grants /\ k.tickets = m.tickets /\ k.proposals = P /\ k.staged = m.staged
  BY PartsOf
<1>2. IsFiniteSet(P) /\ Cardinality(P) <= Cardinality(m.proposals) + 1 /\ Cardinality(P) \in Nat
      /\ P \in SUBSET Proposals
  <2>1. IsFiniteSet(m.proposals) /\ Cardinality(m.proposals) \in Nat /\ m.proposals \in SUBSET Proposals
    BY <1>0, AuthorityRecord, FS_CardinalityType
  <2>2. IsFiniteSet(P) /\ Cardinality(P) \in {Cardinality(m.proposals), Cardinality(m.proposals) + 1}
    BY <2>1, FS_AddElement
  <2>. QED  BY <2>1, <2>2
<1>. HIDE DEF k, P
<1>3. AuthorityTypes(k)
  BY <1>0, <1>1, <1>2, AuthorityRecord, PartsType DEF k
<1>4. EndsWithGrant(k)
  BY <1>0, <1>1 DEF EndsWithGrant, P
<1>5. TotalBytes(k) <= MaxRetained
  <2>1. /\ TotalBytes(m) = TicketBytes(m.tickets) + Cardinality(m.proposals)
                              + StagedBytesOf(m.staged)
        /\ TicketBytes(m.tickets) \in Nat /\ Cardinality(m.proposals) \in Nat
        /\ StagedBytesOf(m.staged) \in Nat
    BY <1>0, ChargeFacts
  <2>2. TotalBytes(k) = TicketBytes(m.tickets) + Cardinality(P) + StagedBytesOf(m.staged)
    BY <1>1, <1>3, ChargeFacts
  <2>. QED  BY <1>2, <2>1, <2>2, BrokerAssumption
<1>6. ASSUME NEW o \in DOMAIN m.grants PROVE OwnBytes(k, o) <= MaxOwnRetained
  <2>1. TicketsOf(k, o) = TicketsOf(m, o)
    BY <1>1 DEF TicketsOf
  <2>2. ProposalsOf(k, o) = IF o = p.owner THEN ProposalsOf(m, o) \cup {p} ELSE ProposalsOf(m, o)
    BY <1>1 DEF ProposalsOf, P
  <2>3. /\ OwnBytes(m, o) = TicketBytes(TicketsOf(m, o)) + Cardinality(ProposalsOf(m, o))
        /\ IsFiniteSet(ProposalsOf(m, o))
        /\ TicketBytes(TicketsOf(m, o)) \in Nat /\ Cardinality(ProposalsOf(m, o)) \in Nat
    BY <1>0, ChargeFacts
  <2>4. /\ OwnBytes(k, o) = TicketBytes(TicketsOf(m, o)) + Cardinality(ProposalsOf(k, o))
        /\ Cardinality(ProposalsOf(k, o)) \in Nat
    BY <1>3, <2>1, ChargeFacts
  <2>5. OwnBytes(m, o) <= MaxOwnRetained
    BY <1>0 DEF WithinBounds
  <2>6. CASE o # p.owner
    BY <2>2, <2>3, <2>4, <2>5, <2>6
  <2>7. CASE o = p.owner
    <3>1. Cardinality(ProposalsOf(m, o) \cup {p}) <= Cardinality(ProposalsOf(m, o)) + 1
      <4>1. Cardinality(ProposalsOf(m, o) \cup {p}) \in
                {Cardinality(ProposalsOf(m, o)), Cardinality(ProposalsOf(m, o)) + 1}
        BY <2>3, FS_AddElement
      <4>. QED  BY <2>3, <4>1
    <3>2. OwnBytes(m, o) + 1 <= MaxOwnRetained
      BY <2>7
    <3>. QED  BY <2>2, <2>3, <2>4, <2>7, <3>1, <3>2, BrokerAssumption
  <2>. QED  BY <2>6, <2>7
<1>7. WithinBounds(k)
  BY <1>1, <1>5, <1>6 DEF WithinBounds
<1>8. HandedOnce(k, n, h) /\ TicketsFollow(k, e)
  BY <1>0, <1>1 DEF HandedOnce, TicketsFollow
<1>. QED  BY <1>3, <1>4, <1>7, <1>8 DEF AuthorityInv, k, P

\* A staged source more.
LEMMA MoreStaged ==
    ASSUME NEW m, NEW e, NEW n, NEW h, AuthorityInv(m, e, n, h), NEW x \in StagedType,
           TotalBytes(m) + StagedCharge(x) <= MaxRetained
    PROVE  AuthorityInv(Parts(m.grants, m.tickets, m.proposals, m.staged \cup {x}), e, n, h)
<1>. DEFINE X == m.staged \cup {x}
            k == Parts(m.grants, m.tickets, m.proposals, X)
<1>0. /\ AuthorityTypes(m) /\ EndsWithGrant(m) /\ WithinBounds(m)
      /\ HandedOnce(m, n, h) /\ TicketsFollow(m, e)
  BY DEF AuthorityInv
<1>1. /\ k.grants = m.grants /\ k.tickets = m.tickets /\ k.proposals = m.proposals /\ k.staged = X
  BY PartsOf
<1>2. /\ IsFiniteSet(X) /\ X \in SUBSET StagedType
      /\ StagedBytesOf(X) <= StagedBytesOf(m.staged) + StagedCharge(x)
      /\ StagedCharge(x) \in Nat
  <2>1. StagedCharge(x) \in Nat /\ \A y \in m.staged : StagedCharge(y) \in Nat
    BY <1>0, StagedChargeType, ChargeFacts
  <2>2. IsFiniteSet(m.staged) /\ m.staged \in SUBSET StagedType
    BY <1>0, AuthorityRecord
  <2>. QED  BY <2>1, <2>2, StagedBytesStep
<1>. HIDE DEF k, X
<1>3. AuthorityTypes(k)
  BY <1>0, <1>1, <1>2, AuthorityRecord, PartsType DEF k
<1>4. EndsWithGrant(k)
  BY <1>0, <1>1 DEF EndsWithGrant
<1>5. TotalBytes(k) <= MaxRetained
  <2>1. /\ TotalBytes(m) = TicketBytes(m.tickets) + Cardinality(m.proposals)
                              + StagedBytesOf(m.staged)
        /\ TicketBytes(m.tickets) \in Nat /\ Cardinality(m.proposals) \in Nat
        /\ StagedBytesOf(m.staged) \in Nat
    BY <1>0, ChargeFacts
  <2>2. /\ TotalBytes(k) = TicketBytes(m.tickets) + Cardinality(m.proposals) + StagedBytesOf(X)
        /\ StagedBytesOf(X) \in Nat
    BY <1>1, <1>3, ChargeFacts
  <2>. QED  BY <1>2, <2>1, <2>2, BrokerAssumption
<1>6. \A o : OwnBytes(k, o) = OwnBytes(m, o)
  BY <1>1 DEF OwnBytes
<1>7. WithinBounds(k)
  BY <1>0, <1>1, <1>5, <1>6 DEF WithinBounds
<1>8. HandedOnce(k, n, h) /\ TicketsFollow(k, e)
  BY <1>0, <1>1 DEF HandedOnce, TicketsFollow
<1>. QED  BY <1>3, <1>4, <1>7, <1>8 DEF AuthorityInv, k, X

-----------------------------------------------------------------------------
(* What a command takes away, and what it changes.                         *)

\* Without a ticket, its charge is free again.
LEMMA OneTicketLess ==
    ASSUME NEW m, NEW e, NEW n, NEW h, AuthorityInv(m, e, n, h), NEW t \in m.tickets
    PROVE  LET k == Parts(m.grants, m.tickets \ {t}, m.proposals, m.staged)
           IN  /\ AuthorityInv(k, e, n, h)
               /\ TotalBytes(k) = TotalBytes(m) - TicketCharge(t)
               /\ OwnBytes(k, t.owner) = OwnBytes(m, t.owner) - TicketCharge(t)
<1>. DEFINE k == Parts(m.grants, m.tickets \ {t}, m.proposals, m.staged)
<1>0. AuthorityTypes(m) /\ EndsWithGrant(m)
  BY DEF AuthorityInv
<1>1. IsLess(k, m)
  BY <1>0, FewerIsLess
<1>2. AuthorityInv(k, e, n, h)
  BY <1>1, LessAuthority
<1>3. k.tickets = m.tickets \ {t} /\ k.proposals = m.proposals /\ k.staged = m.staged
  BY PartsOf
<1>. HIDE DEF k
<1>4. AuthorityTypes(k)
  BY <1>2 DEF AuthorityInv
<1>5. TotalBytes(k) = TotalBytes(m) - TicketCharge(t)
  <2>1. /\ TotalBytes(m) = TicketBytes(m.tickets) + Cardinality(m.proposals)
                              + StagedBytesOf(m.staged)
        /\ TicketBytes(m.tickets) \in Nat /\ Cardinality(m.proposals) \in Nat
        /\ StagedBytesOf(m.staged) \in Nat
    BY <1>0, ChargeFacts
  <2>2. /\ TotalBytes(k) = TicketBytes(m.tickets \ {t}) + Cardinality(m.proposals)
                              + StagedBytesOf(m.staged)
        /\ TicketBytes(m.tickets \ {t}) \in Nat
    BY <1>3, <1>4, ChargeFacts
  <2>3. IsFiniteSet(m.tickets)
    BY <1>0, AuthorityRecord
  <2>4. TicketBytes(m.tickets) = TicketCharge(t) + TicketBytes(m.tickets \ {t})
    BY <2>3, TicketBytesFacts
  <2>. QED  BY <2>1, <2>2, <2>4, TicketChargeType
<1>6. OwnBytes(k, t.owner) = OwnBytes(m, t.owner) - TicketCharge(t)
  <2>. DEFINE o == t.owner
  <2>1. /\ OwnBytes(m, o) = TicketBytes(TicketsOf(m, o)) + Cardinality(ProposalsOf(m, o))
        /\ IsFiniteSet(TicketsOf(m, o))
        /\ TicketBytes(TicketsOf(m, o)) \in Nat /\ Cardinality(ProposalsOf(m, o)) \in Nat
    BY <1>0, ChargeFacts
  <2>2. /\ OwnBytes(k, o) = TicketBytes(TicketsOf(k, o)) + Cardinality(ProposalsOf(k, o))
        /\ TicketBytes(TicketsOf(k, o)) \in Nat
    BY <1>4, ChargeFacts
  <2>3. ProposalsOf(k, o) = ProposalsOf(m, o) /\ TicketsOf(k, o) = TicketsOf(m, o) \ {t}
        /\ t \in TicketsOf(m, o)
    BY <1>3 DEF ProposalsOf, TicketsOf
  <2>4. TicketBytes(TicketsOf(m, o)) = TicketCharge(t) + TicketBytes(TicketsOf(m, o) \ {t})
    BY <2>1, <2>3, TicketBytesFacts
  <2>. QED  BY <2>1, <2>2, <2>3, <2>4, TicketChargeType
<1>. QED  BY <1>2, <1>5, <1>6 DEF k

\* Without a proposal, its charge is free again.
LEMMA OneProposalLess ==
    ASSUME NEW m, NEW e, NEW n, NEW h, AuthorityInv(m, e, n, h), NEW p \in m.proposals
    PROVE  LET k == Parts(m.grants, m.tickets, m.proposals \ {p}, m.staged)
           IN  /\ AuthorityInv(k, e, n, h)
               /\ TotalBytes(k) = TotalBytes(m) - 1
               /\ OwnBytes(k, p.owner) = OwnBytes(m, p.owner) - 1
<1>. DEFINE k == Parts(m.grants, m.tickets, m.proposals \ {p}, m.staged)
<1>0. AuthorityTypes(m) /\ EndsWithGrant(m)
  BY DEF AuthorityInv
<1>1. IsLess(k, m)
  BY <1>0, FewerIsLess
<1>2. AuthorityInv(k, e, n, h)
  BY <1>1, LessAuthority
<1>3. k.tickets = m.tickets /\ k.proposals = m.proposals \ {p} /\ k.staged = m.staged
  BY PartsOf
<1>. HIDE DEF k
<1>4. AuthorityTypes(k)
  BY <1>2 DEF AuthorityInv
<1>5. TotalBytes(k) = TotalBytes(m) - 1
  <2>1. /\ TotalBytes(m) = TicketBytes(m.tickets) + Cardinality(m.proposals)
                              + StagedBytesOf(m.staged)
        /\ TicketBytes(m.tickets) \in Nat /\ Cardinality(m.proposals) \in Nat
        /\ StagedBytesOf(m.staged) \in Nat
    BY <1>0, ChargeFacts
  <2>2. TotalBytes(k) = TicketBytes(m.tickets) + Cardinality(m.proposals \ {p})
                              + StagedBytesOf(m.staged)
    BY <1>3, <1>4, ChargeFacts
  <2>3. IsFiniteSet(m.proposals)
    BY <1>0, AuthorityRecord
  <2>4. Cardinality(m.proposals \ {p}) = Cardinality(m.proposals) - 1
    BY <2>3, FS_RemoveElement
  <2>. QED  BY <2>1, <2>2, <2>4
<1>6. OwnBytes(k, p.owner) = OwnBytes(m, p.owner) - 1
  <2>. DEFINE o == p.owner
  <2>1. /\ OwnBytes(m, o) = TicketBytes(TicketsOf(m, o)) + Cardinality(ProposalsOf(m, o))
        /\ IsFiniteSet(ProposalsOf(m, o))
        /\ TicketBytes(TicketsOf(m, o)) \in Nat /\ Cardinality(ProposalsOf(m, o)) \in Nat
    BY <1>0, ChargeFacts
  <2>2. OwnBytes(k, o) = TicketBytes(TicketsOf(k, o)) + Cardinality(ProposalsOf(k, o))
    BY <1>4, ChargeFacts
  <2>3. TicketsOf(k, o) = TicketsOf(m, o) /\ ProposalsOf(k, o) = ProposalsOf(m, o) \ {p}
        /\ p \in ProposalsOf(m, o)
    BY <1>3 DEF ProposalsOf, TicketsOf
  <2>4. Cardinality(ProposalsOf(m, o) \ {p}) = Cardinality(ProposalsOf(m, o)) - 1
    BY <2>1, <2>3, FS_RemoveElement
  <2>. QED  BY <2>1, <2>2, <2>3, <2>4
<1>. QED  BY <1>2, <1>5, <1>6 DEF k

\* Without a staged source, its charge is free again.
LEMMA OneStagedLess ==
    ASSUME NEW m, NEW e, NEW n, NEW h, AuthorityInv(m, e, n, h), NEW x \in m.staged
    PROVE  LET k == Parts(m.grants, m.tickets, m.proposals, m.staged \ {x})
           IN  /\ AuthorityInv(k, e, n, h)
               /\ TotalBytes(k) = TotalBytes(m) - StagedCharge(x)
<1>. DEFINE k == Parts(m.grants, m.tickets, m.proposals, m.staged \ {x})
<1>0. AuthorityTypes(m) /\ EndsWithGrant(m)
  BY DEF AuthorityInv
<1>1. IsLess(k, m)
  BY <1>0, FewerIsLess
<1>2. AuthorityInv(k, e, n, h)
  BY <1>1, LessAuthority
<1>3. k.tickets = m.tickets /\ k.proposals = m.proposals /\ k.staged = m.staged \ {x}
  BY PartsOf
<1>. HIDE DEF k
<1>4. AuthorityTypes(k)
  BY <1>2 DEF AuthorityInv
<1>5. TotalBytes(k) = TotalBytes(m) - StagedCharge(x)
  <2>1. /\ TotalBytes(m) = TicketBytes(m.tickets) + Cardinality(m.proposals)
                              + StagedBytesOf(m.staged)
        /\ TicketBytes(m.tickets) \in Nat /\ Cardinality(m.proposals) \in Nat
        /\ StagedBytesOf(m.staged) \in Nat /\ \A y \in m.staged : StagedCharge(y) \in Nat
    BY <1>0, ChargeFacts
  <2>2. /\ TotalBytes(k) = TicketBytes(m.tickets) + Cardinality(m.proposals)
                              + StagedBytesOf(m.staged \ {x})
        /\ StagedBytesOf(m.staged \ {x}) \in Nat
    BY <1>3, <1>4, ChargeFacts
  <2>3. IsFiniteSet(m.staged)
    BY <1>0, AuthorityRecord
  <2>4. StagedBytesOf(m.staged) = StagedCharge(x) + StagedBytesOf(m.staged \ {x})
    BY <2>1, <2>3, StagedBytesFacts
  <2>5. StagedCharge(x) \in Nat
    BY <2>1
  <2>. QED  BY <2>1, <2>2, <2>4, <2>5
<1>. QED  BY <1>2, <1>5 DEF k

\* What a ticket is when one of its fields has changed.
LEMMA TouchedTicket ==
    ASSUME NEW t, IsTicket(t), NEW b \in BOOLEAN, NEW u, u = [t EXCEPT !.touched = b]
    PROVE  /\ IsTicket(u) /\ TicketCharge(u) = TicketCharge(t)
           /\ u.owner = t.owner /\ u.expires = t.expires /\ u.submission = t.submission
           /\ u.review = t.review /\ u.taken = t.taken /\ u.versions = t.versions
           /\ u.lineage = t.lineage /\ u.touched = b
<1>1. t \in [owner : Nat, versions : {t.versions}, context : Contexts, expires : Nat,
             submission : Nat, review : Reviews \cup {NoReview}, taken : BOOLEAN,
             lineage : SUBSET Sources, touched : BOOLEAN]
  BY DEF IsTicket
<1>2. /\ u.owner = t.owner /\ u.expires = t.expires /\ u.submission = t.submission
      /\ u.review = t.review /\ u.taken = t.taken /\ u.versions = t.versions
      /\ u.lineage = t.lineage /\ u.touched = b
      /\ u \in [owner : Nat, versions : {t.versions}, context : Contexts, expires : Nat,
             submission : Nat, review : Reviews \cup {NoReview}, taken : BOOLEAN,
             lineage : SUBSET Sources, touched : BOOLEAN]
  BY <1>1
<1>. QED  BY <1>2 DEF IsTicket, TicketCharge

\* The tickets follow a change of the evidence.
LEMMA TouchKeeps ==
    ASSUME NEW m, NEW n, NEW h, AuthorityInv(m, evidence, n, h), NEW g, Advances(evidence, g)
    PROVE  AuthorityInv(Parts(m.grants, Touch(m.tickets, g), m.proposals, m.staged), g, n, h)
<1>. DEFINE f == [t \in m.tickets |-> [t EXCEPT !.touched = Touched(t, evidence, g)]]
            T == Touch(m.tickets, g)
            k == Parts(m.grants, T, m.proposals, m.staged)
<1>0. /\ AuthorityTypes(m) /\ EndsWithGrant(m) /\ WithinBounds(m)
      /\ HandedOnce(m, n, h) /\ TicketsFollow(m, evidence)
  BY DEF AuthorityInv
<1>1. k.grants = m.grants /\ k.tickets = T /\ k.proposals = m.proposals /\ k.staged = m.staged
  BY PartsOf
<1>2. T = {f[t] : t \in m.tickets}
  BY DEF Touch, Touched
<1>3. ASSUME NEW t \in m.tickets
      PROVE  /\ IsTicket(f[t]) /\ TicketCharge(f[t]) = TicketCharge(t)
             /\ f[t].owner = t.owner /\ f[t].expires = t.expires
             /\ f[t].submission = t.submission
             /\ f[t].review = t.review /\ f[t].taken = t.taken /\ f[t].versions = t.versions
             /\ f[t].lineage = t.lineage /\ f[t].touched = Touched(t, evidence, g)
  <2>1. IsTicket(t)
    BY <1>0, AuthorityRecord
  <2>2. Touched(t, evidence, g) \in BOOLEAN
    BY <2>1 DEF Touched, IsTicket
  <2>3. f[t] = [t EXCEPT !.touched = Touched(t, evidence, g)]
    OBVIOUS
  <2>. HIDE DEF f
  <2>. QED  BY <2>1, <2>2, <2>3, TouchedTicket
<1>. HIDE DEF f, T
<1>4. IsFiniteSet(m.tickets)
  BY <1>0, AuthorityRecord
<1>5. IsFiniteSet(T) /\ TicketBytes(T) <= TicketBytes(m.tickets)
  BY <1>2, <1>3, <1>4, TicketBytesImage
<1>6. AuthorityTypes(k)
  BY <1>0, <1>2, <1>3, <1>5, AuthorityRecord, PartsType
<1>. HIDE DEF k
<1>7. EndsWithGrant(k)
  <2>1. \A t \in T \cup m.proposals :
            t.owner \in DOMAIN m.grants /\ t.expires <= m.grants[t.owner].expires
    BY <1>0, <1>2, <1>3 DEF EndsWithGrant
  <2>. QED  BY <1>0, <1>1, <2>1 DEF EndsWithGrant
<1>8. TotalBytes(k) <= MaxRetained
  <2>1. /\ TotalBytes(m) = TicketBytes(m.tickets) + Cardinality(m.proposals)
                              + StagedBytesOf(m.staged)
        /\ TicketBytes(m.tickets) \in Nat /\ Cardinality(m.proposals) \in Nat
        /\ StagedBytesOf(m.staged) \in Nat
    BY <1>0, ChargeFacts
  <2>2. /\ TotalBytes(k) = TicketBytes(T) + Cardinality(m.proposals) + StagedBytesOf(m.staged)
        /\ TicketBytes(T) \in Nat
    BY <1>1, <1>6, ChargeFacts
  <2>3. TotalBytes(m) <= MaxRetained
    BY <1>0 DEF WithinBounds
  <2>. QED  BY <1>5, <2>1, <2>2, <2>3, BrokerAssumption
<1>9. ASSUME NEW o \in DOMAIN m.grants PROVE OwnBytes(k, o) <= MaxOwnRetained
  <2>1. ProposalsOf(k, o) = ProposalsOf(m, o)
    BY <1>1 DEF ProposalsOf
  <2>2. TicketsOf(k, o) = {f[t] : t \in TicketsOf(m, o)}
    BY <1>1, <1>2, <1>3 DEF TicketsOf
  <2>3. /\ OwnBytes(m, o) = TicketBytes(TicketsOf(m, o)) + Cardinality(ProposalsOf(m, o))
        /\ IsFiniteSet(TicketsOf(m, o))
        /\ TicketBytes(TicketsOf(m, o)) \in Nat /\ Cardinality(ProposalsOf(m, o)) \in Nat
    BY <1>0, ChargeFacts
  <2>4. /\ OwnBytes(k, o) = TicketBytes(TicketsOf(k, o)) + Cardinality(ProposalsOf(m, o))
        /\ TicketBytes(TicketsOf(k, o)) \in Nat
    BY <1>6, <2>1, ChargeFacts
  <2>5. OwnBytes(m, o) <= MaxOwnRetained
    BY <1>0 DEF WithinBounds
  <2>6. \A t \in TicketsOf(m, o) : TicketCharge(f[t]) = TicketCharge(t)
    BY <1>3 DEF TicketsOf
  <2>7. TicketBytes(TicketsOf(k, o)) <= TicketBytes(TicketsOf(m, o))
    BY <2>2, <2>3, <2>6, TicketBytesImage
  <2>. QED  BY <2>3, <2>4, <2>5, <2>7, BrokerAssumption
<1>10. WithinBounds(k)
  BY <1>1, <1>8, <1>9 DEF WithinBounds
<1>11. HandedOnce(k, n, h)
  <2>1. /\ \A t \in T : t.submission \in 0 .. n
        /\ \A t \in T : t.review # NoReview => t.submission # 0
        /\ \A t \in T : t.submission # 0 /\ ~t.taken => h[t.submission] = 0
    BY <1>0, <1>2, <1>3 DEF HandedOnce
  <2>2. ASSUME NEW t \in T, NEW u \in T, t.submission = u.submission, t.submission # 0
        PROVE  t = u
    <3>1. PICK v \in m.tickets : t = f[v]
      BY <1>2
    <3>2. PICK w \in m.tickets : u = f[w]
      BY <1>2
    <3>3. v.submission = w.submission /\ v.submission # 0
      BY <1>3, <2>2, <3>1, <3>2
    <3>4. v = w
      BY <1>0, <3>3 DEF HandedOnce
    <3>. QED  BY <3>1, <3>2, <3>4
  <2>. QED  BY <1>1, <2>1, <2>2 DEF HandedOnce
<1>12. TicketsFollow(k, g)
  <2>. SUFFICES ASSUME NEW u \in T PROVE Follows(u, g, Scope[m.grants[u.owner].agent])
    BY <1>1 DEF TicketsFollow
  <2>1. PICK t \in m.tickets : u = f[t]
    BY <1>2
  <2>2. /\ u.owner = t.owner /\ u.versions = t.versions
        /\ u.lineage = t.lineage /\ u.touched = Touched(t, evidence, g)
    BY <1>3, <2>1
  <2>3. Follows(t, evidence, Scope[m.grants[t.owner].agent])
    BY <1>0 DEF TicketsFollow
  <2>4. Scope[m.grants[t.owner].agent] \in SUBSET Sources
    <3>1. t.owner \in DOMAIN m.grants
      BY <1>0 DEF EndsWithGrant
    <3>2. m.grants[t.owner].agent \in Agents
      BY <1>0, <3>1, AuthorityRecord DEF Grants
    <3>. QED  BY <3>2, BrokerAssumption
  <2>. QED  BY <2>2, <2>3, <2>4, FollowsOn
<1>. QED  BY <1>6, <1>7, <1>10, <1>11, <1>12 DEF AuthorityInv, k, T

-----------------------------------------------------------------------------
(* The invariant.                                                          *)

\* The store, and what is served from it.
StoreInv ==
    /\ up \in BOOLEAN
    /\ disk \in Checkpoints /\ IsFiniteSet(disk.edges) /\ Restorable(disk)
    /\ up => Sound(evidence) /\ disk = Checkpoint(evidence)
    /\ ~up => memory = NoAuthority

\* Secrets and submissions are drawn from what was not drawn before.
CounterInv ==
    /\ now \in Nat
    /\ issued \in [epoch : Nat, grants : Nat, submissions : Nat]
    /\ issued.submissions <= MaxIssued
    /\ DOMAIN memory.grants \subseteq 1 .. issued.grants
    /\ handoffs \in [1 .. MaxIssued -> Nat]
    /\ \A i \in 1 .. MaxIssued : i > issued.submissions => handoffs[i] = 0

BrokerInv ==
    /\ StoreInv /\ CounterInv
    /\ AuthorityInv(memory, evidence, issued.submissions, handoffs)

\* A new process has no authority to account for.
LEMMA NoAuthorityHolds ==
    ASSUME NEW e, NEW n, NEW h
    PROVE  AuthorityInv(NoAuthority, e, n, h) /\ DOMAIN NoAuthority.grants = {}
<1>. DEFINE m == NoAuthority
<1>1. m = Parts(<<>>, {}, {}, {})
  BY DEF NoAuthority, Parts
<1>2. m.grants = <<>> /\ m.tickets = {} /\ m.proposals = {} /\ m.staged = {}
  BY DEF NoAuthority
<1>. HIDE DEF m
<1>3. DOMAIN m.grants = {} /\ <<>> \in [DOMAIN <<>> -> Grants]
  BY <1>2
<1>4. IsFiniteSet({}) /\ Cardinality({}) = 0
  BY FS_EmptySet
<1>5. AuthorityTypes(m)
  BY <1>1, <1>3, <1>4, PartsType
<1>6. TicketBytes({}) = 0 /\ StagedBytesOf({}) = 0
  BY <1>4, TicketBytesFacts, StagedBytesFacts
<1>7. TotalBytes(m) = TicketBytes({}) + Cardinality({}) + StagedBytesOf({})
  BY <1>2, <1>5, ChargeFacts
<1>8. TotalBytes(m) <= MaxRetained
  BY <1>4, <1>6, <1>7, BrokerAssumption
<1>. QED  BY <1>2, <1>3, <1>5, <1>8 DEF AuthorityInv, EndsWithGrant, WithinBounds, HandedOnce,
              TicketsFollow, m

\* What the invariant says of types.
LEMMA BrokerTypes ==
    ASSUME BrokerInv
    PROVE  /\ AuthorityInv(memory, evidence, issued.submissions, handoffs)
           /\ AuthorityTypes(memory) /\ EndsWithGrant(memory) /\ WithinBounds(memory)
           /\ memory.grants \in [DOMAIN memory.grants -> Grants]
           /\ \A o \in DOMAIN memory.grants :
                 /\ o \in Nat /\ memory.grants[o].agent \in Agents
                 /\ memory.grants[o].expires \in Nat
                 /\ ScopeOf(o) \in SUBSET Sources
           /\ now \in Nat /\ issued.grants \in Nat /\ issued.submissions \in Nat
<1>1. /\ AuthorityInv(memory, evidence, issued.submissions, handoffs)
      /\ AuthorityTypes(memory) /\ EndsWithGrant(memory) /\ WithinBounds(memory)
  BY DEF BrokerInv, AuthorityInv
<1>2. memory.grants \in [DOMAIN memory.grants -> Grants]
  BY <1>1, AuthorityRecord
<1>3. now \in Nat /\ issued.grants \in Nat /\ issued.submissions \in Nat
  BY DEF BrokerInv, CounterInv
<1>4. ASSUME NEW o \in DOMAIN memory.grants
      PROVE  /\ o \in Nat /\ memory.grants[o].agent \in Agents
             /\ memory.grants[o].expires \in Nat
             /\ ScopeOf(o) \in SUBSET Sources
  <2>1. o \in Nat
    BY <1>3 DEF BrokerInv, CounterInv
  <2>2. memory.grants[o] \in Grants
    BY <1>2
  <2>3. memory.grants[o].agent \in Agents /\ memory.grants[o].expires \in Nat
    BY <2>2 DEF Grants
  <2>. QED  BY <2>1, <2>3, BrokerAssumption DEF ScopeOf
<1>. QED  BY <1>1, <1>2, <1>3, <1>4

\* A command that answers at once.
LEMMA AnsweredKeeps ==
    ASSUME BrokerInv, up, NEW m, Answered(m), UNCHANGED <<issued, handoffs>>,
           AuthorityInv(m, evidence, issued.submissions, handoffs),
           DOMAIN m.grants \subseteq DOMAIN memory.grants
    PROVE  BrokerInv'
<1>1. memory' = m /\ UNCHANGED <<now, up, evidence, disk>>
  BY DEF Answered
<1>2. StoreInv'
  BY <1>1 DEF BrokerInv, StoreInv
<1>3. CounterInv'
  BY <1>1 DEF BrokerInv, CounterInv
<1>4. AuthorityInv(memory, evidence, issued.submissions, handoffs)'
  BY <1>1
<1>. QED  BY <1>2, <1>3, <1>4 DEF BrokerInv

\* The process ends.
LEMMA DieKeeps ==
    ASSUME BrokerInv, Die, UNCHANGED <<now, issued, handoffs>>,
           disk' \in Checkpoints, IsFiniteSet(disk'.edges), Restorable(disk')
    PROVE  BrokerInv'
<1>1. up' = FALSE /\ memory' = NoAuthority
  BY DEF Die
<1>2. AuthorityInv(memory', evidence', issued'.submissions, handoffs') /\ DOMAIN memory'.grants = {}
  BY <1>1, NoAuthorityHolds
<1>3. StoreInv'
  BY <1>1 DEF StoreInv
<1>4. CounterInv'
  BY <1>2 DEF BrokerInv, CounterInv
<1>. QED  BY <1>2, <1>3, <1>4 DEF BrokerInv

\* A command that changes the evidence.
LEMMA CommitKeeps ==
    ASSUME BrokerInv, up, NEW e, Advances(evidence, e), NEW m,
           AuthorityInv(m, evidence, issued.submissions, handoffs),
           DOMAIN m.grants \subseteq DOMAIN memory.grants,
           Commit(e, [m EXCEPT !.tickets = Touch(m.tickets, e)]),
           UNCHANGED <<now, issued, handoffs>>
    PROVE  BrokerInv'
<1>1. Sound(e)
  BY DEF Advances
<1>2. /\ Checkpoint(e) \in Checkpoints /\ IsFiniteSet(Checkpoint(e).edges)
      /\ Restorable(Checkpoint(e))
  BY <1>1, SoundRestores
<1>. DEFINE T == Touch(m.tickets, e)
            k == Parts(m.grants, T, m.proposals, m.staged)
<1>3. AuthorityInv(k, e, issued.submissions, handoffs)
  BY TouchKeeps
<1>4. [m EXCEPT !.tickets = T] = k
  <2>1. AuthorityTypes(m)
    BY DEF AuthorityInv
  <2>. HIDE DEF T
  <2>. QED  BY <2>1, PartsReplaced, Zenon
<1>5. k.grants = m.grants
  BY PartsOf
<1>. HIDE DEF k
<1>6. CASE disk' = Checkpoint(e) /\ evidence' = e /\ memory' = k /\ UNCHANGED up
  <2>1. StoreInv'
    BY <1>1, <1>2, <1>6 DEF StoreInv
  <2>2. CounterInv'
    BY <1>5, <1>6 DEF BrokerInv, CounterInv
  <2>. QED  BY <1>3, <1>6, <2>1, <2>2 DEF BrokerInv
<1>7. CASE disk' \in {disk, Checkpoint(e)} /\ Die
  BY <1>2, <1>7, DieKeeps DEF BrokerInv, StoreInv
<1>8. \/ disk' = Checkpoint(e) /\ evidence' = e /\ memory' = k /\ UNCHANGED up
      \/ disk' \in {disk, Checkpoint(e)} /\ Die
  BY <1>4 DEF Commit
<1>. QED  BY <1>6, <1>7, <1>8

\* A source is replaced, on the authority m.
LEMMA ReplaceKeeps ==
    ASSUME BrokerInv, up, NEW s \in Sources, NEW expected, NEW docs \in SUBSET Nodes,
           NEW provenance \in Provenances, NEW m,
           AuthorityInv(m, evidence, issued.submissions, handoffs),
           DOMAIN m.grants \subseteq DOMAIN memory.grants,
           Replace(s, expected, docs, provenance, m),
           UNCHANGED <<now, issued, handoffs>>
    PROVE  BrokerInv'
<1>. DEFINE e == ReplaceSource(evidence, s, docs, provenance)
<1>1. MayReplace(evidence, s, expected, docs, provenance, now)
  BY DEF Replace
<1>2. Sound(evidence)
  BY DEF BrokerInv, StoreInv
<1>3. Advances(evidence, e)
  BY <1>1, <1>2, ReplaceAdvances
<1>4. Commit(e, [m EXCEPT !.tickets = Touch(m.tickets, e)])
  BY DEF Replace
<1>. HIDE DEF e
<1>. QED  BY <1>3, <1>4, CommitKeeps

\* What the host declares is a provenance.
LEMMA DeclaredType ==
    ASSUME BrokerInv, up, NEW offer,
           offer \in [documents : SUBSET Nodes, inputs : SUBSET Sources, until : Nat]
    PROVE  Declared(offer) \in Provenances /\ offer.documents \in SUBSET Nodes
           /\ \A s \in Sources : Revision(evidence, s) \in Revisions
<1>1. evidence \in Evidence
  BY DEF BrokerInv, StoreInv, Sound
<1>2. ASSUME NEW s \in Sources PROVE Revision(evidence, s) \in Revisions
  BY <1>1, EvidenceTypes DEF Revision, Revisions
<1>. QED  BY <1>2 DEF Declared, Provenances, Dependencies

-----------------------------------------------------------------------------
(* Commands that only take away, and the process.                          *)

\* A broker that was never used.
LEMMA InitHolds == Init => BrokerInv
<1>. SUFFICES ASSUME Init PROVE BrokerInv
  OBVIOUS
<1>1. Sound(EmptyEvidence(1))
  BY EmptyIsSound
<1>2. /\ Checkpoint(EmptyEvidence(1)) \in Checkpoints
      /\ IsFiniteSet(Checkpoint(EmptyEvidence(1)).edges)
      /\ Restorable(Checkpoint(EmptyEvidence(1)))
  BY <1>1, SoundRestores
<1>3. StoreInv
  BY <1>1, <1>2 DEF Init, StoreInv
<1>4. DOMAIN memory.grants = {} /\ AuthorityInv(memory, evidence, issued.submissions, handoffs)
  BY NoAuthorityHolds DEF Init
<1>5. CounterInv
  BY <1>4, BrokerAssumption DEF Init, CounterInv
<1>. QED  BY <1>3, <1>4, <1>5 DEF BrokerInv

\* host_revoke(): everything of the agent's grant goes.
LEMMA HostRevokeKeeps ==
    ASSUME BrokerInv, NEW a \in Agents, HostRevoke(a)
    PROVE  BrokerInv'
<1>. DEFINE owners == {o \in DOMAIN memory.grants : memory.grants[o].agent = a}
            m == WithoutOwners(memory, owners)
<1>1. up /\ Answered(m) /\ UNCHANGED <<issued, handoffs>>
  BY DEF HostRevoke
<1>. HIDE DEF owners
<1>2. IsLess(m, memory) /\ DOMAIN m.grants = DOMAIN memory.grants \ owners
  BY BrokerTypes, WithoutOwnersIsLess
<1>. HIDE DEF m
<1>3. AuthorityInv(m, evidence, issued.submissions, handoffs)
  BY <1>2, BrokerTypes, LessAuthority
<1>. QED  BY <1>1, <1>2, <1>3, AnsweredKeeps

\* host_replace_source()
LEMMA HostReplaceSourceKeeps ==
    ASSUME BrokerInv, NEW s \in Sources, NEW offer \in Offers[s], HostReplaceSource(s, offer)
    PROVE  BrokerInv'
<1>1. offer \in [documents : SUBSET Nodes, inputs : SUBSET Sources, until : Nat]
  BY BrokerAssumption
<1>2. /\ up /\ Replace(s, Revision(evidence, s), offer.documents, Declared(offer), memory)
      /\ UNCHANGED <<now, issued, handoffs>>
  BY DEF HostReplaceSource
<1>3. Declared(offer) \in Provenances /\ offer.documents \in SUBSET Nodes
  BY <1>1, <1>2, DeclaredType
<1>4. AuthorityInv(memory, evidence, issued.submissions, handoffs)
  BY BrokerTypes
<1>. QED  BY <1>2, <1>3, <1>4, ReplaceKeeps

\* host_set_edge()
LEMMA HostSetEdgeKeeps ==
    ASSUME BrokerInv, NEW x \in Relations, NEW present \in BOOLEAN,
           HostSetEdge(x.from, x.to, x.kind, present)
    PROVE  BrokerInv'
<1>. DEFINE e == SetEdge(evidence, x.from, x.to, x.kind, present)
<1>1. /\ up /\ MaySetEdge(evidence, x.from, x.to, x.kind, present)
      /\ Commit(e, [memory EXCEPT !.tickets = Touch(memory.tickets, e)])
      /\ UNCHANGED <<now, issued, handoffs>>
  BY DEF HostSetEdge
<1>2. Sound(evidence)
  BY <1>1 DEF BrokerInv, StoreInv
<1>3. Advances(evidence, e)
  BY <1>1, <1>2, SetEdgeAdvances, BrokerAssumption
<1>. HIDE DEF e
<1>4. AuthorityInv(memory, evidence, issued.submissions, handoffs)
  BY BrokerTypes
<1>. QED  BY <1>1, <1>3, <1>4, CommitKeeps

\* host_abort_source_replace()
LEMMA AbortSourceReplaceKeeps ==
    ASSUME BrokerInv, NEW x \in memory.staged, AbortSourceReplace(x)
    PROVE  BrokerInv'
<1>. DEFINE X == memory.staged \ {x}
            m == Parts(memory.grants, memory.tickets, memory.proposals, X)
<1>1. up /\ Answered([memory EXCEPT !.staged = X]) /\ UNCHANGED <<issued, handoffs>>
  BY DEF AbortSourceReplace
<1>2. AuthorityInv(m, evidence, issued.submissions, handoffs)
  BY BrokerTypes, OneStagedLess
<1>. HIDE DEF X
<1>3. [memory EXCEPT !.staged = X] = m
  BY BrokerTypes, PartsReplaced, Zenon
<1>4. m.grants = memory.grants
  BY PartsOf
<1>. HIDE DEF m
<1>. QED  BY <1>1, <1>2, <1>3, <1>4, AnsweredKeeps

\* forget_proposal()
LEMMA ForgetProposalKeeps ==
    ASSUME BrokerInv, NEW p \in memory.proposals, ForgetProposal(p)
    PROVE  BrokerInv'
<1>. DEFINE P == memory.proposals \ {p}
            m == Parts(memory.grants, memory.tickets, P, memory.staged)
<1>1. up /\ Answered([memory EXCEPT !.proposals = P]) /\ UNCHANGED <<issued, handoffs>>
  BY DEF ForgetProposal
<1>2. AuthorityInv(m, evidence, issued.submissions, handoffs)
  BY BrokerTypes, OneProposalLess
<1>. HIDE DEF P
<1>3. [memory EXCEPT !.proposals = P] = m
  BY BrokerTypes, PartsReplaced, Zenon
<1>4. m.grants = memory.grants
  BY PartsOf
<1>. HIDE DEF m
<1>. QED  BY <1>1, <1>2, <1>3, <1>4, AnsweredKeeps

\* forget_ticket()
LEMMA ForgetTicketKeeps ==
    ASSUME BrokerInv, NEW t \in memory.tickets, ForgetTicket(t)
    PROVE  BrokerInv'
<1>. DEFINE T == memory.tickets \ {t}
            m == Parts(memory.grants, T, memory.proposals, memory.staged)
<1>1. up /\ Answered([memory EXCEPT !.tickets = T]) /\ UNCHANGED <<issued, handoffs>>
  BY DEF ForgetTicket
<1>2. AuthorityInv(m, evidence, issued.submissions, handoffs)
  BY BrokerTypes, OneTicketLess
<1>. HIDE DEF T
<1>3. [memory EXCEPT !.tickets = T] = m
  BY BrokerTypes, PartsReplaced, Zenon
<1>4. m.grants = memory.grants
  BY PartsOf
<1>. HIDE DEF m
<1>. QED  BY <1>1, <1>2, <1>3, <1>4, AnsweredKeeps

\* What a command has when it has pruned.
LEMMA PrunedHolds ==
    ASSUME BrokerInv
    PROVE  /\ AuthorityInv(Pruned, evidence, issued.submissions, handoffs)
           /\ AuthorityTypes(Pruned) /\ EndsWithGrant(Pruned)
           /\ DOMAIN Pruned.grants = {o \in DOMAIN memory.grants : Live(o)}
           /\ \A o \in DOMAIN Pruned.grants : Pruned.grants[o] = memory.grants[o]
           /\ Pruned.staged \subseteq memory.staged
<1>1. AuthorityInv(memory, evidence, issued.submissions, handoffs)
  BY BrokerTypes
<1>. QED  BY <1>1, PrunedIsLess DEF AuthorityInv

\* A refused command leaves what prune() leaves.
LEMMA RefusedCallKeeps == BrokerInv /\ RefusedCall => BrokerInv'
<1>. SUFFICES ASSUME BrokerInv, RefusedCall PROVE BrokerInv'
  OBVIOUS
<1>1. up /\ Answered(Pruned) /\ UNCHANGED <<issued, handoffs>>
  BY DEF RefusedCall
<1>. QED  BY <1>1, PrunedHolds, AnsweredKeeps

\* The process ends between two commands.
LEMMA CrashKeeps == BrokerInv /\ Crash => BrokerInv'
<1>. SUFFICES ASSUME BrokerInv, Crash PROVE BrokerInv'
  OBVIOUS
<1>. QED  BY DieKeeps DEF Crash, BrokerInv, StoreInv

\* Store::open(): the restored evidence is sound, and nobody holds anything.
LEMMA RestartKeeps == BrokerInv /\ Restart => BrokerInv'
<1>. SUFFICES ASSUME BrokerInv, Restart PROVE BrokerInv'
  OBVIOUS
<1>. DEFINE e == Restored(disk, issued.epoch + 1)
<1>1. /\ ~up /\ Restorable(disk) /\ UNCHANGED <<now, memory, handoffs>>
      /\ issued' = [issued EXCEPT !.epoch = issued.epoch + 1]
      /\ \/ disk' = Checkpoint(e) /\ evidence' = e /\ up' = TRUE
         \/ disk' \in {disk, Checkpoint(e)} /\ UNCHANGED <<evidence, up>>
  BY DEF Restart
<1>2. /\ disk \in Checkpoints /\ IsFiniteSet(disk.edges) /\ memory = NoAuthority
      /\ issued \in [epoch : Nat, grants : Nat, submissions : Nat]
  BY <1>1 DEF BrokerInv, StoreInv, CounterInv
<1>3. issued.epoch + 1 \in Nat
  BY <1>2
<1>4. Sound(e)
  BY <1>1, <1>2, <1>3, RestoredIsSound
<1>5. /\ Checkpoint(e) \in Checkpoints /\ IsFiniteSet(Checkpoint(e).edges)
      /\ Restorable(Checkpoint(e))
  BY <1>4, SoundRestores
<1>. HIDE DEF e
<1>6. StoreInv'
  <2>1. CASE disk' = Checkpoint(e) /\ evidence' = e /\ up' = TRUE
    BY <1>4, <1>5, <2>1 DEF StoreInv
  <2>2. CASE disk' \in {disk, Checkpoint(e)} /\ UNCHANGED <<evidence, up>>
    <3>1. up' = FALSE /\ memory' = NoAuthority
      BY <1>1, <1>2, <2>2 DEF BrokerInv, StoreInv
    <3>2. disk' \in Checkpoints /\ IsFiniteSet(disk'.edges) /\ Restorable(disk')
      BY <1>1, <1>2, <1>5, <2>2
    <3>. QED  BY <3>1, <3>2 DEF StoreInv
  <2>. QED  BY <1>1, <2>1, <2>2
<1>7. /\ issued' \in [epoch : Nat, grants : Nat, submissions : Nat]
      /\ issued'.grants = issued.grants /\ issued'.submissions = issued.submissions
  BY <1>1, <1>2, <1>3
<1>8. CounterInv'
  BY <1>1, <1>7 DEF BrokerInv, CounterInv
<1>9. AuthorityInv(memory', evidence', issued'.submissions, handoffs')
  BY <1>1, <1>2, NoAuthorityHolds
<1>. QED  BY <1>6, <1>8, <1>9 DEF BrokerInv

\* Time passes; what expires by it stays until it is pruned.
LEMMA TickKeeps == BrokerInv /\ Tick => BrokerInv'
<1>. SUFFICES ASSUME BrokerInv, Tick PROVE BrokerInv'
  OBVIOUS
<1>1. now' = now + 1 /\ UNCHANGED <<up, evidence, memory, disk, issued, handoffs>>
  BY DEF Tick
<1>2. StoreInv' /\ CounterInv'
  BY <1>1 DEF BrokerInv, StoreInv, CounterInv
<1>3. AuthorityInv(memory', evidence', issued'.submissions, handoffs')
  BY <1>1 DEF BrokerInv
<1>. QED  BY <1>2, <1>3 DEF BrokerInv

-----------------------------------------------------------------------------
(* Grants and staged replacements.                                         *)

\* host_grant(): the secret is a new one, and the agent's grant before is gone.
LEMMA HostGrantKeeps ==
    ASSUME BrokerInv, NEW a \in Agents, HostGrant(a)
    PROVE  BrokerInv'
<1>. DEFINE previous == {o \in DOMAIN Pruned.grants : Pruned.grants[o].agent = a}
            secret == issued.grants + 1
            n == WithoutOwners(Pruned, previous)
            grant == [agent |-> a, expires |-> now + Lease]
            G == [o \in DOMAIN n.grants \cup {secret} |->
                    IF o = secret THEN grant ELSE n.grants[o]]
            k == Parts(G, n.tickets, n.proposals, n.staged)
<1>1. /\ up /\ issued' = [issued EXCEPT !.grants = secret]
      /\ Answered([n EXCEPT !.grants = G]) /\ UNCHANGED handoffs
  BY DEF HostGrant
<1>2. /\ now \in Nat /\ issued \in [epoch : Nat, grants : Nat, submissions : Nat]
      /\ DOMAIN memory.grants \subseteq 1 .. issued.grants
  BY DEF BrokerInv, CounterInv
<1>3. IsLess(n, Pruned) /\ DOMAIN n.grants = DOMAIN Pruned.grants \ previous
  <2>. HIDE DEF previous
  <2>. QED  BY PrunedHolds, WithoutOwnersIsLess
<1>4. DOMAIN n.grants \subseteq DOMAIN memory.grants
  BY <1>3, PrunedHolds
<1>5. \A o \in DOMAIN n.grants : n.grants[o] = Pruned.grants[o]
  BY <1>3 DEF IsLess
<1>6. \A o \in DOMAIN n.grants : n.grants[o].agent # a
  BY <1>3, <1>5
<1>. HIDE DEF n, previous
<1>7. AuthorityInv(n, evidence, issued.submissions, handoffs)
  BY <1>3, PrunedHolds, LessAuthority
<1>8. grant \in Grants /\ grant.agent = a
  <2>1. now + Lease \in Nat
    BY <1>2, BrokerAssumption
  <2>. QED  BY <2>1 DEF Grants
<1>9. secret \notin DOMAIN n.grants
  BY <1>2, <1>4
<1>10. secret \in Nat /\ secret \in 1 .. secret /\ 1 .. issued.grants \subseteq 1 .. secret
  BY <1>2
<1>. HIDE DEF grant, secret
<1>11. AuthorityInv(k, evidence, issued.submissions, handoffs)
  BY <1>6, <1>7, <1>8, <1>9, MoreGrants
<1>12. DOMAIN G \subseteq 1 .. secret
  BY <1>2, <1>4, <1>10
<1>. HIDE DEF G
<1>13. [n EXCEPT !.grants = G] = k
  <2>1. AuthorityTypes(n)
    BY <1>7 DEF AuthorityInv
  <2>. QED  BY <2>1, PartsReplaced, Zenon
<1>14. k.grants = G
  BY PartsOf
<1>. HIDE DEF k
<1>15. memory' = k /\ UNCHANGED <<now, up, evidence, disk>>
  BY <1>1, <1>13 DEF Answered
<1>16. /\ issued' \in [epoch : Nat, grants : Nat, submissions : Nat]
       /\ issued'.grants = secret /\ issued'.submissions = issued.submissions
  BY <1>1, <1>2, <1>10
<1>17. StoreInv'
  BY <1>1, <1>15 DEF BrokerInv, StoreInv
<1>18. CounterInv'
  BY <1>1, <1>12, <1>14, <1>15, <1>16 DEF BrokerInv, CounterInv
<1>19. AuthorityInv(memory', evidence', issued'.submissions, handoffs')
  BY <1>1, <1>11, <1>15, <1>16
<1>. QED  BY <1>17, <1>18, <1>19 DEF BrokerInv

\* host_begin_source_replace()
LEMMA BeginSourceReplaceKeeps ==
    ASSUME BrokerInv, NEW s \in Sources, NEW offer \in Drafts[s], BeginSourceReplace(s, offer)
    PROVE  BrokerInv'
<1>. DEFINE provenance == Declared(offer)
            x == [source |-> s, expected |-> Revision(evidence, s), provenance |-> provenance,
                  documents |-> {}, expires |-> now + StagingLease]
            X == Pruned.staged \cup {x}
            k == Parts(Pruned.grants, Pruned.tickets, Pruned.proposals, X)
<1>1. /\ up /\ TotalBytes(Pruned) + StagedCharge(x) <= MaxRetained
      /\ Answered([Pruned EXCEPT !.staged = X]) /\ UNCHANGED <<issued, handoffs>>
  BY DEF BeginSourceReplace
<1>2. offer \in [documents : SUBSET Nodes, inputs : SUBSET Sources, until : Nat]
  BY BrokerAssumption
<1>3. provenance \in Provenances /\ Revision(evidence, s) \in Revisions
  BY <1>1, <1>2, DeclaredType
<1>. HIDE DEF provenance
<1>4. now + StagingLease \in Nat
  BY BrokerTypes, BrokerAssumption
<1>5. x \in StagedType
  BY <1>3, <1>4 DEF StagedType
<1>. HIDE DEF x
<1>6. AuthorityInv(k, evidence, issued.submissions, handoffs)
  BY <1>1, <1>5, PrunedHolds, MoreStaged
<1>. HIDE DEF X
<1>7. [Pruned EXCEPT !.staged = X] = k
  BY PrunedHolds, PartsReplaced, Zenon
<1>8. k.grants = Pruned.grants
  BY PartsOf
<1>. HIDE DEF k
<1>9. DOMAIN k.grants \subseteq DOMAIN memory.grants
  BY <1>8, PrunedHolds
<1>. QED  BY <1>1, <1>6, <1>7, <1>9, AnsweredKeeps

\* host_append_source_documents(): the batch is charged once.
LEMMA AppendSourceDocumentsKeeps ==
    ASSUME BrokerInv, NEW x \in memory.staged, NEW docs \in SUBSET Nodes,
           AppendSourceDocuments(x, docs)
    PROVE  BrokerInv'
<1>. DEFINE y == [x EXCEPT !.documents = x.documents \cup docs]
            l == Parts(Pruned.grants, Pruned.tickets, Pruned.proposals, Pruned.staged \ {x})
            X == (Pruned.staged \ {x}) \cup {y}
            k == Parts(Pruned.grants, Pruned.tickets, Pruned.proposals, X)
<1>1. /\ up /\ x \in Pruned.staged /\ docs \cap x.documents = {}
      /\ TotalBytes(Pruned) + Cardinality(docs) <= MaxRetained
      /\ Answered([Pruned EXCEPT !.staged = X]) /\ UNCHANGED <<issued, handoffs>>
  BY DEF AppendSourceDocuments
<1>2. x \in StagedType
  BY BrokerTypes, AuthorityRecord
<1>3. y \in StagedType /\ y.documents = x.documents \cup docs
  BY <1>2 DEF StagedType
<1>. HIDE DEF y
<1>4. StagedCharge(x) \in Nat /\ IsFiniteSet(x.documents) /\ IsFiniteSet(docs)
  BY <1>2, StagedChargeType, FS_Subset, EvidenceAssumption
<1>5. StagedCharge(y) = StagedCharge(x) + Cardinality(docs)
  <2>1. Cardinality(x.documents \cup docs) = Cardinality(x.documents) + Cardinality(docs)
    <3>1. Cardinality(x.documents \cap docs) = 0
      <4>1. x.documents \cap docs = {}
        BY <1>1
      <4>. QED  BY <4>1, FS_EmptySet
    <3>2. Cardinality(x.documents \cup docs)
             = Cardinality(x.documents) + Cardinality(docs) - Cardinality(x.documents \cap docs)
      BY <1>4, FS_Union
    <3>3. Cardinality(x.documents) \in Nat /\ Cardinality(docs) \in Nat
      BY <1>4, FS_CardinalityType
    <3>. QED  BY <3>1, <3>2, <3>3
  <2>2. Cardinality(x.documents) \in Nat /\ Cardinality(docs) \in Nat
    BY <1>4, FS_CardinalityType
  <2>3. StagedCharge(y) = 1 + Cardinality(x.documents \cup docs)
    BY <1>3 DEF StagedCharge
  <2>4. StagedCharge(x) = 1 + Cardinality(x.documents)
    BY DEF StagedCharge
  <2>. QED  BY <2>1, <2>2, <2>3, <2>4
<1>6. /\ AuthorityInv(l, evidence, issued.submissions, handoffs)
      /\ TotalBytes(l) = TotalBytes(Pruned) - StagedCharge(x)
  BY <1>1, PrunedHolds, OneStagedLess
<1>7. l.grants = Pruned.grants /\ l.tickets = Pruned.tickets /\ l.proposals = Pruned.proposals
      /\ l.staged = Pruned.staged \ {x}
  BY PartsOf
<1>. HIDE DEF l
<1>8. TotalBytes(l) + StagedCharge(y) <= MaxRetained
  <2>1. TotalBytes(Pruned) \in Nat
    BY PrunedHolds, ChargeFacts
  <2>2. Cardinality(docs) \in Nat
    BY <1>4, FS_CardinalityType
  <2>. QED  BY <1>1, <1>4, <1>5, <1>6, <2>1, <2>2
<1>9. AuthorityInv(k, evidence, issued.submissions, handoffs)
  <2>1. AuthorityInv(Parts(l.grants, l.tickets, l.proposals, l.staged \cup {y}),
                     evidence, issued.submissions, handoffs)
    BY <1>3, <1>6, <1>8, MoreStaged
  <2>. QED  BY <1>7, <2>1
<1>. HIDE DEF X
<1>10. [Pruned EXCEPT !.staged = X] = k
  BY PrunedHolds, PartsReplaced, Zenon
<1>11. k.grants = Pruned.grants
  BY PartsOf
<1>. HIDE DEF k
<1>12. DOMAIN k.grants \subseteq DOMAIN memory.grants
  BY <1>11, PrunedHolds
<1>. QED  BY <1>1, <1>9, <1>10, <1>12, AnsweredKeeps

\* host_commit_source_replace(), whether it replaces the source or not.
LEMMA CommitSourceReplaceKeeps ==
    ASSUME BrokerInv, NEW x \in memory.staged, CommitSourceReplace(x)
    PROVE  BrokerInv'
<1>. DEFINE X == Pruned.staged \ {x}
            n == [Pruned EXCEPT !.staged = X]
            k == Parts(Pruned.grants, Pruned.tickets, Pruned.proposals, X)
<1>1. /\ up /\ x \in Pruned.staged /\ UNCHANGED <<now, issued, handoffs>>
      /\ \/ Replace(x.source, x.expected, x.documents, x.provenance, n)
         \/ memory' = n /\ UNCHANGED <<up, evidence, disk>>
  BY DEF CommitSourceReplace
<1>2. x \in StagedType
  BY BrokerTypes, AuthorityRecord
<1>3. x.source \in Sources /\ x.documents \in SUBSET Nodes /\ x.provenance \in Provenances
  BY <1>2 DEF StagedType
<1>4. AuthorityInv(k, evidence, issued.submissions, handoffs)
  BY <1>1, PrunedHolds, OneStagedLess
<1>. HIDE DEF X
<1>5. n = k
  BY PrunedHolds, PartsReplaced, Zenon
<1>6. k.grants = Pruned.grants
  BY PartsOf
<1>. HIDE DEF k, n
<1>7. DOMAIN k.grants \subseteq DOMAIN memory.grants
  BY <1>6, PrunedHolds
<1>8. CASE Replace(x.source, x.expected, x.documents, x.provenance, n)
  BY <1>1, <1>3, <1>4, <1>5, <1>7, <1>8, ReplaceKeeps
<1>9. CASE memory' = n /\ UNCHANGED <<up, evidence, disk>>
  <2>1. Answered(k)
    BY <1>1, <1>5, <1>9 DEF Answered
  <2>. QED  BY <1>1, <1>4, <1>7, <2>1, AnsweredKeeps
<1>. QED  BY <1>1, <1>8, <1>9

-----------------------------------------------------------------------------
(* Proposals and compiled contexts.                                        *)

\* The earlier of two deadlines.
LEMMA EarlierFacts ==
    ASSUME NEW a \in Nat, NEW b \in Nat
    PROVE  Earlier(a, b) \in Nat /\ Earlier(a, b) <= b
BY DEF Earlier

\* propose_source()
LEMMA ProposeSourceKeeps ==
    ASSUME BrokerInv, NEW o \in DOMAIN memory.grants, NEW s \in Sources,
           NEW docs \in SUBSET Nodes, ProposeSource(o, s, docs)
    PROVE  BrokerInv'
<1>. DEFINE until == Earlier(now + ProposalLifetime, memory.grants[o].expires)
            p == [owner |-> o, source |-> s, expected |-> Revision(evidence, s),
                  documents |-> docs, outcome |-> "pending", expires |-> until]
            P == Pruned.proposals \cup {p}
            k == Parts(Pruned.grants, Pruned.tickets, P, Pruned.staged)
<1>1. /\ up /\ Live(o) /\ Retains(Pruned, o, 0, 1)
      /\ Answered([Pruned EXCEPT !.proposals = P]) /\ UNCHANGED <<issued, handoffs>>
  BY DEF ProposeSource
<1>2. o \in Nat /\ now \in Nat /\ memory.grants[o].expires \in Nat
  BY BrokerTypes
<1>3. until \in Nat /\ until <= memory.grants[o].expires
  <2>1. now + ProposalLifetime \in Nat
    BY <1>2, BrokerAssumption
  <2>. QED  BY <1>2, <2>1, EarlierFacts
<1>. HIDE DEF until
<1>4. Revision(evidence, s) \in Revisions
  <2>1. evidence \in Evidence
    BY <1>1 DEF BrokerInv, StoreInv, Sound
  <2>. QED  BY <2>1, EvidenceTypes DEF Revision, Revisions
<1>5. p \in Proposals /\ p.owner = o /\ p.expires = until
  BY <1>2, <1>3, <1>4 DEF Proposals
<1>. HIDE DEF p
<1>6. o \in DOMAIN Pruned.grants /\ Pruned.grants[o] = memory.grants[o]
  BY <1>1, PrunedHolds
<1>7. TotalBytes(Pruned) + 1 <= MaxRetained /\ OwnBytes(Pruned, o) + 1 <= MaxOwnRetained
  <2>1. /\ TotalBytes(Pruned) - 0 + 1 <= MaxRetained
        /\ OwnBytes(Pruned, o) - 0 + 1 <= MaxOwnRetained
    BY <1>1 DEF Retains
  <2>2. TotalBytes(Pruned) \in Nat
    BY PrunedHolds, ChargeFacts
  <2>3. OwnBytes(Pruned, o) \in Nat
    BY PrunedHolds, ChargeFacts
  <2>. QED  BY <2>1, <2>2, <2>3
<1>8. AuthorityInv(k, evidence, issued.submissions, handoffs)
  BY <1>3, <1>5, <1>6, <1>7, PrunedHolds, MoreProposals
<1>. HIDE DEF P
<1>9. [Pruned EXCEPT !.proposals = P] = k
  BY PrunedHolds, PartsReplaced, Zenon
<1>10. k.grants = Pruned.grants
  BY PartsOf
<1>. HIDE DEF k
<1>11. DOMAIN k.grants \subseteq DOMAIN memory.grants
  BY <1>10, PrunedHolds
<1>. QED  BY <1>1, <1>8, <1>9, <1>11, AnsweredKeeps

\* A decided proposal stays a proposal of the same grant, with the same deadline.
LEMMA DecidedHolds ==
    ASSUME BrokerInv, NEW p \in memory.proposals, NEW outcome \in {"admitted", "rejected"}
    PROVE  LET m == [memory EXCEPT !.proposals = Decided(p, outcome)]
           IN  /\ AuthorityInv(m, evidence, issued.submissions, handoffs)
               /\ m.grants = memory.grants
<1>. DEFINE q == [p EXCEPT !.documents = {}, !.outcome = outcome]
            l == Parts(memory.grants, memory.tickets, memory.proposals \ {p}, memory.staged)
            P == Decided(p, outcome)
            m == [memory EXCEPT !.proposals = P]
            k == Parts(memory.grants, memory.tickets, P, memory.staged)
<1>1. p \in Proposals
  BY BrokerTypes, AuthorityRecord
<1>2. q \in Proposals /\ q.owner = p.owner /\ q.expires = p.expires
  <2>. DEFINE r == [p EXCEPT !.documents = {}]
  <2>1. r \in Proposals /\ r.owner = p.owner /\ r.expires = p.expires
    BY <1>1 DEF Proposals
  <2>2. q = [r EXCEPT !.outcome = outcome]
    BY <1>1 DEF Proposals
  <2>. HIDE DEF r, q
  <2>. QED  BY <2>1, <2>2 DEF Proposals
<1>3. P = (memory.proposals \ {p}) \cup {q}
  BY DEF Decided
<1>4. /\ AuthorityInv(l, evidence, issued.submissions, handoffs)
      /\ TotalBytes(l) = TotalBytes(memory) - 1
      /\ OwnBytes(l, p.owner) = OwnBytes(memory, p.owner) - 1
  BY BrokerTypes, OneProposalLess
<1>5. /\ l.grants = memory.grants /\ l.tickets = memory.tickets
      /\ l.proposals = memory.proposals \ {p} /\ l.staged = memory.staged
  BY PartsOf
<1>. HIDE DEF l, q, P
<1>6. p.owner \in DOMAIN memory.grants /\ p.expires <= memory.grants[p.owner].expires
  BY BrokerTypes DEF EndsWithGrant
<1>7. TotalBytes(memory) <= MaxRetained /\ OwnBytes(memory, p.owner) <= MaxOwnRetained
  BY <1>6, BrokerTypes DEF WithinBounds
<1>8. TotalBytes(l) + 1 <= MaxRetained /\ OwnBytes(l, p.owner) + 1 <= MaxOwnRetained
  <2>1. TotalBytes(memory) \in Nat
    BY BrokerTypes, ChargeFacts
  <2>2. OwnBytes(memory, p.owner) \in Nat
    BY BrokerTypes, ChargeFacts
  <2>. QED  BY <1>4, <1>7, <2>1, <2>2
<1>9. AuthorityInv(Parts(l.grants, l.tickets, l.proposals \cup {q}, l.staged),
                   evidence, issued.submissions, handoffs)
  BY <1>2, <1>4, <1>5, <1>6, <1>8, MoreProposals
<1>10. AuthorityInv(k, evidence, issued.submissions, handoffs)
  BY <1>3, <1>5, <1>9
<1>11. m = k
  BY BrokerTypes, PartsReplaced, Zenon
<1>12. k.grants = memory.grants
  BY PartsOf
<1>. HIDE DEF k, m
<1>13. AuthorityInv(m, evidence, issued.submissions, handoffs) /\ m.grants = memory.grants
  BY <1>10, <1>11, <1>12
<1>. QED  BY <1>13 DEF m, P

\* host_admit_proposal()
LEMMA AdmitProposalKeeps ==
    ASSUME BrokerInv, NEW p \in memory.proposals, NEW offer \in Offers[p.source],
           AdmitProposal(p, offer)
    PROVE  BrokerInv'
<1>. DEFINE m == [memory EXCEPT !.proposals = Decided(p, "admitted")]
<1>1. /\ up /\ UNCHANGED <<now, issued, handoffs>>
      /\ Replace(p.source, p.expected, p.documents, Declared(offer), m)
  BY DEF AdmitProposal
<1>2. p \in Proposals
  BY BrokerTypes, AuthorityRecord
<1>3. p.source \in Sources /\ p.documents \in SUBSET Nodes
  BY <1>2 DEF Proposals
<1>4. offer \in [documents : SUBSET Nodes, inputs : SUBSET Sources, until : Nat]
  BY <1>3, BrokerAssumption
<1>5. Declared(offer) \in Provenances
  BY <1>1, <1>4, DeclaredType
<1>6. AuthorityInv(m, evidence, issued.submissions, handoffs) /\ m.grants = memory.grants
  BY DecidedHolds
<1>. HIDE DEF m
<1>. QED  BY <1>1, <1>3, <1>5, <1>6, ReplaceKeeps

\* host_reject_proposal()
LEMMA RejectProposalKeeps ==
    ASSUME BrokerInv, NEW p \in memory.proposals, RejectProposal(p)
    PROVE  BrokerInv'
<1>. DEFINE m == [memory EXCEPT !.proposals = Decided(p, "rejected")]
<1>1. up /\ Answered(m) /\ UNCHANGED <<issued, handoffs>>
  BY DEF RejectProposal
<1>2. AuthorityInv(m, evidence, issued.submissions, handoffs) /\ m.grants = memory.grants
  BY DecidedHolds
<1>. HIDE DEF m
<1>. QED  BY <1>1, <1>2, AnsweredKeeps

\* compile(): a new ticket follows the evidence it was compiled from.
LEMMA CompileKeeps ==
    ASSUME BrokerInv, NEW o \in DOMAIN memory.grants, Compile(o)
    PROVE  BrokerInv'
<1>. DEFINE scope == ScopeOf(o)
            versions == ScopeVersions(evidence, scope)
            context == ContextOf(evidence, scope)
            lineage == RestsOn(evidence, scope)
            until == Earlier(now + TicketLifetime, memory.grants[o].expires)
            u == [owner |-> o, versions |-> versions, context |-> context, expires |-> until,
                  submission |-> 0, review |-> NoReview, taken |-> FALSE,
                  lineage |-> lineage, touched |-> FALSE]
            T == Pruned.tickets \cup {u}
            k == Parts(Pruned.grants, T, Pruned.proposals, Pruned.staged)
<1>1. /\ up /\ Live(o) /\ Retains(Pruned, o, 0, TicketCharge(u))
      /\ Answered([Pruned EXCEPT !.tickets = T]) /\ UNCHANGED <<issued, handoffs>>
  BY DEF Compile
<1>2. /\ o \in Nat /\ now \in Nat /\ memory.grants[o].expires \in Nat
      /\ scope \in SUBSET Sources /\ scope = Scope[memory.grants[o].agent]
      /\ issued.submissions \in Nat
  BY BrokerTypes DEF ScopeOf
<1>. HIDE DEF scope
<1>3. until \in Nat /\ until <= memory.grants[o].expires
  <2>1. now + TicketLifetime \in Nat
    BY <1>2, BrokerAssumption
  <2>. QED  BY <1>2, <2>1, EarlierFacts
<1>. HIDE DEF until
<1>4. evidence \in Evidence /\ Closed(evidence, Sources)
  <2>1. evidence \in Evidence
    BY <1>1 DEF BrokerInv, StoreInv, Sound
  <2>. QED  BY <2>1, EvidenceTypes
<1>5. /\ versions \in [scope -> Revisions]
      /\ \A s \in scope : /\ versions[s].epoch = evidence.epoch
                          /\ versions[s].version <= evidence.sources[s].version
  BY <1>2, <1>4, EvidenceTypes DEF ScopeVersions, Revision, Revisions
<1>6. context \in Contexts
  BY <1>4, EvidenceTypes DEF ContextOf, Contexts
<1>7. lineage \in SUBSET Sources
  <2>1. Lineage(evidence, {s \in scope : Present(evidence, s)}) \subseteq Sources
    BY <1>2, <1>4, LineageIsLeast
  <2>. QED  BY <1>2, <2>1 DEF RestsOn
<1>8. DOMAIN versions = scope
  BY <1>5
<1>9. Follows(u, evidence, scope)
  BY <1>5 DEF Follows
<1>. HIDE DEF versions, context, lineage
<1>10. IsTicket(u) /\ u.owner = o /\ u.expires = until /\ u.submission = 0 /\ u.review = NoReview
  BY <1>2, <1>3, <1>5, <1>6, <1>7, <1>8 DEF IsTicket
<1>. HIDE DEF u
<1>11. o \in DOMAIN Pruned.grants /\ Pruned.grants[o] = memory.grants[o]
  BY <1>1, PrunedHolds
<1>12. /\ TotalBytes(Pruned) + TicketCharge(u) <= MaxRetained
       /\ OwnBytes(Pruned, o) + TicketCharge(u) <= MaxOwnRetained
  <2>1. /\ TotalBytes(Pruned) - 0 + TicketCharge(u) <= MaxRetained
        /\ OwnBytes(Pruned, o) - 0 + TicketCharge(u) <= MaxOwnRetained
    BY <1>1 DEF Retains
  <2>2. TotalBytes(Pruned) \in Nat
    BY PrunedHolds, ChargeFacts
  <2>3. OwnBytes(Pruned, o) \in Nat
    BY PrunedHolds, ChargeFacts
  <2>4. TicketCharge(u) \in Nat
    BY TicketChargeType
  <2>. QED  BY <2>1, <2>2, <2>3, <2>4
<1>13. AuthorityInv(k, evidence, issued.submissions, handoffs)
  <2>1. u.submission \in 0 .. issued.submissions /\ u.review = NoReview /\ u.submission = 0
    BY <1>2, <1>10
  <2>2. Follows(u, evidence, Scope[Pruned.grants[u.owner].agent])
    BY <1>2, <1>9, <1>10, <1>11
  <2>. QED  BY <1>3, <1>10, <1>11, <1>12, <2>1, <2>2, PrunedHolds, MoreTickets
<1>. HIDE DEF T
<1>14. [Pruned EXCEPT !.tickets = T] = k
  BY PrunedHolds, PartsReplaced, Zenon
<1>15. k.grants = Pruned.grants
  BY PartsOf
<1>. HIDE DEF k
<1>16. DOMAIN k.grants \subseteq DOMAIN memory.grants
  BY <1>15, PrunedHolds
<1>. QED  BY <1>1, <1>13, <1>14, <1>16, AnsweredKeeps

-----------------------------------------------------------------------------
(* Answers and executions.                                                 *)

\* A ticket becomes another of the same grant, context and history, within the
\* limits that check_retention() asks for.
LEMMA InsteadHolds ==
    ASSUME BrokerInv, NEW t \in memory.tickets, NEW u, IsTicket(u),
           u.owner = t.owner, u.expires = t.expires, u.versions = t.versions,
           u.lineage = t.lineage, u.touched = t.touched,
           TotalBytes(memory) - TicketCharge(t) + TicketCharge(u) <= MaxRetained,
           OwnBytes(memory, t.owner) - TicketCharge(t) + TicketCharge(u) <= MaxOwnRetained,
           NEW n, NEW h, HandedOnce(Parts(memory.grants, memory.tickets \ {t}, memory.proposals,
                                          memory.staged), n, h),
           u.submission \in 0 .. n, u.review # NoReview => u.submission # 0,
           u.submission # 0 /\ ~u.taken => h[u.submission] = 0,
           u.submission # 0 => \A v \in memory.tickets \ {t} : v.submission # u.submission
    PROVE  AuthorityInv(Instead(t, u), evidence, n, h) /\ Instead(t, u).grants = memory.grants
<1>. DEFINE T == (memory.tickets \ {t}) \cup {u}
            l == Parts(memory.grants, memory.tickets \ {t}, memory.proposals, memory.staged)
            k == Parts(memory.grants, T, memory.proposals, memory.staged)
<1>1. /\ AuthorityInv(l, evidence, issued.submissions, handoffs)
      /\ TotalBytes(l) = TotalBytes(memory) - TicketCharge(t)
      /\ OwnBytes(l, t.owner) = OwnBytes(memory, t.owner) - TicketCharge(t)
  BY BrokerTypes, OneTicketLess
<1>2. /\ l.grants = memory.grants /\ l.tickets = memory.tickets \ {t}
      /\ l.proposals = memory.proposals /\ l.staged = memory.staged
  BY PartsOf
<1>. HIDE DEF l
<1>3. AuthorityInv(l, evidence, n, h)
  BY <1>1 DEF AuthorityInv, l
<1>4. t.owner \in DOMAIN memory.grants /\ t.expires <= memory.grants[t.owner].expires
  BY BrokerTypes DEF EndsWithGrant
<1>5. Follows(u, evidence, Scope[memory.grants[u.owner].agent])
  <2>1. Follows(t, evidence, Scope[memory.grants[t.owner].agent])
    BY BrokerTypes DEF AuthorityInv, TicketsFollow
  <2>. QED  BY <2>1 DEF Follows
<1>6. /\ TotalBytes(l) + TicketCharge(u) <= MaxRetained
      /\ OwnBytes(l, u.owner) + TicketCharge(u) <= MaxOwnRetained
  BY <1>1
<1>7. AuthorityInv(Parts(l.grants, l.tickets \cup {u}, l.proposals, l.staged), evidence, n, h)
  BY <1>2, <1>3, <1>4, <1>5, <1>6, MoreTickets
<1>8. AuthorityInv(k, evidence, n, h)
  BY <1>2, <1>7
<1>9. Instead(t, u) = [memory EXCEPT !.tickets = T]
  BY DEF Instead
<1>. HIDE DEF T
<1>10. [memory EXCEPT !.tickets = T] = k
  BY BrokerTypes, PartsReplaced, Zenon
<1>11. k.grants = memory.grants
  BY PartsOf
<1>. QED  BY <1>8, <1>9, <1>10, <1>11

\* What is known of a ticket.
LEMMA TicketFacts ==
    ASSUME BrokerInv, NEW t \in memory.tickets
    PROVE  /\ IsTicket(t) /\ t.submission \in 0 .. issued.submissions
           /\ t.review # NoReview => t.submission # 0
           /\ t.submission # 0 /\ ~t.taken => handoffs[t.submission] = 0
           /\ \A v \in memory.tickets : v.submission \in 0 .. issued.submissions
           /\ \A v \in memory.tickets \ {t} :
                 t.submission # 0 => v.submission # t.submission
           /\ HandedOnce(memory, issued.submissions, handoffs)
           /\ issued.submissions \in Nat /\ issued.submissions <= MaxIssued
           /\ handoffs \in [1 .. MaxIssued -> Nat]
<1>1. IsTicket(t)
  BY BrokerTypes, AuthorityRecord
<1>2. HandedOnce(memory, issued.submissions, handoffs)
  BY BrokerTypes DEF AuthorityInv
<1>3. \A v \in memory.tickets \ {t} : t.submission # 0 => v.submission # t.submission
  BY <1>2 DEF HandedOnce
<1>. QED  BY <1>1, <1>2, <1>3 DEF HandedOnce, BrokerInv, CounterInv

\* host_bind_execution()
LEMMA BindExecutionKeeps ==
    ASSUME BrokerInv, NEW t \in memory.tickets, NEW r \in Reviews, BindExecution(t, r)
    PROVE  BrokerInv'
<1>. DEFINE u == [t EXCEPT !.review = r]
            l == Parts(memory.grants, memory.tickets \ {t}, memory.proposals, memory.staged)
<1>1. /\ up /\ t.submission # 0 /\ Retains(memory, t.owner, TicketCharge(t), TicketCharge(u))
      /\ Answered(Instead(t, u)) /\ UNCHANGED <<issued, handoffs>>
  BY DEF BindExecution
<1>2. IsTicket(t)
  BY TicketFacts
<1>3. /\ IsTicket(u) /\ u.owner = t.owner /\ u.expires = t.expires /\ u.versions = t.versions
      /\ u.lineage = t.lineage /\ u.touched = t.touched /\ u.submission = t.submission
      /\ u.taken = t.taken
  BY <1>2 DEF IsTicket
<1>. HIDE DEF u
<1>4. HandedOnce(l, issued.submissions, handoffs)
  <2>1. l.tickets = memory.tickets \ {t}
    BY PartsOf
  <2>. QED  BY <2>1, TicketFacts DEF HandedOnce
<1>5. /\ AuthorityInv(Instead(t, u), evidence, issued.submissions, handoffs)
      /\ Instead(t, u).grants = memory.grants
  BY <1>1, <1>3, <1>4, TicketFacts, InsteadHolds DEF Retains
<1>. QED  BY <1>1, <1>5, AnsweredKeeps

\* submit_answer(): the submission is new, so that nobody was given it.
LEMMA SubmitAnswerKeeps ==
    ASSUME BrokerInv, NEW t \in memory.tickets, SubmitAnswer(t)
    PROVE  BrokerInv'
<1>. DEFINE id == issued.submissions + 1
            u == [t EXCEPT !.submission = id, !.review = NoReview, !.taken = FALSE]
            l == Parts(memory.grants, memory.tickets \ {t}, memory.proposals, memory.staged)
<1>1. /\ up /\ issued.grants + issued.submissions < MaxIssued
      /\ Retains(memory, t.owner, TicketCharge(t), TicketCharge(u))
      /\ Answered(Instead(t, u)) /\ issued' = [issued EXCEPT !.submissions = id]
      /\ UNCHANGED handoffs
  BY DEF SubmitAnswer
<1>2. IsTicket(t) /\ issued.submissions \in Nat
  BY TicketFacts
<1>3. id \in Nat /\ id # 0
  BY <1>2
<1>4. /\ issued.grants \in Nat
      /\ issued \in [epoch : Nat, grants : Nat, submissions : Nat]
      /\ MaxIssued \in Nat
  BY BrokerAssumption DEF BrokerInv, CounterInv
<1>5. id \in 1 .. MaxIssued /\ id > issued.submissions
  BY <1>1, <1>2, <1>4
<1>6. handoffs[id] = 0
  BY <1>5 DEF BrokerInv, CounterInv
<1>7. \A v \in memory.tickets : v.submission \in 0 .. id /\ v.submission # id
  BY <1>2, TicketFacts
<1>. HIDE DEF id
<1>8. /\ IsTicket(u) /\ u.owner = t.owner /\ u.expires = t.expires /\ u.versions = t.versions
      /\ u.lineage = t.lineage /\ u.touched = t.touched /\ u.submission = id
      /\ u.review = NoReview
  <2>. DEFINE a == [t EXCEPT !.submission = id]
              b == [a EXCEPT !.review = NoReview]
              c == [b EXCEPT !.taken = FALSE]
  <2>1. /\ IsTicket(a) /\ a.owner = t.owner /\ a.expires = t.expires /\ a.versions = t.versions
        /\ a.lineage = t.lineage /\ a.touched = t.touched /\ a.submission = id
    BY <1>2, <1>3 DEF IsTicket
  <2>2. u = c
    OBVIOUS
  <2>. HIDE DEF a, u
  <2>3. /\ IsTicket(b) /\ b.owner = t.owner /\ b.expires = t.expires /\ b.versions = t.versions
        /\ b.lineage = t.lineage /\ b.touched = t.touched /\ b.submission = id
        /\ b.review = NoReview
    BY <2>1 DEF IsTicket
  <2>. HIDE DEF b
  <2>4. /\ IsTicket(c) /\ c.owner = t.owner /\ c.expires = t.expires /\ c.versions = t.versions
        /\ c.lineage = t.lineage /\ c.touched = t.touched /\ c.submission = id
        /\ c.review = NoReview
    BY <2>3 DEF IsTicket
  <2>. HIDE DEF c
  <2>. QED  BY <2>2, <2>4
<1>. HIDE DEF u
<1>9. HandedOnce(l, id, handoffs)
  <2>1. l.tickets = memory.tickets \ {t}
    BY PartsOf
  <2>. HIDE DEF l
  <2>. QED  BY <1>7, <2>1, TicketFacts DEF HandedOnce
<1>10. id \in 0 .. id
  BY <1>3
<1>11. AuthorityInv(Instead(t, u), evidence, id, handoffs) /\ Instead(t, u).grants = memory.grants
  BY <1>1, <1>6, <1>7, <1>8, <1>9, <1>10, InsteadHolds DEF Retains
<1>12. memory' = Instead(t, u) /\ UNCHANGED <<now, up, evidence, disk>>
  BY <1>1 DEF Answered
<1>13. /\ issued' \in [epoch : Nat, grants : Nat, submissions : Nat]
       /\ issued'.grants = issued.grants /\ issued'.submissions = id
  BY <1>1, <1>3, <1>4
<1>14. StoreInv'
  BY <1>1, <1>12 DEF BrokerInv, StoreInv
<1>15. id <= MaxIssued /\ \A i \in 1 .. MaxIssued : i > id => handoffs[i] = 0
  <2>1. ASSUME NEW i \in 1 .. MaxIssued, i > id PROVE i > issued.submissions
    BY <1>2, <1>4, <1>5, <2>1
  <2>. QED  BY <1>4, <1>5, <2>1 DEF BrokerInv, CounterInv
<1>16. CounterInv'
  BY <1>1, <1>11, <1>12, <1>13, <1>15 DEF BrokerInv, CounterInv
<1>. QED  BY <1>1, <1>11, <1>12, <1>13, <1>14, <1>16 DEF BrokerInv

\* host_take_execution_handoff(): no other ticket has the submission.
LEMMA TakeExecutionHandoffKeeps ==
    ASSUME BrokerInv, NEW t \in memory.tickets, NEW r \in Reviews, TakeExecutionHandoff(t, r)
    PROVE  BrokerInv'
<1>. DEFINE u == [t EXCEPT !.taken = TRUE]
            l == Parts(memory.grants, memory.tickets \ {t}, memory.proposals, memory.staged)
            i == t.submission
            h == [handoffs EXCEPT ![i] = handoffs[i] + 1]
<1>1. /\ up /\ t.review = r /\ ~t.taken
      /\ Answered(Instead(t, u)) /\ handoffs' = h /\ UNCHANGED issued
  BY DEF TakeExecutionHandoff
<1>2. /\ IsTicket(t) /\ issued.submissions \in Nat /\ issued.submissions <= MaxIssued
      /\ i \in 0 .. issued.submissions /\ handoffs \in [1 .. MaxIssued -> Nat]
      /\ MaxIssued \in Nat
  BY TicketFacts, BrokerAssumption
<1>3. i # 0
  BY <1>1, TicketFacts, BrokerAssumption
<1>4. /\ IsTicket(u) /\ u.owner = t.owner /\ u.expires = t.expires /\ u.versions = t.versions
      /\ u.lineage = t.lineage /\ u.touched = t.touched /\ u.submission = t.submission
      /\ u.taken = TRUE /\ u.review = t.review
  BY <1>2 DEF IsTicket
<1>5. TicketCharge(u) = TicketCharge(t) /\ TicketCharge(t) \in Nat
  BY <1>4, TicketChargeType DEF TicketCharge
<1>. HIDE DEF u
<1>6. /\ TotalBytes(memory) - TicketCharge(t) + TicketCharge(u) <= MaxRetained
      /\ OwnBytes(memory, t.owner) - TicketCharge(t) + TicketCharge(u) <= MaxOwnRetained
  <2>1. TotalBytes(memory) \in Nat
    BY BrokerTypes, ChargeFacts
  <2>2. OwnBytes(memory, t.owner) \in Nat
    BY BrokerTypes, ChargeFacts
  <2>3. t.owner \in DOMAIN memory.grants
    BY BrokerTypes DEF EndsWithGrant
  <2>4. TotalBytes(memory) <= MaxRetained /\ OwnBytes(memory, t.owner) <= MaxOwnRetained
    BY <2>3, BrokerTypes DEF WithinBounds
  <2>. QED  BY <1>5, <2>1, <2>2, <2>4
<1>7. i \in 1 .. MaxIssued
  BY <1>2, <1>3
<1>8. h \in [1 .. MaxIssued -> Nat] /\ \A j \in 1 .. MaxIssued : j # i => h[j] = handoffs[j]
  BY <1>2, <1>7
<1>9. ASSUME NEW v \in memory.tickets \ {t}, v.submission # 0, ~v.taken
      PROVE  h[v.submission] = 0
  <2>1. v.submission \in 0 .. issued.submissions /\ handoffs[v.submission] = 0
    BY <1>9, TicketFacts
  <2>. HIDE DEF h, i
  <2>2. v.submission \in 1 .. MaxIssued
    BY <1>2, <1>9, <2>1
  <2>3. v.submission # i
    BY <1>3, TicketFacts DEF i
  <2>. QED  BY <1>8, <2>1, <2>2, <2>3
<1>10. HandedOnce(l, issued.submissions, h)
  <2>1. l.tickets = memory.tickets \ {t}
    BY PartsOf
  <2>. HIDE DEF l, h
  <2>. QED  BY <1>9, <2>1, TicketFacts DEF HandedOnce
<1>. HIDE DEF h
<1>11. /\ AuthorityInv(Instead(t, u), evidence, issued.submissions, h)
       /\ Instead(t, u).grants = memory.grants
  BY <1>3, <1>4, <1>6, <1>10, TicketFacts, InsteadHolds
<1>12. memory' = Instead(t, u) /\ UNCHANGED <<now, up, evidence, disk>>
  BY <1>1 DEF Answered
<1>13. StoreInv'
  BY <1>1, <1>12 DEF BrokerInv, StoreInv
<1>14. \A j \in 1 .. MaxIssued : j > issued.submissions => h[j] = 0
  <2>1. ASSUME NEW j \in 1 .. MaxIssued, j > issued.submissions PROVE j # i
    BY <1>2, <2>1
  <2>. QED  BY <1>8, <2>1 DEF BrokerInv, CounterInv
<1>15. CounterInv'
  BY <1>1, <1>8, <1>11, <1>12, <1>14 DEF BrokerInv, CounterInv
<1>. QED  BY <1>1, <1>11, <1>12, <1>13, <1>15 DEF BrokerInv

-----------------------------------------------------------------------------
(* The theorems.                                                           *)

\* What comes in batches or as proposals are documents.
LEMMA DraftDocuments ==
    ASSUME NEW s \in Sources, NEW offer \in Drafts[s]
    PROVE  offer.documents \in SUBSET Nodes
<1>1. offer \in [documents : SUBSET Nodes, inputs : SUBSET Sources, until : Nat]
  BY BrokerAssumption
<1>. QED  BY <1>1

\* BrokerInv is inductive.
LEMMA BrokerStep == BrokerInv /\ [Next]_vars => BrokerInv'
<1>. SUFFICES ASSUME BrokerInv, [Next]_vars PROVE BrokerInv'
  OBVIOUS
<1>1. CASE UNCHANGED vars
  <2>1. StoreInv' /\ CounterInv'
    BY <1>1 DEF vars, BrokerInv, StoreInv, CounterInv
  <2>2. AuthorityInv(memory', evidence', issued'.submissions, handoffs')
    BY <1>1 DEF vars, BrokerInv
  <2>. QED  BY <2>1, <2>2 DEF BrokerInv
<1>2. ASSUME NEW a \in Agents, HostGrant(a) \/ HostRevoke(a) PROVE BrokerInv'
  BY <1>2, HostGrantKeeps, HostRevokeKeeps
<1>3. ASSUME NEW s \in Sources,
             \/ \E offer \in Offers[s] : HostReplaceSource(s, offer)
             \/ \E offer \in Drafts[s] : BeginSourceReplace(s, offer)
      PROVE  BrokerInv'
  BY <1>3, HostReplaceSourceKeeps, BeginSourceReplaceKeeps
<1>4. ASSUME NEW x \in Relations, NEW present \in BOOLEAN,
             HostSetEdge(x.from, x.to, x.kind, present)
      PROVE  BrokerInv'
  BY <1>4, HostSetEdgeKeeps
<1>5. ASSUME NEW x \in memory.staged,
             \/ \E offer \in Drafts[x.source] : AppendSourceDocuments(x, offer.documents)
             \/ CommitSourceReplace(x)
             \/ AbortSourceReplace(x)
      PROVE  BrokerInv'
  <2>1. ASSUME NEW offer \in Drafts[x.source], AppendSourceDocuments(x, offer.documents)
        PROVE  BrokerInv'
    <3>1. x \in StagedType
      BY BrokerTypes, AuthorityRecord
    <3>2. x.source \in Sources
      BY <3>1 DEF StagedType
    <3>. QED  BY <2>1, <3>2, DraftDocuments, AppendSourceDocumentsKeeps
  <2>. QED  BY <1>5, <2>1, CommitSourceReplaceKeeps, AbortSourceReplaceKeeps
<1>6. ASSUME NEW p \in memory.proposals,
             \/ ForgetProposal(p)
             \/ RejectProposal(p)
             \/ \E offer \in Offers[p.source] : AdmitProposal(p, offer)
      PROVE  BrokerInv'
  BY <1>6, ForgetProposalKeeps, RejectProposalKeeps, AdmitProposalKeeps
<1>7. ASSUME NEW o \in DOMAIN memory.grants,
             \/ Compile(o)
             \/ \E s \in Sources : \E offer \in Drafts[s] : ProposeSource(o, s, offer.documents)
      PROVE  BrokerInv'
  BY <1>7, CompileKeeps, DraftDocuments, ProposeSourceKeeps
<1>8. ASSUME NEW t \in memory.tickets,
             \/ ForgetTicket(t)
             \/ SubmitAnswer(t)
             \/ \E r \in Reviews : BindExecution(t, r) \/ TakeExecutionHandoff(t, r)
      PROVE  BrokerInv'
  BY <1>8, ForgetTicketKeeps, SubmitAnswerKeeps, BindExecutionKeeps, TakeExecutionHandoffKeeps
<1>9. CASE RefusedCall \/ Crash \/ Restart \/ Tick
  BY <1>9, RefusedCallKeeps, CrashKeeps, RestartKeeps, TickKeeps
<1>. QED  BY <1>1, <1>2, <1>3, <1>4, <1>5, <1>6, <1>7, <1>8, <1>9 DEF Next

\* The broker's inductive invariant holds of every behaviour.
THEOREM BrokerInvariant == Spec => []BrokerInv
<1>1. Init => BrokerInv
  BY InitHolds
<1>2. BrokerInv /\ [Next]_vars => BrokerInv'
  BY BrokerStep
<1>. QED  BY <1>1, <1>2, PTL DEF Spec

\* Whatever commands were committed, and wherever the process ended,
\* from_checkpoint() accepts what the store holds.
THEOREM CheckpointRestoresHolds == Spec => []CheckpointRestores
<1>1. BrokerInv => CheckpointRestores
  BY DEF BrokerInv, StoreInv, CheckpointRestores
<1>. QED  BY <1>1, BrokerInvariant, PTL

\* No answer of a running broker rests on a change that a restart would
\* undo: from_checkpoint() gives the very evidence that is served.
THEOREM ServedIsDurableHolds == Spec => []ServedIsDurable
<1>1. BrokerInv => ServedIsDurable
  BY CheckpointIsFaithful DEF BrokerInv, StoreInv, ServedIsDurable
<1>. QED  BY <1>1, BrokerInvariant, PTL

\* The retained charge of the broker and of each grant is within its limit
\* after every command, although check_retention() sees only one change.
THEOREM RetainedWithinBoundsHolds == Spec => []RetainedWithinBounds
<1>1. BrokerInv => RetainedWithinBounds
  BY DEF BrokerInv, AuthorityInv, WithinBounds, RetainedWithinBounds
<1>. QED  BY <1>1, BrokerInvariant, PTL

\* Tickets and proposals end with their grant, by remove_owner(), by prune()
\* and by their deadline, and an agent has one grant.
THEOREM NothingOutlivesItsGrantHolds == Spec => []NothingOutlivesItsGrant
<1>1. BrokerInv => NothingOutlivesItsGrant
  BY DEF BrokerInv, AuthorityInv, EndsWithGrant, NothingOutlivesItsGrant
<1>. QED  BY <1>1, BrokerInvariant, PTL

\* What a step that hands out submission i finds.
IsFresh(i) ==
    /\ handoffs[i] = 0
    /\ \E t \in memory.tickets :
          /\ t.submission = i
          /\ ~t.touched
          /\ Live(t.owner)
          /\ \A s \in t.lineage :
                Present(evidence, s) => evidence.sources[s].provenance.until > now

\* What host_take_execution_handoff() hands out is fresh.
LEMMA TakenIsFresh ==
    ASSUME BrokerInv, NEW t \in memory.tickets, NEW r \in Reviews, TakeExecutionHandoff(t, r)
    PROVE  \A i \in 1 .. MaxIssued : handoffs'[i] # handoffs[i] => IsFresh(i)
<1>1. /\ up /\ t.review = r /\ ~t.taken /\ TicketIsCurrent(t)
      /\ handoffs' = [handoffs EXCEPT ![t.submission] = handoffs[t.submission] + 1]
  BY DEF TakeExecutionHandoff
<1>2. handoffs \in [1 .. MaxIssued -> Nat] /\ t.submission # 0 /\ handoffs[t.submission] = 0
  BY <1>1, TicketFacts, BrokerAssumption
<1>3. \A i \in 1 .. MaxIssued : handoffs'[i] # handoffs[i] => i = t.submission
  BY <1>1, <1>2
<1>4. /\ Live(t.owner) /\ ScopeIsValid(evidence, ScopeOf(t.owner), now)
      /\ t.versions = ScopeVersions(evidence, ScopeOf(t.owner))
  BY <1>1 DEF TicketIsCurrent
<1>5. t.owner \in DOMAIN memory.grants /\ ScopeOf(t.owner) \in SUBSET Sources
  BY BrokerTypes DEF EndsWithGrant
<1>6. Follows(t, evidence, ScopeOf(t.owner)) /\ Sound(evidence)
  BY <1>1 DEF BrokerInv, AuthorityInv, TicketsFollow, ScopeOf, StoreInv
<1>7. /\ ~t.touched
      /\ \A s \in t.lineage : Present(evidence, s) => evidence.sources[s].provenance.until > now
  BY <1>4, <1>5, <1>6, CurrentIsUntouched
<1>8. IsFresh(t.submission)
  BY <1>2, <1>4, <1>7 DEF IsFresh
<1>. QED  BY <1>3, <1>8

\* No other command hands out anything.
LEMMA OthersHandOutNothing ==
    ASSUME Next, ~\E t \in memory.tickets, r \in Reviews : TakeExecutionHandoff(t, r)
    PROVE  UNCHANGED handoffs
BY DEF Next, HostGrant, HostRevoke, HostReplaceSource, BeginSourceReplace, HostSetEdge,
       AppendSourceDocuments, CommitSourceReplace, AbortSourceReplace, ForgetProposal,
       RejectProposal, AdmitProposal, Compile, ProposeSource, ForgetTicket, SubmitAnswer,
       BindExecution, RefusedCall, Crash, Restart, Tick

\* A submission is handed to an execution once, over all restarts, and only
\* while nothing it rests on has changed or expired and its grant is live.
THEOREM HandoffIsFreshHolds == Spec => HandoffIsFresh
<1>1. BrokerInv /\ [Next]_vars
         => [\A i \in 1 .. MaxIssued : handoffs'[i] # handoffs[i] => IsFresh(i)]_vars
  <2>. SUFFICES ASSUME BrokerInv, Next
                PROVE  \A i \in 1 .. MaxIssued : handoffs'[i] # handoffs[i] => IsFresh(i)
    OBVIOUS
  <2>1. CASE \E t \in memory.tickets, r \in Reviews : TakeExecutionHandoff(t, r)
    BY <2>1, TakenIsFresh
  <2>2. CASE ~\E t \in memory.tickets, r \in Reviews : TakeExecutionHandoff(t, r)
    BY <2>2, OthersHandOutNothing
  <2>. QED  BY <2>1, <2>2
<1>. QED  BY <1>1, BrokerInvariant, PTL DEF Spec, HandoffIsFresh, IsFresh

=============================================================================
