--------------------------- MODULE BrokerEvidence ---------------------------
(***************************************************************************)
(* The evidence of a context broker and its checkpoint: the sources with   *)
(* their versions and their lineage, the documents of the graph and the    *)
(* relations between them.  Each operation of                              *)
(* cigar-context/src/broker/{mod,recovery}.rs on the evidence is an        *)
(* operator from an evidence to the next.                                  *)
(*                                                                         *)
(* A document is its identifier; another text under the same identifier is *)
(* a change like that of its provenance.  Of a source's provenance the     *)
(* inputs it was derived from and its deadline are kept; the rest are      *)
(* declarations of the host that nothing depends on.                       *)
(***************************************************************************)
EXTENDS Naturals, FiniteSets

CONSTANTS
    Sources,    \* source locators
    Nodes,      \* identifiers of documents
    NoSource,   \* not a source
    Never,      \* the deadline of evidence that stays valid
    LastVersion \* the last version of each source

ASSUME EvidenceAssumption ==
    /\ NoSource \notin Sources
    /\ Never \in Nat /\ LastVersion \in [Sources -> Nat]
    /\ IsFiniteSet(Sources) /\ IsFiniteSet(Nodes)

-----------------------------------------------------------------------------
(* SourceRevision, SourceRecord and the graph.                             *)

Revisions == [epoch : Nat, version : Nat]

\* SourceDependency
Dependencies == [source : Sources, revision : Revisions]

\* SourceProvenance
Provenances == [derived_from : SUBSET Dependencies, until : Nat]

\* EdgeKind: a contradiction is stored in both directions, any other kind in one.
Kinds == {"contradicts", "depends"}

Edges == {x \in [kind : Kinds, from : Nodes, to : Nodes] : x.from # x.to}

\* What the broker owns beside its authority.  A source without a record has
\* version 0, a document that is not in the graph no source, and an edge node
\* that is not retained no references.
Evidence ==
    [epoch : Nat,
     sources : [Sources -> [version : Nat, provenance : Provenances]],
     documents : [Nodes -> Sources \cup {NoSource}],
     edges : SUBSET Edges,
     edge_nodes : [Nodes -> [source : Sources \cup {NoSource}, references : Nat]]]

NoProvenance == [derived_from |-> {}, until |-> Never]

\* ContextBroker::new()
EmptyEvidence(epoch) ==
    [epoch |-> epoch,
     sources |-> [s \in Sources |-> [version |-> 0, provenance |-> NoProvenance]],
     documents |-> [n \in Nodes |-> NoSource],
     edges |-> {},
     edge_nodes |-> [n \in Nodes |-> [source |-> NoSource, references |-> 0]]]

\* ContextBroker::revision()
Revision(e, s) == [epoch |-> e.epoch, version |-> e.sources[s].version]

\* graph.sources.contains_key(): the source has documents.
Present(e, s) == \E n \in Nodes : e.documents[n] = s

DocumentsOf(e, s) == {n \in Nodes : e.documents[n] = s}

\* node_source(): the source of a document, or of one that is withdrawn and
\* that an edge still refers to.
NodeSource(e, n) ==
    IF e.documents[n] # NoSource THEN e.documents[n] ELSE e.edge_nodes[n].source

-----------------------------------------------------------------------------
(* Lineage.                                                                *)

Inputs(e, s) == {d.source : d \in e.sources[s].provenance.derived_from}

\* The sources S and all they were derived from, directly or not.
Lineage(e, S) ==
    LET reach[i \in 0..Cardinality(Sources)] ==
            IF i = 0 THEN S ELSE reach[i - 1] \cup UNION {Inputs(e, s) : s \in reach[i - 1]}
    IN reach[Cardinality(Sources)]

\* A dependency on what its source is now, and on a source that is there.
DependencyIsCurrent(e, d) ==
    /\ d.revision = Revision(e, d.source)
    /\ Present(e, d.source)

\* Mutant: the source that is being replaced is not among those visited.
SourceIsValidUnvisited(e, s, visiting, now) ==
    \/ e.sources[s].version = 0
    \/ ~Present(e, s)
    \/ \A x \in Lineage(e, {s}) :
          /\ e.sources[x].provenance.until > now
          /\ \A d \in e.sources[x].provenance.derived_from : DependencyIsCurrent(e, d)
          /\ x \notin Lineage(e, Inputs(e, x))

\* validate_source(): neither the source nor anything in its lineage has
\* expired, changed, been withdrawn or turned out to be derived from itself or
\* from a source that is being visited.
SourceIsValid(e, s, visiting, now) ==
    \/ e.sources[s].version = 0
    \/ ~Present(e, s)
    \/ \A x \in Lineage(e, {s}) :
          /\ x \notin visiting
          /\ e.sources[x].provenance.until > now
          /\ \A d \in e.sources[x].provenance.derived_from : DependencyIsCurrent(e, d)
          /\ x \notin Lineage(e, Inputs(e, x))

\* validate_provenance(), for what the host says of source s.
ProvenanceIsValid(e, s, provenance, now) ==
    /\ provenance.until > now
    /\ \A d \in provenance.derived_from :
          /\ d.source # s
          /\ \A other \in provenance.derived_from : other.source = d.source => other = d
          /\ DependencyIsCurrent(e, d)
          /\ SourceIsValid(e, d.source, {s}, now)

\* validate_scope()
ScopeIsValid(e, scope, now) == \A s \in scope : SourceIsValid(e, s, {}, now)

-----------------------------------------------------------------------------
(* Changes of the evidence.                                                *)

\* validate_document_owners()
MayOwn(e, s, docs) == \A n \in docs : NodeSource(e, n) \in {NoSource, s}

\* What host_replace_source() asks for.
MayReplace(e, s, expected, docs, provenance, now) ==
    /\ Revision(e, s) = expected
    /\ MayOwn(e, s, docs)
    /\ ProvenanceIsValid(e, s, provenance, now)
    /\ expected.version < LastVersion[s]

\* host_replace_source(): a change of the documents or of the provenance
\* advances the version; edges stay, even those of withdrawn documents.
ReplaceSource(e, s, docs, provenance) ==
    LET changed == \/ e.sources[s].version = 0
                   \/ e.sources[s].provenance # provenance
                   \/ DocumentsOf(e, s) # docs
    IN  IF ~changed THEN e
        ELSE [e EXCEPT
                !.sources[s] = [version |-> @.version + 1, provenance |-> provenance],
                !.documents = [n \in Nodes |->
                    IF n \in docs THEN s ELSE IF @[n] = s THEN NoSource ELSE @[n]]]

\* The directions in which an edge is stored.
Stored(m, n, kind) ==
    {[kind |-> kind, from |-> m, to |-> n]}
        \cup (IF kind = "contradicts" THEN {[kind |-> kind, from |-> n, to |-> m]} ELSE {})

\* The sources whose versions an edge advances.
Affected(e, m, n, kind) ==
    {NodeSource(e, m)} \cup (IF kind = "contradicts" THEN {NodeSource(e, n)} ELSE {})

\* What host_set_edge() asks for; a new edge needs both documents.
MaySetEdge(e, m, n, kind, present) ==
    /\ m # n
    /\ NodeSource(e, m) # NoSource /\ NodeSource(e, n) # NoSource
    /\ \A s \in Affected(e, m, n, kind) : e.sources[s].version \in 1..(LastVersion[s] - 1)
    /\ present => e.documents[m] # NoSource /\ e.documents[n] # NoSource

\* The edge nodes after an edge between m and n was added or removed; the last
\* reference that goes takes the node with it.
Referenced(e, m, n, present) ==
    [x \in Nodes |->
        IF x \notin {m, n} THEN e.edge_nodes[x]
        ELSE IF present
             THEN [source |-> NodeSource(e, x), references |-> e.edge_nodes[x].references + 1]
        ELSE IF e.edge_nodes[x].references = 1 THEN [source |-> NoSource, references |-> 0]
        ELSE [e.edge_nodes[x] EXCEPT !.references = @ - 1]]

\* host_set_edge(), with ContextGraph::link() and unlink().
SetEdge(e, m, n, kind, present) ==
    LET stored == Stored(m, n, kind)
        changed == IF present THEN ~(stored \subseteq e.edges)
                   ELSE [kind |-> kind, from |-> m, to |-> n] \in e.edges
    IN  IF ~changed THEN e
        ELSE [e EXCEPT
                !.edges = IF present THEN @ \cup stored ELSE @ \ stored,
                !.edge_nodes = Referenced(e, m, n, present),
                !.sources = [s \in Sources |->
                    IF s \in Affected(e, m, n, kind)
                    THEN [version |-> @[s].version + 1, provenance |-> @[s].provenance]
                    ELSE @[s]]]

\* The sources that differ between two evidences of one epoch: their versions
\* say so, and so do their documents, their provenance and the edges from them.
Changed(e, f) ==
    {s \in Sources :
        \/ e.sources[s] # f.sources[s]
        \/ DocumentsOf(e, s) # DocumentsOf(f, s)
        \/ \E x \in (e.edges \ f.edges) \cup (f.edges \ e.edges) :
              s \in {NodeSource(e, x.from), NodeSource(f, x.from)}}

-----------------------------------------------------------------------------
(* Checkpoint and recovery.                                                *)

\* host_checkpoint(): the edge nodes are saved as the owners of their ids.
Checkpoint(e) ==
    [epoch |-> e.epoch, sources |-> e.sources, documents |-> e.documents, edges |-> e.edges,
     owners |-> [n \in Nodes |-> e.edge_nodes[n].source]]

\* validate_lineage(): sources can be ordered so that each follows its inputs.
LineageIsAcyclic(c) == \A s \in Sources : s \notin Lineage(c, Inputs(c, s))

\* What from_checkpoint() asks of the sources.
SourcesRestore(c) ==
    /\ \A s \in Sources : \A d \in c.sources[s].provenance.derived_from :
          /\ d.source # s
          /\ d.revision.epoch = c.epoch
          /\ d.revision.version \in 1..c.sources[d.source].version
    /\ LineageIsAcyclic(c)

\* What from_checkpoint() and restore_relationships() ask of the graph: every
\* endpoint of an edge has its owner, which is the source of its document if
\* there is one, and no id has an owner without an edge.
GraphRestores(c) ==
    /\ \A n \in Nodes :
          c.documents[n] # NoSource => c.sources[c.documents[n]].version > 0
    /\ \A x \in c.edges : Stored(x.from, x.to, x.kind) \subseteq c.edges
    /\ \A x \in c.edges : \A n \in {x.from, x.to} :
          /\ c.owners[n] # NoSource
          /\ c.sources[c.owners[n]].version > 0
          /\ c.documents[n] \in {NoSource, c.owners[n]}
    /\ \A n \in Nodes : c.owners[n] # NoSource => \E x \in c.edges : n \in {x.from, x.to}

Restorable(c) == SourcesRestore(c) /\ GraphRestores(c)

\* The edges that from_checkpoint() counts for a document: a contradiction once.
References(edges, n) ==
    Cardinality({x \in edges : n \in {x.from, x.to} /\ (x.kind = "contradicts" => x.from = n)})

\* from_checkpoint(): the versions stay, the lineage is bound to the new epoch.
Restored(c, epoch) ==
    [epoch |-> epoch,
     sources |-> [s \in Sources |->
        [c.sources[s] EXCEPT !.provenance.derived_from =
            {[d EXCEPT !.revision.epoch = epoch] : d \in @}]],
     documents |-> c.documents,
     edges |-> c.edges,
     edge_nodes |-> [n \in Nodes |->
        [source |-> c.owners[n], references |-> References(c.edges, n)]]]

=============================================================================
