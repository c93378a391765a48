------------------------------ MODULE Handoffs ------------------------------
(***************************************************************************)
(* HandoffService (crates/cigar-space/src/handoff.rs): signed capsules that *)
(* an issuer creates and may revoke, their acceptance by a recipient, and  *)
(* the results that a recipient records.  Each operation is an operator    *)
(* from a state and a request to the set of states it may lead to, which   *)
(* is empty when the service refuses.                                      *)
(*                                                                         *)
(* A request carries the identities that the service is to use (id), the   *)
(* handoff, the actor and the revision the caller expects.  What does not  *)
(* change the state later is left out: the signature, the audience, the    *)
(* clock, the capabilities and references that are intersected, and the    *)
(* bundle; each of them can only refuse a request.                         *)
(***************************************************************************)
EXTENDS Naturals, FiniteSets

\* The service before the first capsule.  Capsules and revisions are indexed
\* by handoff; nonces are those that were consumed.
NoHandoffs ==
    [capsules |-> <<>>, revision |-> <<>>, acceptances |-> {},
     revocations |-> {}, results |-> {}, nonces |-> {}]

HandoffIds(s) == DOMAIN s.capsules

Revoked(s, h) == \E v \in s.revocations : v.handoff = h

\* event_id_in_use().
EventInUse(s, id) == \E m \in s.revocations \cup s.results : m.id = id

With(f, x, y) == [z \in DOMAIN f \cup {x} |-> IF z = x THEN y ELSE f[z]]

\* The next revision of handoff h in state s.
Bumped(s, h) == [s.revision EXCEPT ![h] = @ + 1]

\* create(): the capsule and its first revision.
CreateHandoff(s, r) ==
    IF r.handoff \in HandoffIds(s) THEN {}
    ELSE {[s EXCEPT
            !.capsules = With(@, r.handoff,
                [issuer |-> r.actor, recipients |-> r.recipients,
                 reusable |-> r.reusable, nonce |-> r.nonce]),
            !.revision = With(@, r.handoff, 1)]}

\* check_replay_available(), and consume_replay() under the second lock.
ReplayAvailable(s, r) ==
    LET capsule == s.capsules[r.handoff] IN
    /\ \A a \in s.acceptances : a.id # r.id
    /\ capsule.reusable \/ capsule.nonce \notin s.nonces

\* Mutant: only the revision is compared.
RevisionOnly(s, r) == s.revision[r.handoff] = r.expected

\* The checks that accept() repeats after the recipient's bundle is compiled.
Acceptable(s, r) == ~Revoked(s, r.handoff) /\ s.revision[r.handoff] = r.expected

\* accept(): the receipt and the consumed nonce; the revision stays.
AcceptHandoff(s, r) ==
    IF /\ r.handoff \in HandoffIds(s)
       /\ r.actor \in s.capsules[r.handoff].recipients
       /\ Acceptable(s, r) /\ ReplayAvailable(s, r)
    THEN LET capsule == s.capsules[r.handoff] IN
         {[s EXCEPT
            !.acceptances = @ \cup {[id |-> r.id, handoff |-> r.handoff, recipient |-> r.actor]},
            !.nonces = @ \cup (IF capsule.reusable THEN {} ELSE {capsule.nonce})]}
    ELSE {}

\* revocation_matches_request().
RevocationOf(r) == [id |-> r.id, handoff |-> r.handoff, revision |-> r.expected + 1]

\* revoke(): once, by the issuer; the very same request again changes nothing.
RevokeHandoff(s, r) ==
    IF r.handoff \notin HandoffIds(s) \/ s.capsules[r.handoff].issuer # r.actor THEN {}
    ELSE IF RevocationOf(r) \in s.revocations THEN {s}
    ELSE IF \/ s.revision[r.handoff] # r.expected
            \/ Revoked(s, r.handoff) \/ EventInUse(s, r.id)
    THEN {}
    ELSE {[s EXCEPT !.revocations = @ \cup {RevocationOf(r)},
                    !.revision = Bumped(s, r.handoff)]}

ResultOf(r, acceptance) ==
    [id |-> r.id, handoff |-> r.handoff, acceptance |-> acceptance.id,
     producer |-> r.actor, revision |-> r.expected + 1]

\* What record_result() asks of the handoff.
Recordable(s, r) ==
    /\ ~Revoked(s, r.handoff) /\ ~EventInUse(s, r.id)
    /\ s.revision[r.handoff] = r.expected

\* record_result() under an acceptance of the recipient.  The caller looks the
\* newest one up beforehand (acceptance_for_result), and another may have
\* followed since.
RecordResult(s, r) ==
    UNION {
        LET result == ResultOf(r, a) IN
        IF \E m \in s.results : m.id = r.id THEN {t \in {s} : result \in s.results}
        ELSE IF ~Recordable(s, r) THEN {}
        ELSE {[s EXCEPT !.results = @ \cup {result}, !.revision = Bumped(s, r.handoff)]} :
        a \in {x \in s.acceptances : x.handoff = r.handoff /\ x.recipient = r.actor}}

\* verified_merge_material(): the issuer gets a retained result of a capsule
\* that is not revoked.
MergeMaterial(s, r) ==
    /\ \E m \in s.results : m.handoff = r.handoff
    /\ s.capsules[r.handoff].issuer = r.actor
    /\ ~Revoked(s, r.handoff)

\* validate_handoff_state(), which every export and import runs.
ValidHandoffs(s) ==
    LET changes(h) == {m \in s.revocations \cup s.results : m.handoff = h}
        oneTime == {a \in s.acceptances : ~s.capsules[a.handoff].reusable}
        nonceOf(a) == s.capsules[a.handoff].nonce
    IN  /\ DOMAIN s.revision = HandoffIds(s)
        /\ \A a \in s.acceptances :
            a.handoff \in HandoffIds(s) /\ a.recipient \in s.capsules[a.handoff].recipients
        /\ s.nonces = {nonceOf(a) : a \in oneTime}
        /\ \A a, b \in oneTime : nonceOf(a) = nonceOf(b) => a = b
        /\ \A m, n \in s.revocations \cup s.results : m.id = n.id => m = n
        /\ \A m \in s.results :
            \E a \in s.acceptances : 
                a.id = m.acceptance /\ a.handoff = m.handoff /\ a.recipient = m.producer
        /\ \A m \in s.results, v \in s.revocations :
            m.handoff = v.handoff => m.revision < v.revision
        /\ \A h \in HandoffIds(s) :
            /\ {m.revision : m \in changes(h)} = 2 .. s.revision[h]
            /\ Cardinality(changes(h)) = s.revision[h] - 1

=============================================================================
