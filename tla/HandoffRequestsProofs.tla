----------------------- MODULE HandoffRequestsProofs -----------------------
(***************************************************************************)
(* Handoffs as clients meet them, for every number of calls, keys, daemons *)
(* and bounds: a retried request acts at most once, its answers are those  *)
(* of a durable execution, and acceptances and revocations hold on every   *)
(* daemon.                                                                 *)
(*                                                                         *)
(* The proof is about a ledger: the records and the calls, against the set *)
(* of the calls that have acted.  A call works only under its own          *)
(* reservation; a call that has acted is told by its key's record; and a   *)
(* record becomes free only if its owner has not acted and never will.     *)
(***************************************************************************)
EXTENDS HandoffRequests, DurableSnapshotsProofs, FoldLemmas

-----------------------------------------------------------------------------
(* What an operation leaves in the service.                                *)

\* The service that is kept durable is that of Handoffs.
ServiceIsHandoffs ==
    /\ Empty = NoHandoffs
    /\ \A s : Valid(s) <=> ValidHandoffs(s)
    /\ \A i, s : Requests(i, s) = HandoffCalls(i, s)
    /\ \A c, s : Apply(c, s) = ApplyHandoff(c, s)

\* What a call asks for, with the identities that the adapter has drawn.
LEMMA AskedFacts ==
    ASSUME NEW c \in Calls
    PROVE  /\ Asked(c).op = Request[c].op /\ Asked(c).actor = Request[c].actor
           /\ Asked(c).id = c
           /\ Request[c].op \in {"create", "accept", "revoke", "result", "merge"}
           /\ Request[c].op = "create" => Asked(c).handoff = c
           /\ Request[c].op # "create" => Asked(c).handoff = Request[c].handoff
BY RequestsAssumption DEF Asked

\* A record of the service's parts.
IsState(s) ==
    s \in [capsules : {s.capsules}, revision : {s.revision}, acceptances : {s.acceptances},
           revocations : {s.revocations}, results : {s.results}, nonces : {s.nonces}]

\* A state of the service in which everything was left by a call that asked for
\* that very thing.
Attributed(s) ==
    /\ IsState(s)
    /\ \A h \in HandoffIds(s) : h \in Calls /\ Request[h].op = "create"
    /\ \A a \in s.acceptances : /\ a.id \in Calls /\ Request[a.id].op = "accept"
                                /\ a.handoff = Request[a.id].handoff
    /\ \A v \in s.revocations : v.id \in Calls /\ Request[v.id].op = "revoke"
    /\ \A m \in s.results : m.id \in Calls /\ Request[m.id].op = "result"

\* The state t follows s by an operation of call c.
FollowsBy(c, s, t) ==
    /\ Attributed(t) /\ Made(t) = Made(s) \cup {c} /\ Request[c].op # "merge"
    /\ \A h \in HandoffIds(s) : Revoked(s, h) =>
          \A m \in t.acceptances \cup t.results :
              m.handoff = h => m \in s.acceptances \cup s.results

\* create()
LEMMA CreateFollows ==
    ASSUME NEW c \in Calls, NEW s, Attributed(s), Request[c].op = "create",
           NEW t \in CreateHandoff(s, Asked(c))
    PROVE  FollowsBy(c, s, t)
<1>. DEFINE r == Asked(c)
<1>1. r.handoff = c
  BY AskedFacts
<1>. HIDE DEF r
<1>. PICK C, R : /\ t = [s EXCEPT !.capsules = C, !.revision = R] 
                 /\ DOMAIN C = DOMAIN s.capsules \cup {c}
  <2>. DEFINE C == With(s.capsules, r.handoff,
                      [issuer |-> r.actor, recipients |-> r.recipients,
                       reusable |-> r.reusable, nonce |-> r.nonce])
              R == With(s.revision, r.handoff, 1)
  <2>1. t = [s EXCEPT !.capsules = C, !.revision = R]
    BY DEF CreateHandoff, r
  <2>2. DOMAIN C = DOMAIN s.capsules \cup {c}
    BY <1>1 DEF With
  <2>. HIDE DEF C, R
  <2>. QED  BY <2>1, <2>2
<1>. DEFINE a == [s EXCEPT !.capsules = C]
<1>2. /\ IsState(a) /\ a.capsules = C /\ a.acceptances = s.acceptances
      /\ a.revocations = s.revocations /\ a.results = s.results
  BY DEF Attributed, IsState
<1>3. t = [a EXCEPT !.revision = R]
  OBVIOUS
<1>. HIDE DEF a
<1>4. /\ IsState(t) /\ t.capsules = C /\ t.acceptances = s.acceptances
      /\ t.revocations = s.revocations /\ t.results = s.results
  BY <1>2, <1>3 DEF IsState
<1>5. Attributed(t)
  BY <1>4 DEF Attributed, HandoffIds
<1>6. Made(t) = Made(s) \cup {c}
  BY <1>4 DEF Made, HandoffIds
<1>. QED  BY <1>4, <1>5, <1>6 DEF FollowsBy

\* accept(), which refuses a revoked handoff.
LEMMA AcceptFollows ==
    ASSUME NEW c \in Calls, NEW s, Attributed(s), Request[c].op = "accept",
           NEW t \in AcceptHandoff(s, Asked(c))
    PROVE  FollowsBy(c, s, t)
<1>. DEFINE r == Asked(c)
            n == [id |-> r.id, handoff |-> r.handoff, recipient |-> r.actor]
<1>1. r.id = c /\ r.handoff = Request[c].handoff
  BY AskedFacts
<1>2. ~Revoked(s, r.handoff)
  BY DEF AcceptHandoff, Acceptable
<1>. HIDE DEF r
<1>3. n.id = c /\ n.handoff = r.handoff
  BY <1>1
<1>4. PICK N : t = [s EXCEPT !.acceptances = s.acceptances \cup {n}, !.nonces = N]
  <2>. DEFINE capsule == s.capsules[r.handoff]
              N == s.nonces \cup (IF capsule.reusable THEN {} ELSE {capsule.nonce})
  <2>1. t = [s EXCEPT !.acceptances = s.acceptances \cup {n}, !.nonces = N]
    BY DEF AcceptHandoff, r
  <2>. HIDE DEF N, n
  <2>. QED  BY <2>1
<1>. HIDE DEF n
<1>. DEFINE a == [s EXCEPT !.acceptances = s.acceptances \cup {n}]
<1>5. /\ IsState(a) /\ a.capsules = s.capsules /\ a.acceptances = s.acceptances \cup {n}
      /\ a.revocations = s.revocations /\ a.results = s.results
  BY DEF Attributed, IsState
<1>6. t = [a EXCEPT !.nonces = N]
  BY <1>4
<1>. HIDE DEF a
<1>7. /\ IsState(t) /\ t.capsules = s.capsules /\ t.acceptances = s.acceptances \cup {n}
      /\ t.revocations = s.revocations /\ t.results = s.results
  BY <1>5, <1>6 DEF IsState
<1>8. Attributed(t)
  BY <1>1, <1>3, <1>7 DEF Attributed, HandoffIds
<1>9. Made(t) = Made(s) \cup {c}
  BY <1>3, <1>7 DEF Made, HandoffIds
<1>. QED  BY <1>2, <1>3, <1>7, <1>8, <1>9 DEF FollowsBy

\* revoke(), when it changes anything.
LEMMA RevokeFollows ==
    ASSUME NEW c \in Calls, NEW s, Attributed(s), Request[c].op = "revoke",
           NEW t \in RevokeHandoff(s, Asked(c)) \ {s}
    PROVE  FollowsBy(c, s, t)
<1>. DEFINE r == Asked(c)
            n == RevocationOf(r)
            R == Bumped(s, r.handoff)
<1>1. n.id = c
  BY AskedFacts DEF RevocationOf
<1>. HIDE DEF r
<1>2. t = [s EXCEPT !.revocations = s.revocations \cup {n}, !.revision = R]
  BY DEF RevokeHandoff, r
<1>. HIDE DEF n, R
<1>. DEFINE a == [s EXCEPT !.revocations = s.revocations \cup {n}]
<1>5. /\ IsState(a) /\ a.capsules = s.capsules /\ a.acceptances = s.acceptances
      /\ a.revocations = s.revocations \cup {n} /\ a.results = s.results
  BY DEF Attributed, IsState
<1>6. t = [a EXCEPT !.revision = R]
  BY <1>2
<1>. HIDE DEF a
<1>7. /\ IsState(t) /\ t.capsules = s.capsules /\ t.acceptances = s.acceptances
      /\ t.revocations = s.revocations \cup {n} /\ t.results = s.results
  BY <1>5, <1>6 DEF IsState
<1>8. Attributed(t)
  BY <1>1, <1>7 DEF Attributed, HandoffIds
<1>9. Made(t) = Made(s) \cup {c}
  BY <1>1, <1>7 DEF Made, HandoffIds
<1>. QED  BY <1>7, <1>8, <1>9 DEF FollowsBy

\* record_result(), which refuses a revoked handoff, when it changes anything.
LEMMA ResultFollows ==
    ASSUME NEW c \in Calls, NEW s, Attributed(s), Request[c].op = "result",
           NEW t \in RecordResult(s, Asked(c)) \ {s}
    PROVE  FollowsBy(c, s, t)
<1>. DEFINE r == Asked(c)
            R == Bumped(s, r.handoff)
<1>1. PICK b \in s.acceptances : 
         t \in (IF \E m \in s.results : m.id = r.id
                THEN {u \in {s} : ResultOf(r, b) \in s.results}
                ELSE IF ~Recordable(s, r) THEN {}
                ELSE {[s EXCEPT !.results = @ \cup {ResultOf(r, b)},
                               !.revision = Bumped(s, r.handoff)]})
  BY DEF RecordResult
<1>. DEFINE n == ResultOf(r, b)
<1>2. t = [s EXCEPT !.results = s.results \cup {n}, !.revision = R] /\ Recordable(s, r)
  BY <1>1
<1>3. n.id = c /\ n.handoff = r.handoff
  BY AskedFacts DEF ResultOf
<1>4. ~Revoked(s, r.handoff)
  BY <1>2 DEF Recordable
<1>. HIDE DEF n, R, r
<1>. DEFINE a == [s EXCEPT !.results = s.results \cup {n}]
<1>5. /\ IsState(a) /\ a.capsules = s.capsules /\ a.acceptances = s.acceptances
      /\ a.revocations = s.revocations /\ a.results = s.results \cup {n}
  BY DEF Attributed, IsState
<1>6. t = [a EXCEPT !.revision = R]
  BY <1>2
<1>. HIDE DEF a
<1>7. /\ IsState(t) /\ t.capsules = s.capsules /\ t.acceptances = s.acceptances
      /\ t.revocations = s.revocations /\ t.results = s.results \cup {n}
  BY <1>5, <1>6 DEF IsState
<1>8. Attributed(t)
  BY <1>3, <1>7 DEF Attributed, HandoffIds
<1>9. Made(t) = Made(s) \cup {c}
  BY <1>3, <1>7 DEF Made, HandoffIds
<1>. QED  BY <1>3, <1>4, <1>7, <1>8, <1>9 DEF FollowsBy

\* Whatever an operation changes, the call that asked for it has made.
LEMMA ApplyFollows ==
    ASSUME NEW c \in Calls, NEW s, Attributed(s), NEW t \in ApplyHandoff(c, s) \ {s}
    PROVE  FollowsBy(c, s, t)
<1>1. /\ Asked(c).op = Request[c].op
      /\ Request[c].op \in {"create", "accept", "revoke", "result", "merge"}
  BY AskedFacts
<1>2. CASE Request[c].op = "create"
  BY <1>1, <1>2, CreateFollows DEF ApplyHandoff
<1>3. CASE Request[c].op = "accept"
  BY <1>1, <1>3, AcceptFollows DEF ApplyHandoff
<1>4. CASE Request[c].op = "revoke"
  BY <1>1, <1>4, RevokeFollows DEF ApplyHandoff
<1>5. CASE Request[c].op = "result"
  BY <1>1, <1>5, ResultFollows DEF ApplyHandoff
<1>6. CASE Request[c].op = "merge"
  BY <1>1, <1>6 DEF ApplyHandoff
<1>. QED  BY <1>1, <1>2, <1>3, <1>4, <1>5, <1>6

\* A service without any state was made by nobody.
LEMMA EmptyIsAttributed == Attributed(NoHandoffs) /\ Made(NoHandoffs) = {}
BY DEF Attributed, IsState, NoHandoffs, Made, HandoffIds

-----------------------------------------------------------------------------
(* Records and calls.                                                      *)

\* Types of records and of calls.
RecordType ==
    [version : Nat, phase : Phases, digest : {Digest[c] : c \in Calls} \cup {NoCall},
     generation : Nat, token : Calls \cup {NoCall}, response : Calls \cup {NoCall}]

CallType ==
    [pc : CallPCs, seen : Nat, tries : Nat, answer : Calls \cup {NoCall, Failure}]

\* A call that has its key's reservation and acts under it.
Working == {"execute", "running", "complete"}

\* The record q is the reservation of c.
OwnedBy(q, c) == q.phase = "in_progress" /\ q.token = c

\* The record q says that c has acted, or may have.
Tells(q, c) == OwnedBy(q, c) \/ (q.phase = "complete" /\ q.response = c)

\* The record q of key k when the calls in X have acted.
RecordFits(k, q, X) ==
    /\ q \in RecordType
    /\ q.phase = "in_progress" =>
          q.token \in Calls /\ Key[q.token] = k /\ q.digest = Digest[q.token]
    /\ q.phase = "complete" =>
          q.response \in X /\ Key[q.response] = k /\ q.digest = Digest[q.response]

\* The state y of call c when its record is q and the calls in X have acted: a
\* call works under its own reservation, and a free record that it has loaded
\* is still free if it has not changed.
CallFits(c, y, q, X) ==
    /\ y \in CallType
    /\ y.pc \in Working => OwnedBy(q, c)
    /\ y.pc = "complete" => c \in X
    /\ y.pc = "claim" => y.seen <= q.version /\ (y.seen = q.version => Free(q))
    /\ y.answer \in Calls =>
          y.answer \in X /\ Key[y.answer] = Key[c] /\ Digest[y.answer] = Digest[c]

\* A call of the past: nobody has used its key since.
IsPast(rec, cal, c) ==
    /\ rec[Key[c]].phase = "absent"
    /\ \A d \in Calls : Key[d] = Key[c] => cal[d].pc = "gone"

\* The records and the calls agree with the set X of the calls that have acted.
Ledger(rec, cal, X) ==
    /\ rec \in [Keys -> RecordType] /\ cal \in [Calls -> CallType] /\ X \subseteq Calls
    /\ \A k \in Keys : RecordFits(k, rec[k], X)
    /\ \A c \in Calls : CallFits(c, cal[c], rec[Key[c]], X)
    /\ \A c \in X : Tells(rec[Key[c]], c) \/ IsPast(rec, cal, c)
    /\ \A c, d \in X : Key[c] = Key[d] => c = d

\* The key of a call is a key.
LEMMA KeyType == \A c \in Calls : Key[c] \in Keys
BY DEF Keys

\* One call moves.
LEMMA CallMoves ==
    ASSUME NEW rec, NEW cal, NEW X, Ledger(rec, cal, X), NEW c \in Calls, cal[c].pc # "gone",
           NEW y, CallFits(c, y, rec[Key[c]], X)
    PROVE  Ledger(rec, [cal EXCEPT ![c] = y], X)
<1>. DEFINE new == [cal EXCEPT ![c] = y]
<1>1. new \in [Calls -> CallType] /\ new[c] = y /\ \A d \in Calls : d # c => new[d] = cal[d]
  BY DEF Ledger, CallFits
<1>. HIDE DEF new
<1>2. \A d \in Calls : CallFits(d, new[d], rec[Key[d]], X)
  BY <1>1 DEF Ledger
<1>3. ASSUME NEW d \in X, IsPast(rec, cal, d) PROVE IsPast(rec, new, d)
  <2>1. Key[d] # Key[c]
    BY <1>3 DEF IsPast
  <2>. QED  BY <1>1, <1>3, <2>1 DEF IsPast
<1>4. Ledger(rec, new, X)
  BY <1>1, <1>2, <1>3 DEF Ledger
<1>. QED  BY <1>4 DEF new

\* One record is written.
LEMMA RecordWritten ==
    ASSUME NEW rec, NEW cal, NEW X, Ledger(rec, cal, X), NEW k \in Keys,
           NEW q, RecordFits(k, q, X), q.version = rec[k].version + 1,
           \A c \in X : Key[c] = k => Tells(q, c),
           \A c \in Calls : Key[c] = k /\ cal[c].pc \in Working => OwnedBy(q, c)
    PROVE  Ledger([rec EXCEPT ![k] = q], cal, X)
<1>. DEFINE new == [rec EXCEPT ![k] = q]
<1>1. new \in [Keys -> RecordType] /\ new[k] = q /\ \A j \in Keys : j # k => new[j] = rec[j]
  BY DEF Ledger, RecordFits
<1>. HIDE DEF new
<1>2. \A j \in Keys : RecordFits(j, new[j], X)
  BY <1>1 DEF Ledger
<1>3. ASSUME NEW c \in Calls PROVE CallFits(c, cal[c], new[Key[c]], X)
  <2>1. CallFits(c, cal[c], rec[Key[c]], X)
    BY DEF Ledger
  <2>2. CASE Key[c] # k
    BY <1>1, <2>1, <2>2, KeyType
  <2>3. CASE Key[c] = k
    <3>1. new[Key[c]] = q
      BY <1>1, <2>3
    <3>2. rec[k].version \in Nat
      BY DEF Ledger, RecordType
    <3>3. cal[c].pc = "claim" => cal[c].seen <= q.version /\ cal[c].seen # q.version
      <4>1. cal[c].seen \in Nat
        BY <2>1 DEF CallFits, CallType
      <4>2. cal[c].pc = "claim" => cal[c].seen <= rec[k].version
        BY <2>1, <2>3 DEF CallFits
      <4>. QED  BY <3>2, <4>1, <4>2
    <3>. QED  BY <2>1, <2>3, <3>1, <3>3 DEF CallFits
  <2>. QED  BY <2>2, <2>3
<1>4. ASSUME NEW c \in X PROVE Tells(new[Key[c]], c) \/ IsPast(new, cal, c)
  <2>1. c \in Calls /\ Key[c] \in Keys
    BY KeyType DEF Ledger
  <2>2. Tells(rec[Key[c]], c) \/ IsPast(rec, cal, c)
    BY DEF Ledger
  <2>. QED  BY <1>1, <2>1, <2>2 DEF IsPast
<1>5. Ledger(new, cal, X)
  BY <1>1, <1>2, <1>3, <1>4 DEF Ledger
<1>. QED  BY <1>5 DEF new

\* A call acts.
LEMMA CallActs ==
    ASSUME NEW rec, NEW cal, NEW X, Ledger(rec, cal, X), NEW c \in Calls, OwnedBy(rec[Key[c]], c)
    PROVE  Ledger(rec, cal, X \cup {c})
<1>. DEFINE Y == X \cup {c}
<1>1. X \subseteq Y /\ c \in Y /\ Y \subseteq Calls /\ \A d \in Y : d \in X \/ d = c
  BY DEF Ledger
<1>. HIDE DEF Y
<1>2. \A k \in Keys : RecordFits(k, rec[k], Y)
  BY <1>1 DEF Ledger, RecordFits
<1>3. \A d \in Calls : CallFits(d, cal[d], rec[Key[d]], Y)
  BY <1>1 DEF Ledger, CallFits
<1>4. \A d \in Y : Tells(rec[Key[d]], d) \/ IsPast(rec, cal, d)
  BY <1>1 DEF Ledger, Tells
<1>5. \A d \in X : Key[d] = Key[c] => d = c
  BY DEF Ledger, Tells, OwnedBy, IsPast
<1>6. \A d, b \in Y : Key[d] = Key[b] => d = b
  BY <1>1, <1>5 DEF Ledger
<1>7. Ledger(rec, cal, Y)
  BY <1>1, <1>2, <1>3, <1>4, <1>6 DEF Ledger
<1>. QED  BY <1>7 DEF Y

\* Calls end.
LEMMA CallsGone ==
    ASSUME NEW rec, NEW cal, NEW X, Ledger(rec, cal, X), NEW new,
           new = [c \in Calls |-> new[c]],
           \A c \in Calls : new[c] = cal[c] \/ new[c] = [NewCall EXCEPT !.pc = "gone"]
    PROVE  Ledger(rec, new, X)
<1>. DEFINE y == [NewCall EXCEPT !.pc = "gone"]
<1>1. y \in CallType /\ y.pc = "gone" /\ y.answer = NoCall
  BY DEF NewCall, CallType, CallPCs
<1>. HIDE DEF y
<1>2. \A c \in Calls : new[c] = cal[c] \/ new[c] = y
  BY DEF y
<1>3. \A c \in Calls : new[c] \in CallType
  BY <1>1, <1>2 DEF Ledger
<1>4. \A c \in Calls : CallFits(c, y, rec[Key[c]], X)
  BY <1>1, CallsAssumption DEF CallFits, Working
<1>5. \A c \in Calls : CallFits(c, new[c], rec[Key[c]], X)
  BY <1>2, <1>4 DEF Ledger
<1>6. \A c \in X : IsPast(rec, cal, c) => IsPast(rec, new, c)
  BY <1>1, <1>2 DEF IsPast
<1>. QED  BY <1>3, <1>5, <1>6 DEF Ledger

-----------------------------------------------------------------------------
(* reserve().                                                              *)

\* A call ends with an answer.
LEMMA AnswerKeeps ==
    ASSUME NEW rec, NEW X, Ledger(rec, calls, X), NEW c \in Calls, calls[c].pc # "gone",
           NEW a \in Calls \cup {NoCall, Failure}, Answer(c, a),
           a \in Calls => a \in X /\ Key[a] = Key[c] /\ Digest[a] = Digest[c]
    PROVE  Ledger(rec, calls', X) /\ calls'[c].pc = "done"
           /\ \A d \in Calls : d # c => calls'[d] = calls[d]
<1>. DEFINE y == [NewCall EXCEPT !.pc = "done", !.answer = a]
<1>1. y \in CallType /\ y.pc = "done" /\ y.answer = a
  BY DEF NewCall, CallType, CallPCs
<1>2. calls' = [calls EXCEPT ![c] = y]
  BY DEF Answer
<1>. HIDE DEF y
<1>3. CallFits(c, y, rec[Key[c]], X)
  BY <1>1 DEF CallFits, Working
<1>4. calls'[c].pc = "done" /\ \A d \in Calls : d # c => calls'[d] = calls[d]
  BY <1>1, <1>2 DEF Ledger
<1>. QED  BY <1>2, <1>3, <1>4, CallMoves

\* A call goes on.
LEMMA GotoKeeps ==
    ASSUME NEW rec, NEW X, Ledger(rec, calls, X), NEW c \in Calls, calls[c].pc # "gone",
           NEW pc \in CallPCs, CallGoto(c, pc),
           pc \in Working => OwnedBy(rec[Key[c]], c), pc = "complete" => c \in X, pc # "claim"
    PROVE  Ledger(rec, calls', X) /\ calls'[c].pc = pc
           /\ \A d \in Calls : d # c => calls'[d] = calls[d]
<1>. DEFINE y == [calls[c] EXCEPT !.pc = pc]
<1>1. calls \in [Calls -> CallType] /\ CallFits(c, calls[c], rec[Key[c]], X)
  BY DEF Ledger
<1>2. y \in CallType /\ y.pc = pc /\ y.answer = calls[c].answer
  BY <1>1 DEF CallType
<1>3. calls' = [calls EXCEPT ![c] = y]
  BY <1>1 DEF CallGoto
<1>. HIDE DEF y
<1>4. CallFits(c, y, rec[Key[c]], X)
  BY <1>1, <1>2 DEF CallFits
<1>5. calls'[c].pc = pc /\ \A d \in Calls : d # c => calls'[d] = calls[d]
  BY <1>1, <1>2, <1>3
<1>. QED  BY <1>3, <1>4, <1>5, CallMoves

\* What changes calls and records only where no call is running.
Aside(c) ==
    /\ calls[c].pc # "running"
    /\ \A d \in Calls : d # c => calls'[d] = calls[d]

\* reserve() loads the record.
LEMMA LoadRecordKeeps ==
    ASSUME NEW X, Ledger(records, calls, X), NEW c \in Calls, LoadRecord(c)
    PROVE  Ledger(records', calls', X) /\ Aside(c)
<1>. DEFINE q == records[Key[c]]
<1>1. calls[c].pc = "reserve" /\ records' = records
  BY DEF LoadRecord
<1>2. q \in RecordType /\ RecordFits(Key[c], q, X)
  BY KeyType DEF Ledger
<1>3. CASE ~SameRequest(c)
  <2>1. Answer(c, Failure)
    BY <1>3 DEF LoadRecord
  <2>. QED  BY <1>1, <2>1, AnswerKeeps, CallsAssumption DEF Aside
<1>4. CASE SameRequest(c) /\ Free(q)
  <2>. DEFINE y == [calls[c] EXCEPT !.pc = "claim", !.seen = q.version]
              a == [calls[c] EXCEPT !.pc = "claim"]
  <2>1. calls' = [calls EXCEPT ![c].pc = "claim", ![c].seen = q.version]
    BY <1>4 DEF LoadRecord, Record, Free
  <2>2. calls \in [Calls -> CallType] /\ CallFits(c, calls[c], q, X)
    BY DEF Ledger
  <2>3. q.version \in Nat
    BY <1>2 DEF RecordType
  <2>4. a \in CallType /\ a.pc = "claim" /\ a.answer = calls[c].answer
    BY <2>2 DEF CallType, CallPCs
  <2>5. y = [a EXCEPT !.seen = q.version]
    OBVIOUS
  <2>. HIDE DEF a
  <2>6. y \in CallType /\ y.pc = "claim" /\ y.seen = q.version /\ y.answer = calls[c].answer
    <3>1. [a EXCEPT !.seen = q.version] \in CallType
      BY <2>3, <2>4 DEF CallType
    <3>2. /\ [a EXCEPT !.seen = q.version].pc = "claim"
          /\ [a EXCEPT !.seen = q.version].seen = q.version
          /\ [a EXCEPT !.seen = q.version].answer = calls[c].answer
      BY <2>4 DEF CallType
    <3>. HIDE DEF y
    <3>. QED  BY <2>5, <3>1, <3>2
  <2>7. calls' = [calls EXCEPT ![c] = y]
    BY <2>1, <2>2
  <2>. HIDE DEF y
  <2>8. CallFits(c, y, q, X)
    <3>1. y.seen <= q.version
      BY <2>3, <2>6
    <3>. QED  BY <1>4, <2>2, <2>6, <3>1 DEF CallFits, Working
  <2>9. \A d \in Calls : d # c => calls'[d] = calls[d]
    BY <2>2, <2>7
  <2>. QED  BY <1>1, <2>7, <2>8, <2>9, CallMoves DEF Aside
<1>5. CASE SameRequest(c) /\ q.phase = "in_progress"
  <2>1. CallGoto(c, "wait")
    BY <1>5 DEF LoadRecord, Record, Free
  <2>. QED  BY <1>1, <2>1, GotoKeeps DEF Aside, CallPCs, Working
<1>6. CASE SameRequest(c) /\ q.phase = "complete"
  <2>1. Answer(c, q.response)
    BY <1>6 DEF LoadRecord, Record, Free
  <2>2. q.response \in X /\ Key[q.response] = Key[c] /\ Digest[q.response] = Digest[c]
    BY <1>2, <1>6 DEF RecordFits, SameRequest, Record, Free
  <2>3. q.response \in Calls
    BY <2>2 DEF Ledger
  <2>. HIDE DEF q
  <2>. QED  BY <1>1, <2>1, <2>2, <2>3, AnswerKeeps DEF Aside
<1>7. q.phase \in Phases
  BY <1>2 DEF RecordType
<1>. QED  BY <1>3, <1>4, <1>5, <1>6, <1>7 DEF Phases, Free

\* The reservation of c in a record that is free.
LEMMA ReservedKeeps ==
    ASSUME NEW cal, NEW X, Ledger(records, cal, X), NEW c \in Calls, cal[c].pc # "gone",
           Free(records[Key[c]])
    PROVE  /\ Ledger([records EXCEPT ![Key[c]] = Reserved(c)], cal, X)
           /\ OwnedBy(Reserved(c), c)
<1>. DEFINE k == Key[c]
            q == Reserved(c)
<1>1. k \in Keys /\ records[k] \in RecordType
  BY KeyType DEF Ledger
<1>2. /\ q \in RecordType /\ q.version = records[k].version + 1
      /\ OwnedBy(q, c) /\ q.digest = Digest[c]
  <2>1. records[k].version + 1 \in Nat /\ records[k].generation + 1 \in Nat
    BY <1>1 DEF RecordType
  <2>. HIDE DEF k
  <2>. QED  BY <2>1 DEF Reserved, RecordType, Phases, Record, OwnedBy, k
<1>. HIDE DEF q
<1>3. RecordFits(k, q, X)
  BY <1>2 DEF RecordFits, OwnedBy
<1>4. \A d \in X : Key[d] # k
  BY DEF Ledger, Tells, OwnedBy, Free, IsPast
<1>5. \A d \in Calls : Key[d] = k => cal[d].pc \notin Working
  BY DEF Ledger, CallFits, OwnedBy, Free
<1>. HIDE DEF k
<1>6. Ledger([records EXCEPT ![k] = q], cal, X)
  BY <1>1, <1>2, <1>3, <1>4, <1>5, RecordWritten
<1>. QED  BY <1>2, <1>6 DEF k, q

\* A record that is still the one a call has loaded is free.
LEMMA ClaimedIsFree ==
    ASSUME NEW X, Ledger(records, calls, X), NEW c \in Calls, calls[c].pc = "claim", Unchanged(c)
    PROVE  Free(records[Key[c]])
BY DEF Ledger, CallFits, Unchanged, Record

\* reserve() claims the record.
LEMMA ClaimKeeps ==
    ASSUME NEW X, Ledger(records, calls, X), NEW c \in Calls, Claim(c)
    PROVE  Ledger(records', calls', X) /\ Aside(c)
<1>. DEFINE y == [NewCall EXCEPT !.pc = "execute"]
<1>1. /\ calls[c].pc = "claim" /\ Unchanged(c)
      /\ records' = [records EXCEPT ![Key[c]] = Reserved(c)]
      /\ calls' = [calls EXCEPT ![c] = y]
  BY DEF Claim
<1>2. Ledger(records', calls, X) /\ OwnedBy(Reserved(c), c)
  BY <1>1, ClaimedIsFree, ReservedKeeps
<1>3. records'[Key[c]] = Reserved(c)
  BY <1>1, KeyType DEF Ledger
<1>4. y \in CallType /\ y.pc = "execute" /\ y.answer = NoCall
  BY DEF NewCall, CallType, CallPCs
<1>. HIDE DEF y
<1>5. CallFits(c, y, records'[Key[c]], X)
  BY <1>2, <1>3, <1>4, CallsAssumption DEF CallFits
<1>6. \A d \in Calls : d # c => calls'[d] = calls[d]
  BY <1>1 DEF Ledger
<1>. QED  BY <1>1, <1>2, <1>5, <1>6, CallMoves DEF Aside

\* Another call was first.
LEMMA ClaimLostKeeps ==
    ASSUME NEW X, Ledger(records, calls, X), NEW c \in Calls, ClaimLost(c)
    PROVE  Ledger(records', calls', X) /\ Aside(c)
<1>1. calls[c].pc = "claim" /\ records' = records
  BY DEF ClaimLost
<1>. DEFINE y == [NewCall EXCEPT !.tries = calls[c].tries + 1]
<1>2. CASE calls' = [calls EXCEPT ![c] = y]
  <2>1. calls[c].tries + 1 \in Nat
    BY DEF Ledger, CallType
  <2>2. y \in CallType /\ y.pc = "reserve" /\ y.answer = NoCall
    BY <2>1 DEF NewCall, CallType, CallPCs
  <2>. HIDE DEF y
  <2>3. CallFits(c, y, records[Key[c]], X)
    BY <2>2, CallsAssumption DEF CallFits, Working
  <2>4. \A d \in Calls : d # c => calls'[d] = calls[d]
    BY <1>2 DEF Ledger
  <2>. QED  BY <1>1, <1>2, <2>3, <2>4, CallMoves DEF Aside
<1>3. CASE Answer(c, Failure)
  BY <1>1, <1>3, AnswerKeeps, CallsAssumption DEF Aside
<1>. QED  BY <1>2, <1>3 DEF ClaimLost

\* The repository fails, with the reservation written or not.
LEMMA ClaimFailsKeeps ==
    ASSUME NEW X, Ledger(records, calls, X), NEW c \in Calls, ClaimFails(c)
    PROVE  Ledger(records', calls', X) /\ Aside(c)
<1>1. /\ calls[c].pc = "claim" /\ Unchanged(c) /\ Answer(c, Failure)
      /\ records' \in {records, [records EXCEPT ![Key[c]] = Reserved(c)]}
  BY DEF ClaimFails
<1>2. /\ Ledger(records, calls', X) /\ calls'[c].pc = "done"
      /\ \A d \in Calls : d # c => calls'[d] = calls[d]
  BY <1>1, AnswerKeeps, CallsAssumption
<1>3. Ledger([records EXCEPT ![Key[c]] = Reserved(c)], calls', X)
  BY <1>1, <1>2, ClaimedIsFree, ReservedKeeps
<1>. QED  BY <1>1, <1>2, <1>3 DEF Aside

-----------------------------------------------------------------------------
(* The outcome of a call, and recovery.                                    *)

\* The record that complete() and recover_committed() write.
LEMMA CompletedFacts ==
    ASSUME NEW c \in Calls, records[Key[c]] \in RecordType
    PROVE  /\ Completed(c) \in RecordType /\ Completed(c).phase = "complete"
           /\ Completed(c).response = c /\ Completed(c).digest = records[Key[c]].digest
           /\ Completed(c).version = records[Key[c]].version + 1
<1>. DEFINE q == records[Key[c]]
            v == q.version + 1
            a == [q EXCEPT !.version = v]
            b == [a EXCEPT !.phase = "complete"]
            d == [b EXCEPT !.token = NoCall]
            e == [d EXCEPT !.response = c]
<1>1. Completed(c) = e
  BY DEF Completed, Record
<1>2. v \in Nat
  BY DEF RecordType
<1>. HIDE DEF q, v
<1>3. a \in RecordType /\ a.version = v /\ a.digest = q.digest
  BY <1>2 DEF RecordType, q
<1>. HIDE DEF a
<1>4. b \in RecordType /\ b.version = v /\ b.digest = q.digest /\ b.phase = "complete"
  BY <1>3 DEF RecordType, Phases
<1>. HIDE DEF b
<1>5. d \in RecordType /\ d.version = v /\ d.digest = q.digest /\ d.phase = "complete"
  BY <1>4 DEF RecordType
<1>. HIDE DEF d
<1>6. /\ e \in RecordType /\ e.version = v /\ e.digest = q.digest
      /\ e.phase = "complete" /\ e.response = c
  BY <1>5 DEF RecordType
<1>. HIDE DEF e
<1>. QED  BY <1>1, <1>6 DEF q, v

\* The record that recover_no_mutation() writes.
LEMMA AbandonedFacts ==
    ASSUME NEW c \in Calls, records[Key[c]] \in RecordType
    PROVE  /\ Abandoned(c) \in RecordType /\ Abandoned(c).phase = "abandoned"
           /\ Abandoned(c).version = records[Key[c]].version + 1
<1>. DEFINE q == records[Key[c]]
            v == q.version + 1
            a == [q EXCEPT !.version = v]
            b == [a EXCEPT !.phase = "abandoned"]
            d == [b EXCEPT !.token = NoCall]
<1>1. Abandoned(c) = d
  BY DEF Abandoned, Record
<1>2. v \in Nat
  BY DEF RecordType
<1>. HIDE DEF q, v
<1>3. a \in RecordType /\ a.version = v
  BY <1>2 DEF RecordType, q
<1>. HIDE DEF a
<1>4. b \in RecordType /\ b.version = v /\ b.phase = "abandoned"
  BY <1>3 DEF RecordType, Phases
<1>. HIDE DEF b
<1>5. d \in RecordType /\ d.version = v /\ d.phase = "abandoned"
  BY <1>4 DEF RecordType
<1>. HIDE DEF d
<1>. QED  BY <1>1, <1>5 DEF q, v

\* The owner of a reservation that does not work any more has its response.
LEMMA CompletedKeeps ==
    ASSUME NEW cal, NEW X, Ledger(records, cal, X), NEW c \in X, OwnedBy(records[Key[c]], c),
           cal[c].pc \notin Working
    PROVE  Ledger([records EXCEPT ![Key[c]] = Completed(c)], cal, X)
<1>. DEFINE k == Key[c]
            q == Completed(c)
<1>1. c \in Calls /\ k \in Keys /\ records[k] \in RecordType /\ RecordFits(k, records[k], X)
  BY KeyType DEF Ledger
<1>2. /\ q \in RecordType /\ q.phase = "complete" /\ q.response = c
      /\ q.digest = records[k].digest /\ q.version = records[k].version + 1
  BY <1>1, CompletedFacts
<1>. HIDE DEF q
<1>3. RecordFits(k, q, X)
  BY <1>1, <1>2 DEF RecordFits, OwnedBy
<1>4. \A d \in X : Key[d] = k => Tells(q, d)
  BY <1>2 DEF Ledger, Tells, OwnedBy, IsPast
<1>5. \A d \in Calls : Key[d] = k => cal[d].pc \notin Working
  BY DEF Ledger, CallFits, OwnedBy
<1>. HIDE DEF k
<1>6. Ledger([records EXCEPT ![k] = q], cal, X)
  BY <1>1, <1>2, <1>3, <1>4, <1>5, RecordWritten
<1>. QED  BY <1>6 DEF k, q

\* complete(), whether or not the repository fails.
LEMMA CompleteKeeps ==
    ASSUME NEW X, Ledger(records, calls, X), NEW c \in Calls, Complete(c) \/ CompleteFails(c)
    PROVE  Ledger(records', calls', X) /\ Aside(c)
<1>1. /\ calls[c].pc = "complete"
      /\ \/ /\ Answer(c, c) \/ Answer(c, Failure)
            /\ records' \in {records, [records EXCEPT ![Key[c]] = Completed(c)]}
         \/ Answer(c, Failure) /\ records' = records
  BY DEF Complete, CompleteFails
<1>2. c \in X /\ OwnedBy(records[Key[c]], c)
  BY <1>1 DEF Ledger, CallFits, Working
<1>3. /\ Ledger(records, calls', X) /\ calls'[c].pc = "done"
      /\ \A d \in Calls : d # c => calls'[d] = calls[d]
  <2>1. CASE Answer(c, c)
    BY <1>1, <1>2, <2>1, AnswerKeeps
  <2>2. CASE Answer(c, Failure)
    BY <1>1, <2>2, AnswerKeeps, CallsAssumption
  <2>. QED  BY <1>1, <2>1, <2>2
<1>4. Ledger([records EXCEPT ![Key[c]] = Completed(c)], calls', X)
  BY <1>2, <1>3, CompletedKeeps DEF Working
<1>. QED  BY <1>1, <1>3, <1>4 DEF Aside

\* wait_for_completion() ends.
LEMMA WaitKeeps ==
    ASSUME NEW X, Ledger(records, calls, X), NEW c \in Calls, Waited(c) \/ WaitEnds(c)
    PROVE  Ledger(records', calls', X) /\ Aside(c)
<1>. DEFINE q == records[Key[c]]
<1>1. calls[c].pc = "wait" /\ records' = records
  BY DEF Waited, WaitEnds
<1>2. CASE Answer(c, Failure)
  BY <1>1, <1>2, AnswerKeeps, CallsAssumption DEF Aside
<1>3. CASE /\ q.phase # "in_progress" /\ SameRequest(c) /\ ~Free(q)
           /\ Answer(c, q.response)
  <2>1. RecordFits(Key[c], q, X) /\ q.phase \in Phases
    BY KeyType DEF Ledger, RecordType
  <2>2. q.phase = "complete" /\ q.digest = Digest[c]
    BY <1>3, <2>1 DEF Phases, Free, SameRequest, Record
  <2>3. /\ q.response \in X /\ Key[q.response] = Key[c] /\ Digest[q.response] = Digest[c]
        /\ q.response \in Calls
    BY <2>1, <2>2 DEF RecordFits, Ledger
  <2>. HIDE DEF q
  <2>. QED  BY <1>1, <1>3, <2>3, AnswerKeeps DEF Aside
<1>. QED  BY <1>2, <1>3 DEF Waited, WaitEnds, Record

\* Reconciliation of a reservation whose call is over.
LEMMA RecoverKeeps ==
    ASSUME NEW X, Ledger(records, calls, X), NEW k \in Keys, Stranded(k),
           \/ records[k].token \in X /\ RecoverCommitted(k)
           \/ records[k].token \notin X /\ RecoverNoMutation(k)
    PROVE  Ledger(records', calls', X) /\ calls' = calls
<1>. DEFINE c == records[k].token
<1>1. records[k].phase = "in_progress" /\ calls[c].pc \in {"done", "gone"}
  BY DEF Stranded
<1>2. c \in Calls /\ Key[c] = k /\ records[k] \in RecordType
  BY <1>1 DEF Ledger, RecordFits
<1>3. OwnedBy(records[Key[c]], c) /\ calls[c].pc \notin Working
  BY <1>1, <1>2 DEF OwnedBy, Working
<1>4. CASE c \in X /\ RecoverCommitted(k)
  <2>1. records' = [records EXCEPT ![Key[c]] = Completed(c)] /\ calls' = calls
    BY <1>2, <1>4 DEF RecoverCommitted
  <2>. HIDE DEF c
  <2>. QED  BY <1>3, <1>4, <2>1, CompletedKeeps
<1>5. CASE c \notin X /\ RecoverNoMutation(k)
  <2>. DEFINE q == Abandoned(c)
  <2>1. records' = [records EXCEPT ![k] = q] /\ calls' = calls
    BY <1>5 DEF RecoverNoMutation
  <2>2. q \in RecordType /\ q.phase = "abandoned" /\ q.version = records[k].version + 1
    BY <1>2, AbandonedFacts
  <2>. HIDE DEF q
  <2>3. RecordFits(k, q, X)
    BY <2>2 DEF RecordFits
  <2>4. \A d \in X : Key[d] # k
    BY <1>1, <1>5 DEF Ledger, Tells, OwnedBy, IsPast
  <2>5. \A d \in Calls : Key[d] = k => calls[d].pc \notin Working
    BY <1>1, <1>2, <1>3 DEF Ledger, CallFits, OwnedBy
  <2>. HIDE DEF c
  <2>. QED  BY <2>1, <2>2, <2>3, <2>4, <2>5, RecordWritten
<1>. QED  BY <1>4, <1>5

-----------------------------------------------------------------------------
(* The invariant.                                                          *)

\* The calls that have acted, durably.
Acted == Made(Latest) \cup merges

\* Every version of the root was made by calls, and passes the validation.
History == \A v \in 0 .. Len(roots) : Attributed(At(v)) /\ Valid(At(v))

\* A busy instance serves a call that runs on it, and holds what that call makes
\* of the version that the instance knows.
InstanceFits(i) ==
    LET x == inst[i] IN
    Busy(i) => /\ x.req \in Calls /\ Daemon[x.req] = i /\ calls[x.req].pc = "running"
               /\ FollowsBy(x.req, At(x.gen), x.mem)

\* The invariant: the snapshots, the history, the records and the instances.
HandoffsInv ==
    /\ SnapshotsInv
    /\ History
    /\ merges \subseteq {c \in Calls : Request[c].op = "merge"}
    /\ Ledger(records, calls, Acted)
    /\ \A i \in Instances : InstanceFits(i)

\* An instance that takes no step still fits.
LEMMA StillFits ==
    ASSUME NEW i \in Instances, InstanceInv(i), InstanceFits(i), RootsGrow, inst'[i] = inst[i],
           Busy(i) => calls'[inst[i].req] = calls[inst[i].req]
    PROVE  InstanceFits(i)'
<1>1. At(inst[i].gen)' = At(inst[i].gen)
  BY DEF InstanceInv, RootsGrow, At
<1>2. Busy(i)' = Busy(i)
  BY DEF Busy
<1>3. At(inst[i].gen)' = Version(roots', inst[i].gen)
  BY DEF At
<1>. QED  BY <1>1, <1>2, <1>3 DEF InstanceFits, At

\* A step of the calls and their records alone.
LEMMA CallsAloneKeep ==
    ASSUME HandoffsInv, UNCHANGED <<roots, chunks, inst, own, merges>>,
           Fault \/ UNCHANGED faults, Ledger(records', calls', Acted),
           \A i \in Instances : Busy(i) => calls'[inst[i].req] = calls[inst[i].req]
    PROVE  HandoffsInv'
<1>1. faults' \in 0 .. MaxFaults
  BY FaultCounted DEF HandoffsInv
<1>2. SnapshotsInv'
  BY <1>1 DEF HandoffsInv, SnapshotsInv, InstanceInv, Busy, At
<1>3. RootsGrow
  BY RootsStay DEF HandoffsInv
<1>4. \A i \in Instances : InstanceFits(i)'
  BY <1>3, StillFits DEF HandoffsInv, SnapshotsInv
<1>5. History' /\ Acted' = Acted
  BY DEF HandoffsInv, History, At, Acted, Latest
<1>. QED  BY <1>2, <1>4, <1>5 DEF HandoffsInv

\* A call that is not running is no instance's request.
LEMMA AsideKeeps ==
    ASSUME HandoffsInv, NEW c \in Calls, Aside(c), NEW i \in Instances, Busy(i)
    PROVE  calls'[inst[i].req] = calls[inst[i].req]
BY DEF HandoffsInv, InstanceFits, Aside

\* reserve()
LEMMA ReserveKeeps ==
    ASSUME HandoffsInv, NEW c \in Calls, Reserve(c)
    PROVE  HandoffsInv'
<1>1. Ledger(records, calls, Acted)
  BY DEF HandoffsInv
<1>2. Ledger(records', calls', Acted) /\ Aside(c)
  BY <1>1, LoadRecordKeeps, ClaimKeeps, ClaimLostKeeps DEF Reserve
<1>3. UNCHANGED <<roots, chunks, inst, own, merges, faults>>
  BY DEF Reserve, snapshotVars
<1>. QED  BY <1>2, <1>3, AsideKeeps, CallsAloneKeep

\* complete() and wait_for_completion()
LEMMA SettleKeeps ==
    ASSUME HandoffsInv, NEW c \in Calls, Settle(c)
    PROVE  HandoffsInv'
<1>1. Ledger(records, calls, Acted)
  BY DEF HandoffsInv
<1>2. Ledger(records', calls', Acted) /\ Aside(c)
  BY <1>1, CompleteKeeps, WaitKeeps DEF Settle
<1>3. UNCHANGED <<roots, chunks, inst, own, merges, faults>>
  BY DEF Settle, snapshotVars
<1>. QED  BY <1>2, <1>3, AsideKeeps, CallsAloneKeep

\* The repository of the records fails.
LEMMA IdempotencyFailsKeeps ==
    ASSUME HandoffsInv, NEW c \in Calls, IdempotencyFails(c)
    PROVE  HandoffsInv'
<1>1. Ledger(records, calls, Acted)
  BY DEF HandoffsInv
<1>2. Ledger(records', calls', Acted) /\ Aside(c)
  BY <1>1, ClaimFailsKeeps, CompleteKeeps DEF IdempotencyFails
<1>3. UNCHANGED <<roots, chunks, inst, own, merges>> /\ Fault
  BY DEF IdempotencyFails
<1>. QED  BY <1>2, <1>3, AsideKeeps, CallsAloneKeep

\* The delegate refuses.
LEMMA RefuseKeeps ==
    ASSUME HandoffsInv, NEW c \in Calls, Refuse(c)
    PROVE  HandoffsInv'
<1>1. Ledger(records, calls, Acted)
  BY DEF HandoffsInv
<1>2. calls[c].pc = "execute" /\ Answer(c, Failure) /\ records' = records
  BY DEF Refuse, Indeterminate
<1>3. Ledger(records', calls', Acted) /\ Aside(c)
  BY <1>1, <1>2, AnswerKeeps, CallsAssumption DEF Aside
<1>4. UNCHANGED <<roots, chunks, inst, own, merges, faults>>
  BY DEF Refuse, snapshotVars
<1>. QED  BY <1>3, <1>4, AsideKeeps, CallsAloneKeep

\* verified_merge_material()
LEMMA ReadMaterialKeeps ==
    ASSUME HandoffsInv, NEW c \in Calls, ReadMaterial(c)
    PROVE  HandoffsInv'
<1>1. Ledger(records, calls, Acted)
  BY DEF HandoffsInv
<1>2. calls[c].pc = "execute" /\ CallGoto(c, "running") /\ records' = records
  BY DEF ReadMaterial
<1>3. OwnedBy(records[Key[c]], c)
  BY <1>1, <1>2 DEF Ledger, CallFits, Working
<1>4. Ledger(records', calls', Acted) /\ Aside(c)
  BY <1>1, <1>2, <1>3, GotoKeeps DEF Aside, CallPCs
<1>5. UNCHANGED <<roots, chunks, inst, own, merges, faults>>
  BY DEF ReadMaterial, snapshotVars
<1>. QED  BY <1>4, <1>5, AsideKeeps, CallsAloneKeep

\* recover_committed() and recover_no_mutation(): what is attested is true.
LEMMA RecoveryKeeps ==
    ASSUME HandoffsInv, NEW k \in Keys, Recover(k)
    PROVE  HandoffsInv'
<1>1. Ledger(records, calls, Acted)
  BY DEF HandoffsInv
<1>2. /\ Stranded(k)
      /\ \/ records[k].token \in Acted /\ RecoverCommitted(k)
         \/ records[k].token \notin Acted /\ RecoverNoMutation(k)
  BY DEF Recover, RecoverCommitted, RecoverNoMutation, Executed, Acted
<1>3. Ledger(records', calls', Acted) /\ calls' = calls
  BY <1>1, <1>2, RecoverKeeps
<1>4. UNCHANGED <<roots, chunks, inst, own, merges, faults>>
  BY DEF Recover, snapshotVars
<1>. QED  BY <1>3, <1>4, CallsAloneKeep

-----------------------------------------------------------------------------
(* The steps that execute a call, and restarts.                            *)

\* A running call that has acted is applied, and one that may have is not.
LEMMA OutcomeKeeps ==
    ASSUME NEW X, Ledger(records, calls, X), NEW c \in Calls, calls[c].pc = "running",
           \/ Applied(c) /\ c \in X
           \/ Indeterminate(c)
    PROVE  Ledger(records', calls', X) /\ \A d \in Calls : d # c => calls'[d] = calls[d]
<1>1. OwnedBy(records[Key[c]], c)
  BY DEF Ledger, CallFits, Working
<1>2. CASE Applied(c) /\ c \in X
  BY <1>1, <1>2, GotoKeeps DEF Applied, CallPCs
<1>3. CASE Indeterminate(c)
  BY <1>3, AnswerKeeps, CallsAssumption DEF Indeterminate
<1>. QED  BY <1>2, <1>3

\* merge_child_result_and_publish()
LEMMA PublishMergeKeeps ==
    ASSUME HandoffsInv, NEW c \in Calls, PublishMerge(c)
    PROVE  HandoffsInv'
<1>1. /\ Ledger(records, calls, Acted) /\ SnapshotsInv /\ History
      /\ merges \subseteq {d \in Calls : Request[d].op = "merge"}
      /\ \A i \in Instances : InstanceFits(i)
  BY DEF HandoffsInv
<1>2. /\ calls[c].pc = "running" /\ Request[c].op = "merge"
      /\ UNCHANGED <<roots, chunks, inst, own>> /\ (Fault \/ UNCHANGED faults)
      /\ merges' \in {merges, merges \cup {c}}
      /\ \/ Applied(c) /\ merges' = merges \cup {c}
         \/ Indeterminate(c)
  BY DEF PublishMerge
<1>3. Acted' \in {Acted, Acted \cup {c}} /\ (merges' = merges \cup {c} => c \in Acted')
  BY <1>2 DEF Acted, Latest, At
<1>4. Ledger(records, calls, Acted')
  <2>1. OwnedBy(records[Key[c]], c)
    BY <1>1, <1>2 DEF Ledger, CallFits, Working
  <2>2. Ledger(records, calls, Acted \cup {c})
    BY <1>1, <2>1, CallActs
  <2>. QED  BY <1>1, <1>3, <2>2
<1>5. Ledger(records', calls', Acted') /\ \A d \in Calls : d # c => calls'[d] = calls[d]
  BY <1>2, <1>3, <1>4, OutcomeKeeps
<1>6. \A i \in Instances : Busy(i) => inst[i].req \in Calls /\ inst[i].req # c
  BY <1>1, <1>2 DEF InstanceFits, FollowsBy
<1>7. faults' \in 0 .. MaxFaults
  BY <1>1, <1>2, FaultCounted
<1>8. SnapshotsInv'
  BY <1>1, <1>2, <1>7 DEF SnapshotsInv, InstanceInv, Busy, At
<1>9. RootsGrow
  BY <1>1, <1>2, RootsStay
<1>10. \A i \in Instances : InstanceFits(i)'
  BY <1>1, <1>2, <1>5, <1>6, <1>9, StillFits DEF SnapshotsInv
<1>11. History'
  BY <1>1, <1>2 DEF History, At
<1>12. merges' \subseteq {d \in Calls : Request[d].op = "merge"}
  BY <1>1, <1>2
<1>. QED  BY <1>5, <1>8, <1>10, <1>11, <1>12 DEF HandoffsInv

\* transact() in the name of a call.
LEMMA ExecuteKeeps ==
    ASSUME ServiceIsHandoffs, HandoffsInv, NEW c \in Calls, Execute(c)
    PROVE  HandoffsInv'
<1>. DEFINE i == Daemon[c]
            x == inst[i]
<1>1. /\ Ledger(records, calls, Acted) /\ SnapshotsInv /\ History
      /\ \A j \in Instances : InstanceFits(j)
  BY DEF HandoffsInv
<1>2. i \in Instances /\ InstanceInv(i) /\ i \in DOMAIN inst
  BY <1>1, RequestsAssumption DEF SnapshotsInv
<1>3. /\ calls[c].pc = "execute" /\ Transact(i, c) /\ CallGoto(c, "running")
      /\ records' = records /\ merges' = merges
  BY DEF Execute
<1>4. x.pc = "idle" /\ UNCHANGED <<roots, chunks, own, faults>>
  BY <1>3 DEF Transact
<1>. DEFINE y(s) == [pc |-> "chunk", mem |-> s, prior |-> x.mem, gen |-> x.gen, req |-> c]
<1>5. PICK s \in Apply(c, x.mem) \ {x.mem} : Valid(s) /\ inst' = [inst EXCEPT ![i] = y(s)]
  BY <1>3 DEF Transact
<1>6. x.mem = At(x.gen) /\ x.gen \in 0 .. Len(roots)
  BY <1>2, <1>4 DEF InstanceInv
<1>7. FollowsBy(c, At(x.gen), s)
  <2>1. s \in ApplyHandoff(c, At(x.gen)) \ {At(x.gen)}
    BY <1>5, <1>6 DEF ServiceIsHandoffs
  <2>2. Attributed(At(x.gen))
    BY <1>1, <1>6 DEF History
  <2>. HIDE DEF x
  <2>. QED  BY <2>1, <2>2, ApplyFollows
<1>8. SnapshotsInv'
  <2>1. c \in Requests(i, x.mem)
    BY <1>7 DEF ServiceIsHandoffs, HandoffCalls, CallsOf, FollowsBy
  <2>. HIDE DEF i
  <2>. QED  BY <1>1, <1>2, <1>3, <2>1, TransactPreserves
<1>9. /\ Ledger(records', calls', Acted) /\ calls'[c].pc = "running"
      /\ \A d \in Calls : d # c => calls'[d] = calls[d]
  <2>1. OwnedBy(records[Key[c]], c)
    BY <1>1, <1>3 DEF Ledger, CallFits, Working
  <2>. QED  BY <1>1, <1>3, <2>1, GotoKeeps DEF CallPCs
<1>10. Acted' = Acted /\ History'
  BY <1>1, <1>3, <1>4 DEF Acted, Latest, At, History
<1>11. RootsGrow
  BY <1>1, <1>4, RootsStay
<1>12. ASSUME NEW j \in Instances PROVE InstanceFits(j)'
  <2>1. CASE j = i
    <3>1. inst'[i] = y(s)
      BY <1>2, <1>5
    <3>2. inst'[i].req = c /\ inst'[i].gen = x.gen /\ inst'[i].mem = s
      BY <3>1
    <3>3. Version(roots', x.gen) = At(x.gen)
      BY <1>4 DEF At
    <3>. HIDE DEF y
    <3>. QED  BY <1>7, <1>9, <2>1, <3>2, <3>3 DEF InstanceFits, At
  <2>2. CASE j # i
    <3>1. inst'[j] = inst[j]
      BY <1>1, <1>5, <2>2 DEF SnapshotsInv
    <3>2. Busy(j) => inst[j].req \in Calls /\ inst[j].req # c
      BY <1>1, <2>2 DEF InstanceFits
    <3>. QED  BY <1>1, <1>9, <1>11, <3>1, <3>2, StillFits DEF SnapshotsInv
  <2>. QED  BY <2>1, <2>2
<1>13. merges' \subseteq {d \in Calls : Request[d].op = "merge"}
  BY <1>3 DEF HandoffsInv
<1>. QED  BY <1>8, <1>9, <1>10, <1>12, <1>13 DEF HandoffsInv

\* The process ends: its calls are gone, and its request with them.
LEMMA DaemonEndsKeeps ==
    ASSUME HandoffsInv, NEW i \in Instances, DaemonEnds(i)
    PROVE  HandoffsInv'
<1>1. /\ Ledger(records, calls, Acted) /\ SnapshotsInv /\ History
      /\ \A j \in Instances : InstanceFits(j)
  BY DEF HandoffsInv
<1>2. /\ Crash(i) /\ CallsEnd(CallsOf(i)) /\ records' = records /\ merges' = merges
      /\ UNCHANGED <<roots, chunks, own>>
  BY DEF DaemonEnds, Crash
<1>3. SnapshotsInv'
  BY <1>1, <1>2, CrashPreserves
<1>4. /\ calls' = [c \in Calls |-> calls'[c]]
      /\ \A c \in Calls : calls'[c] = calls[c] \/ calls'[c] = [NewCall EXCEPT !.pc = "gone"]
      /\ \A c \in Calls : Daemon[c] # i => calls'[c] = calls[c]
  BY <1>2 DEF CallsEnd, CallsOf
<1>5. Ledger(records', calls', Acted)
  BY <1>1, <1>2, <1>4, CallsGone
<1>6. RootsGrow
  BY <1>1, <1>2, RootsStay
<1>7. ASSUME NEW j \in Instances PROVE InstanceFits(j)'
  <2>1. CASE j = i
    <3>1. inst'[i].pc = "down"
      BY <1>1, <1>2 DEF SnapshotsInv, Crash, Serving
    <3>. QED  BY <2>1, <3>1 DEF InstanceFits, Busy
  <2>2. CASE j # i
    <3>1. inst'[j] = inst[j]
      BY <1>1, <1>2, <2>2 DEF SnapshotsInv, Crash
    <3>2. Busy(j) => inst[j].req \in Calls /\ Daemon[inst[j].req] # i
      BY <1>1, <2>2 DEF InstanceFits
    <3>. QED  BY <1>1, <1>4, <1>6, <3>1, <3>2, StillFits DEF SnapshotsInv
  <2>. QED  BY <2>1, <2>2
<1>8. Acted' = Acted /\ History'
  BY <1>1, <1>2 DEF Acted, Latest, At, History
<1>9. merges' \subseteq {d \in Calls : Request[d].op = "merge"}
  BY <1>2 DEF HandoffsInv
<1>. QED  BY <1>3, <1>5, <1>7, <1>8, <1>9 DEF HandoffsInv

\* A new process installs the last root.
LEMMA DaemonStartsKeeps ==
    ASSUME HandoffsInv, NEW i \in Instances, DaemonStarts(i)
    PROVE  HandoffsInv'
<1>1. /\ Ledger(records, calls, Acted) /\ SnapshotsInv /\ History
      /\ \A j \in Instances : InstanceFits(j)
  BY DEF HandoffsInv
<1>2. /\ Open(i) /\ records' = records /\ calls' = calls /\ merges' = merges
      /\ UNCHANGED <<roots, chunks, own>>
  BY DEF DaemonStarts, Open, callVars
<1>3. SnapshotsInv'
  BY <1>1, <1>2, OpenPreserves
<1>6. RootsGrow
  BY <1>1, <1>2, RootsStay
<1>7. ASSUME NEW j \in Instances PROVE InstanceFits(j)'
  <2>1. CASE j = i
    <3>1. inst'[i].pc = "idle"
      BY <1>1, <1>2 DEF SnapshotsInv, Open, Serving
    <3>. QED  BY <2>1, <3>1 DEF InstanceFits, Busy
  <2>2. CASE j # i
    <3>1. inst'[j] = inst[j]
      BY <1>1, <1>2, <2>2 DEF SnapshotsInv, Open
    <3>. QED  BY <1>1, <1>2, <1>6, <3>1, StillFits DEF SnapshotsInv
  <2>. QED  BY <2>1, <2>2
<1>8. Acted' = Acted /\ History'
  BY <1>1, <1>2 DEF Acted, Latest, At, History
<1>9. merges' \subseteq {d \in Calls : Request[d].op = "merge"}
  BY <1>2 DEF HandoffsInv
<1>. QED  BY <1>1, <1>2, <1>3, <1>7, <1>8, <1>9 DEF HandoffsInv

-----------------------------------------------------------------------------
(* The publication of a root.                                              *)

\* The root that instance i writes, in what it means for the service.
RootWritten(i) ==
    /\ Latest = At(inst[i].gen) /\ Len(roots') = Len(roots) + 1
    /\ Latest' = inst[i].mem /\ Version(roots', Len(roots) + 1) = inst[i].mem

\* A root is written over the version that it was made from.
LEMMA WrittenIsLatest ==
    ASSUME SnapshotsInv, NEW i \in Instances, inst[i].pc = "commit", WriteRoot(i), UNCHANGED chunks
    PROVE  RootsGrow /\ RootWritten(i)
<1>1. /\ RootsGrow /\ Len(roots) = inst[i].gen /\ Len(roots') = inst[i].gen + 1
      /\ Version(roots', inst[i].gen + 1) = inst[i].mem
  BY WrittenRoot
<1>. QED  BY <1>1 DEF RootWritten, Latest, At

\* What instance i may do in the middle of transact().
Moved(i) ==
    inst'[i] \in [pc : {"commit", "reconcile"}, mem : {inst[i].mem}, prior : {inst[i].prior},
                  gen : {inst[i].gen}, req : {inst[i].req}]

\* transact() ends.
Ended(i) == inst'[i].req = NoRequest /\ inst'[i].pc \in {"idle", "poisoned"}

\* Whether or not a commit fails, transact() answers Ok only when its state is
\* the last root.
LEMMA PublicationFacts ==
    ASSUME SnapshotsInv, NEW i \in Instances,
           EnsureChunk(i) \/ CommitRoot(i) \/ Reconcile(i) \/ Poison(i)
    PROVE  /\ RootsGrow /\ Busy(i) /\ inst' = [inst EXCEPT ![i] = inst'[i]]
           /\ Moved(i) \/ Ended(i)
           /\ roots' = roots \/ RootWritten(i)
           /\ Ended(i) /\ inst'[i] = Published(i) => Latest' = inst[i].mem
<1>. DEFINE x == inst[i]
<1>1. InstanceInv(i) /\ i \in DOMAIN inst
  BY DEF SnapshotsInv
<1>2. ASSUME NEW pc \in {"commit", "reconcile"}, Goto(i, pc)
      PROVE  inst' = [inst EXCEPT ![i] = inst'[i]] /\ Moved(i) /\ inst'[i].pc # "idle"
  <2>1. /\ inst' = [inst EXCEPT ![i] = inst'[i]]
        /\ inst'[i] = [pc |-> pc, mem |-> inst[i].mem, prior |-> inst[i].prior,
                       gen |-> inst[i].gen, req |-> inst[i].req]
    BY <1>2, GotoEffect
  <2>. QED  BY <2>1 DEF Moved
<1>3. Published(i).pc = "idle" /\ Published(i).req = NoRequest
  BY DEF Published, Serving
<1>4. CASE EnsureChunk(i)
  <2>1. roots' = roots /\ chunks \subseteq chunks' /\ Busy(i)
    BY <1>4 DEF EnsureChunk, WithChunk, Busy
  <2>2. RootsGrow
    BY <2>1, RootsStay
  <2>3. PICK pc \in {"commit", "reconcile"} : Goto(i, pc)
    BY <1>4 DEF EnsureChunk
  <2>. QED  BY <1>2, <1>3, <2>1, <2>2, <2>3
<1>5. CASE CommitRoot(i)
  <2>1. x.pc = "commit" /\ UNCHANGED chunks /\ Busy(i)
    BY <1>5 DEF CommitRoot, Busy
  <2>2. CASE WriteRoot(i) /\ inst' = [inst EXCEPT ![i] = Published(i)]
    <3>1. RootsGrow /\ RootWritten(i)
      BY <2>1, <2>2, WrittenIsLatest
    <3>2. inst'[i] = Published(i)
      BY <1>1, <2>2
    <3>. QED  BY <1>3, <2>1, <2>2, <3>1, <3>2 DEF Ended, RootWritten
  <2>3. CASE WriteRoot(i) /\ Goto(i, "reconcile")
    <3>1. RootsGrow /\ RootWritten(i)
      BY <2>1, <2>3, WrittenIsLatest
    <3>. QED  BY <1>2, <1>3, <2>1, <2>3, <3>1
  <2>4. CASE Goto(i, "reconcile") /\ UNCHANGED <<roots, own>>
    <3>1. RootsGrow
      BY <2>1, <2>4, RootsStay
    <3>. QED  BY <1>2, <1>3, <2>1, <2>4, <3>1
  <2>. QED  BY <1>5, <2>2, <2>3, <2>4 DEF CommitRoot
<1>6. CASE Reconcile(i)
  <2>1. UNCHANGED <<roots, chunks>> /\ Busy(i)
    BY <1>6 DEF Reconcile, Busy
  <2>2. inst' = [inst EXCEPT ![i] = Serving(Latest, Len(roots))]
    BY <1>6 DEF Reconcile, FoundOwn, Published
  <2>3. inst'[i] = Serving(Latest, Len(roots)) /\ Latest' = Latest
    BY <1>1, <2>1, <2>2 DEF Latest, At
  <2>4. Ended(i) /\ inst'[i].mem = Latest'
    BY <2>3 DEF Ended, Serving
  <2>5. inst'[i] = Published(i) => inst'[i].mem = inst[i].mem
    BY DEF Published, Serving
  <2>6. RootsGrow
    BY <2>1, RootsStay
  <2>. QED  BY <2>1, <2>2, <2>3, <2>4, <2>5, <2>6
<1>7. CASE Poison(i)
  <2>1. UNCHANGED <<roots, chunks>> /\ Busy(i)
    BY <1>7 DEF Poison, Busy
  <2>2. inst' = [inst EXCEPT ![i] = Poisoned(i)] /\ inst'[i] = Poisoned(i)
    BY <1>1, <1>7 DEF Poison
  <2>3. Ended(i) /\ inst'[i].pc = "poisoned"
    BY <2>2 DEF Ended, Poisoned, KeepServing, Serving
  <2>4. RootsGrow
    BY <2>1, RootsStay
  <2>. QED  BY <1>3, <2>1, <2>2, <2>3, <2>4
<1>. QED  BY <1>4, <1>5, <1>6, <1>7

\* A step of publish(): a call acts when its root is written, and only then is
\* it taken for applied.
LEMMA PublicationKeeps ==
    ASSUME HandoffsInv, NEW i \in Instances, Publication(i)
    PROVE  HandoffsInv'
<1>. DEFINE x == inst[i]
            c == x.req
<1>1. /\ Ledger(records, calls, Acted) /\ SnapshotsInv /\ History
      /\ \A j \in Instances : InstanceFits(j)
  BY DEF HandoffsInv
<1>2. (EnsureChunk(i) \/ CommitRoot(i) \/ Reconcile(i) \/ Poison(i)) /\ merges' = merges
  BY DEF Publication
<1>3. /\ RootsGrow /\ Busy(i) /\ inst' = [inst EXCEPT ![i] = inst'[i]]
      /\ Moved(i) \/ Ended(i)
      /\ roots' = roots \/ RootWritten(i)
      /\ Ended(i) /\ inst'[i] = Published(i) => Latest' = x.mem
  BY <1>1, <1>2, PublicationFacts
<1>4. SnapshotsInv'
  BY <1>1, <1>2, EnsureChunkPreserves, CommitRootPreserves, ReconcilePreserves, PoisonPreserves
<1>5. /\ c \in Calls /\ Daemon[c] = i /\ calls[c].pc = "running" /\ FollowsBy(c, At(x.gen), x.mem)
      /\ Valid(x.mem) /\ x.gen \in 0 .. Len(roots) /\ c # NoRequest
  BY <1>1, <1>3, RequestsAssumption DEF InstanceFits, SnapshotsInv, InstanceInv
<1>6. History'
  <2>1. CASE roots' = roots
    BY <1>1, <2>1 DEF History, At
  <2>2. CASE RootWritten(i)
    <3>. SUFFICES ASSUME NEW v \in 0 .. Len(roots')
                  PROVE  Attributed(Version(roots', v)) /\ Valid(Version(roots', v))
      BY DEF History, At
    <3>1. CASE v \in 0 .. Len(roots)
      BY <1>1, <1>3, <3>1 DEF History, RootsGrow, At
    <3>2. CASE v = Len(roots) + 1
      BY <1>5, <2>2, <3>2 DEF RootWritten, FollowsBy
    <3>. QED  BY <1>3, <2>2, <3>1, <3>2 DEF RootWritten, RootsGrow
  <2>. QED  BY <1>3, <2>1, <2>2
<1>7. Acted' \in {Acted, Acted \cup {c}}
  <2>1. CASE roots' = roots
    BY <1>2, <2>1 DEF Acted, Latest, At
  <2>2. CASE RootWritten(i)
    BY <1>2, <1>5, <2>2 DEF Acted, RootWritten, FollowsBy
  <2>. QED  BY <1>3, <2>1, <2>2
<1>8. Latest' = x.mem => c \in Acted'
  BY <1>5 DEF Acted, FollowsBy
<1>9. Ledger(records, calls, Acted')
  <2>1. OwnedBy(records[Key[c]], c)
    BY <1>1, <1>5 DEF Ledger, CallFits, Working
  <2>. HIDE DEF c
  <2>2. Ledger(records, calls, Acted \cup {c})
    BY <1>1, <1>5, <2>1, CallActs
  <2>. QED  BY <1>1, <1>7, <2>2
<1>10. \/ Moved(i) /\ UNCHANGED <<records, calls>>
       \/ Ended(i) /\ ((Applied(c) /\ c \in Acted') \/ Indeterminate(c))
  <2>1. CASE Moved(i)
    BY <2>1 DEF Moved, Publication, callVars
  <2>2. CASE Ended(i)
    BY <1>3, <1>5, <1>8, <2>2 DEF Ended, Publication
  <2>. QED  BY <1>3, <2>1, <2>2
<1>11. Ledger(records', calls', Acted') /\ \A d \in Calls : d # c => calls'[d] = calls[d]
  <2>. HIDE DEF c
  <2>. QED  BY <1>5, <1>9, <1>10, OutcomeKeeps
<1>12. ASSUME NEW j \in Instances PROVE InstanceFits(j)'
  <2>1. CASE j # i
    <3>1. inst'[j] = inst[j]
      BY <1>1, <1>3, <2>1 DEF SnapshotsInv
    <3>2. Busy(j) => inst[j].req \in Calls /\ inst[j].req # c
      BY <1>1, <1>5, <2>1 DEF InstanceFits
    <3>. QED  BY <1>1, <1>3, <1>11, <3>1, <3>2, StillFits DEF SnapshotsInv
  <2>2. CASE j = i /\ Ended(i)
    BY <2>2 DEF InstanceFits, Busy, Ended
  <2>3. CASE j = i /\ Moved(i) /\ calls' = calls
    <3>1. inst'[i].req = c /\ inst'[i].mem = x.mem /\ inst'[i].gen = x.gen
      BY <2>3 DEF Moved
    <3>2. Version(roots', x.gen) = At(x.gen)
      BY <1>3, <1>5 DEF RootsGrow, At
    <3>. QED  BY <1>5, <2>3, <3>1, <3>2 DEF InstanceFits, At
  <2>. QED  BY <1>10, <2>1, <2>2, <2>3
<1>13. merges' \subseteq {d \in Calls : Request[d].op = "merge"}
  BY <1>2 DEF HandoffsInv
<1>. QED  BY <1>4, <1>6, <1>11, <1>12, <1>13 DEF HandoffsInv

-----------------------------------------------------------------------------
(* Histories and theorems.                                                 *)

\* What earlier processes have published was made by calls.
LEMMA StartIsAttributed ==
    ASSUME ServiceIsHandoffs, NEW start \in Starts
    PROVE  \A v \in 0 .. Len(start) : Attributed(Version(start, v)) /\ Valid(Version(start, v))
<1>. DEFINE S == {n \in Nat : n <= Len(start) =>
                      Attributed(Version(start, n)) /\ Valid(Version(start, n))}
<1>1. Len(start) \in Nat /\ \A v \in 1 .. Len(start) : Follows(start, v)
  <2>1. start \in Seq({start[v] : v \in DOMAIN start})
    BY SnapshotsAssumption
  <2>2. Len(start) \in Nat
    BY <2>1
  <2>3. \A v \in 1 .. Len(start) : Follows(start, v)
    BY SnapshotsAssumption
  <2>. QED  BY <2>2, <2>3
<1>2. 0 \in S
  <2>1. Version(start, 0) = Empty /\ Valid(Empty) /\ Empty = NoHandoffs
    BY SnapshotsAssumption DEF Version, ServiceIsHandoffs
  <2>2. Attributed(Empty)
    BY <2>1, EmptyIsAttributed
  <2>. QED  BY <2>1, <2>2
<1>3. ASSUME NEW n \in Nat, n \in S PROVE n + 1 \in S
  <2>. SUFFICES ASSUME n + 1 <= Len(start)
                PROVE  Attributed(Version(start, n + 1)) /\ Valid(Version(start, n + 1))
    OBVIOUS
  <2>. DEFINE s == Version(start, n)
              t == Version(start, n + 1)
  <2>1. n + 1 \in 1 .. Len(start) /\ n <= Len(start) /\ (n + 1) - 1 = n
    BY <1>1
  <2>2. Attributed(s)
    BY <1>3, <2>1
  <2>3. t = start[n + 1]
    BY <2>1 DEF Version
  <2>4. Follows(start, n + 1)
    BY <1>1, <2>1
  <2>5. /\ Valid(t)
        /\ \E i \in Instances : \E r \in Requests(i, s) : t \in Apply(r, s)
    BY <2>1, <2>3, <2>4 DEF Follows
  <2>. HIDE DEF s, t
  <2>6. PICK c \in Calls : t \in ApplyHandoff(c, s)
    BY <2>5 DEF ServiceIsHandoffs, HandoffCalls, CallsOf
  <2>7. Attributed(t)
    BY <2>2, <2>6, ApplyFollows DEF FollowsBy
  <2>. QED  BY <2>5, <2>7 DEF t
<1>. HIDE DEF S
<1>4. Nat \subseteq S
  BY <1>2, <1>3, NatSetInduction
<1>. QED  BY <1>1, <1>4 DEF S

\* Calls that left something in a state of the service are calls.
LEMMA MadeByCalls == ASSUME NEW s, Attributed(s) PROVE Made(s) \subseteq Calls
BY DEF Attributed, Made

\* The initial states fit.
LEMMA InitFits == ServiceIsHandoffs /\ Init => HandoffsInv
<1>. SUFFICES ASSUME ServiceIsHandoffs, Init PROVE HandoffsInv
  OBVIOUS
<1>1. SnapshotsInit /\ CallsInit(Live(roots)) /\ merges = {} /\ roots \in Starts
  BY DEF Init, SnapshotsInit
<1>2. SnapshotsInv
  BY <1>1, InitEstablishes
<1>3. History
  BY <1>1, StartIsAttributed DEF History, At
<1>4. Len(roots) \in 0 .. Len(roots)
  BY <1>2 DEF SnapshotsInv
<1>5. Acted = Made(Latest) /\ Made(Latest) \subseteq Calls
  BY <1>1, <1>3, <1>4, MadeByCalls DEF Acted, History, Latest
<1>6. \A c \in Acted, d \in Calls :
          Key[c] = Key[d] => d \notin Live(roots) /\ (d \in Acted => c = d)
  BY <1>1, <1>5, RequestsAssumption DEF Latest, At
<1>7. NoRecord \in RecordType /\ NoRecord.phase = "absent"
  BY DEF NoRecord, RecordType, Phases
<1>8. /\ NewCall \in CallType /\ NewCall.pc = "reserve" /\ NewCall.answer = NoCall
      /\ [NewCall EXCEPT !.pc = "gone"] \in CallType
      /\ [NewCall EXCEPT !.pc = "gone"].pc = "gone" /\ [NewCall EXCEPT !.pc = "gone"].answer = NoCall
  BY DEF NewCall, CallType, CallPCs
<1>9. /\ \A k \in Keys : records[k] = NoRecord
      /\ \A c \in Calls : calls[c] \in CallType /\ calls[c].answer = NoCall
                          /\ calls[c].pc \in {"reserve", "gone"}
                          /\ (c \notin Live(roots) => calls[c].pc = "gone")
      /\ records \in [Keys -> RecordType] /\ calls \in [Calls -> CallType]
  <2>. DEFINE y == [NewCall EXCEPT !.pc = "gone"]
  <2>1. calls = [c \in Calls |-> IF c \in Live(roots) THEN NewCall ELSE y]
    BY <1>1 DEF CallsInit
  <2>2. records = [k \in Keys |-> NoRecord]
    BY <1>1 DEF CallsInit
  <2>3. y \in CallType /\ y.pc = "gone" /\ y.answer = NoCall
    BY <1>8
  <2>. HIDE DEF y
  <2>. QED  BY <1>7, <1>8, <2>1, <2>2, <2>3
<1>10. \A k \in Keys : RecordFits(k, records[k], Acted)
  BY <1>7, <1>9 DEF RecordFits
<1>11. \A c \in Calls : CallFits(c, calls[c], records[Key[c]], Acted)
  BY <1>9, CallsAssumption DEF CallFits, Working
<1>12. \A c \in Acted : IsPast(records, calls, c)
  BY <1>5, <1>6, <1>7, <1>9, KeyType DEF IsPast
<1>13. Ledger(records, calls, Acted)
  BY <1>5, <1>6, <1>9, <1>10, <1>11, <1>12 DEF Ledger
<1>14. \A i \in Instances : InstanceFits(i)
  BY <1>1 DEF SnapshotsInit, Serving, InstanceFits, Busy
<1>. QED  BY <1>1, <1>2, <1>3, <1>13, <1>14 DEF HandoffsInv

\* Every step keeps the invariant.
LEMMA NextFits == ServiceIsHandoffs /\ HandoffsInv /\ [Next]_vars => HandoffsInv'
<1>. SUFFICES ASSUME ServiceIsHandoffs, HandoffsInv, [Next]_vars PROVE HandoffsInv'
  OBVIOUS
<1>1. ASSUME NEW c \in Calls, CallStep(c) \/ IdempotencyFails(c) PROVE HandoffsInv'
  BY <1>1, ReserveKeeps, SettleKeeps, RefuseKeeps, ExecuteKeeps, ReadMaterialKeeps,
     PublishMergeKeeps, IdempotencyFailsKeeps DEF CallStep
<1>2. ASSUME NEW i \in Instances, Publication(i) \/ DaemonEnds(i) \/ DaemonStarts(i)
      PROVE  HandoffsInv'
  BY <1>2, PublicationKeeps, DaemonEndsKeeps, DaemonStartsKeeps
<1>3. ASSUME NEW k \in Keys, Recover(k) PROVE HandoffsInv'
  BY <1>3, RecoveryKeeps
<1>4. CASE UNCHANGED vars
  <2>1. UNCHANGED <<roots, chunks, inst, own, faults, merges, records, calls>>
    BY <1>4 DEF vars, snapshotVars, callVars
  <2>. QED  BY <2>1, CallsAloneKeep DEF HandoffsInv
<1>. QED  BY <1>1, <1>2, <1>3, <1>4 DEF Next

\* Over every interleaving of calls, daemons, failures and restarts, the records
\* of the idempotency keys agree with what is durable: every call that has acted
\* is told by the record of its key, which it owns or has completed.
THEOREM HandoffsAreInvariant ==
    ASSUME ServiceIsHandoffs PROVE Spec => []HandoffsInv
<1>1. Init => HandoffsInv
  BY InitFits
<1>2. HandoffsInv /\ [Next]_vars => HandoffsInv'
  BY NextFits
<1>. QED  BY <1>1, <1>2, PTL DEF Spec

\* A key's request acts at most once, however often and wherever it is retried:
\* reserve() lets nobody in while its outcome is open or known.
THEOREM ActsOnceHolds ==
    ASSUME ServiceIsHandoffs PROVE Spec => []ActsOnce
<1>1. HandoffsInv => ActsOnce
  BY DEF HandoffsInv, Ledger, ActsOnce, Executed, Acted
<1>. QED  BY <1>1, HandoffsAreInvariant, PTL

\* An answer, of the call itself, of a retry or of a wait, is the response of a
\* durable execution of that very request, also when transact() had to reconcile.
THEOREM AnswerIsExactHolds ==
    ASSUME ServiceIsHandoffs PROVE Spec => []AnswerIsExact
<1>1. HandoffsInv => AnswerIsExact
  BY DEF HandoffsInv, Ledger, CallFits, AnswerIsExact, Answered, Executed, Acted
<1>. QED  BY <1>1, HandoffsAreInvariant, PTL

\* The last root is attributed and valid.
LEMMA LatestFits ==
    ASSUME HandoffsInv PROVE Attributed(Latest) /\ Valid(Latest)
<1>1. Len(roots) \in 0 .. Len(roots)
  BY DEF HandoffsInv, SnapshotsInv
<1>. QED  BY <1>1 DEF HandoffsInv, History, Latest

\* The acceptance that an accept call has left.
LEMMA AcceptanceOf ==
    ASSUME ServiceIsHandoffs, HandoffsInv, NEW b \in Calls, Answered(b),
           Request[calls[b].answer].op = "accept"
    PROVE  \E a \in Latest.acceptances :
               a.id = calls[b].answer /\ a.handoff = Request[calls[b].answer].handoff
<1>. DEFINE c == calls[b].answer
<1>1. c \in Made(Latest) \cup merges
  BY DEF HandoffsInv, Ledger, CallFits, Answered, Acted
<1>2. c \notin merges
  BY DEF HandoffsInv
<1>3. Attributed(Latest)
  BY LatestFits
<1>. HIDE DEF c
<1>4. Request[c].op = "accept"
  BY DEF c
<1>5. PICK a \in Latest.acceptances : a.id = c
  BY <1>1, <1>2, <1>3, <1>4 DEF Made, Attributed
<1>. QED  BY <1>3, <1>5 DEF Attributed, c

\* One recipient accepts a capsule that is not reusable, whichever daemons the
\* recipients reach: the nonce is consumed in the same root as the acceptance.
THEOREM AcceptedOnceHolds ==
    ASSUME ServiceIsHandoffs PROVE Spec => []AcceptedOnce
<1>1. HandoffsInv => AcceptedOnce
  <2>. SUFFICES ASSUME HandoffsInv, NEW x \in Calls, NEW y \in Calls,
                       Answered(x), Answered(y),
                       Request[calls[x].answer].op = "accept", Request[calls[y].answer].op = "accept",
                       Request[calls[x].answer].handoff = Request[calls[y].answer].handoff,
                       ~Latest.capsules[Request[calls[x].answer].handoff].reusable
                PROVE  calls[x].answer = calls[y].answer
    BY DEF AcceptedOnce
  <2>1. PICK a \in Latest.acceptances :
            a.id = calls[x].answer /\ a.handoff = Request[calls[x].answer].handoff
    BY AcceptanceOf
  <2>2. PICK b \in Latest.acceptances :
            b.id = calls[y].answer /\ b.handoff = Request[calls[y].answer].handoff
    BY AcceptanceOf
  <2>3. ValidHandoffs(Latest)
    BY LatestFits DEF ServiceIsHandoffs
  <2>4. \A p, q \in {r \in Latest.acceptances : ~Latest.capsules[r.handoff].reusable} :
            Latest.capsules[p.handoff].nonce = Latest.capsules[q.handoff].nonce => p = q
    BY <2>3 DEF ValidHandoffs
  <2>. QED  BY <2>1, <2>2, <2>4
<1>. QED  BY <1>1, HandoffsAreInvariant, PTL

\* The last root changes by an operation of a call on the root before it.
LEMMA LatestMoves ==
    ASSUME ServiceIsHandoffs, HandoffsInv, [Next]_vars
    PROVE  Latest' = Latest \/ \E c \in Calls : FollowsBy(c, Latest, Latest')
<1>1. CASE roots' = roots
  BY <1>1 DEF Latest, At
<1>2. CASE \E i \in Instances : Publication(i)
  <2>1. PICK i \in Instances : EnsureChunk(i) \/ CommitRoot(i) \/ Reconcile(i) \/ Poison(i)
    BY <1>2 DEF Publication
  <2>2. Busy(i) /\ (roots' = roots \/ RootWritten(i))
    BY <2>1, PublicationFacts DEF HandoffsInv
  <2>3. inst[i].req \in Calls /\ FollowsBy(inst[i].req, At(inst[i].gen), inst[i].mem)
    BY <2>2 DEF HandoffsInv, InstanceFits
  <2>. QED  BY <1>1, <2>2, <2>3 DEF RootWritten
<1>. QED
  BY <1>1, <1>2 DEF Next, CallStep, Reserve, Settle, Refuse, Execute, Transact, ReadMaterial,
     PublishMerge, IdempotencyFails, DaemonEnds, Crash, DaemonStarts, Open, Recover,
     vars, snapshotVars

\* Once a revocation is published, accept() and record_result() publish nothing
\* of that handoff any more, also on a daemon that has not seen it.
THEOREM RevocationStopsUseHolds ==
    ASSUME ServiceIsHandoffs PROVE Spec => RevocationStopsUse
<1>1. HandoffsInv /\ [Next]_vars =>
         [\A h \in HandoffIds(Latest) : Revoked(Latest, h) =>
            \A m \in Latest'.acceptances \cup Latest'.results :
                m.handoff = h => m \in Latest.acceptances \cup Latest.results]_vars
  BY LatestMoves DEF FollowsBy
<1>. QED  BY <1>1, HandoffsAreInvariant, PTL DEF Spec, RevocationStopsUse

-----------------------------------------------------------------------------
\* A reservation has an owner, a completed record its response, and a record no
\* more generations than versions.
TidyRecord(q) ==
    /\ q.generation <= q.version
    /\ IF q.phase = "in_progress" THEN q.token \in Calls ELSE q.token = NoCall
    /\ IF q.phase = "complete" THEN q.response \in Calls ELSE q.response = NoCall

\* All records are tidy, and no call has lost more races than it may.
Tidy ==
    /\ \A k \in Keys : TidyRecord(records[k])
    /\ \A c \in Calls : calls[c].tries <= MaxCasRetries

\* What a call may be left with: the races it has lost, none, or one more that
\* is within the bound.
RacesBounded ==
    \A d \in Calls : \/ calls'[d].tries \in {calls[d].tries, 0}
                     \/ calls'[d].tries \in Nat /\ calls'[d].tries < MaxCasRetries

\* A call goes on, or is answered.
LEMMA RacesKept ==
    ASSUME calls \in [Calls -> CallType], NEW c, NEW x, CallGoto(c, x) \/ Answer(c, x)
    PROVE  RacesBounded
<1>1. ASSUME CallGoto(c, x), NEW d \in Calls PROVE calls'[d].tries = calls[d].tries
  BY <1>1 DEF CallGoto, CallType
<1>2. ASSUME Answer(c, x), NEW d \in Calls PROVE calls'[d].tries \in {calls[d].tries, 0}
  BY <1>2 DEF Answer, NewCall
<1>. QED  BY <1>1, <1>2 DEF RacesBounded

\* A record that is written is tidy.
LEMMA WrittenIsTidy ==
    ASSUME records \in [Keys -> RecordType], NEW c \in Calls, TidyRecord(Record(c))
    PROVE  /\ TidyRecord(Reserved(c)) /\ TidyRecord(Completed(c))
           /\ Record(c).phase = "in_progress" => TidyRecord(Abandoned(c))
<1>. DEFINE q == Record(c)
<1>1. q \in RecordType
  BY KeyType DEF Record
<1>2. /\ Reserved(c) = [version |-> q.version + 1, phase |-> "in_progress", digest |-> Digest[c],
                        generation |-> q.generation + 1, token |-> c, response |-> NoCall]
      /\ Completed(c) = [q EXCEPT !.version = q.version + 1, !.phase = "complete",
                                  !.token = NoCall, !.response = c]
      /\ Abandoned(c) = [q EXCEPT !.version = q.version + 1, !.phase = "abandoned",
                                  !.token = NoCall]
  BY DEF Reserved, Completed, Abandoned
<1>. HIDE DEF q
<1>3. TidyRecord(q) /\ q.version \in Nat /\ q.generation \in Nat
  BY <1>1 DEF q, RecordType
<1>4. TidyRecord(Reserved(c))
  BY <1>2, <1>3 DEF TidyRecord
<1>5. TidyRecord(Completed(c))
  BY <1>1, <1>2, <1>3 DEF TidyRecord, RecordType
<1>6. q.phase = "in_progress" => TidyRecord(Abandoned(c))
  BY <1>1, <1>2, <1>3 DEF TidyRecord, RecordType
<1>. QED  BY <1>4, <1>5, <1>6 DEF q

\* Records change one at a time.
RecordsMove ==
    \/ UNCHANGED records
    \/ \E c \in Calls :
          \/ records' = [records EXCEPT ![Key[c]] = Reserved(c)]
          \/ records' = [records EXCEPT ![Key[c]] = Completed(c)]
          \/ Record(c).phase = "in_progress" /\ records' = [records EXCEPT ![Key[c]] = Abandoned(c)]

\* Such a change keeps them tidy.
LEMMA MoveIsTidy ==
    ASSUME records \in [Keys -> RecordType], calls \in [Calls -> CallType], Tidy,
           RecordsMove, RacesBounded
    PROVE  Tidy'
<1>1. ASSUME NEW c \in Calls, NEW q, TidyRecord(q), records' = [records EXCEPT ![Key[c]] = q],
             NEW k \in Keys
      PROVE  TidyRecord(records'[k])
  BY <1>1 DEF Tidy
<1>2. ASSUME NEW k \in Keys PROVE TidyRecord(records'[k])
  <2>1. CASE UNCHANGED records
    BY <2>1 DEF Tidy
  <2>2. ASSUME NEW c \in Calls,
               \/ records' = [records EXCEPT ![Key[c]] = Reserved(c)]
               \/ records' = [records EXCEPT ![Key[c]] = Completed(c)]
               \/ /\ Record(c).phase = "in_progress"
                  /\ records' = [records EXCEPT ![Key[c]] = Abandoned(c)]
        PROVE  TidyRecord(records'[k])
    <3>1. TidyRecord(Record(c))
      BY KeyType DEF Tidy, Record
    <3>. QED  BY <1>1, <2>2, <3>1, WrittenIsTidy
  <2>. QED  BY <2>1, <2>2 DEF RecordsMove
<1>3. ASSUME NEW d \in Calls PROVE calls'[d].tries <= MaxCasRetries
  <2>. DEFINE t == calls[d].tries
              u == calls'[d].tries
  <2>1. t \in Nat /\ t <= MaxCasRetries /\ MaxCasRetries \in Nat
    BY CallsAssumption DEF CallType, Tidy
  <2>2. u = t \/ u = 0 \/ (u \in Nat /\ u < MaxCasRetries)
    BY DEF RacesBounded
  <2>. HIDE DEF t, u
  <2>3. u <= MaxCasRetries
    BY <2>1, <2>2
  <2>. QED  BY <2>3 DEF u
<1>4. (\A k \in Keys : TidyRecord(records[k]))'
  BY <1>2 DEF TidyRecord
<1>5. (\A d \in Calls : calls[d].tries <= MaxCasRetries)'
  BY <1>3
<1>. QED  BY <1>4, <1>5 DEF Tidy

\* Every step changes records and races that way.
LEMMA StepsAreTidy ==
    ASSUME HandoffsInv, [Next]_vars
    PROVE  RecordsMove /\ RacesBounded
<1>1. /\ records \in [Keys -> RecordType] /\ calls \in [Calls -> CallType]
      /\ \A k \in Keys : records[k].phase = "in_progress" =>
            records[k].token \in Calls /\ Key[records[k].token] = k
  BY DEF HandoffsInv, Ledger, RecordFits
<1>2. UNCHANGED calls => RacesBounded
  BY DEF RacesBounded
<1>3. CASE UNCHANGED vars
  BY <1>2, <1>3 DEF vars, callVars, RecordsMove
<1>4. ASSUME NEW c \in Calls, Reserve(c) \/ IdempotencyFails(c) PROVE RecordsMove /\ RacesBounded
  <2>1. CASE LoadRecord(c)
    <3>1. CASE \E x : CallGoto(c, x) \/ Answer(c, x)
      BY <1>1, <2>1, <3>1, RacesKept DEF LoadRecord, RecordsMove
    <3>2. CASE calls' = [calls EXCEPT ![c].pc = "claim", ![c].seen = Record(c).version]
      <4>1. \A d \in Calls : calls'[d].tries = calls[d].tries
        BY <1>1, <3>2 DEF CallType
      <4>. QED  BY <2>1, <4>1 DEF LoadRecord, RecordsMove, RacesBounded
    <3>3. Record(c).phase \in Phases
      BY <1>1, KeyType DEF Record, RecordType
    <3>. QED  BY <2>1, <3>1, <3>2, <3>3 DEF LoadRecord, Free, Phases
  <2>2. CASE Claim(c)
    <3>1. \A d \in Calls : calls'[d].tries \in {calls[d].tries, 0}
      BY <1>1, <2>2 DEF Claim, NewCall
    <3>. QED  BY <2>2, <3>1 DEF Claim, RecordsMove, RacesBounded
  <2>3. CASE ClaimLost(c)
    <3>1. CASE Answer(c, Failure)
      BY <1>1, <2>3, <3>1, RacesKept DEF ClaimLost, RecordsMove
    <3>2. CASE /\ calls[c].tries + 1 < MaxCasRetries
               /\ calls' = [calls EXCEPT ![c] = [NewCall EXCEPT !.tries = calls[c].tries + 1]]
      <4>1. /\ calls'[c].tries = calls[c].tries + 1 /\ calls[c].tries \in Nat
            /\ \A d \in Calls : d # c => calls'[d] = calls[d]
        BY <1>1, <3>2 DEF NewCall, CallType
      <4>. QED  BY <2>3, <3>2, <4>1 DEF ClaimLost, RecordsMove, RacesBounded
    <3>. QED  BY <2>3, <3>1, <3>2, Zenon DEF ClaimLost
  <2>4. CASE ClaimFails(c) \/ CompleteFails(c)
    BY <1>1, <2>4, RacesKept DEF ClaimFails, CompleteFails, RecordsMove
  <2>. QED  BY <1>4, <2>1, <2>2, <2>3, <2>4, Zenon DEF Reserve, IdempotencyFails
<1>5. ASSUME NEW c \in Calls, Settle(c) PROVE RecordsMove /\ RacesBounded
  BY <1>1, <1>5, RacesKept DEF Settle, Complete, Waited, WaitEnds, RecordsMove
<1>6. ASSUME NEW c \in Calls, Refuse(c) \/ Execute(c) \/ ReadMaterial(c) \/ PublishMerge(c)
      PROVE  RecordsMove /\ RacesBounded
  BY <1>1, <1>6, RacesKept
  DEF Refuse, Execute, ReadMaterial, PublishMerge, Indeterminate, Applied, RecordsMove
<1>7. ASSUME NEW i \in Instances, Publication(i) PROVE RecordsMove /\ RacesBounded
  <2>. DEFINE c == inst[i].req
  <2>1. UNCHANGED callVars \/ Applied(c) \/ Indeterminate(c)
    BY <1>7 DEF Publication
  <2>. HIDE DEF c
  <2>. QED
    BY <1>1, <1>2, <2>1, RacesKept DEF callVars, Applied, Indeterminate, RecordsMove
<1>8. ASSUME NEW i \in Instances, DaemonEnds(i) \/ DaemonStarts(i) PROVE RecordsMove /\ RacesBounded
  <2>1. UNCHANGED records
    BY <1>8 DEF DaemonEnds, DaemonStarts, callVars
  <2>2. ASSUME DaemonEnds(i), NEW d \in Calls PROVE calls'[d].tries \in {calls[d].tries, 0}
    BY <2>2 DEF DaemonEnds, CallsEnd, NewCall
  <2>. QED  BY <1>2, <1>8, <2>1, <2>2 DEF DaemonStarts, callVars, RecordsMove, RacesBounded
<1>9. ASSUME NEW k \in Keys, Recover(k) PROVE RecordsMove /\ RacesBounded
  <2>. DEFINE c == records[k].token
  <2>1. /\ records[k].phase = "in_progress" /\ UNCHANGED calls
        /\ \/ records' = [records EXCEPT ![k] = Completed(c)]
           \/ records' = [records EXCEPT ![k] = Abandoned(c)]
    BY <1>9 DEF Recover, RecoverCommitted, RecoverNoMutation, Stranded
  <2>2. c \in Calls /\ Key[c] = k
    BY <1>1, <2>1
  <2>. HIDE DEF c
  <2>. QED  BY <1>2, <2>1, <2>2 DEF RecordsMove, Record
<1>. QED  BY <1>3, <1>4, <1>5, <1>6, <1>7, <1>8, <1>9, Zenon DEF Next, CallStep

\* Records and calls keep their types, over every interleaving of retries,
\* daemons, failures and recoveries: a reservation always has its owner, a
\* completed record always its response and no other record has either, and a
\* call loses at most MAX_CAS_RETRIES races for its reservation.
THEOREM CallsTypes ==
    ASSUME ServiceIsHandoffs
    PROVE  Spec => []CallsTypeOK
<1>1. Init => Tidy
  BY CallsAssumption DEF Init, CallsInit, NoRecord, NewCall, Tidy, TidyRecord
<1>2. HandoffsInv /\ Tidy /\ [Next]_vars => Tidy'
  <2>. SUFFICES ASSUME HandoffsInv, Tidy, [Next]_vars PROVE Tidy'
    OBVIOUS
  <2>1. records \in [Keys -> RecordType] /\ calls \in [Calls -> CallType]
    BY DEF HandoffsInv, Ledger
  <2>. QED  BY <2>1, StepsAreTidy, MoveIsTidy
<1>3. HandoffsInv /\ Tidy => CallsTypeOK
  <2>. SUFFICES ASSUME HandoffsInv, Tidy PROVE CallsTypeOK
    OBVIOUS
  <2>1. records \in [Keys -> RecordType] /\ calls \in [Calls -> CallType]
    BY DEF HandoffsInv, Ledger
  <2>2. ASSUME NEW k \in Keys
        PROVE  /\ records[k].phase \in Phases
               /\ records[k].generation \in 0 .. records[k].version
    BY <2>1 DEF RecordType, Tidy, TidyRecord
  <2>3. ASSUME NEW c \in Calls
        PROVE  /\ calls[c].pc \in CallPCs /\ calls[c].tries \in 0 .. MaxCasRetries
               /\ calls[c].answer \in Calls \cup {NoCall, Failure}
    BY <2>1, CallsAssumption DEF CallType, Tidy
  <2>. QED  BY <2>2, <2>3 DEF CallsTypeOK, Tidy, TidyRecord
<1>. QED  BY <1>1, <1>2, <1>3, HandoffsAreInvariant, PTL DEF Spec

=============================================================================
