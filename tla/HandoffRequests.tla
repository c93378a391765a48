-------------------------- MODULE HandoffRequests --------------------------
(***************************************************************************)
(* Handoffs as clients meet them: calls that carry idempotency keys        *)
(* (IdempotentCalls) reach a daemon whose DurableHandoffService keeps the  *)
(* operations of Handoffs durable (DurableSnapshots), and an issuer merges *)
(* the result of a handoff into a space                                    *)
(* (crates/cigar-daemon/src/space_handoff_adapters.rs).  Several daemons   *)
(* share the repository; each may end and start again at any time.         *)
(*                                                                         *)
(* The adapter draws fresh identities for every call, so that a call is    *)
(* the id of whatever it creates.  A request of DurableSnapshots is a      *)
(* call, Apply is ApplyHandoff, Valid is ValidHandoffs and Empty is        *)
(* NoHandoffs.                                                             *)
(***************************************************************************)
EXTENDS Handoffs, DurableSnapshots, IdempotentCalls

CONSTANTS
    Request,    \* what every call asks for: [op, actor, handoff, expected, ...]
    Daemon,     \* the instance that every call reaches
    Live(_)     \* bound of the model: the calls made after a start

VARIABLE
    merges      \* the merge calls whose result has entered the space, published
                \* or proposed in the overlay with its conflicts

vars == <<snapshotVars, callVars, merges>>

\* What call c asks of the service: the request, and a new identity for
\* whatever it does not name.
Asked(c) ==
    LET named == DOMAIN Request[c]
    IN  [x \in named \cup {"id", "handoff", "nonce"} |-> IF x \in named THEN Request[c][x] ELSE c]

\* The operation that a handler calls within transact().
ApplyHandoff(c, s) ==
    LET r == Asked(c) IN
    CASE r.op = "create" -> CreateHandoff(s, r)
      [] r.op = "accept" -> AcceptHandoff(s, r)
      [] r.op = "revoke" -> RevokeHandoff(s, r)
      [] r.op = "result" -> RecordResult(s, r)
      [] r.op = "merge" -> {}

CallsOf(i) == {c \in Calls : Daemon[c] = i}

HandoffCalls(i, s) == {c \in CallsOf(i) : Request[c].op # "merge"}

\* The calls that have left something in a state of the service.
Made(s) ==
    HandoffIds(s) \cup {m.id : m \in s.acceptances \cup s.revocations \cup s.results}

\* A request names all that its operation needs, and what earlier processes have
\* done was done by calls that have ended: nobody makes one of them again.
ASSUME RequestsAssumption ==
    /\ NoRequest \notin Calls
    /\ Daemon \in [Calls -> Instances]
    /\ \A c \in Calls :
          \/ /\ Request[c].op = "create"
             /\ DOMAIN Request[c] = {"op", "actor", "recipients", "reusable"}
          \/ /\ Request[c].op \in {"accept", "revoke", "result", "merge"}
             /\ DOMAIN Request[c] = {"op", "actor", "handoff", "expected"}
    /\ \A start \in Starts : \A c \in Made(Version(start, Len(start))), d \in Calls :
          Key[c] = Key[d] =>
              d \notin Live(start) /\ (d \in Made(Version(start, Len(start))) => c = d)

Init ==
    /\ SnapshotsInit
    /\ CallsInit(Live(roots))
    /\ merges = {}

-----------------------------------------------------------------------------
(* A call before and after its execution.                                  *)

Reserve(c) ==
    /\ inst[Daemon[c]].pc # "down"
    /\ LoadRecord(c) \/ Claim(c) \/ ClaimLost(c)
    /\ UNCHANGED <<snapshotVars, merges>>

Settle(c) ==
    /\ Complete(c) \/ Waited(c) \/ WaitEnds(c)
    /\ UNCHANGED <<snapshotVars, merges>>

IdempotencyFails(c) ==
    /\ Fault
    /\ ClaimFails(c) \/ CompleteFails(c)
    /\ UNCHANGED <<roots, chunks, inst, own, merges>>

\* The delegate refuses: authorization, expiry, the policy or a dependency,
\* the rules of the service, or an instance that serves nothing.
Refuse(c) ==
    /\ calls[c].pc = "execute" /\ inst[Daemon[c]].pc \in {"idle", "poisoned"}
    /\ Indeterminate(c)
    /\ UNCHANGED <<snapshotVars, merges>>

-----------------------------------------------------------------------------
(* Handoff operations: transact() around one operation.                    *)

Execute(c) ==
    /\ calls[c].pc = "execute"
    /\ Transact(Daemon[c], c)
    /\ CallGoto(c, "running")
    /\ UNCHANGED <<records, merges>>

\* The publication of the root goes on, or ends in an answer.
Publication(i) ==
    /\ EnsureChunk(i) \/ CommitRoot(i) \/ Reconcile(i) \/ Poison(i)
    /\ LET c == inst[i].req IN
       CASE inst'[i].req = c -> UNCHANGED callVars
         [] inst'[i].req # c /\ inst'[i] = Published(i) -> Applied(c)
         [] inst'[i].req # c /\ inst'[i] # Published(i) -> Indeterminate(c)
    /\ UNCHANGED merges

-----------------------------------------------------------------------------
(* Merging a result.                                                       *)

\* The handler reads the material from the handoff service of its daemon.
ReadMaterial(c) ==
    /\ calls[c].pc = "execute" /\ Request[c].op = "merge"
    /\ inst[Daemon[c]].pc = "idle"
    /\ MergeMaterial(inst[Daemon[c]].mem, Request[c])
    /\ CallGoto(c, "running")
    /\ UNCHANGED <<snapshotVars, records, merges>>

\* merge_child_result_and_publish() on the space, a durable service of its own:
\* it enters the result, it refuses, or it enters it and answers with an error.
PublishMerge(c) ==
    /\ calls[c].pc = "running" /\ Request[c].op = "merge"
    /\ \/ merges' = merges \cup {c} /\ Applied(c) /\ UNCHANGED faults
       \/ merges' = merges /\ Indeterminate(c) /\ UNCHANGED faults
       \/ merges' = merges \cup {c} /\ Indeterminate(c) /\ Fault
    /\ UNCHANGED <<roots, chunks, inst, own>>

-----------------------------------------------------------------------------
(* Restarts and recovery.                                                  *)

DaemonEnds(i) ==
    /\ Crash(i) /\ CallsEnd(CallsOf(i))
    /\ UNCHANGED <<records, merges>>

DaemonStarts(i) == Open(i) /\ UNCHANGED <<callVars, merges>>

\* What call c was to do is in the last root or in the space.
Executed(c) == c \in Made(Latest) \cup merges

\* Reconciliation attests what happened to a stranded reservation.
Recover(k) ==
    /\ IF Stranded(k) /\ Executed(records[k].token)
       THEN RecoverCommitted(k) ELSE RecoverNoMutation(k)
    /\ UNCHANGED <<snapshotVars, merges>>

-----------------------------------------------------------------------------

CallStep(c) ==
    Reserve(c) \/ Settle(c) \/ Refuse(c) \/ Execute(c) \/ ReadMaterial(c) \/ PublishMerge(c)

Next ==
    \/ \E c \in Calls : CallStep(c) \/ IdempotencyFails(c)
    \/ \E i \in Instances : Publication(i) \/ DaemonEnds(i) \/ DaemonStarts(i)
    \/ \E k \in Keys : Recover(k)

Spec == Init /\ [][Next]_vars

\* While a task of a live daemon can go on, some task does.  A client need not
\* make a call, nobody need reconcile, and a process may stay down.
Fairness ==
    WF_vars(\/ \E c \in Calls : calls[c].pc # "reserve" /\ CallStep(c)
            \/ \E i \in Instances : Publication(i))

FairSpec == Spec /\ Fairness

-----------------------------------------------------------------------------
(* Properties.                                                             *)

Answered(c) == calls[c].answer \in Calls

\* However often a client retries, on whichever daemon, and whatever fails in
\* between, a key's request acts at most once.
ActsOnce ==
    \A c, d \in Calls : Executed(c) /\ Executed(d) /\ Key[c] = Key[d] => c = d

\* An answer is the response of an execution that is durable, and of this very
\* request: retries get the same one, and another request none.
AnswerIsExact ==
    \A c \in Calls : Answered(c) =>
        LET d == calls[c].answer IN Executed(d) /\ Key[d] = Key[c] /\ Digest[d] = Digest[c]

\* A capsule that is not reusable is accepted by one recipient, whichever
\* daemons its recipients reach.
AcceptedOnce ==
    \A c, d \in {calls[b].answer : b \in {x \in Calls : Answered(x)}} :
        /\ Request[c].op = "accept" /\ Request[d].op = "accept"
        /\ Request[c].handoff = Request[d].handoff
        /\ ~Latest.capsules[Request[c].handoff].reusable
        => c = d

\* "Revoking a capsule is also a descendant-use barrier": once the revocation
\* is published, no acceptance and no result of the handoff is.
RevocationStopsUse ==
    [][\A h \in HandoffIds(Latest) : Revoked(Latest, h) =>
        \A m \in Latest'.acceptances \cup Latest'.results :
            m.handoff = h => m \in Latest.acceptances \cup Latest.results]_vars

\* Every call returns, also one that waits for the outcome of a call that will
\* never have one, and nobody waits for a mutex that is never released.
CallsReturn ==
    <>[](\A c \in Calls : calls[c].pc \in {"reserve", "done", "gone"})

\* The same barrier for "verified use of an already-retained result as merge
\* material": no result is merged after the revocation is published.
RevocationStopsMerge ==
    [][\A c \in merges' \ merges : ~Revoked(Latest, Request[c].handoff)]_vars

=============================================================================
