----------------------- MODULE EffectKernelInvariant -----------------------
(***************************************************************************)
(* The inductive invariant behind OneSendPerAttempt and AtMostOneMutation. *)
(* Its heart is OwnersAreCurrent: while a worker that entered the connector *)
(* can still send, the record is the one that worker wrote.                *)
(***************************************************************************)
EXTENDS EffectKernel

InConnector(w) == worker[w].pc \in {"entered", "sent"}

MaySend(w) == worker[w].pc = "entered" /\ clock < worker[w].deadline

\* States an effect is never in once a request of it may have acted.
OpenStates ==
    {"Absent", "Prepared", "PendingApproval", "Authorized", "Dispatching",
     "AuthorizedForRetry"}

\* Attempts and receipts of a record grow together.
AttemptsInOrder ==
    \A e \in Effects :
        /\ record[e].attempt <= MaxAttempts
        /\ record[e].receipts \subseteq 1 .. record[e].attempt
        /\ record[e].state = "Absent" =>
            record[e].attempt = 0 /\ record[e].version = 0
        /\ record[e].state = "Dispatching" =>
            record[e].attempt > 0 /\ record[e].attempt \notin record[e].receipts

\* Nothing was sent for attempts yet to come, nor for the one just claimed.
FutureUnsent ==
    \A e \in Effects, a \in AttemptNumbers :
        \/ a > record[e].attempt
        \/ a = record[e].attempt /\ record[e].state = "Dispatching"
        => sends[e][a] = 0 /\ request[e][a] = "none"

\* A worker in the connector has the only ownership of a past attempt, and
\* has sent nothing before it sends.
OwnersAreUnique ==
    \A w \in Workers : InConnector(w) =>
        LET e == worker[w].effect
            a == worker[w].attempt IN
        /\ a \in 1 .. record[e].attempt
        /\ record[e].state = "Dispatching" => a # record[e].attempt
        /\ worker[w].pc = "entered" => sends[e][a] = 0
        /\ \A v \in Workers :
            InConnector(v) /\ worker[v].effect = e /\ worker[v].attempt = a
                => v = w

\* The record is as old as the worker's entry exactly if it is that entry,
\* and it is for as long as the worker can send.
OwnersAreCurrent ==
    \A w \in Workers : InConnector(w) =>
        LET r == record[worker[w].effect] IN
        /\ worker[w].version <= r.version
        /\ worker[w].version = r.version =>
            /\ r.state = "Unknown" /\ r.event = "entry"
            /\ r.attempt = worker[w].attempt
            /\ r.deadline = worker[w].deadline
            /\ r.attempt \notin r.receipts
        /\ MaySend(w) => worker[w].version = r.version

\* A computed record that can still be committed continues the stored one,
\* and was computed when nobody could send any more.
PersistsAreCurrent ==
    \A w \in Workers : worker[w].pc = "persist" =>
        LET e == worker[w].effect
            r == record[e]
            next == worker[w].next IN
        /\ worker[w].version <= r.version
        /\ next.version = worker[w].version + 1
        /\ worker[w].version = r.version =>
            /\ r.state \notin OpenStates
            /\ next.attempt = r.attempt /\ next.receipts = r.receipts
            /\ next.event = "other"
            /\ next.state \in OpenStates =>
                next.state = "AuthorizedForRetry" /\ ~Live(e)
            /\ r.state = "Unknown" =>
                \A v \in Workers : MaySend(v) => worker[v].effect # e

\* An effect whose remote does not coalesce has at most one request that
\* acted or may act, none while it can be dispatched, and none while somebody
\* may send.
OneLiveRequest ==
    \A e \in Effects : ~Idempotent(e) =>
        /\ \A a, b \in AttemptNumbers :
            /\ request[e][a] \in {"inflight", "mutated"}
            /\ request[e][b] \in {"inflight", "mutated"}
            => a = b
        /\ record[e].state \in OpenStates => ~Live(e)
        /\ \A w \in Workers : MaySend(w) /\ worker[w].effect = e => ~Live(e)

\* A remote that coalesces changes once.
Coalesced ==
    \A e \in Effects : Idempotent(e) =>
        \A a, b \in AttemptNumbers :
            request[e][a] = "mutated" /\ request[e][b] = "mutated" => a = b

\* Of the effects that share a key only one has a record.
KeysAreUnique ==
    \A e, f \in Effects :
        /\ Intent[e].key = Intent[f].key
        /\ record[e].state # "Absent" /\ record[f].state # "Absent"
        => e = f

\* The inductive invariant of the kernel: who may send, what may be committed
\* and what the remote may still do agree with the stored record.
KernelInv ==
    /\ AttemptsInOrder
    /\ FutureUnsent
    /\ OneSendPerAttempt
    /\ OwnersAreUnique
    /\ OwnersAreCurrent
    /\ PersistsAreCurrent
    /\ OneLiveRequest
    /\ Coalesced
    /\ KeysAreUnique

-----------------------------------------------------------------------------
(* What the verdicts rest on.                                              *)

SuccessStates ==
    {"Succeeded", "CompensationPending", "Compensating", "Compensated",
     "CompensationFailed"}

ClosedStates == {"Failed", "Rejected", "Expired", "Cancelled"}

\* Only an intent that was never moved has an empty journal.
JournalStarted ==
    \A e \in Effects :
        record[e].state \notin {"Absent", "Prepared"} => record[e].version > 0

\* Nothing of an effect that is judged before it is retried has acted or may
\* act while it can be dispatched.
JudgedAreQuiet ==
    \A e \in Effects :
        /\ Intent[e].policy # "same_key"
        /\ record[e].state \in OpenStates
        => ~Live(e)

\* While the owner of such an effect is in the connector, only that owner's
\* request may act, once it is sent.
OwnersActAlone ==
    \A w \in Workers : InConnector(w) =>
        LET e == worker[w].effect IN
        /\ Intent[e].policy # "same_key"
        /\ worker[w].version = record[e].version
        => \A a \in AttemptNumbers :
            request[e][a] \in {"inflight", "mutated"} =>
                a = worker[w].attempt /\ worker[w].pc = "sent"

\* A remote coalesces a request only with one that changed it.
CoalescedIsReal ==
    \A e \in Effects, a \in AttemptNumbers :
        request[e][a] = "coalesced" => Mutated(e)

\* An attempt that sent nothing has no request.
UnsentIsNone ==
    \A e \in Effects, a \in AttemptNumbers :
        sends[e][a] = 0 => request[e][a] = "none"

\* A linked child is reserved, by one original.
LinksAreReserved ==
    /\ \A e, child \in Effects :
        child \in record[e].link => <<child, e>> \in reserved
    /\ \A e, f, child \in Effects :
        <<child, e>> \in reserved /\ <<child, f>> \in reserved => e = f

\* A computed record that can still be committed verifies and says only what
\* is so, however long ago the lookup or the child's record was read.
CommitsAreTrue ==
    \A w \in Workers : worker[w].pc = "persist" =>
        LET e == worker[w].effect
            r == record[e]
            next == worker[w].next IN
        worker[w].version = r.version =>
            /\ CanTransition(r.state, next.state)
            /\ next.outbox = r.outbox /\ next.deadline = r.deadline
            /\ Intent[e].created <= next.at /\ next.at <= clock
            /\ next.state \in SuccessStates => Mutated(e)
            /\ next.state \in ClosedStates => ~Live(e)
            /\ next.link \subseteq r.link \cup worker[w].reserve
            /\ next.state = "Compensated" =>
                \E child \in next.link : Mutated(child)

\* The inductive invariant of the verdicts: with KernelInv, every record
\* verifies and every verdict agrees with what the remote did.
VerdictInv ==
    /\ RecordVerifies
    /\ JournalStarted
    /\ SuccessIsReal
    /\ ClosedMeansNotExecuted
    /\ JudgedAreQuiet
    /\ OwnersActAlone
    /\ CoalescedIsReal
    /\ UnsentIsNone
    /\ LinksAreReserved
    /\ CompensatedIsReal
    /\ CommitsAreTrue

=============================================================================
