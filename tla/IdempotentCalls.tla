-------------------------- MODULE IdempotentCalls --------------------------
(***************************************************************************)
(* What stands between a client's mutation and the service that performs   *)
(* it: GovernedFacade::call_mutation                                       *)
(* (crates/cigar-daemon/src/governed_facade.rs) and the reservations of    *)
(* DurableIdempotencyRepository                                            *)
(* (crates/cigar-daemon/src/durable_idempotency.rs).                       *)
(*                                                                         *)
(* A client that retries makes another call with the same key and the same *)
(* digest.  The scope of a key (tenant, principal, operation) is part of   *)
(* the key.  A token is drawn at random for one reservation, so it is the  *)
(* call that reserved; a response contains identities drawn for it, so it  *)
(* is the call whose execution produced it.                                *)
(***************************************************************************)
EXTENDS Naturals

CONSTANTS
    Calls,
    Key, Digest,        \* of every call: functions on Calls
    NoCall,             \* no token and no response
    Failure,            \* an answer that is an error
    MaxCasRetries       \* MAX_CAS_RETRIES

ASSUME CallsAssumption ==
    /\ MaxCasRetries \in Nat \ {0}
    /\ {NoCall, Failure} \cap Calls = {} /\ NoCall # Failure

VARIABLES
    records,    \* every key's record: [version, phase, digest, generation, token, response]
    calls       \* every call: [pc, seen, tries, answer]

callVars == <<records, calls>>

Keys == {Key[c] : c \in Calls}

Phases == {"absent", "in_progress", "complete", "abandoned"}

CallPCs == {"reserve", "claim", "execute", "running", "complete", "wait", "done", "gone"}

NoRecord ==
    [version |-> 0, phase |-> "absent", digest |-> NoCall, generation |-> 0,
     token |-> NoCall, response |-> NoCall]

NewCall == [pc |-> "reserve", seen |-> 0, tries |-> 0, answer |-> NoCall]

\* The calls in live are about to be made, and the others have ended.
CallsInit(live) ==
    /\ records = [k \in Keys |-> NoRecord]
    /\ calls = [c \in Calls |->
            IF c \in live THEN NewCall ELSE [NewCall EXCEPT !.pc = "gone"]]

Record(c) == records[Key[c]]

CallGoto(c, pc) == calls' = [calls EXCEPT ![c].pc = pc]

Answer(c, a) == calls' = [calls EXCEPT ![c] = [NewCall EXCEPT !.pc = "done", !.answer = a]]

Free(record) == record.phase \in {"absent", "abandoned"}

\* Mutant: whoever knows the key is answered.
AnyDigest(c) == TRUE

\* The record belongs to this very request; a record that is free belongs to
\* none, and the key may be used for another one.
SameRequest(c) == Free(Record(c)) \/ Record(c).digest = Digest[c]

-----------------------------------------------------------------------------
(* reserve(): a record is loaded, and claimed if it is free.               *)

LoadRecord(c) ==
    /\ calls[c].pc = "reserve"
    /\ CASE ~SameRequest(c) -> Answer(c, Failure)
         [] SameRequest(c) /\ Free(Record(c)) ->
                calls' = [calls EXCEPT ![c].pc = "claim", ![c].seen = Record(c).version]
         [] SameRequest(c) /\ Record(c).phase = "in_progress" -> CallGoto(c, "wait")
         [] SameRequest(c) /\ Record(c).phase = "complete" -> Answer(c, Record(c).response)
    /\ UNCHANGED records

\* ServiceExpectedVersion::Absent or Version(loaded).
Unchanged(c) == Record(c).version = calls[c].seen

\* DurableState::new(), one generation after the abandoned one.
Reserved(c) ==
    [version |-> Record(c).version + 1, phase |-> "in_progress", digest |-> Digest[c],
     generation |-> Record(c).generation + 1, token |-> c, response |-> NoCall]

Claim(c) ==
    /\ calls[c].pc = "claim" /\ Unchanged(c)
    /\ records' = [records EXCEPT ![Key[c]] = Reserved(c)]
    /\ calls' = [calls EXCEPT ![c] = [NewCall EXCEPT !.pc = "execute"]]

\* Another call was first: load again, a bounded number of times.
ClaimLost(c) ==
    /\ calls[c].pc = "claim" /\ ~Unchanged(c)
    /\ IF calls[c].tries + 1 < MaxCasRetries
       THEN calls' = [calls EXCEPT ![c] = [NewCall EXCEPT !.tries = calls[c].tries + 1]]
       ELSE Answer(c, Failure)
    /\ UNCHANGED records

\* The repository fails, before or after it wrote the reservation.
ClaimFails(c) ==
    /\ calls[c].pc = "claim" /\ Unchanged(c)
    /\ records' \in {records, [records EXCEPT ![Key[c]] = Reserved(c)]}
    /\ Answer(c, Failure)

-----------------------------------------------------------------------------
(* The delegate is called, and its outcome is recorded.                    *)

Owns(c) == Record(c).phase = "in_progress" /\ Record(c).token = c

Completed(c) ==
    [Record(c) EXCEPT !.version = @ + 1, !.phase = "complete",
                      !.token = NoCall, !.response = c]

Abandoned(c) ==
    [Record(c) EXCEPT !.version = @ + 1, !.phase = "abandoned", !.token = NoCall]

\* MutationExecution::Applied.
Applied(c) == CallGoto(c, "complete") /\ UNCHANGED records

\* Mutant: an error is taken for a proof that nothing was done.
AbandonOnError(c) ==
    Answer(c, Failure) /\ records' = [records EXCEPT ![Key[c]] = Abandoned(c)]

\* MutationExecution::Indeterminate, which ConservativeMutationExecutor makes of
\* every error of the delegate: the reservation is kept.
Indeterminate(c) == Answer(c, Failure) /\ UNCHANGED records

\* complete(): nobody else writes the record of a call that runs, so that it
\* is loaded and replaced in one step.
Complete(c) ==
    /\ calls[c].pc = "complete"
    /\ IF Owns(c)
       THEN records' = [records EXCEPT ![Key[c]] = Completed(c)] /\ Answer(c, c)
       ELSE UNCHANGED records /\ Answer(c, Failure)

\* The repository fails, before or after it wrote the response.
CompleteFails(c) ==
    /\ calls[c].pc = "complete" /\ Owns(c)
    /\ records' \in {records, [records EXCEPT ![Key[c]] = Completed(c)]}
    /\ Answer(c, Failure)

-----------------------------------------------------------------------------
(* wait_for_completion(): inspect() until there is an outcome.             *)

Waited(c) ==
    /\ calls[c].pc = "wait" /\ Record(c).phase # "in_progress"
    /\ Answer(c, IF SameRequest(c) /\ ~Free(Record(c)) THEN Record(c).response ELSE Failure)
    /\ UNCHANGED records

\* Mutant: there is no maximum wait.
WaitsOn(c) ==
    /\ calls[c].pc = "wait" /\ Record(c).phase = "in_progress" /\ ~SameRequest(c)
    /\ Answer(c, Failure)
    /\ UNCHANGED records

\* The record now belongs to another request, or maximum_wait is over.
WaitEnds(c) ==
    /\ calls[c].pc = "wait" /\ Record(c).phase = "in_progress"
    /\ Answer(c, Failure)
    /\ UNCHANGED records

-----------------------------------------------------------------------------
(* Restarts and recovery.                                                  *)

\* The daemon that served these calls ends; a call not yet made is not lost.
CallsEnd(ended) ==
    calls' = [c \in Calls |->
        IF c \in ended /\ calls[c].pc \notin {"reserve", "done"}
        THEN [NewCall EXCEPT !.pc = "gone"] ELSE calls[c]]

\* The reservation of a call that will not do anything any more.
Stranded(k) ==
    /\ records[k].phase = "in_progress"
    /\ calls[records[k].token].pc \in {"done", "gone"}

\* recover_committed(), whose caller must have reconstructed the response.
RecoverCommitted(k) ==
    /\ Stranded(k)
    /\ records' = [records EXCEPT ![k] = Completed(records[k].token)]
    /\ UNCHANGED calls

\* recover_no_mutation(), whose caller must have proved that nothing was done.
RecoverNoMutation(k) ==
    /\ Stranded(k)
    /\ records' = [records EXCEPT ![k] = Abandoned(records[k].token)]
    /\ UNCHANGED calls

-----------------------------------------------------------------------------

\* Types; a reservation has an owner, and a completed one its response.
CallsTypeOK ==
    /\ \A k \in Keys :
        LET record == records[k] IN
        /\ record.phase \in Phases
        /\ record.generation \in 0 .. record.version
        /\ IF record.phase = "in_progress" THEN record.token \in Calls ELSE record.token = NoCall
        /\ IF record.phase = "complete" THEN record.response \in Calls ELSE record.response = NoCall
    /\ \A c \in Calls :
        /\ calls[c].pc \in CallPCs
        /\ calls[c].tries \in 0 .. MaxCasRetries
        /\ calls[c].answer \in Calls \cup {NoCall, Failure}

=============================================================================
