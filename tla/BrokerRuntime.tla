--------------------------- MODULE BrokerRuntime ---------------------------
(***************************************************************************)
(* The broker process (crates/cigar-context/src/broker_worker.rs): one     *)
(* owner thread that serves the queue of BrokerScheduler, a thread for     *)
(* every connection of an agent, the thread that reads the host's commands *)
(* and the listener.  They share the queue's mutex, the condition variable *)
(* the owner waits on and the flag `closed`.                               *)
(*                                                                         *)
(* A critical section is one step, except where the owner keeps the mutex  *)
(* over two: from its test of the queue to its wait, and inside dispatch() *)
(* (where cancel(), which takes no lock, can fall).  A connection sends    *)
(* one request, so that it and its job share a name.  Sockets and frames   *)
(* are left out: a connection may end whenever the code may give it up.    *)
(***************************************************************************)
EXTENDS BrokerScheduler

CONSTANTS NoJob, NoGrant,
    ClockReads,     \* how much later than the grant's a lane's deadline may be
    HostCommands    \* commands the host sends

ASSUME RuntimeAssumption ==
    /\ NoJob \notin Jobs /\ NoGrant \notin Grants
    /\ ClockReads \subseteq Nat
    /\ HostCommands \subseteq
         [op : {"Grant", "Revoke"}, agent : Agents] \cup [op : {"Mutate", "Read", "Close"}]

VARIABLES
    owner,      \* the owner thread: [pc, job, outcome]
    closed,
    grants,     \* the broker's grants: grant -> [agent, expires]
    reply,      \* what is in the reply channel of a job
    conn,       \* where the thread of a connection is
    cred,       \* the grant a connection proved
    hostCall,   \* the host's thread: [pc, job, command]
    listener,
    ran         \* jobs whose handler was called

threadVars == <<owner, closed, reply, conn, cred, hostCall, listener>>
runtimeVars == <<schedulerVars, threadVars, grants, ran>>

Connections == AgentJobs

Replies == {"none", "ok", "failed", "not_dispatched", "dropped"}

OwnerStates == {"next", "parking", "parked", "decide", "reject", "run", "stop_then_emit",
                "emit", "stop", "drain", "done"}

ConnStates == {"idle", "hello", "authenticated", "admitted", "waiting", "gone"}

HostStates == {"idle", "admitted", "waiting", "dropping", "joining", "exited"}

Idle == [pc |-> "next", job |-> NoJob, outcome |-> "none"]

RuntimeInit ==
    /\ SchedulerInit
    /\ owner = Idle
    /\ closed = FALSE
    /\ grants = <<>>
    /\ reply = [j \in Jobs |-> "none"]
    /\ conn = [c \in Connections |-> "idle"]
    /\ cred = [c \in Connections |-> NoGrant]
    /\ hostCall = [pc |-> "idle", job |-> NoJob, command |-> [op |-> "Read"]]
    /\ listener = "accepting"
    /\ ran = {}

\* Nobody is inside a critical section that takes more than one step.
LockFree == owner.pc # "parking" /\ popped = {}

\* notify_one and notify_all: the owner is the only thread that waits.
Notify == owner' = IF owner.pc = "parked" THEN [owner EXCEPT !.pc = "next"] ELSE owner

\* Mutant: stop() without the mutex.
StopUnlocked == TRUE

StopLock == LockFree

\* Shared::stop, by a thread other than the owner.
Stop == StopLock /\ closed' = TRUE /\ Notify

\* emit() to some jobs at once: a reply that cannot be encoded or for which the
\* budget has no room is lost, and the sender is dropped.
Emit(jobs, what) ==
    \E lost \in SUBSET jobs :
        reply' = [j \in Jobs |-> IF j \in lost THEN "dropped"
                                 ELSE IF j \in jobs THEN what ELSE reply[j]]

-----------------------------------------------------------------------------
(* The owner thread.                                                       *)

\* next_job(): the test of the queue, up to the wait or into dispatch().
NextJob ==
    /\ owner.pc = "next"
    /\ \/ /\ closed
          /\ owner' = [owner EXCEPT !.pc = "stop"]
          /\ UNCHANGED queueVars /\ UNCHANGED jobVars
       \/ /\ ~closed /\ IsEmpty
          /\ owner' = [owner EXCEPT !.pc = "parking"]
          /\ UNCHANGED queueVars /\ UNCHANGED jobVars
       \/ /\ ~closed
          /\ \E j \in Jobs :
               /\ Pop(j)
               /\ owner' = [owner EXCEPT !.job = j,
                                !.pc = IF flag[j] = "cancelled" THEN "reject" ELSE "decide"]
    /\ UNCHANGED <<closed, grants, reply, conn, cred, hostCall, listener, ran>>

\* Condvar::wait registers the owner and releases the mutex.
Park ==
    /\ owner.pc = "parking"
    /\ owner' = [owner EXCEPT !.pc = "parked"]
    /\ UNCHANGED <<closed, grants, reply, conn, cred, hostCall, listener, ran>>
    /\ UNCHANGED queueVars /\ UNCHANGED jobVars

Decide ==
    /\ owner.pc = "decide"
    /\ Dispatch
    /\ owner' = [owner EXCEPT !.pc = IF status'[owner.job] = "Ready" THEN "run" ELSE "reject"]
    /\ UNCHANGED <<closed, grants, reply, conn, cred, hostCall, listener, ran>>

Reject ==
    /\ owner.pc = "reject"
    /\ Emit({owner.job}, "not_dispatched")
    /\ owner' = Idle
    /\ UNCHANGED <<closed, grants, conn, cred, hostCall, listener, ran>>
    /\ UNCHANGED queueVars /\ UNCHANGED jobVars

LiveGrants == Restrict(grants, {g \in DOMAIN grants : grants[g].expires > clock})

\* Many operations begin with prune().
MayPrune == grants' \in {grants, LiveGrants}

\* Mutant: an error of the handler is reported as one before dispatch.
SafeToRetry == "not_dispatched"

HandlerError == "failed"

Outcome(what) == owner' = [owner EXCEPT !.pc = "emit", !.outcome = what]

\* The job the owner took out of the queue, with its handler about to be called.
Running(j) ==
    /\ owner.pc = "run" /\ owner.job = j
    /\ ran' = ran \cup {j}
    /\ UNCHANGED <<conn, cred, hostCall, listener, closed>>

\* execute_agent(): the grant is looked at again.
RunAgent(j) ==
    /\ Running(j)
    /\ MayPrune
    /\ \/ cred[j] \in DOMAIN LiveGrants /\ Outcome("ok")
       \/ Outcome(HandlerError)
    /\ UNCHANGED reply /\ UNCHANGED queueVars /\ UNCHANGED jobVars

GrantsOf(agent, live) == {g \in DOMAIN live : live[g].agent = agent}

\* The broker has no room for another agent.
BrokerFull(agent, live) ==
    GrantsOf(agent, live) = {} /\ Cardinality(DOMAIN live) >= MaxAgents

\* A secret nobody holds yet.
Fresh(g) == g \notin DOMAIN lanes \cup DOMAIN grants \cup {cred[c] : c \in Connections}

\* Mutant: the broker keeps a grant that the queue could not register.
KeepGrant(agent, g, live, until) ==
    Inserted(Restrict(live, DOMAIN live \ GrantsOf(agent, live)), g,
             [agent |-> agent, expires |-> until])

WithoutGrant(agent, g, live, until) == Restrict(live, DOMAIN live \ GrantsOf(agent, live))

\* HostCommand::Grant: both registries are pruned and changed under the mutex.
RunGrant(j, agent) ==
    LET gone == ExpiredLanes IN
    /\ Running(j)
    /\ \/ \* the lane's limits are refused
          /\ Outcome(HandlerError)
          /\ UNCHANGED <<grants, reply>> /\ UNCHANGED queueVars /\ UNCHANGED jobVars
       \/ \* the broker refuses the grant: invalid, or no room
          /\ Outcome(HandlerError)
          /\ HostPrune /\ Emit(JobsIn(gone), "not_dispatched")
          /\ grants' = LiveGrants
       \/ \E g \in Grants, lease \in Leases, later \in ClockReads :
          LET until == clock + lease IN
          /\ Fresh(g) /\ ~BrokerFull(agent, LiveGrants)
          /\ Emit(JobsIn(gone \cup LaneOf(agent)), "not_dispatched")
          /\ \/ /\ Outcome("ok")
                /\ Register(gone, g, agent, until + later)
                /\ grants' = Inserted(WithoutGrant(agent, g, LiveGrants, until), g,
                                      [agent |-> agent, expires |-> until])
             \/ \* the queue refuses the lane: both sides are revoked
                /\ Outcome(HandlerError)
                /\ ~HasRoom(DOMAIN lanes \ gone, agent)
                /\ RemoveLanes(gone \cup LaneOf(agent))
                /\ grants' = WithoutGrant(agent, g, LiveGrants, until)

RunRevoke(j, agent) ==
    /\ Running(j)
    /\ HostRevoke(agent) /\ Emit(JobsIn(LaneOf(agent)), "not_dispatched")
    /\ grants' = Restrict(grants, DOMAIN grants \ GrantsOf(agent, grants))
    /\ Outcome("ok")

\* A command that is persisted: if the commit fails the outcome is unknown, the
\* reply is dropped and the owner gives up.
RunMutate(j) ==
    /\ Running(j)
    /\ MayPrune
    /\ UNCHANGED queueVars
    /\ \/ (\E what \in {"ok", HandlerError} : Outcome(what)) /\ UNCHANGED <<reply, jobVars>>
       \/ /\ owner' = [Idle EXCEPT !.pc = "stop"]
          /\ reply' = [reply EXCEPT ![j] = "dropped"]
          /\ Finish(j)

RunRead(j) ==
    /\ Running(j)
    /\ MayPrune
    /\ \E what \in {"ok", HandlerError} : Outcome(what)
    /\ UNCHANGED reply /\ UNCHANGED queueVars /\ UNCHANGED jobVars

\* HostCommand::Close, up to stop(), which comes before the reply.
RunClose(j) ==
    /\ Running(j)
    /\ owner' = [owner EXCEPT !.pc = "stop_then_emit", !.outcome = "ok"]
    /\ UNCHANGED <<grants, reply>> /\ UNCHANGED queueVars /\ UNCHANGED jobVars

Run ==
    \E j \in Jobs :
        \/ j \in AgentJobs /\ RunAgent(j)
        \/ /\ j \in HostJobs
           /\ LET c == hostCall.command IN
                \/ c.op = "Grant" /\ RunGrant(j, c.agent)
                \/ c.op = "Revoke" /\ RunRevoke(j, c.agent)
                \/ c.op = "Mutate" /\ RunMutate(j)
                \/ c.op = "Read" /\ RunRead(j)
                \/ c.op = "Close" /\ RunClose(j)

EmitOutcome ==
    /\ owner.pc = "emit"
    /\ Emit({owner.job}, owner.outcome)
    /\ Finish(owner.job)
    /\ owner' = Idle
    /\ UNCHANGED <<closed, grants, conn, cred, hostCall, listener, ran>>

\* Shared::stop, by the owner itself: on Close, and when its loop has ended.
OwnerStops ==
    /\ owner.pc \in {"stop", "stop_then_emit"}
    /\ closed' = TRUE
    /\ owner' = [owner EXCEPT !.pc = IF @ = "stop" THEN "drain" ELSE "emit"]
    /\ UNCHANGED <<grants, reply, conn, cred, hostCall, listener, ran>>
    /\ UNCHANGED queueVars /\ UNCHANGED jobVars

Drain ==
    /\ owner.pc = "drain"
    /\ HostDrain
    /\ Emit(JobsIn(DOMAIN lanes) \cup ToSet(host), "not_dispatched")
    /\ owner' = [owner EXCEPT !.pc = "done"]
    /\ UNCHANGED <<closed, grants, conn, cred, hostCall, listener, ran>>

\* Condvar::wait may return for no reason.
SpuriousWakeup ==
    /\ owner.pc = "parked"
    /\ owner' = Idle
    /\ UNCHANGED <<closed, grants, reply, conn, cred, hostCall, listener, ran>>
    /\ UNCHANGED queueVars /\ UNCHANGED jobVars

OwnerStep ==
    NextJob \/ Park \/ Decide \/ Reject \/ Run \/ EmitOutcome \/ OwnerStops \/ Drain

-----------------------------------------------------------------------------
(* A connection.                                                           *)

ConnAt(c, pc) == conn' = [conn EXCEPT ![c] = pc]

\* server_proof(), under the mutex.
Hello(c, g) ==
    /\ conn[c] = "idle" /\ LockFree /\ ~closed /\ LaneLive(g)
    /\ ConnAt(c, "hello")
    /\ cred' = [cred EXCEPT ![c] = g]
    /\ UNCHANGED <<owner, closed, reply, hostCall, listener>>
    /\ UNCHANGED queueVars /\ UNCHANGED jobVars

\* authenticate_client() looks the lane up again, but not at `closed`.
Authenticate(c) ==
    /\ conn[c] = "hello" /\ LockFree /\ LaneLive(cred[c])
    /\ ConnAt(c, "authenticated")
    /\ UNCHANGED <<owner, closed, reply, cred, hostCall, listener>>
    /\ UNCHANGED queueVars /\ UNCHANGED jobVars

\* Mutant: admission does not look at `closed`.
OpenUnchecked == TRUE

Open == ~closed

Admit(c) ==
    /\ conn[c] = "authenticated" /\ LockFree
    /\ \/ /\ Open
          /\ \E wait \in Waits : EnqueueAgent(c, cred[c], wait)
          /\ ConnAt(c, "admitted") /\ UNCHANGED reply
       \/ /\ Open /\ ~(LaneLive(cred[c]) /\ Fits(cred[c], c))
          /\ Emit({c}, "not_dispatched")
          /\ ConnAt(c, "gone")
          /\ UNCHANGED queueVars /\ UNCHANGED jobVars
    /\ UNCHANGED <<owner, closed, cred, hostCall, listener>>

NotifyAdmitted(c) ==
    /\ conn[c] = "admitted"
    /\ Notify /\ ConnAt(c, "waiting")
    /\ UNCHANGED <<closed, reply, cred, hostCall, listener>>
    /\ UNCHANGED queueVars /\ UNCHANGED jobVars

\* The handler returns: its peer has gone, a deadline has passed, the broker is
\* closed or its reply is there.  CancelOnDrop cancels what it admitted.
Leave(c) ==
    /\ conn[c] \in {"hello", "authenticated", "waiting"}
    /\ ConnAt(c, "gone")
    /\ IF conn[c] = "waiting" THEN Cancel(c) ELSE UNCHANGED queueVars /\ UNCHANGED jobVars
    /\ UNCHANGED <<owner, closed, reply, cred, hostCall, listener>>

ConnectionStep(c) ==
    /\ \/ \E g \in Grants : Hello(c, g)
       \/ Authenticate(c) \/ Admit(c) \/ NotifyAdmitted(c) \/ Leave(c)
    /\ UNCHANGED <<grants, ran>>

-----------------------------------------------------------------------------
(* The host's thread, and the listener.                                    *)

\* Runtime::call up to the notification; Err ends run() and drops the runtime.
HostCall(command) ==
    /\ hostCall.pc = "idle" /\ LockFree
    /\ \/ /\ ~Open
          /\ hostCall' = [hostCall EXCEPT !.pc = "dropping"]
          /\ UNCHANGED queueVars /\ UNCHANGED jobVars
       \/ /\ Open
          /\ \E j \in HostJobs, wait \in Waits :
                /\ EnqueueHost(j, wait)
                /\ hostCall' = [pc |-> "admitted", job |-> j, command |-> command]
    /\ UNCHANGED <<owner, closed, reply, conn, cred, listener, ran>>

HostNotify ==
    /\ hostCall.pc = "admitted"
    /\ Notify
    /\ hostCall' = [hostCall EXCEPT !.pc = "waiting"]
    /\ UNCHANGED <<closed, reply, conn, cred, listener, ran>>
    /\ UNCHANGED queueVars /\ UNCHANGED jobVars

\* rx.recv(), without a timeout; the slot of the job is used again.
HostReceive ==
    LET j == hostCall.job IN
    /\ hostCall.pc = "waiting" /\ reply[j] # "none"
    /\ Retire(j)
    /\ reply' = [reply EXCEPT ![j] = "none"]
    /\ ran' = ran \ {j}
    /\ hostCall' = [pc |-> IF reply[j] = "dropped" \/ hostCall.command.op = "Close"
                             THEN "dropping" ELSE "idle",
                    job |-> NoJob, command |-> [op |-> "Read"]]
    /\ UNCHANGED <<owner, closed, conn, cred, listener>>

\* The host's input ends.
HostEof ==
    /\ hostCall.pc = "idle"
    /\ hostCall' = [hostCall EXCEPT !.pc = "dropping"]
    /\ UNCHANGED <<owner, closed, reply, conn, cred, listener, ran>>
    /\ UNCHANGED queueVars /\ UNCHANGED jobVars

\* Runtime::drop: stop, then join the listener and the owner.
HostStops ==
    /\ hostCall.pc = "dropping"
    /\ Stop
    /\ hostCall' = [hostCall EXCEPT !.pc = "joining"]
    /\ UNCHANGED <<reply, conn, cred, listener, ran>>
    /\ UNCHANGED queueVars /\ UNCHANGED jobVars

HostJoins ==
    /\ hostCall.pc = "joining" /\ listener = "ended" /\ owner.pc = "done"
    /\ hostCall' = [hostCall EXCEPT !.pc = "exited"]
    /\ UNCHANGED <<owner, closed, reply, conn, cred, listener, ran>>
    /\ UNCHANGED queueVars /\ UNCHANGED jobVars

\* accept() fails, and the listener stops the broker.
ListenerFails ==
    /\ listener = "accepting"
    /\ Stop
    /\ listener' = "ended"
    /\ UNCHANGED <<reply, conn, cred, hostCall, ran>>
    /\ UNCHANGED queueVars /\ UNCHANGED jobVars

\* A connection, at the latest the one Runtime::drop makes, shows it `closed`.
ListenerEnds ==
    /\ listener = "accepting" /\ closed
    /\ listener' = "ended"
    /\ UNCHANGED <<owner, closed, reply, conn, cred, hostCall, ran>>
    /\ UNCHANGED queueVars /\ UNCHANGED jobVars

HostStep ==
    /\ \/ \E command \in HostCommands : HostCall(command)
       \/ HostNotify \/ HostReceive \/ HostEof \/ HostStops \/ HostJoins
       \/ ListenerFails \/ ListenerEnds
    /\ UNCHANGED grants

RuntimeTick == SchedulerTick /\ UNCHANGED <<threadVars, grants, ran>>

RuntimeNext ==
    \/ /\ OwnerStep \/ SpuriousWakeup \/ HostStep \/ \E c \in Connections : ConnectionStep(c)
       /\ UNCHANGED clock
    \/ RuntimeTick

RuntimeSpec == RuntimeInit /\ [][RuntimeNext]_runtimeVars

\* Threads run, and a reply or a wakeup that is there is taken.  Nobody has to
\* call, connect, leave or fail.
FairRuntimeSpec ==
    /\ RuntimeSpec
    /\ WF_runtimeVars(OwnerStep /\ UNCHANGED clock)
    /\ WF_runtimeVars((HostNotify \/ HostReceive \/ HostStops \/ HostJoins)
                        /\ UNCHANGED <<grants, clock>>)
    /\ WF_runtimeVars(hostCall.pc = "joining" /\ ListenerEnds /\ UNCHANGED <<grants, clock>>)
    /\ \A c \in Connections : WF_runtimeVars(NotifyAdmitted(c) /\ UNCHANGED <<grants, ran, clock>>)

-----------------------------------------------------------------------------
(* Properties.                                                             *)

\* Types of the runtime's own variables.
RuntimeTypeOK ==
    /\ owner \in [pc : OwnerStates, job : Jobs \cup {NoJob}, outcome : Replies]
    /\ closed \in BOOLEAN
    /\ DOMAIN grants \subseteq Grants
    /\ \A g \in DOMAIN grants : grants[g] \in [agent : Agents, expires : Nat]
    /\ reply \in [Jobs -> Replies]
    /\ conn \in [Connections -> ConnStates]
    /\ cred \in [Connections -> Grants \cup {NoGrant}]
    /\ hostCall.pc \in HostStates /\ hostCall.job \in HostJobs \cup {NoJob}
    /\ listener \in {"accepting", "ended"}
    /\ ran \subseteq Jobs

\* What a caller is told was not dispatched has not run, and neither has what a
\* handler was told it had cancelled in time: `dispatched: false` is what
\* clients rely on to repeat a request.
NotDispatchedNeverRan ==
    /\ \A j \in Jobs : reply[j] = "not_dispatched" => j \notin ran
    /\ told \cap ran = {}

\* When the owner has ended, no job waits in a queue nobody serves and every
\* job ever admitted has its answer, or a channel whose sender is gone.
NothingStranded ==
    owner.pc = "done" => IsEmpty /\ \A j \in Jobs : flag[j] # "none" => reply[j] # "none"

\* The broker's grants and the queue's lanes are the same, but for the moment
\* by which a lane's deadline is later: a live grant without a lane could never
\* be used, a lane without a grant admits work that is bound to be refused.
GrantsMatchLanes ==
    /\ \A g \in DOMAIN LiveGrants :
        /\ g \in DOMAIN lanes \/ closed
        /\ g \in DOMAIN lanes => lanes[g].agent = grants[g].agent
    /\ \A g \in DOMAIN lanes :
        (\A later \in ClockReads : lanes[g].expires > clock + later)
            => g \in DOMAIN LiveGrants

\* The host waits for its reply without a timeout, and always gets one or finds
\* the channel closed, also when the broker closes around its call.
HostCallReturns == hostCall.pc \in {"admitted", "waiting"} ~> hostCall.pc \in {"idle", "dropping"}

\* Once the broker is closed its owner drains the queue and ends, and dropping
\* the runtime does not hang: no wakeup is lost between the owner's test and
\* its wait.
ShutdownCompletes ==
    /\ closed ~> owner.pc = "done"
    /\ hostCall.pc = "joining" ~> hostCall.pc = "exited"

=============================================================================
