-------------------------- MODULE BrokerScheduler --------------------------
(***************************************************************************)
(* The admission queue of the context broker                               *)
(* (crates/cigar-context/src/broker/scheduler.rs): one FIFO lane per grant *)
(* of an agent, a separate FIFO for the host, round robin over the lanes   *)
(* that have work and alternation between host and agents.                 *)
(*                                                                         *)
(* Every operation runs under one mutex.  The cancellation flag of a job   *)
(* is shared with its connection handler and is not: cancel() can fall     *)
(* between the two reads of dispatch(), so pop is two actions.             *)
(***************************************************************************)
EXTENDS Naturals, Sequences, FiniteSets, SequencesExt

CONSTANTS
    Grants,         \* lane keys: one per credential
    Agents,
    Jobs,           \* job slots, used again once a job is answered
    HostJobs,       \* those of the host
    Size,           \* encoded bytes of every job
    Waits,          \* queue waits that requests ask for
    Leases,         \* lease lengths the host asks for
    MaxAgents, MaxAgentJobs, MaxAgentBytes, MaxHostJobs, MaxHostBytes,
    LaneJobs, LaneBytes,    \* the allowance of every lane
    MaxClock        \* bound of the model: the last instant

ASSUME SchedulerAssumption ==
    /\ HostJobs \subseteq Jobs
    /\ Size \in [Jobs -> Nat \ {0}]
    /\ Waits \subseteq Nat \ {0} /\ Leases \subseteq Nat \ {0}
    /\ {MaxAgents, MaxHostJobs, MaxHostBytes, MaxClock} \subseteq Nat
    /\ MaxAgentJobs \in Nat /\ LaneJobs \in 1 .. (MaxAgentJobs \div 2)
    /\ MaxAgentBytes \in Nat /\ LaneBytes \in 1 .. (MaxAgentBytes \div 2)

VARIABLES
    lanes,      \* grant -> its lane, for the registered grants
    active,     \* the lanes with work, in the order of their turns
    host, hostBytes, hostTurn,
    flag,       \* the shared cancellation state of every job
    expires,    \* when a job's wait ends
    popped,     \* the job inside dispatch(), as {[job, expired]}, or {}
    status,     \* what dispatch() said of a job
    told,       \* jobs whose handler was told that they cannot start
    clock

queueVars == <<lanes, active, host, hostBytes, hostTurn>>
jobVars == <<flag, expires, popped, status, told>>
schedulerVars == <<queueVars, jobVars, clock>>

AgentJobs == Jobs \ HostJobs

LaneRecords ==
    [agent : Agents, expires : Nat, jobs : Seq(Jobs), bytes : Nat]

Flags == {"none", "queued", "dispatched", "finished", "cancelled"}

Statuses == {"none", "Ready", "Expired", "Cancelled"}

SchedulerInit ==
    /\ lanes = <<>>
    /\ active = <<>>
    /\ host = <<>> /\ hostBytes = 0 /\ hostTurn = TRUE
    /\ flag = [j \in Jobs |-> "none"]
    /\ expires = [j \in Jobs |-> 0]
    /\ popped = {}
    /\ status = [j \in Jobs |-> "none"]
    /\ told = {}
    /\ clock = 0

Earlier(s, t) == IF s < t THEN s ELSE t

QueuedJobs == SumFunction([g \in DOMAIN lanes |-> Len(lanes[g].jobs)])

QueuedBytes == SumFunction([g \in DOMAIN lanes |-> lanes[g].bytes])

Waiting(j) ==
    \/ Contains(host, j)
    \/ \E g \in DOMAIN lanes : Contains(lanes[g].jobs, j)

IsEmpty == host = <<>> /\ \A g \in DOMAIN lanes : lanes[g].jobs = <<>>

LaneOf(agent) == {g \in DOMAIN lanes : lanes[g].agent = agent}

-----------------------------------------------------------------------------
(* Lanes.                                                                  *)

\* Cancelled while queued: cancel() wins the flag, dispatch() then reports it.
CancelWaiting(jobs) ==
    /\ flag' = [j \in Jobs |->
                    IF j \in jobs /\ flag[j] = "queued" THEN "cancelled" ELSE flag[j]]
    /\ status' = [j \in Jobs |-> IF j \in jobs THEN "Cancelled" ELSE status[j]]
    /\ UNCHANGED <<expires, popped, told>>

JobsIn(keys) == UNION {ToSet(lanes[g].jobs) : g \in keys}

\* Mutant: a removed lane keeps its turn.
KeepTurn(keys) == active

\* The first n turns but those of the lanes in keys; of all turns, retain().
WithoutTurns(keys) ==
    LET kept[n \in 0 .. Len(active)] ==
            IF n = 0 THEN <<>>
            ELSE IF active[n] \in keys THEN kept[n - 1] ELSE Append(kept[n - 1], active[n])
    IN  kept[Len(active)]

RemoveLanes(keys) ==
    /\ lanes' = Restrict(lanes, DOMAIN lanes \ keys)
    /\ active' = WithoutTurns(keys)
    /\ CancelWaiting(JobsIn(keys))
    /\ UNCHANGED <<host, hostBytes, hostTurn>>

ExpiredLanes == {g \in DOMAIN lanes : lanes[g].expires <= clock}

HostPrune == RemoveLanes(ExpiredLanes)

HostRevoke(agent) == RemoveLanes(LaneOf(agent))

NewLane(agent, until) ==
    [agent |-> agent, expires |-> until, jobs |-> <<>>, bytes |-> 0]

\* BTreeMap::insert
Inserted(map, key, value) ==
    [k \in DOMAIN map \cup {key} |-> IF k = key THEN value ELSE map[k]]

\* The registry has room for a lane of agent beside the lanes in keys.
HasRoom(keys, agent) ==
    \/ LaneOf(agent) \cap keys # {}
    \/ Cardinality(keys) < MaxAgents

Replaced(agent) == LaneOf(agent)

\* The lanes in gone are pruned first; the agent's previous lane is replaced.
Register(gone, g, agent, until) ==
    LET removed == gone \cup Replaced(agent) IN
    /\ g \notin DOMAIN lanes \ gone
    /\ HasRoom(DOMAIN lanes \ gone, agent)
    /\ lanes' = Inserted(Restrict(lanes, DOMAIN lanes \ removed), g, NewLane(agent, until))
    /\ active' = WithoutTurns(removed)
    /\ CancelWaiting(JobsIn(removed))
    /\ UNCHANGED <<host, hostBytes, hostTurn>>

HostDrain ==
    /\ lanes' = <<>> /\ active' = <<>> /\ host' = <<>> /\ hostBytes' = 0
    /\ CancelWaiting(JobsIn(DOMAIN lanes) \cup ToSet(host))
    /\ UNCHANGED hostTurn

-----------------------------------------------------------------------------
(* Admission.                                                              *)

\* Mutant: only the number of jobs is bounded.
JobsOnly(g, j) ==
    QueuedJobs < MaxAgentJobs /\ Len(lanes[g].jobs) < LaneJobs

Fits(g, j) ==
    /\ QueuedJobs < MaxAgentJobs /\ QueuedBytes + Size[j] <= MaxAgentBytes
    /\ Len(lanes[g].jobs) < LaneJobs /\ lanes[g].bytes + Size[j] <= LaneBytes

LaneLive(g) == g \in DOMAIN lanes /\ lanes[g].expires > clock

\* Mutant: a job may outwait its grant.
RequestedWait(g, wait) == clock + wait

AdmittedUntil(g, wait) == Earlier(clock + wait, lanes[g].expires)

EnqueueAgent(j, g, wait) ==
    /\ flag[j] = "none"
    /\ LaneLive(g) /\ Fits(g, j)
    /\ active' = IF lanes[g].jobs = <<>> THEN Append(active, g) ELSE active
    /\ lanes' = [lanes EXCEPT ![g].jobs = Append(@, j), ![g].bytes = @ + Size[j]]
    /\ flag' = [flag EXCEPT ![j] = "queued"]
    /\ expires' = [expires EXCEPT ![j] = AdmittedUntil(g, wait)]
    /\ UNCHANGED <<host, hostBytes, hostTurn, popped, status, told>>

HostFits(j) == Len(host) < MaxHostJobs /\ hostBytes + Size[j] <= MaxHostBytes

HostBytesWith(j) == hostBytes + Size[j]

EnqueueHost(j, wait) ==
    /\ flag[j] = "none"
    /\ HostFits(j)
    /\ host' = Append(host, j) /\ hostBytes' = HostBytesWith(j)
    /\ flag' = [flag EXCEPT ![j] = "queued"]
    /\ expires' = [expires EXCEPT ![j] = clock + wait]
    /\ UNCHANGED <<lanes, active, hostTurn, popped, status, told>>

-----------------------------------------------------------------------------
(* Dispatch.                                                               *)

\* Mutant: the host goes first whenever it has work.
HostAlways == host # <<>>

HostsTurn == host # <<>> /\ (hostTurn \/ active = <<>>)

\* Mutant: a lane that has more work keeps its turn.
ServedFirst(g, left) == (IF left = <<>> THEN <<>> ELSE <<g>>) \o Tail(active)

NextTurns(g, left) == Tail(active) \o (IF left = <<>> THEN <<>> ELSE <<g>>)

\* The lanes' and the host's part of pop().
Dequeue(j) ==
    \/ /\ HostsTurn /\ j = Head(host)
       /\ host' = Tail(host) /\ hostBytes' = hostBytes - Size[j]
       /\ hostTurn' = FALSE
       /\ UNCHANGED <<lanes, active>>
    \/ /\ ~HostsTurn /\ active # <<>>
       /\ LET g == Head(active) IN
            /\ j = Head(lanes[g].jobs)
            /\ active' = NextTurns(g, Tail(lanes[g].jobs))
            /\ lanes' = [lanes EXCEPT ![g].jobs = Tail(@), ![g].bytes = @ - Size[j]]
       /\ hostTurn' = TRUE
       /\ UNCHANGED <<host, hostBytes>>

\* pop() up to the first read of the flag, in dispatch().
Pop(j) ==
    /\ popped = {}
    /\ Dequeue(j)
    /\ IF flag[j] = "cancelled"
         THEN status' = [status EXCEPT ![j] = "Cancelled"] /\ UNCHANGED popped
         ELSE popped' = {[job |-> j, expired |-> expires[j] <= clock]}
              /\ UNCHANGED status
    /\ UNCHANGED <<flag, expires, told>>

\* Mutant: the flag is stored without comparing, and expiry is not looked at.
StoreDispatched(p) ==
    /\ flag' = [flag EXCEPT ![p.job] = "dispatched"]
    /\ status' = [status EXCEPT ![p.job] = "Ready"]

\* The rest of dispatch(): expired jobs are cancelled, others must win the flag.
Decided(p) ==
    LET won == flag[p.job] = "queued" IN
    /\ flag' = [flag EXCEPT ![p.job] =
                    IF ~won THEN @ ELSE IF p.expired THEN "cancelled" ELSE "dispatched"]
    /\ status' = [status EXCEPT ![p.job] =
                    IF p.expired THEN "Expired" ELSE IF won THEN "Ready" ELSE "Cancelled"]

Dispatch ==
    \E p \in popped :
        /\ Decided(p)
        /\ popped' = {}
        /\ UNCHANGED <<expires, told>>
        /\ UNCHANGED queueVars

\* cancel(), by the connection handler, at any time.
Cancel(j) ==
    /\ flag[j] # "none"
    /\ flag' = [flag EXCEPT ![j] = IF @ = "queued" THEN "cancelled" ELSE @]
    /\ told' = IF flag[j] \in {"queued", "cancelled"} THEN told \cup {j} ELSE told
    /\ UNCHANGED <<expires, popped, status>>
    /\ UNCHANGED queueVars

\* The dispatched job ends and its Scheduled is dropped.
Finish(j) ==
    /\ flag[j] = "dispatched"
    /\ flag' = [flag EXCEPT ![j] = "finished"]
    /\ UNCHANGED <<expires, popped, status, told>>
    /\ UNCHANGED queueVars

\* Everybody has let go of an answered job; its slot is used again.
Retire(j) ==
    /\ status[j] # "none" /\ flag[j] \in {"finished", "cancelled"}
    /\ flag' = [flag EXCEPT ![j] = "none"]
    /\ status' = [status EXCEPT ![j] = "none"]
    /\ told' = told \ {j}
    /\ expires' = [expires EXCEPT ![j] = 0]
    /\ UNCHANGED popped
    /\ UNCHANGED queueVars

SchedulerTick ==
    /\ clock < MaxClock
    /\ clock' = clock + 1
    /\ UNCHANGED queueVars /\ UNCHANGED jobVars

\* What the holder of the mutex does, dispatch() once it has begun first.
Owner ==
    /\ popped = {}
    /\ \/ \E g \in Grants, agent \in Agents, lease \in Leases :
            Register({}, g, agent, clock + lease)
       \/ \E agent \in Agents : HostRevoke(agent)
       \/ HostPrune
       \/ HostDrain
       \/ \E j \in AgentJobs, g \in Grants, wait \in Waits : EnqueueAgent(j, g, wait)
       \/ \E j \in HostJobs, wait \in Waits : EnqueueHost(j, wait)
       \/ \E j \in Jobs : Pop(j)

SchedulerNext ==
    \/ /\ \/ Owner
          \/ Dispatch
          \/ \E j \in Jobs : Cancel(j) \/ Finish(j) \/ Retire(j)
       /\ UNCHANGED clock
    \/ SchedulerTick

SchedulerSpec == SchedulerInit /\ [][SchedulerNext]_schedulerVars

-----------------------------------------------------------------------------
(* Properties.                                                             *)

\* Types of all variables.
SchedulerTypeOK ==
    /\ DOMAIN lanes \subseteq Grants
    /\ \A g \in DOMAIN lanes : lanes[g] \in LaneRecords
    /\ active \in Seq(Grants)
    /\ host \in Seq(HostJobs) /\ hostBytes \in Nat /\ hostTurn \in BOOLEAN
    /\ flag \in [Jobs -> Flags]
    /\ expires \in [Jobs -> Nat]
    /\ popped \subseteq [job : Jobs, expired : BOOLEAN] /\ Cardinality(popped) <= 1
    /\ status \in [Jobs -> Statuses]
    /\ told \subseteq Jobs
    /\ clock \in Nat

\* The turn list holds exactly the lanes with work, each once: a lane missing
\* from it would starve, a removed or empty lane in it would make pop() lose
\* a turn and return nothing although there is work.
TurnsAreExact ==
    /\ IsInjective(active)
    /\ ToSet(active) = {g \in DOMAIN lanes : lanes[g].jobs # <<>>}

\* The byte counters are what is queued and within the limits, so that the
\* subtractions `max - bytes` of admission never underflow.
BytesAreExact ==
    /\ \A g \in DOMAIN lanes :
        /\ lanes[g].bytes = SumFunctionOnSet(Size, ToSet(lanes[g].jobs))
        /\ lanes[g].bytes <= LaneBytes
    /\ hostBytes = SumFunctionOnSet(Size, ToSet(host)) /\ hostBytes <= MaxHostBytes
    /\ QueuedBytes <= MaxAgentBytes

\* cancel(): "Returns true only when this operation definitely cannot start in
\* the future", also if it falls between the reads of dispatch().
CancelIsDefinitive == \A j \in told : status[j] # "Ready"

\* A job of an agent starts only under a live grant: when pop() finds it not
\* expired, the lane it waited in is still registered and its lease still runs,
\* however long the request offered to wait.
ReadyIsCovered ==
    [][\A p \in popped' \ popped :
        p.job \in AgentJobs /\ ~p.expired =>
            \E g \in DOMAIN lanes : Contains(lanes[g].jobs, p.job) /\ LaneLive(g)
      ]_schedulerVars

\* Who is in front of x in the queue s.
Ahead(s, x) == {s[n] : n \in {m \in DOMAIN s : \E k \in DOMAIN s : m < k /\ s[k] = x}}

\* s becomes t: who stays lets nobody past, who leaves was passed by nobody.
InOrder(s, t) ==
    \A x \in ToSet(s) :
        IF x \in ToSet(t) THEN Ahead(t, x) \subseteq Ahead(s, x)
                          ELSE Ahead(s, x) \cap ToSet(t) = {}

Left(s, t) == ToSet(s) \ ToSet(t)

\* The lanes from which a job is taken in this step.
ServedLanes ==
    {g \in DOMAIN lanes \cap DOMAIN lanes' : Left(lanes[g].jobs, lanes'[g].jobs) # {}}

TurnsInOrder ==
    /\ \A g \in (ToSet(active) \cap ToSet(active')) \ ServedLanes :
        Ahead(active', g) \subseteq Ahead(active, g)
    /\ \A g \in ServedLanes :
        /\ Ahead(active, g) = {}
        /\ g \in ToSet(active') => Ahead(active', g) = ToSet(active') \ {g}

JobsInOrder ==
    /\ InOrder(host, host')
    /\ \A g \in DOMAIN lanes \cap DOMAIN lanes' : InOrder(lanes[g].jobs, lanes'[g].jobs)

SidesAlternate ==
    /\ ServedLanes # {} => hostTurn' /\ (hostTurn => host = <<>>)
    /\ Left(host, host') # {} /\ active' # <<>> => hostTurn /\ ~hostTurn'
    /\ hostTurn' # hostTurn => ServedLanes # {} \/ Left(host, host') # {}

\* Nobody is overtaken for ever, however many jobs the others keep adding.  The
\* lanes in front of a waiting lane only get fewer, whichever lanes come, go
\* and are served; a lane is served when it is in front of all and is then
\* behind all.  Jobs of one lane, and the host's, leave in the order they came.
\* While both sides wait, neither is served twice in a row.  So a job needs one
\* turn of its lane for each job up to itself, and every turn comes after at
\* most one of each other lane with work and as many of the host.
NobodyOvertakes == [][TurnsInOrder /\ JobsInOrder /\ SidesAlternate]_schedulerVars

\* No waiting job is forgotten: the owner, woken and put to sleep under the
\* mutex, comes to take it out of its queue, while the host keeps adding work.
\* In which order agents are served is what NobodyOvertakes says.
NobodyStarves == \A j \in Jobs : Waiting(j) ~> ~Waiting(j)

=============================================================================
