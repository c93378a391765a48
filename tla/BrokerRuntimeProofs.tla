------------------------- MODULE BrokerRuntimeProofs -------------------------
(***************************************************************************)
(* What the broker process promises its callers, for every number of       *)
(* connections, agents and grants: what is said not to have been           *)
(* dispatched never runs, shutdown leaves no job without an answer, and    *)
(* the broker's grants and the queue's lanes stay the same.                *)
(*                                                                         *)
(* A job is always in one place: in a queue, in the owner's hands, or      *)
(* answered.  The owner's program counter fixes the flag of the job in its *)
(* hands, and an answer fixes the flag of a job that is nobody's.          *)
(***************************************************************************)
EXTENDS BrokerRuntime, BrokerSchedulerProofs

\* The owner has taken a job out of the queue and not answered it.
Holding == {"decide", "reject", "run", "emit", "stop_then_emit"}

OwnerRecords ==
    [pc : OwnerStates, job : Jobs \cup {NoJob}, outcome : {"none", "ok", "failed"}]

Commands == HostCommands \cup {[op |-> "Read"]}

\* Types of the threads' variables.
ThreadTypes ==
    /\ owner \in OwnerRecords
    /\ reply \in [Jobs -> Replies]
    /\ conn \in [Connections -> ConnStates]
    /\ cred \in [Connections -> Grants \cup {NoGrant}]
    /\ hostCall \in [pc : HostStates, job : HostJobs \cup {NoJob}, command : Commands]
    /\ (hostCall.pc \in {"admitted", "waiting"} => hostCall.job \in HostJobs)
    /\ ran \subseteq Jobs

\* Where the owner is fixes what it holds and how far that has come.
OwnerHolds ==
    /\ owner.pc \in Holding <=> owner.job # NoJob
    /\ owner.job \notin WaitingJobs
    /\ \A p \in popped : p.job = owner.job
    /\ popped = {} <=> owner.pc # "decide"
    /\ owner.pc = "reject" => flag[owner.job] = "cancelled"
    /\ owner.pc \in {"run", "emit", "stop_then_emit"} => flag[owner.job] = "dispatched"
    /\ owner.pc \in {"emit", "stop_then_emit"} => owner.outcome # "none"

\* The answer of a job, and whether it may have run.
AnswerInv ==
    \A j \in Jobs :
        /\ j \in WaitingJobs \/ j = owner.job => reply[j] = "none" /\ flag[j] # "none"
        /\ flag[j] # "none" /\ j \notin WaitingJobs /\ j # owner.job => reply[j] # "none"
        /\ j \in ran => flag[j] \in {"dispatched", "finished"}
        /\ reply[j] = "not_dispatched" => flag[j] \in {"none", "cancelled"}

\* A slot that is about to be used has no answer yet.
SlotsAreFresh ==
    /\ \A c \in Connections :
        conn[c] \in {"idle", "hello", "authenticated"} => flag[c] = "none" /\ reply[c] = "none"
    /\ \A j \in HostJobs : flag[j] = "none" => reply[j] = "none"

\* The owner drains after the queue was closed, and nothing joins it then.
ClosedStaysEmpty ==
    /\ owner.pc \in {"drain", "done"} => closed
    /\ owner.pc = "done" => DOMAIN lanes = {} /\ host = <<>>

\* A lane's deadline is that of its grant, read a moment later.
Pairs(g) ==
    /\ lanes[g].agent = grants[g].agent
    /\ \E later \in ClockReads : lanes[g].expires = grants[g].expires + later

\* A lane whose lease is over, read at some later moment.
LaneIsOver(g) == \E later \in ClockReads : lanes[g].expires <= clock + later

GrantInv ==
    /\ grants \in [DOMAIN grants -> [agent : Agents, expires : Nat]]
    /\ DOMAIN grants \subseteq Grants
    /\ \A g \in DOMAIN grants \cap DOMAIN lanes : Pairs(g)
    /\ \A g \in DOMAIN lanes \ DOMAIN grants : LaneIsOver(g)
    /\ ~closed => \A g \in DOMAIN grants \ DOMAIN lanes : grants[g].expires <= clock

RuntimeInv ==
    /\ SchedulerInv /\ ThreadTypes /\ OwnerHolds /\ AnswerInv /\ SlotsAreFresh
    /\ ClosedStaysEmpty /\ GrantInv

USE DEF OwnerStates, Replies, ConnStates, HostStates, Holding

\* Where the lanes are, as the grants see them.
LEMMA LaneTypes ==
    ASSUME SchedulerInv
    PROVE  clock \in Nat /\ \A g \in DOMAIN lanes : lanes[g].expires \in Nat
BY DEF SchedulerInv, QueueInv, QueueTypes, AgentLanes

\* Lanes and grants go and come together, or are over.
LEMMA GrantsChange ==
    ASSUME SchedulerInv, GrantInv,
           NEW kept \in SUBSET DOMAIN lanes, NEW left \in SUBSET DOMAIN grants,
           NEW new \in SUBSET Grants, new \cap (kept \cup left) = {},
           DOMAIN lanes' = kept \cup new,
           grants' \in [left \cup new -> [agent : Agents, expires : Nat]],
           \A g \in kept : /\ lanes'[g].agent = lanes[g].agent
                           /\ lanes'[g].expires = lanes[g].expires,
           \A g \in left : grants'[g] = grants[g],
           \A g \in new : Pairs(g)',
           \A g \in left \ kept : g \in DOMAIN lanes => grants[g].expires <= clock,
           \A g \in kept \ left : g \in DOMAIN grants => grants[g].expires <= clock,
           closed => closed', UNCHANGED clock
    PROVE  GrantInv'
<1>1. DOMAIN grants' = left \cup new /\ DOMAIN grants' \subseteq Grants
  BY DEF GrantInv
<1>2. ASSUME NEW g \in DOMAIN grants' \cap DOMAIN lanes' PROVE Pairs(g)'
  <2>1. CASE g \in new
    BY <2>1
  <2>2. CASE g \in kept \cap left
    BY <2>2 DEF GrantInv, Pairs
  <2>. QED  BY <1>1, <1>2, <2>1, <2>2
<1>3. ASSUME NEW g \in DOMAIN lanes' \ DOMAIN grants' PROVE LaneIsOver(g)'
  <2>1. g \in kept /\ g \notin left
    BY <1>1, <1>3
  <2>2. CASE g \in DOMAIN grants
    <3>1. PICK later \in ClockReads : lanes[g].expires = grants[g].expires + later
      BY <2>1, <2>2 DEF GrantInv, Pairs
    <3>2. grants[g].expires <= clock /\ grants[g].expires \in Nat /\ clock \in Nat /\ later \in Nat
      BY <2>1, <2>2, <3>1, LaneTypes, RuntimeAssumption DEF GrantInv
    <3>3. lanes'[g].expires <= clock' + later
      BY <2>1, <3>1, <3>2
    <3>. QED  BY <3>3 DEF LaneIsOver
  <2>3. CASE g \notin DOMAIN grants
    BY <2>1, <2>3 DEF GrantInv, LaneIsOver
  <2>. QED  BY <2>2, <2>3
<1>4. ASSUME ~closed', NEW g \in DOMAIN grants' \ DOMAIN lanes' PROVE grants'[g].expires <= clock'
  BY <1>1, <1>4 DEF GrantInv
<1>. QED  BY <1>1, <1>2, <1>3, <1>4 DEF GrantInv

\* The lanes keep their owners and deadlines; grants that are over may go.
LEMMA GrantsPruned ==
    ASSUME SchedulerInv, GrantInv, MayPrune, DOMAIN lanes' = DOMAIN lanes,
           \A g \in DOMAIN lanes : /\ lanes'[g].agent = lanes[g].agent
                                   /\ lanes'[g].expires = lanes[g].expires,
           closed => closed', UNCHANGED clock
    PROVE  GrantInv'
<1>. DEFINE left == DOMAIN grants'
<1>1. left \in SUBSET DOMAIN grants /\ grants' \in [left -> [agent : Agents, expires : Nat]]
      /\ \A g \in left : grants'[g] = grants[g]
  BY DEF MayPrune, LiveGrants, Restrict, GrantInv
<1>2. \A g \in DOMAIN grants \ left : grants[g].expires <= clock
  BY LaneTypes DEF MayPrune, LiveGrants, Restrict, GrantInv
<1>. HIDE DEF left
<1>. DEFINE new == {}
<1>3. new \in SUBSET Grants /\ new \cap (DOMAIN lanes \cup left) = {}
      /\ DOMAIN lanes' = DOMAIN lanes \cup new
      /\ grants' \in [left \cup new -> [agent : Agents, expires : Nat]]
      /\ (\A g \in new : Pairs(g)')
      /\ DOMAIN lanes \in SUBSET DOMAIN lanes
  BY <1>1
<1>. HIDE DEF new
<1>4. \A g \in left \ DOMAIN lanes : g \in DOMAIN lanes => grants[g].expires <= clock
  OBVIOUS
<1>5. \A g \in DOMAIN lanes \ left : g \in DOMAIN grants => grants[g].expires <= clock
  BY <1>2
<1>. QED  BY <1>1, <1>3, <1>4, <1>5, GrantsChange

\* Time passes.
LEMMA GrantsAge ==
    ASSUME SchedulerInv, GrantInv, UNCHANGED <<lanes, grants, closed>>, clock' = clock + 1
    PROVE  GrantInv'
<1>1. \A g \in DOMAIN lanes \ DOMAIN grants : LaneIsOver(g)'
  <2>. SUFFICES ASSUME NEW g \in DOMAIN lanes \ DOMAIN grants PROVE LaneIsOver(g)'
    OBVIOUS
  <2>1. PICK later \in ClockReads : lanes[g].expires <= clock + later
    BY DEF GrantInv, LaneIsOver
  <2>2. lanes[g].expires \in Nat /\ clock \in Nat /\ later \in Nat
    BY <2>1, LaneTypes, RuntimeAssumption
  <2>3. lanes'[g].expires <= clock' + later
    BY <2>1, <2>2
  <2>. QED  BY <2>3 DEF LaneIsOver
<1>2. ~closed => \A g \in DOMAIN grants \ DOMAIN lanes : grants[g].expires <= clock'
  BY LaneTypes DEF GrantInv
<1>3. \A g \in DOMAIN grants \cap DOMAIN lanes : Pairs(g)'
  BY DEF GrantInv, Pairs
<1>. QED  BY <1>1, <1>2, <1>3 DEF GrantInv

-----------------------------------------------------------------------------
(* Steps of a thread that leave the queue and its jobs alone.              *)

\* The connections that may yet send their request do not become more.
ConnsMoveOn ==
    \A c \in Connections : conn'[c] \in {"idle", "hello", "authenticated"}
                               => conn[c] \in {"idle", "hello", "authenticated"}

\* The owner goes on without letting go of its job.
OwnerMovesOn ==
    /\ owner'.job = owner.job
    /\ \/ owner'.pc = owner.pc /\ owner'.outcome = owner.outcome
       \/ owner.pc \notin Holding /\ owner'.pc \notin Holding
       \/ owner.pc = "stop_then_emit" /\ owner'.pc = "emit" /\ owner'.outcome = owner.outcome
    /\ owner'.pc \in {"drain", "done"} => closed'
    /\ owner'.pc = "done" => owner.pc = "done"

LEMMA QuietInv ==
    ASSUME RuntimeInv, ThreadTypes', OwnerMovesOn, ConnsMoveOn, closed => closed',
           UNCHANGED queueVars, UNCHANGED jobVars, UNCHANGED <<clock, reply, ran, grants>>
    PROVE  RuntimeInv'
<1>1. UNCHANGED <<lanes, host, flag, popped>>
  BY DEF queueVars, jobVars
<1>2. SchedulerInv' /\ WaitingJobs' = WaitingJobs
  BY StutterInv DEF RuntimeInv, SchedulerInv
<1>3. OwnerHolds'
  BY <1>1, <1>2 DEF RuntimeInv, OwnerHolds, OwnerMovesOn
<1>4. AnswerInv'
  BY <1>1, <1>2 DEF RuntimeInv, AnswerInv, OwnerMovesOn
<1>5. SlotsAreFresh'
  BY <1>1 DEF RuntimeInv, SlotsAreFresh, ConnsMoveOn
<1>6. ClosedStaysEmpty'
  BY <1>1 DEF RuntimeInv, ClosedStaysEmpty, OwnerMovesOn
<1>7. GrantInv'
  BY <1>1, GrantsPruned DEF RuntimeInv, MayPrune
<1>. QED  BY <1>2, <1>3, <1>4, <1>5, <1>6, <1>7 DEF RuntimeInv

\* A thread other than the owner wakes it.
LEMMA NotifyMovesOn ==
    ASSUME RuntimeInv, Notify, closed => closed'
    PROVE  /\ OwnerMovesOn
           /\ owner' \in OwnerRecords
<1>1. CASE owner.pc = "parked"
  <2>1. owner' = [owner EXCEPT !.pc = "next"]
    BY <1>1 DEF Notify
  <2>2. owner \in OwnerRecords
    BY DEF RuntimeInv, ThreadTypes
  <2>. QED  BY <1>1, <2>1, <2>2 DEF OwnerMovesOn, OwnerRecords
<1>2. CASE owner.pc # "parked"
  <2>1. owner' = owner
    BY <1>2 DEF Notify
  <2>. QED  BY <2>1, <1>2 DEF RuntimeInv, ThreadTypes, ClosedStaysEmpty, OwnerMovesOn
<1>. QED  BY <1>1, <1>2

\* next_job() finds the queue closed or empty.
Finds ==
    /\ owner.pc = "next"
    /\ UNCHANGED <<closed, grants, reply, conn, cred, hostCall, listener, ran>>
    /\ \E pc \in {"stop", "parking"} : owner' = [owner EXCEPT !.pc = pc]
    /\ UNCHANGED queueVars /\ UNCHANGED jobVars

\* next_job() takes a job.
Takes(j) ==
    /\ owner.pc = "next" /\ ~closed
    /\ UNCHANGED <<closed, grants, reply, conn, cred, hostCall, listener, ran>>
    /\ Pop(j)
    /\ owner' = [owner EXCEPT !.job = j,
                     !.pc = IF flag[j] = "cancelled" THEN "reject" ELSE "decide"]

LEMMA NextJobCases ==
    ASSUME NextJob
    PROVE  Finds \/ \E j \in Jobs : Takes(j)
BY Zenon DEF NextJob, Finds, Takes

\* The owner's steps that only move its program counter.
LEMMA OwnerMovesInv ==
    ASSUME RuntimeInv, UNCHANGED clock,
           \/ Park \/ OwnerStops \/ SpuriousWakeup
           \/ Finds
    PROVE  RuntimeInv'
<1>1. UNCHANGED queueVars /\ UNCHANGED jobVars
      /\ UNCHANGED <<clock, reply, ran, grants, conn, cred, hostCall>> /\ (closed => closed')
  <2>1. CASE Park  BY <2>1 DEF Park
  <2>2. CASE OwnerStops  BY <2>2 DEF OwnerStops
  <2>3. CASE SpuriousWakeup  BY <2>3 DEF SpuriousWakeup
  <2>4. CASE Finds
    BY <2>4 DEF Finds
  <2>. QED  BY <2>1, <2>2, <2>3, <2>4
<1>2. owner \in OwnerRecords /\ (owner.pc \notin Holding => owner.job = NoJob)
  BY DEF RuntimeInv, ThreadTypes, OwnerHolds
<1>3. OwnerMovesOn /\ owner' \in OwnerRecords
  <2>1. CASE Park
    <3>1. owner.pc = "parking" /\ owner' = [owner EXCEPT !.pc = "parked"]
      BY <2>1 DEF Park
    <3>. QED  BY <1>2, <3>1 DEF OwnerRecords, OwnerMovesOn
  <2>2. CASE OwnerStops
    <3>1. \/ owner.pc = "stop" /\ closed' /\ owner' = [owner EXCEPT !.pc = "drain"]
          \/ owner.pc = "stop_then_emit" /\ owner' = [owner EXCEPT !.pc = "emit"]
      BY <1>2, <2>2 DEF OwnerStops, OwnerRecords
    <3>. QED  BY <1>2, <3>1 DEF OwnerRecords, OwnerMovesOn
  <2>3. CASE SpuriousWakeup
    <3>1. owner.pc = "parked" /\ owner' = Idle
      BY <2>3 DEF SpuriousWakeup
    <3>. QED  BY <1>2, <3>1 DEF OwnerRecords, OwnerMovesOn, Idle
  <2>4. CASE Finds
    <3>1. owner.pc = "next" /\ \E pc \in {"stop", "parking"} : owner' = [owner EXCEPT !.pc = pc]
      BY <2>4 DEF Finds
    <3>. QED  BY <1>2, <3>1 DEF OwnerRecords, OwnerMovesOn
  <2>. QED  BY <2>1, <2>2, <2>3, <2>4
<1>4. ThreadTypes' /\ ConnsMoveOn
  BY <1>1, <1>3 DEF RuntimeInv, ThreadTypes, ConnsMoveOn
<1>. QED  BY <1>1, <1>3, <1>4, QuietInv

\* A connection greets, proves itself, wakes the owner, or leaves before it
\* has sent its request.
LEMMA ConnectionMovesInv ==
    ASSUME RuntimeInv, UNCHANGED <<clock, grants, ran>>, NEW c \in Connections,
           \/ \E g \in Grants : Hello(c, g)
           \/ Authenticate(c) \/ NotifyAdmitted(c)
           \/ Leave(c) /\ conn[c] # "waiting"
    PROVE  RuntimeInv'
<1>1. UNCHANGED queueVars /\ UNCHANGED jobVars /\ UNCHANGED <<clock, reply, ran, grants, closed, hostCall>>
  BY DEF Hello, Authenticate, NotifyAdmitted, Leave
<1>2. owner' = owner \/ Notify
  BY DEF Hello, Authenticate, NotifyAdmitted, Leave
<1>3. OwnerMovesOn
      /\ owner' \in OwnerRecords
  <2>1. CASE owner' = owner
    BY <1>1, <2>1 DEF RuntimeInv, ThreadTypes, ClosedStaysEmpty, OwnerMovesOn
  <2>. QED  BY <1>1, <1>2, <2>1, NotifyMovesOn
<1>4. /\ conn' \in [Connections -> ConnStates] /\ ConnsMoveOn
      /\ cred' \in [Connections -> Grants \cup {NoGrant}]
  BY DEF RuntimeInv, ThreadTypes, ConnsMoveOn, ConnAt, Hello, Authenticate, NotifyAdmitted, Leave
<1>5. ThreadTypes'
  BY <1>1, <1>3, <1>4 DEF RuntimeInv, ThreadTypes
<1>. QED  BY <1>1, <1>3, <1>4, <1>5, QuietInv

\* The host's thread and the listener, when they touch no job.
LEMMA HostMovesInv ==
    ASSUME RuntimeInv, UNCHANGED <<clock, grants>>,
           \/ HostNotify \/ HostEof \/ HostStops \/ HostJoins \/ ListenerFails \/ ListenerEnds
           \/ \E command \in HostCommands : HostCall(command) /\ ~Open
    PROVE  RuntimeInv'
<1>1. UNCHANGED queueVars /\ UNCHANGED jobVars /\ UNCHANGED <<clock, reply, ran, grants, conn, cred>>
  BY DEF HostNotify, HostEof, HostStops, HostJoins, ListenerFails, ListenerEnds, HostCall
<1>2. owner' = owner \/ Notify
  BY DEF HostNotify, HostEof, HostStops, HostJoins, ListenerFails, ListenerEnds, HostCall, Stop
<1>3. closed => closed'
  BY DEF HostNotify, HostEof, HostStops, HostJoins, ListenerFails, ListenerEnds, HostCall, Stop
<1>4. OwnerMovesOn
      /\ owner' \in OwnerRecords
  <2>1. CASE owner' = owner
    BY <1>3, <2>1 DEF RuntimeInv, ThreadTypes, ClosedStaysEmpty, OwnerMovesOn
  <2>2. CASE Notify
    BY <1>3, <2>2, NotifyMovesOn DEF OwnerMovesOn
  <2>. QED  BY <1>2, <2>1, <2>2
<1>5. /\ hostCall' \in [pc : HostStates, job : HostJobs \cup {NoJob}, command : Commands]
      /\ hostCall'.pc \in {"admitted", "waiting"} => hostCall'.job \in HostJobs
  BY DEF RuntimeInv, ThreadTypes, HostNotify, HostEof, HostStops, HostJoins, ListenerFails,
         ListenerEnds, HostCall
<1>6. ThreadTypes' /\ ConnsMoveOn
  BY <1>1, <1>4, <1>5 DEF RuntimeInv, ThreadTypes, ConnsMoveOn
<1>. QED  BY <1>1, <1>3, <1>4, <1>6, QuietInv

-----------------------------------------------------------------------------
(* Jobs go from the queue into the owner's hands and get their answers.    *)

\* What is answered, and with what.
LEMMA EmitGives ==
    ASSUME RuntimeInv, NEW jobs \in SUBSET Jobs, NEW what \in Replies, Emit(jobs, what)
    PROVE  /\ reply' \in [Jobs -> Replies]
           /\ \A j \in jobs : reply'[j] \in {"dropped", what}
           /\ \A j \in Jobs \ jobs : reply'[j] = reply[j]
BY DEF RuntimeInv, ThreadTypes, Emit

\* next_job() takes a job out of the queue.
LEMMA TakesInv ==
    ASSUME RuntimeInv, NEW j \in Jobs, Takes(j), UNCHANGED clock
    PROVE  RuntimeInv'
<1>1. Pop(j) /\ owner.pc = "next" /\ ~closed
      /\ UNCHANGED <<closed, grants, reply, conn, cred, hostCall, ran>>
  BY DEF Takes
<1>2. SchedulerInv' /\ j \in WaitingJobs /\ WaitingJobs' = WaitingJobs \ {j}
  BY <1>1, PopInv DEF RuntimeInv
<1>3. flag[j] \in Undecided
  BY <1>2 DEF RuntimeInv, SchedulerInv, OpenInv
<1>4. owner \in OwnerRecords /\ owner.job = NoJob /\ popped = {} /\ j # NoJob
  BY <1>1, RuntimeAssumption DEF RuntimeInv, ThreadTypes, OwnerHolds
<1>5. /\ owner' \in OwnerRecords /\ owner'.job = j
      /\ \/ owner'.pc = "reject" /\ flag[j] = "cancelled"
         \/ owner'.pc = "decide" /\ flag[j] # "cancelled"
  BY <1>4 DEF OwnerRecords, Takes
<1>6. ThreadTypes'
  BY <1>1, <1>5 DEF RuntimeInv, ThreadTypes
<1>7. /\ owner'.pc = "reject" => popped' = {}
      /\ owner'.pc = "decide" => popped' # {} /\ \A p \in popped' : p.job = j
      /\ UNCHANGED flag
  <2>. DEFINE q == [job |-> j, expired |-> expires[j] <= clock]
  <2>1. UNCHANGED flag /\ (flag[j] = "cancelled" => popped' = popped)
        /\ (flag[j] # "cancelled" => popped' = {q})
    BY <1>1 DEF Pop
  <2>2. q.job = j
    OBVIOUS
  <2>. HIDE DEF q
  <2>. QED  BY <1>4, <1>5, <2>1, <2>2
<1>8. OwnerHolds'
  BY <1>2, <1>4, <1>5, <1>7 DEF OwnerHolds
<1>9. AnswerInv'
  <2>1. AnswerInv /\ \A i \in Jobs : i # owner.job
    BY <1>4, RuntimeAssumption DEF RuntimeInv
  <2>. SUFFICES ASSUME NEW i \in Jobs
                PROVE  /\ i \in WaitingJobs' \/ i = owner'.job => reply'[i] = "none" /\ flag'[i] # "none"
                       /\ flag'[i] # "none" /\ i \notin WaitingJobs' /\ i # owner'.job => reply'[i] # "none"
                       /\ i \in ran' => flag'[i] \in {"dispatched", "finished"}
                       /\ reply'[i] = "not_dispatched" => flag'[i] \in {"none", "cancelled"}
    BY DEF AnswerInv
  <2>. QED  BY <1>1, <1>2, <1>5, <1>7, <2>1 DEF AnswerInv
<1>10. SlotsAreFresh'
  BY <1>1, <1>7 DEF RuntimeInv, SlotsAreFresh
<1>11. ClosedStaysEmpty'
  BY <1>5 DEF ClosedStaysEmpty
<1>12. GrantInv'
  <2>1. DOMAIN lanes' = DOMAIN lanes
        /\ \A g \in DOMAIN lanes : lanes'[g].expires = lanes[g].expires /\ lanes'[g].agent = lanes[g].agent
    BY <1>1, DequeueInv DEF RuntimeInv, Pop
  <2>. QED  BY <1>1, <2>1, GrantsPruned DEF RuntimeInv, MayPrune
<1>. QED  BY <1>2, <1>6, <1>8, <1>9, <1>10, <1>11, <1>12 DEF RuntimeInv

\* The rest of dispatch(): the job in the owner's hands is won or cancelled.
LEMMA DecideInv ==
    ASSUME RuntimeInv, Decide, UNCHANGED clock
    PROVE  RuntimeInv'
<1>1. Dispatch /\ owner.pc = "decide"
      /\ UNCHANGED <<closed, grants, reply, conn, cred, hostCall, ran>>
      /\ owner' = [owner EXCEPT !.pc = IF status'[owner.job] = "Ready" THEN "run" ELSE "reject"]
  BY DEF Decide
<1>2. SchedulerInv' /\ WaitingJobs' = WaitingJobs
  BY <1>1, DispatchInv DEF RuntimeInv
<1>3. PICK p \in popped : Decided(p) /\ popped' = {} /\ UNCHANGED queueVars
  BY <1>1 DEF Dispatch
<1>4. /\ p.job \in Jobs /\ flag[p.job] \in Undecided /\ p.expired \in BOOLEAN
      /\ flag \in [Jobs -> Flags] /\ status \in [Jobs -> Statuses]
  BY <1>3 DEF RuntimeInv, SchedulerInv, OpenInv, CancelInv, JobTypes
<1>5. owner.job = p.job /\ owner.job # NoJob /\ owner \in OwnerRecords
  BY <1>1, <1>3 DEF RuntimeInv, ThreadTypes, OwnerHolds
<1>6. /\ \A i \in Jobs : i # p.job => flag'[i] = flag[i]
      /\ \/ status'[p.job] = "Ready" /\ flag'[p.job] = "dispatched"
         \/ status'[p.job] # "Ready" /\ flag'[p.job] = "cancelled"
  BY <1>3, <1>4 DEF Decided, Undecided
<1>7. /\ owner' \in OwnerRecords /\ owner'.job = p.job
      /\ \/ owner'.pc = "run" /\ flag'[p.job] = "dispatched"
         \/ owner'.pc = "reject" /\ flag'[p.job] = "cancelled"
  BY <1>1, <1>5, <1>6 DEF OwnerRecords
<1>8. ThreadTypes'
  BY <1>1, <1>7 DEF RuntimeInv, ThreadTypes
<1>9. OwnerHolds'
  BY <1>2, <1>3, <1>5, <1>7 DEF RuntimeInv, OwnerHolds
<1>10. p.job \notin ran /\ reply[p.job] = "none"
  BY <1>4, <1>5 DEF RuntimeInv, AnswerInv, Undecided
<1>11. AnswerInv'
  BY <1>1, <1>2, <1>5, <1>6, <1>7, <1>10 DEF RuntimeInv, AnswerInv
<1>12. SlotsAreFresh'
  BY <1>1, <1>4, <1>6, <1>10, SchedulerAssumption DEF RuntimeInv, SlotsAreFresh, Undecided, Connections, AgentJobs
<1>13. ClosedStaysEmpty'
  BY <1>7 DEF ClosedStaysEmpty
<1>14. GrantInv'
  BY <1>1, <1>3, GrantsPruned DEF RuntimeInv, MayPrune, queueVars
<1>. QED  BY <1>2, <1>8, <1>9, <1>11, <1>12, <1>13, <1>14 DEF RuntimeInv

\* A job that cannot start is answered.
LEMMA RejectInv ==
    ASSUME RuntimeInv, Reject, UNCHANGED clock
    PROVE  RuntimeInv'
<1>1. owner.pc = "reject" /\ Emit({owner.job}, "not_dispatched") /\ owner' = Idle
      /\ UNCHANGED <<closed, grants, conn, cred, hostCall, ran>>
      /\ UNCHANGED queueVars /\ UNCHANGED jobVars
  BY DEF Reject
<1>2. SchedulerInv' /\ WaitingJobs' = WaitingJobs /\ UNCHANGED <<flag, popped, lanes>>
  BY <1>1, StutterInv DEF RuntimeInv, SchedulerInv, queueVars, jobVars
<1>3. owner.job \in Jobs /\ flag[owner.job] = "cancelled" /\ popped = {}
  BY <1>1 DEF RuntimeInv, ThreadTypes, OwnerHolds, OwnerRecords
<1>4. /\ reply' \in [Jobs -> Replies] /\ reply'[owner.job] \in {"dropped", "not_dispatched"}
      /\ \A j \in Jobs : j # owner.job => reply'[j] = reply[j]
  BY <1>1, <1>3, EmitGives
<1>5. owner' \in OwnerRecords /\ owner'.job = NoJob /\ owner'.pc = "next"
  BY <1>1 DEF OwnerRecords, Idle
<1>6. ThreadTypes'
  BY <1>1, <1>4, <1>5 DEF RuntimeInv, ThreadTypes
<1>7. OwnerHolds'
  <2>1. NoJob \notin WaitingJobs
    BY WaitingAreJobs, RuntimeAssumption DEF RuntimeInv, SchedulerInv
  <2>. QED  BY <1>2, <1>3, <1>5, <2>1 DEF OwnerHolds
<1>8. AnswerInv'
  BY <1>1, <1>2, <1>3, <1>4, <1>5, RuntimeAssumption DEF RuntimeInv, AnswerInv, OwnerHolds
<1>9. SlotsAreFresh'
  BY <1>1, <1>2, <1>3, <1>4, SchedulerAssumption DEF RuntimeInv, SlotsAreFresh, Connections, AgentJobs
<1>10. ClosedStaysEmpty'
  BY <1>5 DEF ClosedStaysEmpty
<1>11. GrantInv'
  BY <1>1, <1>2, GrantsPruned DEF RuntimeInv, MayPrune
<1>. QED  BY <1>2, <1>6, <1>7, <1>8, <1>9, <1>10, <1>11 DEF RuntimeInv

-----------------------------------------------------------------------------
(* The handler of the job in the owner's hands is called.                  *)

\* It has an outcome, and the jobs of the lanes it removed are answered.
LEMMA HandlerRuns ==
    ASSUME RuntimeInv, SchedulerInv', GrantInv', NEW j \in Jobs, Running(j),
           owner' \in OwnerRecords, owner'.job = j,
           owner'.pc \in {"emit", "stop_then_emit"}, owner'.outcome # "none",
           NEW jobs \in SUBSET WaitingJobs, WaitingJobs' = WaitingJobs \ jobs, UNCHANGED popped,
           \A i \in Jobs \ jobs : flag'[i] = flag[i] /\ reply'[i] = reply[i],
           \A i \in jobs : flag'[i] = "cancelled" /\ reply'[i] \in {"dropped", "not_dispatched"},
           reply' \in [Jobs -> Replies]
    PROVE  RuntimeInv'
<1>1. owner.pc = "run" /\ owner.job = j /\ ran' = ran \cup {j}
      /\ UNCHANGED <<conn, cred, hostCall, closed>>
  BY DEF Running
<1>2. flag[j] = "dispatched" /\ j \notin WaitingJobs /\ popped = {} /\ WaitingJobs \subseteq Jobs
  BY <1>1, WaitingAreJobs DEF RuntimeInv, OwnerHolds, SchedulerInv
<1>3. ThreadTypes'
  BY <1>1 DEF RuntimeInv, ThreadTypes
<1>4. OwnerHolds'
  BY <1>1, <1>2, RuntimeAssumption DEF OwnerHolds
<1>5. \A i \in WaitingJobs : i \notin ran /\ reply[i] = "none" /\ flag[i] # "none"
  BY <1>2 DEF RuntimeInv, AnswerInv, SchedulerInv, OpenInv, Undecided
<1>6. AnswerInv'
  <2>1. ASSUME NEW i \in jobs
        PROVE  /\ i \notin WaitingJobs' /\ i # owner'.job /\ i \notin ran'
               /\ flag'[i] = "cancelled" /\ reply'[i] \in {"dropped", "not_dispatched"}
    BY <1>1, <1>2, <1>5, <2>1
  <2>2. ASSUME NEW i \in Jobs \ jobs
        PROVE  /\ i \in WaitingJobs' <=> i \in WaitingJobs
               /\ i = owner'.job <=> i = owner.job
               /\ i \in ran' => i \in ran \/ flag[i] = "dispatched"
               /\ flag'[i] = flag[i] /\ reply'[i] = reply[i]
    BY <1>1, <1>2
  <2>. QED  BY <2>1, <2>2 DEF RuntimeInv, AnswerInv
<1>7. SlotsAreFresh'
  BY <1>1, <1>5, SchedulerAssumption DEF RuntimeInv, SlotsAreFresh, Connections, AgentJobs
<1>8. ClosedStaysEmpty'
  BY <1>1 DEF ClosedStaysEmpty
<1>. QED  BY <1>3, <1>4, <1>6, <1>7, <1>8 DEF RuntimeInv

\* The owner's record after the handler.
LEMMA OutcomeSet ==
    ASSUME RuntimeInv, NEW j \in Jobs, Running(j), NEW what \in {"ok", "failed"}, Outcome(what)
    PROVE  /\ owner' \in OwnerRecords /\ owner'.job = j
           /\ owner'.pc \in {"emit", "stop_then_emit"} /\ owner'.outcome # "none"
<1>1. owner \in OwnerRecords /\ owner.job = j
  BY DEF RuntimeInv, ThreadTypes, Running
<1>. QED  BY <1>1 DEF OwnerRecords, Outcome

\* The handler changes no lane: a request of an agent, a command that reads or
\* is persisted, or a grant refused at once.
LEMMA HandlerQuiet ==
    ASSUME RuntimeInv, NEW j \in Jobs, Running(j), MayPrune, UNCHANGED clock,
           owner' \in OwnerRecords, owner'.job = j,
           owner'.pc \in {"emit", "stop_then_emit"}, owner'.outcome # "none",
           UNCHANGED reply, UNCHANGED queueVars, UNCHANGED jobVars
    PROVE  RuntimeInv'
<1>. DEFINE jobs == {}
<1>1. SchedulerInv' /\ WaitingJobs' = WaitingJobs /\ UNCHANGED <<flag, popped, lanes>>
  BY StutterInv DEF RuntimeInv, SchedulerInv, queueVars, jobVars
<1>2. GrantInv'
  BY <1>1, GrantsPruned DEF RuntimeInv, Running
<1>3. jobs \in SUBSET WaitingJobs /\ WaitingJobs' = WaitingJobs \ jobs /\ reply' \in [Jobs -> Replies]
  BY <1>1 DEF RuntimeInv, ThreadTypes
<1>4. \A i \in Jobs \ jobs : flag'[i] = flag[i] /\ reply'[i] = reply[i]
  BY <1>1
<1>5. \A i \in jobs : flag'[i] = "cancelled" /\ reply'[i] \in {"dropped", "not_dispatched"}
  OBVIOUS
<1>. HIDE DEF jobs
<1>. QED  BY <1>1, <1>2, <1>3, <1>4, <1>5, HandlerRuns

\* The handler removes lanes, and their jobs are answered.
LEMMA HandlerRemoves ==
    ASSUME RuntimeInv, SchedulerInv', GrantInv', NEW j \in Jobs, Running(j),
           owner' \in OwnerRecords, owner'.job = j,
           owner'.pc \in {"emit", "stop_then_emit"}, owner'.outcome # "none",
           NEW jobs, jobs \subseteq WaitingJobs, WaitingJobs' = WaitingJobs \ jobs,
           CancelWaiting(jobs), Emit(jobs, "not_dispatched")
    PROVE  RuntimeInv'
<1>1. jobs \in SUBSET Jobs /\ "not_dispatched" \in Replies
  BY WaitingAreJobs DEF RuntimeInv, SchedulerInv
<1>2. /\ reply' \in [Jobs -> Replies]
      /\ \A i \in jobs : reply'[i] \in {"dropped", "not_dispatched"}
      /\ \A i \in Jobs \ jobs : reply'[i] = reply[i]
  BY <1>1, EmitGives
<1>3. /\ UNCHANGED popped
      /\ \A i \in jobs : flag'[i] = "cancelled"
      /\ \A i \in Jobs \ jobs : flag'[i] = flag[i]
  BY <1>1 DEF CancelWaiting, RuntimeInv, SchedulerInv, OpenInv, Undecided
<1>. QED  BY <1>1, <1>2, <1>3, HandlerRuns

\* Lanes whose lease is over have grants that are over.
LEMMA ExpiredLaneGrant ==
    ASSUME SchedulerInv, GrantInv, NEW g \in DOMAIN lanes \cap DOMAIN grants,
           lanes[g].expires <= clock
    PROVE  grants[g].expires <= clock
<1>1. PICK later \in ClockReads : lanes[g].expires = grants[g].expires + later
  BY DEF GrantInv, Pairs
<1>2. later \in Nat /\ grants[g].expires \in Nat /\ clock \in Nat
  BY <1>1, LaneTypes, RuntimeAssumption DEF GrantInv
<1>. QED  BY <1>1, <1>2

\* The grants that stay when expired ones are pruned and one agent's are gone.
Others(agent) == {g \in DOMAIN grants : grants[g].expires > clock /\ grants[g].agent # agent}

\* Both registries lose the expired and one agent's entries.
LEMMA OthersMatch ==
    ASSUME SchedulerInv, GrantInv, NEW agent, NEW kept,
           kept = DOMAIN lanes \ (ExpiredLanes \cup LaneOf(agent))
    PROVE  /\ kept \in SUBSET DOMAIN lanes /\ Others(agent) \in SUBSET DOMAIN grants
           /\ \A g \in Others(agent) \ kept : g \in DOMAIN lanes => grants[g].expires <= clock
           /\ \A g \in kept \ Others(agent) : g \in DOMAIN grants => grants[g].expires <= clock
<1>1. ASSUME NEW g \in Others(agent) \ kept, g \in DOMAIN lanes
      PROVE  grants[g].expires <= clock
  <2>1. g \in DOMAIN grants /\ lanes[g].agent = grants[g].agent /\ grants[g].agent # agent
    BY <1>1 DEF Others, GrantInv, Pairs
  <2>2. g \in ExpiredLanes
    BY <1>1, <2>1 DEF LaneOf
  <2>. QED  BY <1>1, <2>1, <2>2, ExpiredLaneGrant DEF ExpiredLanes
<1>2. ASSUME NEW g \in kept \ Others(agent), g \in DOMAIN grants
      PROVE  grants[g].expires <= clock
  <2>1. lanes[g].agent = grants[g].agent /\ lanes[g].agent # agent
    BY <1>2 DEF GrantInv, Pairs, LaneOf
  <2>2. grants[g].expires \in Nat /\ clock \in Nat
    BY <1>2, LaneTypes DEF GrantInv
  <2>. QED  BY <1>2, <2>1, <2>2 DEF Others
<1>. QED  BY <1>1, <1>2 DEF Others

\* What is left of the broker's grants before the new one is inserted.
LEMMA OthersAreLeft ==
    ASSUME GrantInv, NEW agent, NEW g, NEW until
    PROVE  WithoutGrant(agent, g, LiveGrants, until) = [h \in Others(agent) |-> grants[h]]
<1>1. DOMAIN LiveGrants = {h \in DOMAIN grants : grants[h].expires > clock}
      /\ \A h \in DOMAIN LiveGrants : LiveGrants[h] = grants[h]
  BY DEF LiveGrants, Restrict
<1>2. DOMAIN LiveGrants \ GrantsOf(agent, LiveGrants) = Others(agent)
  BY <1>1 DEF GrantsOf, Others
<1>. QED  BY <1>1, <1>2 DEF WithoutGrant, Restrict, Others

\* Lanes are removed, and no grant is added.
LEMMA GrantsRemoved ==
    ASSUME SchedulerInv, GrantInv, NEW keys, NEW kept \in SUBSET DOMAIN lanes, RemoveLanes(keys),
           kept = DOMAIN lanes \ keys,
           NEW left \in SUBSET DOMAIN grants, grants' = [g \in left |-> grants[g]],
           \A g \in left \ kept : g \in DOMAIN lanes => grants[g].expires <= clock,
           \A g \in kept \ left : g \in DOMAIN grants => grants[g].expires <= clock,
           UNCHANGED <<closed, clock>>
    PROVE  GrantInv'
<1>. DEFINE new == {}
<1>1. DOMAIN lanes' = kept \cup new /\ \A g \in kept : lanes'[g] = lanes[g]
  BY DEF RemoveLanes, Restrict
<1>2. grants' \in [left \cup new -> [agent : Agents, expires : Nat]]
      /\ \A g \in left : grants'[g] = grants[g]
  BY DEF GrantInv
<1>3. new \in SUBSET Grants /\ new \cap (kept \cup left) = {} /\ \A g \in new : Pairs(g)'
  OBVIOUS
<1>. HIDE DEF new
<1>. QED  BY <1>1, <1>2, <1>3, GrantsChange

\* The jobs of registered lanes wait.
LEMMA LaneJobsWait ==
    ASSUME SchedulerInv, NEW keys, keys \subseteq DOMAIN lanes
    PROVE  JobsIn(keys) \subseteq WaitingJobs
BY HeldJobs DEF SchedulerInv, QueueInv, WaitingJobs

\* The handler removes lanes and the grants that belong to them.
LEMMA HandlerRevokes ==
    ASSUME RuntimeInv, NEW j \in Jobs, Running(j), UNCHANGED clock,
           NEW what \in {"ok", "failed"}, Outcome(what),
           NEW keys, keys \subseteq DOMAIN lanes, RemoveLanes(keys),
           Emit(JobsIn(keys), "not_dispatched"),
           NEW left \in SUBSET DOMAIN grants, grants' = [g \in left |-> grants[g]],
           \A g \in left \ (DOMAIN lanes \ keys) : g \in DOMAIN lanes => grants[g].expires <= clock,
           \A g \in (DOMAIN lanes \ keys) \ left : g \in DOMAIN grants => grants[g].expires <= clock
    PROVE  RuntimeInv'
<1>. DEFINE kept == DOMAIN lanes \ keys
            jobs == JobsIn(keys)
<1>1. keys \in SUBSET DOMAIN lanes
  OBVIOUS
<1>2. SchedulerInv' /\ WaitingJobs' = WaitingJobs \ JobsIn(keys)
  BY <1>1, RemoveLanesInv DEF RuntimeInv
<1>3. GrantInv'
  <2>1. kept \in SUBSET DOMAIN lanes
    OBVIOUS
  <2>2. kept = DOMAIN lanes \ keys /\ UNCHANGED <<closed, clock>>
    BY DEF Running
  <2>3. \A g \in left \ kept : g \in DOMAIN lanes => grants[g].expires <= clock
    OBVIOUS
  <2>4. \A g \in kept \ left : g \in DOMAIN grants => grants[g].expires <= clock
    OBVIOUS
  <2>. HIDE DEF kept
  <2>. QED  BY <2>1, <2>2, <2>3, <2>4, GrantsRemoved DEF RuntimeInv
<1>4. jobs \subseteq WaitingJobs /\ CancelWaiting(jobs) /\ WaitingJobs' = WaitingJobs \ jobs
      /\ Emit(jobs, "not_dispatched")
  BY <1>2, LaneJobsWait DEF RemoveLanes, RuntimeInv
<1>. HIDE DEF jobs
<1>. QED  BY <1>2, <1>3, <1>4, OutcomeSet, HandlerRemoves

\* HostCommand::Grant, when the broker refuses the grant
LEMMA GrantRefusedInv ==
    ASSUME RuntimeInv, NEW j \in Jobs, Running(j), UNCHANGED clock,
           NEW what \in {"ok", "failed"}, Outcome(what),
           HostPrune, Emit(JobsIn(ExpiredLanes), "not_dispatched"), grants' = LiveGrants
    PROVE  RuntimeInv'
<1>. DEFINE keys == ExpiredLanes
            left == {g \in DOMAIN grants : grants[g].expires > clock}
<1>1. keys \subseteq DOMAIN lanes /\ RemoveLanes(keys) /\ Emit(JobsIn(keys), "not_dispatched")
  BY DEF ExpiredLanes, HostPrune
<1>2. left \in SUBSET DOMAIN grants /\ grants' = [g \in left |-> grants[g]]
  BY DEF LiveGrants, Restrict
<1>3. ASSUME NEW g \in left \ (DOMAIN lanes \ keys), g \in DOMAIN lanes
      PROVE  grants[g].expires <= clock
  BY <1>3, ExpiredLaneGrant DEF ExpiredLanes, RuntimeInv
<1>4. ASSUME NEW g \in (DOMAIN lanes \ keys) \ left, g \in DOMAIN grants
      PROVE  grants[g].expires <= clock
  <2>1. grants[g].expires \in Nat /\ clock \in Nat
    BY <1>4, LaneTypes DEF RuntimeInv, GrantInv
  <2>. QED  BY <1>4, <2>1
<1>. HIDE DEF keys, left
<1>. QED  BY <1>1, <1>2, <1>3, <1>4, HandlerRevokes

\* HostCommand::Grant, when the queue refuses the lane
LEMMA LaneRefusedInv ==
    ASSUME RuntimeInv, NEW j \in Jobs, Running(j), UNCHANGED clock, NEW agent, NEW g, NEW until,
           NEW what \in {"ok", "failed"}, Outcome(what),
           RemoveLanes(ExpiredLanes \cup LaneOf(agent)),
           Emit(JobsIn(ExpiredLanes \cup LaneOf(agent)), "not_dispatched"),
           grants' = WithoutGrant(agent, g, LiveGrants, until)
    PROVE  RuntimeInv'
<1>. DEFINE keys == ExpiredLanes \cup LaneOf(agent)
            left == Others(agent)
            kept == DOMAIN lanes \ keys
<1>1. keys \subseteq DOMAIN lanes /\ RemoveLanes(keys) /\ Emit(JobsIn(keys), "not_dispatched")
  BY DEF ExpiredLanes, LaneOf
<1>2. grants' = [h \in left |-> grants[h]]
  BY OthersAreLeft DEF RuntimeInv
<1>3. kept = DOMAIN lanes \ (ExpiredLanes \cup LaneOf(agent))
  OBVIOUS
<1>4. /\ left \in SUBSET DOMAIN grants
      /\ \A h \in left \ kept : h \in DOMAIN lanes => grants[h].expires <= clock
      /\ \A h \in kept \ left : h \in DOMAIN grants => grants[h].expires <= clock
  <2>. HIDE DEF kept, keys
  <2>. QED  BY <1>3, OthersMatch DEF RuntimeInv
<1>. HIDE DEF keys, left
<1>. QED  BY <1>1, <1>2, <1>4, HandlerRevokes

\* HostCommand::Revoke
LEMMA RunRevokeInv ==
    ASSUME RuntimeInv, NEW j \in Jobs, NEW agent, RunRevoke(j, agent), UNCHANGED clock
    PROVE  RuntimeInv'
<1>. DEFINE keys == LaneOf(agent)
            left == DOMAIN grants \ GrantsOf(agent, grants)
<1>1. keys \subseteq DOMAIN lanes /\ RemoveLanes(keys) /\ Emit(JobsIn(keys), "not_dispatched")
  BY DEF LaneOf, RunRevoke, HostRevoke
<1>2. left \in SUBSET DOMAIN grants /\ grants' = [g \in left |-> grants[g]]
  BY DEF RunRevoke, Restrict
<1>3. ASSUME NEW g \in DOMAIN grants \cap DOMAIN lanes PROVE lanes[g].agent = grants[g].agent
  BY DEF RuntimeInv, GrantInv, Pairs
<1>4. left \cap (DOMAIN lanes \cap keys) = {} /\ ((DOMAIN lanes \ keys) \ left) \cap DOMAIN grants = {}
  BY <1>3 DEF LaneOf, GrantsOf
<1>5. Running(j) /\ Outcome("ok")
  BY DEF RunRevoke
<1>. HIDE DEF keys, left
<1>. QED  BY <1>1, <1>2, <1>4, <1>5, HandlerRevokes

\* HostCommand::Grant, when both registries take the grant
LEMMA GrantedInv ==
    ASSUME RuntimeInv, NEW j \in Jobs, Running(j), UNCHANGED clock, NEW agent \in Agents,
           NEW g \in Grants, NEW until \in Nat, NEW later \in ClockReads,
           g \notin DOMAIN grants, Outcome("ok"),
           Register(ExpiredLanes, g, agent, until + later),
           Emit(JobsIn(ExpiredLanes \cup LaneOf(agent)), "not_dispatched"),
           grants' = Inserted(WithoutGrant(agent, g, LiveGrants, until), g,
                              [agent |-> agent, expires |-> until])
    PROVE  RuntimeInv'
<1>. DEFINE keys == ExpiredLanes \cup LaneOf(agent)
            kept == DOMAIN lanes \ keys
            left == Others(agent)
            new == {g}
            jobs == JobsIn(keys)
            grant == [agent |-> agent, expires |-> until]
            lane == NewLane(agent, until + later)
<1>1. ExpiredLanes \in SUBSET DOMAIN lanes /\ keys \subseteq DOMAIN lanes /\ until + later \in Nat
  BY RuntimeAssumption DEF ExpiredLanes, LaneOf
<1>2. /\ SchedulerInv' /\ WaitingJobs' = WaitingJobs \ jobs
      /\ DOMAIN lanes' = kept \cup new /\ lanes'[g] = lane
      /\ \A h \in kept : h # g /\ lanes'[h] = lanes[h]
  <2>. DEFINE ends == until + later
  <2>1. ends \in Nat /\ Register(ExpiredLanes, g, agent, ends) /\ SchedulerInv
    BY <1>1 DEF RuntimeInv
  <2>. HIDE DEF ends
  <2>2. /\ SchedulerInv'
        /\ WaitingJobs' = WaitingJobs \ JobsIn(ExpiredLanes \cup LaneOf(agent))
        /\ DOMAIN lanes' = (DOMAIN lanes \ (ExpiredLanes \cup LaneOf(agent))) \cup {g}
        /\ lanes'[g] = NewLane(agent, ends)
        /\ \A h \in DOMAIN lanes \ (ExpiredLanes \cup LaneOf(agent)) : h # g /\ lanes'[h] = lanes[h]
    BY <1>1, <2>1, RegisterInv
  <2>. QED  BY <2>2 DEF ends
<1>3. /\ kept \in SUBSET DOMAIN lanes /\ left \in SUBSET DOMAIN grants
      /\ \A h \in left \ kept : h \in DOMAIN lanes => grants[h].expires <= clock
      /\ \A h \in kept \ left : h \in DOMAIN grants => grants[h].expires <= clock
  <2>1. kept = DOMAIN lanes \ (ExpiredLanes \cup LaneOf(agent))
    OBVIOUS
  <2>. HIDE DEF kept, keys
  <2>. QED  BY <2>1, OthersMatch DEF RuntimeInv
<1>4. grants' = [h \in left \cup {g} |-> IF h = g THEN grant ELSE grants[h]]
  <2>1. WithoutGrant(agent, g, LiveGrants, until) = [h \in left |-> grants[h]]
    BY OthersAreLeft DEF RuntimeInv
  <2>2. grants' = Inserted([h \in left |-> grants[h]], g, grant)
    BY <2>1
  <2>. HIDE DEF left, grant
  <2>. QED  BY <2>2 DEF Inserted
<1>5. grant \in [agent : Agents, expires : Nat] /\ grant.agent = agent /\ grant.expires = until
  OBVIOUS
<1>6. lane.agent = agent /\ lane.expires = until + later
  BY DEF NewLane
<1>7. CancelWaiting(jobs) /\ jobs \subseteq WaitingJobs /\ Emit(jobs, "not_dispatched")
  BY <1>1, LaneJobsWait DEF Register, Replaced, RuntimeInv
<1>. HIDE DEF keys, kept, left, jobs, grant, lane
<1>8. grants' \in [left \cup new -> [agent : Agents, expires : Nat]]
      /\ (\A h \in left : grants'[h] = grants[h]) /\ grants'[g] = grant
  BY <1>3, <1>4, <1>5 DEF RuntimeInv, GrantInv
<1>9. \A h \in new : Pairs(h)'
  BY <1>2, <1>5, <1>6, <1>8 DEF Pairs
<1>10. new \in SUBSET Grants /\ new \cap (kept \cup left) = {}
  BY <1>2, <1>3
<1>11. GrantInv'
  <2>. HIDE DEF new
  <2>1. UNCHANGED closed
    BY DEF Running
  <2>. QED  BY <1>2, <1>3, <1>8, <1>9, <1>10, <2>1, GrantsChange DEF RuntimeInv
<1>. QED  BY <1>2, <1>7, <1>11, OutcomeSet, HandlerRemoves

\* HostCommand::Grant
LEMMA RunGrantInv ==
    ASSUME RuntimeInv, NEW j \in Jobs, NEW agent \in Agents, RunGrant(j, agent), UNCHANGED clock
    PROVE  RuntimeInv'
<1>1. Running(j) /\ HandlerError \in {"ok", "failed"}
  BY DEF RunGrant, HandlerError
<1>2. CASE Outcome(HandlerError) /\ UNCHANGED <<grants, reply>> /\ UNCHANGED queueVars /\ UNCHANGED jobVars
  <2>1. MayPrune /\ UNCHANGED reply
    BY <1>2 DEF MayPrune
  <2>. QED  BY <1>1, <1>2, <2>1, OutcomeSet, HandlerQuiet
<1>3. CASE Outcome(HandlerError) /\ HostPrune /\ Emit(JobsIn(ExpiredLanes), "not_dispatched")
           /\ grants' = LiveGrants
  BY <1>1, <1>3, GrantRefusedInv
<1>4. ASSUME NEW g \in Grants, NEW lease \in Leases, NEW later \in ClockReads,
             Fresh(g), Outcome("ok"), Register(ExpiredLanes, g, agent, clock + lease + later),
             Emit(JobsIn(ExpiredLanes \cup LaneOf(agent)), "not_dispatched"),
             grants' = Inserted(WithoutGrant(agent, g, LiveGrants, clock + lease), g,
                                [agent |-> agent, expires |-> clock + lease])
      PROVE  RuntimeInv'
  <2>1. clock + lease \in Nat /\ g \notin DOMAIN grants
    BY <1>4, SchedulerAssumption DEF Fresh, RuntimeInv, SchedulerInv
  <2>. QED  BY <1>1, <1>4, <2>1, GrantedInv
<1>5. ASSUME NEW g \in Grants, NEW lease \in Leases,
             Outcome(HandlerError), RemoveLanes(ExpiredLanes \cup LaneOf(agent)),
             Emit(JobsIn(ExpiredLanes \cup LaneOf(agent)), "not_dispatched"),
             grants' = WithoutGrant(agent, g, LiveGrants, clock + lease)
      PROVE  RuntimeInv'
  BY <1>1, <1>5, LaneRefusedInv
<1>. QED  BY <1>2, <1>3, <1>4, <1>5, Zenon DEF RunGrant

\* A request of an agent, and the commands that change no lane
LEMMA RunQuietInv ==
    ASSUME RuntimeInv, NEW j \in Jobs, UNCHANGED clock,
           RunAgent(j) \/ RunRead(j) \/ RunClose(j)
    PROVE  RuntimeInv'
<1>1. Running(j) /\ MayPrune /\ UNCHANGED reply /\ UNCHANGED queueVars /\ UNCHANGED jobVars
  BY DEF RunAgent, RunRead, RunClose, MayPrune
<1>2. CASE RunClose(j)
  <2>1. owner' = [owner EXCEPT !.pc = "stop_then_emit", !.outcome = "ok"]
    BY <1>2 DEF RunClose
  <2>2. owner \in OwnerRecords /\ owner.job = j
    BY <1>1 DEF Running, RuntimeInv, ThreadTypes
  <2>3. owner' \in OwnerRecords /\ owner'.job = j /\ owner'.pc = "stop_then_emit" /\ owner'.outcome = "ok"
    BY <2>1, <2>2 DEF OwnerRecords
  <2>. QED  BY <1>1, <2>3, HandlerQuiet
<1>3. CASE RunAgent(j) \/ RunRead(j)
  <2>1. PICK what \in {"ok", "failed"} : Outcome(what)
    BY <1>3 DEF RunAgent, RunRead, HandlerError
  <2>. QED  BY <1>1, <2>1, OutcomeSet, HandlerQuiet
<1>. QED  BY <1>2, <1>3

\* The owner lets go of its job, answered.
LEMMA JobEnds ==
    ASSUME RuntimeInv, NEW j \in Jobs, j = owner.job, Finish(j), UNCHANGED <<clock, closed>>,
           flag[j] = "dispatched", ran' = ran \cup {j} \/ UNCHANGED ran, MayPrune,
           UNCHANGED <<conn, cred, hostCall>>,
           owner' \in OwnerRecords, owner'.job = NoJob, owner'.pc \in {"next", "stop"},
           reply' \in [Jobs -> Replies], reply'[j] \in {"ok", "failed", "dropped"},
           \A i \in Jobs : i # j => reply'[i] = reply[i]
    PROVE  RuntimeInv'
<1>1. SchedulerInv' /\ WaitingJobs' = WaitingJobs
  BY JobStepInv DEF RuntimeInv
<1>2. /\ flag'[j] = "finished" /\ (\A i \in Jobs : i # j => flag'[i] = flag[i])
      /\ UNCHANGED <<popped, lanes, host>>
  BY DEF Finish, queueVars, RuntimeInv, SchedulerInv, CancelInv, JobTypes
<1>3. popped = {} /\ NoJob \notin WaitingJobs /\ NoJob \notin Jobs /\ j \notin WaitingJobs
  BY RuntimeAssumption, WaitingAreJobs DEF RuntimeInv, OwnerHolds, SchedulerInv, OpenInv, Undecided
<1>4. ThreadTypes'
  BY DEF RuntimeInv, ThreadTypes
<1>5. OwnerHolds'
  BY <1>1, <1>2, <1>3 DEF OwnerHolds
<1>6. AnswerInv'
  BY <1>1, <1>2, <1>3 DEF RuntimeInv, AnswerInv
<1>7. SlotsAreFresh'
  BY <1>2, SchedulerAssumption DEF RuntimeInv, SlotsAreFresh, Connections, AgentJobs
<1>8. ClosedStaysEmpty'
  BY DEF ClosedStaysEmpty
<1>9. GrantInv'
  BY <1>2, GrantsPruned DEF RuntimeInv
<1>. QED  BY <1>1, <1>4, <1>5, <1>6, <1>7, <1>8, <1>9 DEF RuntimeInv

\* A command that is persisted, its commit certain or not
LEMMA RunMutateInv ==
    ASSUME RuntimeInv, NEW j \in Jobs, RunMutate(j), UNCHANGED clock
    PROVE  RuntimeInv'
<1>1. Running(j) /\ MayPrune /\ UNCHANGED queueVars
  BY DEF RunMutate
<1>2. ASSUME NEW what \in {"ok", "failed"}, Outcome(what), UNCHANGED reply, UNCHANGED jobVars
      PROVE  RuntimeInv'
  BY <1>1, <1>2, OutcomeSet, HandlerQuiet
<1>3. CASE owner' = [Idle EXCEPT !.pc = "stop"] /\ reply' = [reply EXCEPT ![j] = "dropped"] /\ Finish(j)
  <2>1. owner' \in OwnerRecords /\ owner'.job = NoJob /\ owner'.pc = "stop"
    BY <1>3 DEF OwnerRecords, Idle
  <2>2. /\ reply' \in [Jobs -> Replies] /\ reply'[j] = "dropped"
        /\ \A i \in Jobs : i # j => reply'[i] = reply[i]
    BY <1>3 DEF RuntimeInv, ThreadTypes
  <2>3. j = owner.job /\ ran' = ran \cup {j} /\ UNCHANGED <<conn, cred, hostCall, closed>>
        /\ flag[j] = "dispatched"
    BY <1>1 DEF Running, RuntimeInv, OwnerHolds
  <2>. QED  BY <1>1, <1>3, <2>1, <2>2, <2>3, JobEnds
<1>. QED  BY <1>2, <1>3, Zenon DEF RunMutate, HandlerError

\* The reply of a job that ran
LEMMA EmitOutcomeInv ==
    ASSUME RuntimeInv, EmitOutcome, UNCHANGED clock
    PROVE  RuntimeInv'
<1>1. owner.pc = "emit" /\ Emit({owner.job}, owner.outcome) /\ Finish(owner.job) /\ owner' = Idle
      /\ UNCHANGED <<closed, grants, conn, cred, hostCall, ran>>
  BY DEF EmitOutcome
<1>2. /\ owner.job \in Jobs /\ owner.outcome \in {"ok", "failed"} /\ flag[owner.job] = "dispatched"
  BY <1>1 DEF RuntimeInv, ThreadTypes, OwnerHolds, OwnerRecords
<1>3. /\ reply' \in [Jobs -> Replies] /\ reply'[owner.job] \in {"dropped", "ok", "failed"}
      /\ \A i \in Jobs : i # owner.job => reply'[i] = reply[i]
  BY <1>1, <1>2, EmitGives
<1>4. owner' \in OwnerRecords /\ owner'.job = NoJob /\ owner'.pc = "next" /\ MayPrune
  BY <1>1 DEF OwnerRecords, Idle, MayPrune
<1>. QED  BY <1>1, <1>2, <1>3, <1>4, JobEnds

\* The handler of whatever the owner holds
LEMMA RunInv ==
    ASSUME RuntimeInv, Run, UNCHANGED clock
    PROVE  RuntimeInv'
<1>1. PICK j \in Jobs :
        \/ RunAgent(j) \/ RunRead(j) \/ RunClose(j) \/ RunMutate(j)
        \/ hostCall.command.op = "Grant" /\ RunGrant(j, hostCall.command.agent)
        \/ hostCall.command.op = "Revoke" /\ RunRevoke(j, hostCall.command.agent)
  BY Zenon DEF Run
<1>2. hostCall.command \in Commands
  BY DEF RuntimeInv, ThreadTypes
<1>3. hostCall.command.op = "Grant" => hostCall.command.agent \in Agents
  <2>. DEFINE c == hostCall.command
  <2>1. c \in [op : {"Grant", "Revoke"}, agent : Agents] \/ c \in [op : {"Mutate", "Read", "Close"}]
    <3>1. [op |-> "Read"] \in [op : {"Mutate", "Read", "Close"}]
      OBVIOUS
    <3>. QED  BY <1>2, <3>1, RuntimeAssumption DEF Commands
  <2>. HIDE DEF c
  <2>2. c.op = "Grant" => c.agent \in Agents
    BY <2>1
  <2>. QED  BY <2>2 DEF c
<1>. QED  BY <1>1, <1>3, RunQuietInv, RunMutateInv, RunGrantInv, RunRevokeInv

-----------------------------------------------------------------------------
(* Shutdown, admission, and the end of a caller's interest.                *)

\* host_drain(), when the owner's loop has ended
LEMMA DrainRuntimeInv ==
    ASSUME RuntimeInv, Drain, UNCHANGED clock
    PROVE  RuntimeInv'
<1>1. owner.pc = "drain" /\ HostDrain /\ Emit(WaitingJobs, "not_dispatched")
      /\ owner' = [owner EXCEPT !.pc = "done"]
      /\ UNCHANGED <<closed, grants, conn, cred, hostCall, ran>>
  BY DEF Drain, WaitingJobs
<1>2. SchedulerInv' /\ WaitingJobs' = {} /\ DOMAIN lanes' = {} /\ host' = <<>>
  BY <1>1, DrainInv DEF RuntimeInv
<1>3. WaitingJobs \in SUBSET Jobs /\ "not_dispatched" \in Replies
  BY WaitingAreJobs DEF RuntimeInv, SchedulerInv
<1>4. /\ reply' \in [Jobs -> Replies]
      /\ \A i \in WaitingJobs : reply'[i] \in {"dropped", "not_dispatched"}
      /\ \A i \in Jobs \ WaitingJobs : reply'[i] = reply[i]
  BY <1>1, <1>3, EmitGives
<1>5. CancelWaiting(WaitingJobs)
  BY <1>1 DEF HostDrain, WaitingJobs
<1>6. /\ UNCHANGED popped
      /\ \A i \in WaitingJobs : flag'[i] = "cancelled" /\ flag[i] \in Undecided
      /\ \A i \in Jobs \ WaitingJobs : flag'[i] = flag[i]
  BY <1>3, <1>5 DEF CancelWaiting, RuntimeInv, SchedulerInv, OpenInv, Undecided
<1>7. owner \in OwnerRecords /\ owner.job = NoJob /\ popped = {} /\ closed
  BY <1>1 DEF RuntimeInv, ThreadTypes, OwnerHolds, ClosedStaysEmpty
<1>8. owner' \in OwnerRecords /\ owner'.job = NoJob /\ owner'.pc = "done"
  BY <1>1, <1>7 DEF OwnerRecords
<1>9. ThreadTypes'
  BY <1>1, <1>4, <1>8 DEF RuntimeInv, ThreadTypes
<1>10. OwnerHolds'
  BY <1>2, <1>6, <1>7, <1>8 DEF OwnerHolds
<1>11. AnswerInv'
  BY <1>1, <1>2, <1>4, <1>6, <1>7, <1>8, RuntimeAssumption DEF RuntimeInv, AnswerInv, Undecided
<1>12. SlotsAreFresh'
  BY <1>1, <1>4, <1>6, SchedulerAssumption DEF RuntimeInv, SlotsAreFresh, Connections, AgentJobs, Undecided
<1>13. ClosedStaysEmpty'
  BY <1>1, <1>2, <1>7 DEF ClosedStaysEmpty
<1>14. GrantInv'
  BY <1>1, <1>2, <1>7 DEF RuntimeInv, GrantInv
<1>. QED  BY <1>2, <1>9, <1>10, <1>11, <1>12, <1>13, <1>14 DEF RuntimeInv

\* A job takes a free slot of the queue.
LEMMA SlotAdmitted ==
    ASSUME RuntimeInv, SchedulerInv', ThreadTypes', GrantInv', ConnsMoveOn, NEW j \in Jobs,
           flag[j] = "none", reply[j] = "none",
           j \in Connections => conn'[j] \notin {"idle", "hello", "authenticated"},
           WaitingJobs' = WaitingJobs \cup {j},
           flag' = [flag EXCEPT ![j] = "queued"], ~closed,
           UNCHANGED <<popped, owner, closed, reply, ran>>
    PROVE  RuntimeInv'
<1>1. /\ flag'[j] = "queued" /\ \A i \in Jobs : i # j => flag'[i] = flag[i]
  BY DEF RuntimeInv, SchedulerInv, CancelInv, JobTypes
<1>2. j # owner.job /\ j \notin WaitingJobs /\ j \notin ran
  BY DEF RuntimeInv, AnswerInv
<1>3. OwnerHolds'
  <2>1. owner.job \in Jobs \/ owner.job = NoJob
    BY DEF RuntimeInv, ThreadTypes, OwnerRecords
  <2>2. owner.pc \in Holding => flag'[owner.job] = flag[owner.job]
    BY <1>1, <1>2, <2>1 DEF RuntimeInv, OwnerHolds
  <2>. QED  BY <1>2, <2>2 DEF RuntimeInv, OwnerHolds
<1>4. AnswerInv'
  BY <1>1, <1>2 DEF RuntimeInv, AnswerInv
<1>5. SlotsAreFresh'
  BY <1>1, SchedulerAssumption DEF RuntimeInv, SlotsAreFresh, ConnsMoveOn, Connections, AgentJobs
<1>6. ClosedStaysEmpty'
  BY DEF RuntimeInv, ClosedStaysEmpty
<1>. QED  BY <1>3, <1>4, <1>5, <1>6 DEF RuntimeInv

\* The request of a connection is admitted or refused.
LEMMA AdmitInv ==
    ASSUME RuntimeInv, NEW c \in Connections, Admit(c), UNCHANGED <<grants, ran, clock>>
    PROVE  RuntimeInv'
<1>1. conn[c] = "authenticated" /\ Open /\ UNCHANGED <<owner, closed, cred, hostCall>>
  BY DEF Admit
<1>2. c \in Jobs /\ c \in AgentJobs /\ flag[c] = "none" /\ reply[c] = "none" /\ ~closed
  BY <1>1 DEF RuntimeInv, SlotsAreFresh, Connections, AgentJobs, Open
<1>3. ASSUME NEW pc \in {"admitted", "gone"}, ConnAt(c, pc)
      PROVE  /\ conn' \in [Connections -> ConnStates] /\ conn'[c] = pc /\ ConnsMoveOn
             /\ \A d \in Connections : d # c => conn'[d] = conn[d]
  BY <1>3 DEF ConnAt, ConnsMoveOn, RuntimeInv, ThreadTypes
<1>4. ASSUME NEW wait \in Waits, EnqueueAgent(c, cred[c], wait), ConnAt(c, "admitted"), UNCHANGED reply
      PROVE  RuntimeInv'
  <2>1. SchedulerInv' /\ WaitingJobs' = WaitingJobs \cup {c}
    BY <1>2, <1>4, EnqueueAgentInv DEF RuntimeInv
  <2>2. flag' = [flag EXCEPT ![c] = "queued"] /\ UNCHANGED popped
    BY <1>4 DEF EnqueueAgent
  <2>3. conn' \in [Connections -> ConnStates] /\ conn'[c] = "admitted" /\ ConnsMoveOn
    BY <1>3, <1>4
  <2>4. DOMAIN lanes' = DOMAIN lanes
        /\ \A g \in DOMAIN lanes : lanes'[g].agent = lanes[g].agent /\ lanes'[g].expires = lanes[g].expires
    <3>1. lanes \in [DOMAIN lanes -> AgentLanes] /\ cred[c] \in DOMAIN lanes
      BY <1>4 DEF RuntimeInv, SchedulerInv, QueueInv, QueueTypes, EnqueueAgent, LaneLive
    <3>. QED  BY <1>4, <3>1 DEF EnqueueAgent, AgentLanes
  <2>5. GrantInv'
    BY <1>1, <2>4, GrantsPruned DEF RuntimeInv, MayPrune
  <2>6. ThreadTypes'
    BY <1>1, <1>4, <2>3 DEF RuntimeInv, ThreadTypes
  <2>. QED  BY <1>1, <1>2, <1>4, <2>1, <2>2, <2>3, <2>5, <2>6, SlotAdmitted
<1>5. CASE Emit({c}, "not_dispatched") /\ ConnAt(c, "gone") /\ UNCHANGED queueVars /\ UNCHANGED jobVars
  <2>1. SchedulerInv' /\ WaitingJobs' = WaitingJobs /\ UNCHANGED <<flag, popped, lanes, host>>
    BY <1>5, StutterInv DEF RuntimeInv, SchedulerInv, queueVars, jobVars
  <2>2. /\ reply' \in [Jobs -> Replies] /\ reply'[c] \in {"dropped", "not_dispatched"}
        /\ \A i \in Jobs : i # c => reply'[i] = reply[i]
    BY <1>2, <1>5, EmitGives
  <2>3. conn' \in [Connections -> ConnStates] /\ conn'[c] = "gone" /\ ConnsMoveOn
    BY <1>3, <1>5
  <2>4. ThreadTypes'
    BY <1>1, <2>2, <2>3 DEF RuntimeInv, ThreadTypes
  <2>5. OwnerHolds' /\ ClosedStaysEmpty'
    BY <1>1, <2>1 DEF RuntimeInv, OwnerHolds, ClosedStaysEmpty
  <2>6. c \notin WaitingJobs /\ c # owner.job
    BY <1>2 DEF RuntimeInv, AnswerInv
  <2>7. AnswerInv'
    BY <1>1, <1>2, <2>1, <2>2, <2>6 DEF RuntimeInv, AnswerInv
  <2>8. SlotsAreFresh'
    BY <1>2, <2>1, <2>2, <2>3, SchedulerAssumption
       DEF RuntimeInv, SlotsAreFresh, ConnsMoveOn, Connections, AgentJobs
  <2>9. GrantInv'
    BY <1>1, <2>1, GrantsPruned DEF RuntimeInv, MayPrune
  <2>. QED  BY <2>1, <2>4, <2>5, <2>7, <2>8, <2>9 DEF RuntimeInv
<1>. QED  BY <1>4, <1>5, Zenon DEF Admit

\* A connection that has sent its request leaves, and cancels it.
LEMMA LeaveInv ==
    ASSUME RuntimeInv, NEW c \in Connections, Leave(c), conn[c] = "waiting",
           UNCHANGED <<grants, ran, clock>>
    PROVE  RuntimeInv'
<1>1. Cancel(c) /\ ConnAt(c, "gone") /\ UNCHANGED <<owner, closed, reply, cred, hostCall>>
  BY DEF Leave
<1>2. c \in Jobs
  BY DEF Connections, AgentJobs
<1>3. SchedulerInv' /\ WaitingJobs' = WaitingJobs
  BY <1>1, <1>2, JobStepInv DEF RuntimeInv
<1>4. UNCHANGED <<popped, lanes, host>>
      /\ \A i \in Jobs : flag'[i] = IF i = c /\ flag[i] = "queued" THEN "cancelled" ELSE flag[i]
  BY <1>1, <1>2 DEF Cancel, queueVars, RuntimeInv, SchedulerInv, CancelInv, JobTypes
<1>5. ThreadTypes' /\ ConnsMoveOn
  BY <1>1 DEF RuntimeInv, ThreadTypes, ConnAt, ConnsMoveOn
<1>6. OwnerHolds'
  <2>1. owner.pc \in Holding => owner.job \in Jobs
    BY DEF RuntimeInv, ThreadTypes, OwnerRecords, OwnerHolds
  <2>2. /\ owner.pc = "reject" => flag'[owner.job] = "cancelled"
        /\ owner.pc \in {"run", "emit", "stop_then_emit"} => flag'[owner.job] = "dispatched"
    BY <1>4, <2>1 DEF RuntimeInv, OwnerHolds
  <2>. QED  BY <1>1, <1>3, <1>4, <2>2 DEF RuntimeInv, OwnerHolds
<1>7. AnswerInv'
  BY <1>1, <1>3, <1>4 DEF RuntimeInv, AnswerInv
<1>8. SlotsAreFresh'
  BY <1>1, <1>4, <1>5, SchedulerAssumption DEF RuntimeInv, SlotsAreFresh, ConnsMoveOn, Connections, AgentJobs
<1>9. ClosedStaysEmpty' /\ GrantInv'
  BY <1>1, <1>4, GrantsPruned DEF RuntimeInv, ClosedStaysEmpty, MayPrune
<1>. QED  BY <1>3, <1>5, <1>6, <1>7, <1>8, <1>9 DEF RuntimeInv

\* Runtime::call admits the host's command.
LEMMA HostCallInv ==
    ASSUME RuntimeInv, NEW command \in HostCommands, HostCall(command), Open,
           UNCHANGED <<grants, clock>>
    PROVE  RuntimeInv'
<1>1. PICK j \in HostJobs, wait \in Waits :
        EnqueueHost(j, wait) /\ hostCall' = [pc |-> "admitted", job |-> j, command |-> command]
  BY DEF HostCall
<1>2. UNCHANGED <<owner, closed, reply, conn, cred, ran>> /\ ~closed
  BY DEF HostCall, Open
<1>3. SchedulerInv' /\ WaitingJobs' = WaitingJobs \cup {j}
  BY <1>1, EnqueueHostInv DEF RuntimeInv
<1>4. flag[j] = "none" /\ flag' = [flag EXCEPT ![j] = "queued"] /\ UNCHANGED <<popped, lanes>>
  BY <1>1 DEF EnqueueHost
<1>5. reply[j] = "none" /\ j \in Jobs /\ j \notin Connections
  BY <1>1, <1>4, SchedulerAssumption DEF RuntimeInv, SlotsAreFresh, Connections, AgentJobs
<1>6. ThreadTypes' /\ ConnsMoveOn
  BY <1>1, <1>2 DEF RuntimeInv, ThreadTypes, ConnsMoveOn, Commands
<1>7. GrantInv'
  BY <1>2, <1>4, GrantsPruned DEF RuntimeInv, MayPrune
<1>. QED  BY <1>2, <1>3, <1>4, <1>5, <1>6, <1>7, SlotAdmitted

\* The host takes its reply, and the slot is free again.
LEMMA HostReceiveInv ==
    ASSUME RuntimeInv, HostReceive, UNCHANGED <<grants, clock>>
    PROVE  RuntimeInv'
<1>. DEFINE j == hostCall.job
<1>1. hostCall.pc = "waiting" /\ reply[j] # "none" /\ Retire(j)
      /\ reply' = [reply EXCEPT ![j] = "none"] /\ ran' = ran \ {j}
      /\ UNCHANGED <<owner, closed, conn, cred>>
  BY DEF HostReceive
<1>2. /\ hostCall'.pc \in {"dropping", "idle"} /\ hostCall'.job = NoJob
      /\ hostCall' \in [pc : HostStates, job : HostJobs \cup {NoJob}, command : Commands]
  BY DEF HostReceive, Commands
<1>3. j \in HostJobs /\ j \in Jobs
  BY <1>1, SchedulerAssumption DEF RuntimeInv, ThreadTypes
<1>. HIDE DEF j
<1>4. SchedulerInv' /\ WaitingJobs' = WaitingJobs
  BY <1>1, <1>3, JobStepInv DEF RuntimeInv
<1>5. UNCHANGED <<popped, lanes, host>> /\ flag'[j] = "none"
      /\ \A i \in Jobs : i # j => flag'[i] = flag[i]
  BY <1>1, <1>3 DEF Retire, queueVars, RuntimeInv, SchedulerInv, CancelInv, JobTypes
<1>6. /\ reply' \in [Jobs -> Replies] /\ reply'[j] = "none"
      /\ \A i \in Jobs : i # j => reply'[i] = reply[i]
  BY <1>1, <1>3 DEF RuntimeInv, ThreadTypes
<1>7. j \notin WaitingJobs /\ j # owner.job
  BY <1>1, <1>3 DEF RuntimeInv, AnswerInv
<1>8. ThreadTypes'
  BY <1>1, <1>2, <1>6 DEF RuntimeInv, ThreadTypes
<1>9. OwnerHolds'
  <2>1. owner.pc \in Holding => owner.job \in Jobs
    BY DEF RuntimeInv, ThreadTypes, OwnerRecords, OwnerHolds
  <2>2. owner.pc \in Holding => flag'[owner.job] = flag[owner.job]
    BY <1>5, <1>7, <2>1
  <2>. QED  BY <1>1, <1>4, <1>5, <2>2 DEF RuntimeInv, OwnerHolds
<1>10. AnswerInv'
  BY <1>1, <1>4, <1>5, <1>6, <1>7 DEF RuntimeInv, AnswerInv
<1>11. SlotsAreFresh'
  BY <1>1, <1>3, <1>5, <1>6, SchedulerAssumption DEF RuntimeInv, SlotsAreFresh, Connections, AgentJobs
<1>12. ClosedStaysEmpty' /\ GrantInv'
  BY <1>1, <1>5, GrantsPruned DEF RuntimeInv, ClosedStaysEmpty, MayPrune
<1>. QED  BY <1>4, <1>8, <1>9, <1>10, <1>11, <1>12 DEF RuntimeInv

\* Time passes, or nothing happens.
LEMMA RuntimeTickInv ==
    ASSUME RuntimeInv, RuntimeTick \/ UNCHANGED runtimeVars
    PROVE  RuntimeInv'
<1>1. UNCHANGED queueVars /\ UNCHANGED jobVars
      /\ UNCHANGED <<owner, closed, reply, conn, cred, hostCall, grants, ran>>
      /\ (clock' = clock + 1 \/ clock' = clock)
  BY DEF RuntimeTick, SchedulerTick, threadVars, runtimeVars, schedulerVars
<1>2. SchedulerInv' /\ WaitingJobs' = WaitingJobs /\ UNCHANGED <<flag, popped, lanes, host>>
  BY <1>1, StutterInv DEF RuntimeInv, SchedulerInv, queueVars, jobVars
<1>3. ThreadTypes'
  BY <1>1 DEF RuntimeInv, ThreadTypes
<1>4. OwnerHolds' /\ ClosedStaysEmpty'
  BY <1>1, <1>2 DEF RuntimeInv, OwnerHolds, ClosedStaysEmpty
<1>5. AnswerInv' /\ SlotsAreFresh'
  BY <1>1, <1>2 DEF RuntimeInv, AnswerInv, SlotsAreFresh
<1>6. GrantInv'
  BY <1>1, <1>2, GrantsAge, GrantsPruned DEF RuntimeInv, MayPrune
<1>. QED  BY <1>2, <1>3, <1>4, <1>5, <1>6 DEF RuntimeInv

\* Every step of every thread keeps the invariant.
LEMMA RuntimeNextInv ==
    ASSUME RuntimeInv, [RuntimeNext]_runtimeVars
    PROVE  RuntimeInv'
<1>1. CASE OwnerStep /\ UNCHANGED clock
  BY <1>1, NextJobCases, TakesInv, OwnerMovesInv, DecideInv, RejectInv, RunInv, EmitOutcomeInv,
     DrainRuntimeInv DEF OwnerStep
<1>2. CASE SpuriousWakeup /\ UNCHANGED clock
  BY <1>2, OwnerMovesInv
<1>3. CASE HostStep /\ UNCHANGED clock
  <2>1. ASSUME NEW command \in HostCommands, HostCall(command), UNCHANGED <<grants, clock>>
        PROVE  RuntimeInv'
    BY <2>1, HostCallInv, HostMovesInv
  <2>. QED  BY <1>3, <2>1, HostReceiveInv, HostMovesInv DEF HostStep
<1>4. ASSUME NEW c \in Connections, ConnectionStep(c), UNCHANGED clock
      PROVE  RuntimeInv'
  <2>1. UNCHANGED <<clock, grants, ran>>
    BY <1>4 DEF ConnectionStep
  <2>2. CASE Admit(c)
    BY <2>1, <2>2, AdmitInv
  <2>3. CASE Leave(c) /\ conn[c] = "waiting"
    BY <2>1, <2>3, LeaveInv
  <2>4. CASE \/ \E g \in Grants : Hello(c, g)
             \/ Authenticate(c) \/ NotifyAdmitted(c)
             \/ Leave(c) /\ conn[c] # "waiting"
    BY <2>1, <2>4, ConnectionMovesInv
  <2>. QED  BY <1>4, <2>2, <2>3, <2>4 DEF ConnectionStep
<1>5. CASE RuntimeTick \/ UNCHANGED runtimeVars
  BY <1>5, RuntimeTickInv
<1>. QED  BY <1>1, <1>2, <1>3, <1>4, <1>5 DEF RuntimeNext

\* The process starts idle, with nothing admitted and nothing granted.
LEMMA RuntimeInitInv == RuntimeInit => RuntimeInv
<1>. SUFFICES ASSUME RuntimeInit PROVE RuntimeInv
  OBVIOUS
<1>1. SchedulerInv /\ WaitingJobs = {}
  BY InitInv, EmptyQueues DEF RuntimeInit, SchedulerInit
<1>2. ThreadTypes
  BY DEF RuntimeInit, ThreadTypes, OwnerRecords, Idle, Commands
<1>3. OwnerHolds /\ ClosedStaysEmpty
  BY <1>1 DEF RuntimeInit, SchedulerInit, OwnerHolds, ClosedStaysEmpty, Idle
<1>4. AnswerInv /\ SlotsAreFresh
  BY <1>1, RuntimeAssumption, SchedulerAssumption
     DEF RuntimeInit, SchedulerInit, AnswerInv, SlotsAreFresh, Idle, Connections, AgentJobs
<1>5. GrantInv
  BY DEF RuntimeInit, SchedulerInit, GrantInv
<1>. QED  BY <1>1, <1>2, <1>3, <1>4, <1>5 DEF RuntimeInv

-----------------------------------------------------------------------------
(* Theorems.                                                               *)

\* The inductive invariant of the broker process: the queue's own, the place of
\* every job, the owner's hands, and the pairs of grants and lanes.
THEOREM RuntimeIsInvariant == RuntimeSpec => []RuntimeInv
<1>1. RuntimeInit => RuntimeInv
  BY RuntimeInitInv
<1>2. RuntimeInv /\ [RuntimeNext]_runtimeVars => RuntimeInv'
  BY RuntimeNextInv
<1>. QED  BY <1>1, <1>2, PTL DEF RuntimeSpec

\* Whose turn it is, whether the broker is closed, and the listener.
SwitchTypes ==
    hostTurn \in BOOLEAN /\ closed \in BOOLEAN /\ listener \in {"accepting", "ended"}

\* The switches when the owner moves.
LEMMA OwnerSwitches ==
    ASSUME SwitchTypes, OwnerStep
    PROVE  SwitchTypes'
<1>1. CASE NextJob
  <2>1. hostTurn' \in BOOLEAN
    BY <1>1 DEF NextJob, SwitchTypes, queueVars, Pop, Dequeue
  <2>. QED  BY <1>1, <2>1 DEF NextJob, SwitchTypes
<1>2. CASE Park \/ Decide \/ Reject \/ OwnerStops
  BY <1>2 DEF Park, Decide, Reject, OwnerStops, Dispatch, SwitchTypes, queueVars
<1>3. CASE EmitOutcome \/ Drain
  BY <1>3 DEF EmitOutcome, Drain, HostDrain, Finish, SwitchTypes, queueVars
<1>4. CASE Run
  <2>1. PICK j \in Jobs :
            \/ RunAgent(j) \/ RunMutate(j) \/ RunRead(j) \/ RunClose(j)
            \/ \E agent : RunGrant(j, agent) \/ RunRevoke(j, agent)
    BY <1>4, Zenon DEF Run
  <2>2. CASE RunAgent(j) \/ RunMutate(j) \/ RunRead(j) \/ RunClose(j)
    BY <2>2 DEF RunAgent, RunMutate, RunRead, RunClose, Running, SwitchTypes, queueVars
  <2>3. ASSUME NEW agent, RunGrant(j, agent) PROVE SwitchTypes'
    <3>1. UNCHANGED hostTurn
      BY <2>3 DEF RunGrant, HostPrune, RemoveLanes, Register, queueVars
    <3>. QED  BY <2>3, <3>1 DEF RunGrant, Running, SwitchTypes
  <2>4. ASSUME NEW agent, RunRevoke(j, agent) PROVE SwitchTypes'
    BY <2>4 DEF RunRevoke, Running, HostRevoke, RemoveLanes, SwitchTypes
  <2>. QED  BY <2>1, <2>2, <2>3, <2>4, Zenon
<1>. QED  BY <1>1, <1>2, <1>3, <1>4, Zenon DEF OwnerStep

\* The switches when any thread moves.
LEMMA SwitchesKeep ==
    ASSUME SwitchTypes, [RuntimeNext]_runtimeVars
    PROVE  SwitchTypes'
<1>1. CASE UNCHANGED runtimeVars \/ RuntimeTick \/ SpuriousWakeup
  BY <1>1 DEF runtimeVars, schedulerVars, queueVars, threadVars, RuntimeTick, SchedulerTick,
              SpuriousWakeup, SwitchTypes
<1>2. ASSUME NEW c \in Connections, ConnectionStep(c) PROVE SwitchTypes'
  BY <1>2 DEF ConnectionStep, Hello, Authenticate, Admit, NotifyAdmitted, Leave, EnqueueAgent,
              Cancel, SwitchTypes, queueVars
<1>3. CASE HostStep
  <2>1. ASSUME NEW command, HostCall(command) PROVE SwitchTypes'
    BY <2>1 DEF HostCall, EnqueueHost, SwitchTypes, queueVars
  <2>2. CASE HostNotify \/ HostReceive \/ HostEof \/ HostStops \/ HostJoins
    BY <2>2 DEF HostNotify, HostReceive, Retire, HostEof, HostStops, Stop, HostJoins,
                SwitchTypes, queueVars
  <2>3. CASE ListenerFails \/ ListenerEnds
    BY <2>3 DEF ListenerFails, ListenerEnds, Stop, SwitchTypes, queueVars
  <2>. QED  BY <1>3, <2>1, <2>2, <2>3, Zenon DEF HostStep
<1>. QED  BY <1>1, <1>2, <1>3, OwnerSwitches, Zenon DEF RuntimeNext

\* Every variable of the process keeps its type, and so does every variable of
\* the queue in its hands, for every number of connections, agents and grants.
THEOREM RuntimeTypes == RuntimeSpec => [](SchedulerTypeOK /\ RuntimeTypeOK)
<1>1. RuntimeInit => SwitchTypes
  BY DEF RuntimeInit, SchedulerInit, SwitchTypes
<1>2. SwitchTypes /\ [RuntimeNext]_runtimeVars => SwitchTypes'
  BY SwitchesKeep
<1>3. RuntimeInv /\ SwitchTypes => SchedulerTypeOK
  BY InvariantTypes DEF RuntimeInv, SwitchTypes
<1>4. RuntimeInv /\ SwitchTypes => RuntimeTypeOK
  <2>. SUFFICES ASSUME RuntimeInv, SwitchTypes PROVE RuntimeTypeOK
    OBVIOUS
  <2>1. owner \in [pc : OwnerStates, job : Jobs \cup {NoJob}, outcome : Replies]
    <3>1. {"none", "ok", "failed"} \subseteq Replies
      OBVIOUS
    <3>2. owner \in [pc : OwnerStates, job : Jobs \cup {NoJob}, outcome : {"none", "ok", "failed"}]
      BY Zenon DEF RuntimeInv, ThreadTypes, OwnerRecords
    <3>. HIDE DEF OwnerStates, Replies
    <3>. QED  BY <3>1, <3>2
  <2>2. DOMAIN grants \subseteq Grants /\ \A g \in DOMAIN grants : grants[g] \in [agent : Agents, expires : Nat]
    BY DEF RuntimeInv, GrantInv
  <2>3. hostCall.pc \in HostStates /\ hostCall.job \in HostJobs \cup {NoJob}
    BY DEF RuntimeInv, ThreadTypes
  <2>. QED
    BY <2>1, <2>2, <2>3, Zenon DEF RuntimeInv, ThreadTypes, SwitchTypes, RuntimeTypeOK
<1>. QED  BY <1>1, <1>2, <1>3, <1>4, RuntimeIsInvariant, PTL DEF RuntimeSpec

\* What a caller is told was not dispatched, and what a connection handler was
\* told it cancelled in time, has never been given to a handler: clients may
\* repeat such a request, whatever raced with it.
THEOREM NotDispatchedNeverRanHolds == RuntimeSpec => []NotDispatchedNeverRan
<1>1. RuntimeInv => NotDispatchedNeverRan
  <2>1. RuntimeInv => \A j \in ran : j \in Jobs /\ flag[j] \in {"dispatched", "finished"}
    BY DEF RuntimeInv, AnswerInv, ThreadTypes
  <2>2. RuntimeInv => \A j \in told : flag[j] = "cancelled"
    BY DEF RuntimeInv, SchedulerInv, CancelInv, ToldAreCancelled
  <2>3. RuntimeInv => \A j \in Jobs : reply[j] = "not_dispatched" => flag[j] \in {"none", "cancelled"}
    BY DEF RuntimeInv, AnswerInv
  <2>. QED  BY <2>1, <2>2, <2>3 DEF NotDispatchedNeverRan
<1>. QED  BY <1>1, RuntimeIsInvariant, PTL

\* When the owner has ended, the queues are empty and every admitted job has
\* its answer or a closed channel, from whichever side the broker was closed.
THEOREM NothingStrandedHolds == RuntimeSpec => []NothingStranded
<1>1. RuntimeInv => NothingStranded
  <2>. SUFFICES ASSUME RuntimeInv, owner.pc = "done"
                PROVE  IsEmpty /\ \A j \in Jobs : flag[j] # "none" => reply[j] # "none"
    BY DEF NothingStranded
  <2>1. DOMAIN lanes = {} /\ host = <<>> /\ owner.job = NoJob
    BY DEF RuntimeInv, ClosedStaysEmpty, OwnerHolds
  <2>2. WaitingJobs = {}
    BY <2>1, HeldJobs DEF RuntimeInv, SchedulerInv, QueueInv, WaitingJobs
  <2>3. \A j \in Jobs : j # owner.job
    BY <2>1, RuntimeAssumption
  <2>. QED  BY <2>1, <2>2, <2>3 DEF RuntimeInv, AnswerInv, IsEmpty
<1>. QED  BY <1>1, RuntimeIsInvariant, PTL

\* A live grant has its lane until the broker closes, of the same agent, and a
\* lane whose lease surely runs has its grant: the two registries that are
\* changed under the mutex never drift apart, also when one of them refuses.
THEOREM GrantsMatchLanesHolds == RuntimeSpec => []GrantsMatchLanes
<1>1. RuntimeInv => GrantsMatchLanes
  <2>. SUFFICES ASSUME RuntimeInv PROVE GrantsMatchLanes
    OBVIOUS
  <2>1. DOMAIN LiveGrants = {g \in DOMAIN grants : grants[g].expires > clock}
    BY DEF LiveGrants, Restrict
  <2>2. /\ clock \in Nat /\ ClockReads \subseteq Nat
        /\ \A g \in DOMAIN lanes : lanes[g].expires \in Nat
        /\ \A g \in DOMAIN grants : grants[g].expires \in Nat
    BY LaneTypes, RuntimeAssumption DEF RuntimeInv, GrantInv
  <2>3. ASSUME NEW g \in DOMAIN LiveGrants
        PROVE  /\ g \in DOMAIN lanes \/ closed
               /\ g \in DOMAIN lanes => lanes[g].agent = grants[g].agent
    BY <2>1, <2>2, <2>3 DEF RuntimeInv, GrantInv, Pairs
  <2>4. ASSUME NEW g \in DOMAIN lanes, \A later \in ClockReads : lanes[g].expires > clock + later
        PROVE  g \in DOMAIN LiveGrants
    <3>1. g \in DOMAIN grants
      BY <2>2, <2>4 DEF RuntimeInv, GrantInv, LaneIsOver
    <3>2. PICK later \in ClockReads : lanes[g].expires = grants[g].expires + later
      BY <3>1 DEF RuntimeInv, GrantInv, Pairs
    <3>3. grants[g].expires > clock
      BY <2>2, <2>4, <3>1, <3>2
    <3>. QED  BY <2>1, <3>1, <3>3
  <2>. QED  BY <2>3, <2>4 DEF GrantsMatchLanes
<1>. QED  BY <1>1, RuntimeIsInvariant, PTL

\* The queue keeps what it promises on its own in the hands of the process, too:
\* its turns and byte counters are exact and a cancelled job is never Ready.
THEOREM RuntimeKeepsQueue ==
    RuntimeSpec => [](TurnsAreExact /\ BytesAreExact /\ CancelIsDefinitive)
<1>1. RuntimeInv => TurnsAreExact /\ BytesAreExact
  BY DEF RuntimeInv, SchedulerInv, QueueInv
<1>2. RuntimeInv => CancelIsDefinitive
  BY DEF RuntimeInv, SchedulerInv, CancelInv, JobTypes, ToldAreCancelled, ReadyWonTheFlag,
         CancelIsDefinitive
<1>. QED  BY <1>1, <1>2, RuntimeIsInvariant, PTL

=============================================================================
