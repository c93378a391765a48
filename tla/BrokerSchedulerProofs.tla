------------------------ MODULE BrokerSchedulerProofs ------------------------
(***************************************************************************)
(* The admission queue for every number of jobs, agents and grants and all *)
(* limits.                                                                 *)
(*                                                                         *)
(* Cancellation first: a job whose handler was told that it cannot start   *)
(* is cancelled for good, and a Ready job has its flag past the point      *)
(* where cancel() can win it; that is about flags alone.  Then the queue:  *)
(* a job waits in one place and only once, so that a lane's byte counter,  *)
(* a sum over its jobs, follows every job that comes and goes; and a       *)
(* job's wait ends no later than the lease of its lane.  Last, the order   *)
(* in which lanes and jobs are served, step by step.                       *)
(***************************************************************************)
EXTENDS BrokerScheduler, FoldLemmas

\* Types of the variables that cancellation is about.
JobTypes ==
    /\ flag \in [Jobs -> Flags]
    /\ status \in [Jobs -> Statuses]
    /\ told \subseteq Jobs

\* Who was told so stays cancelled until its slot is used again.
ToldAreCancelled == \A j \in told : flag[j] = "cancelled"

\* Ready is said of a job only after its flag was won by dispatch().
ReadyWonTheFlag ==
    \A j \in Jobs : status[j] = "Ready" => flag[j] \in {"dispatched", "finished"}

CancelInv == JobTypes /\ ToldAreCancelled /\ ReadyWonTheFlag

USE DEF Flags, Statuses

\* Removing lanes, or draining, cancels what waits in them.
LEMMA CancelWaitingCancel ==
    ASSUME CancelInv, NEW jobs, CancelWaiting(jobs)
    PROVE  CancelInv'
<1>1. JobTypes'
  BY DEF CancelInv, JobTypes, CancelWaiting
<1>2. ToldAreCancelled'
  BY DEF CancelInv, JobTypes, ToldAreCancelled, CancelWaiting
<1>3. ReadyWonTheFlag'
  BY DEF CancelInv, JobTypes, ReadyWonTheFlag, CancelWaiting
<1>. QED  BY <1>1, <1>2, <1>3 DEF CancelInv

\* Admission takes a free slot: nobody was told anything about it.
LEMMA AdmissionCancel ==
    ASSUME CancelInv, NEW j \in Jobs, flag[j] = "none",
           flag' = [flag EXCEPT ![j] = "queued"], UNCHANGED <<status, told>>
    PROVE  CancelInv'
<1>1. JobTypes'
  BY DEF CancelInv, JobTypes
<1>2. ToldAreCancelled'
  BY DEF CancelInv, JobTypes, ToldAreCancelled
<1>3. ReadyWonTheFlag'
  BY DEF CancelInv, JobTypes, ReadyWonTheFlag
<1>. QED  BY <1>1, <1>2, <1>3 DEF CancelInv

\* The first half of dispatch() only ever says Cancelled.
LEMMA PopCancel ==
    ASSUME CancelInv, NEW j \in Jobs, Pop(j)
    PROVE  CancelInv'
<1>1. JobTypes'
  BY DEF CancelInv, JobTypes, Pop
<1>2. ToldAreCancelled'
  BY DEF CancelInv, JobTypes, ToldAreCancelled, Pop
<1>3. ReadyWonTheFlag'
  BY DEF CancelInv, JobTypes, ReadyWonTheFlag, Pop
<1>. QED  BY <1>1, <1>2, <1>3 DEF CancelInv

\* The second half says Ready only of a job whose flag it wins, which no
\* handler was told about.
LEMMA DispatchCancel ==
    ASSUME CancelInv, Dispatch
    PROVE  CancelInv'
<1>1. PICK p \in popped : Decided(p) /\ told' = told
  BY DEF Dispatch
<1>2. JobTypes'
  BY <1>1 DEF CancelInv, JobTypes, Decided
<1>3. ToldAreCancelled'
  BY <1>1 DEF CancelInv, JobTypes, ToldAreCancelled, Decided
<1>4. ReadyWonTheFlag'
  BY <1>1 DEF CancelInv, JobTypes, ReadyWonTheFlag, Decided
<1>. QED  BY <1>2, <1>3, <1>4 DEF CancelInv

\* cancel() says true only of a job that is cancelled when it returns.
LEMMA CancelCancel ==
    ASSUME CancelInv, NEW j \in Jobs, Cancel(j)
    PROVE  CancelInv'
<1>1. JobTypes'
  BY DEF CancelInv, JobTypes, Cancel
<1>2. ToldAreCancelled'
  BY DEF CancelInv, JobTypes, ToldAreCancelled, Cancel
<1>3. ReadyWonTheFlag'
  BY DEF CancelInv, JobTypes, ReadyWonTheFlag, Cancel
<1>. QED  BY <1>1, <1>2, <1>3 DEF CancelInv

\* The end of a job, and the end of everybody's interest in it.
LEMMA EndCancel ==
    ASSUME CancelInv, NEW j \in Jobs, Finish(j) \/ Retire(j)
    PROVE  CancelInv'
<1>1. JobTypes'
  BY DEF CancelInv, JobTypes, Finish, Retire
<1>2. ToldAreCancelled'
  BY DEF CancelInv, JobTypes, ToldAreCancelled, Finish, Retire
<1>3. ReadyWonTheFlag'
  BY DEF CancelInv, JobTypes, ReadyWonTheFlag, Finish, Retire
<1>. QED  BY <1>1, <1>2, <1>3 DEF CancelInv

\* What the holder of the mutex does.
LEMMA OwnerCancel ==
    ASSUME CancelInv, Owner
    PROVE  CancelInv'
<1>1. ASSUME NEW g \in Grants, NEW agent \in Agents, NEW lease \in Leases,
             Register({}, g, agent, clock + lease)
      PROVE  CancelInv'
  <2>1. PICK jobs : CancelWaiting(jobs)
    BY <1>1 DEF Register
  <2>. QED  BY <2>1, CancelWaitingCancel
<1>2. ASSUME NEW agent \in Agents, HostRevoke(agent)
      PROVE  CancelInv'
  <2>1. PICK jobs : CancelWaiting(jobs)
    BY <1>2 DEF HostRevoke, RemoveLanes
  <2>. QED  BY <2>1, CancelWaitingCancel
<1>3. CASE HostPrune
  <2>1. PICK jobs : CancelWaiting(jobs)
    BY <1>3 DEF HostPrune, RemoveLanes
  <2>. QED  BY <2>1, CancelWaitingCancel
<1>4. CASE HostDrain
  <2>1. PICK jobs : CancelWaiting(jobs)
    BY <1>4 DEF HostDrain
  <2>. QED  BY <2>1, CancelWaitingCancel
<1>5. ASSUME NEW j \in AgentJobs, NEW g \in Grants, NEW wait \in Waits,
             EnqueueAgent(j, g, wait)
      PROVE  CancelInv'
  BY <1>5, AdmissionCancel DEF EnqueueAgent, AgentJobs
<1>6. ASSUME NEW j \in HostJobs, NEW wait \in Waits, EnqueueHost(j, wait)
      PROVE  CancelInv'
  BY <1>6, AdmissionCancel, SchedulerAssumption DEF EnqueueHost
<1>7. ASSUME NEW j \in Jobs, Pop(j)
      PROVE  CancelInv'
  BY <1>7, PopCancel
<1>. QED  BY <1>1, <1>2, <1>3, <1>4, <1>5, <1>6, <1>7 DEF Owner

\* The flags, the statuses and what handlers were told agree in every
\* reachable state.
THEOREM CancelIsInvariant == SchedulerSpec => []CancelInv
<1>1. SchedulerInit => CancelInv
  BY DEF SchedulerInit, CancelInv, JobTypes, ToldAreCancelled, ReadyWonTheFlag
<1>2. CancelInv /\ [SchedulerNext]_schedulerVars => CancelInv'
  <2>. SUFFICES ASSUME CancelInv, [SchedulerNext]_schedulerVars
                PROVE  CancelInv'
    OBVIOUS
  <2>1. CASE Owner
    BY <2>1, OwnerCancel
  <2>2. CASE Dispatch
    BY <2>2, DispatchCancel
  <2>3. ASSUME NEW j \in Jobs, Cancel(j) \/ Finish(j) \/ Retire(j)
        PROVE  CancelInv'
    BY <2>3, CancelCancel, EndCancel
  <2>4. CASE UNCHANGED jobVars
    BY <2>4 DEF jobVars, CancelInv, JobTypes, ToldAreCancelled, ReadyWonTheFlag
  <2>. QED
    BY <2>1, <2>2, <2>3, <2>4 DEF SchedulerNext, SchedulerTick, schedulerVars
<1>. QED  BY <1>1, <1>2, PTL DEF SchedulerSpec

\* cancel() keeps its promise: once it has returned true the job never becomes
\* Ready, wherever the call falls between the two reads of dispatch().
THEOREM CancelIsDefinitiveHolds == SchedulerSpec => []CancelIsDefinitive
<1>1. CancelInv => CancelIsDefinitive
  BY DEF CancelInv, JobTypes, ToldAreCancelled, ReadyWonTheFlag, CancelIsDefinitive
<1>. QED  BY <1>1, CancelIsInvariant, PTL

-----------------------------------------------------------------------------
(* The order in a queue.                                                   *)

\* Who joins at the end overtakes nobody.
LEMMA JoinsBehind ==
    ASSUME NEW S, NEW s \in Seq(S), NEW e \in S, e \notin ToSet(s)
    PROVE  /\ \A x \in ToSet(s) : Ahead(Append(s, e), x) \subseteq Ahead(s, x)
           /\ Ahead(Append(s, e), e) = ToSet(s)
           /\ InOrder(s, Append(s, e)) /\ Left(s, Append(s, e)) = {}
<1>. DEFINE t == Append(s, e)
<1>1. /\ Len(s) \in Nat /\ DOMAIN s = 1 .. Len(s) /\ DOMAIN t = 1 .. (Len(s) + 1)
      /\ t[Len(s) + 1] = e /\ \A n \in 1 .. Len(s) : t[n] = s[n]
  OBVIOUS
<1>2. ToSet(t) = ToSet(s) \cup {e}
  BY AppendElements
<1>. HIDE DEF t
<1>3. \A n \in 1 .. Len(s) : s[n] \in ToSet(s)
  BY <1>1 DEF ToSet
<1>4. ASSUME NEW x \in ToSet(s), NEW y \in Ahead(t, x) PROVE y \in Ahead(s, x)
  <2>1. PICK m \in DOMAIN t, k \in DOMAIN t : m < k /\ t[k] = x /\ y = t[m]
    BY <1>4 DEF Ahead
  <2>2. k # Len(s) + 1
    BY <1>1, <1>4, <2>1
  <2>3. k \in DOMAIN s /\ m \in DOMAIN s /\ s[k] = x /\ y = s[m]
    BY <1>1, <2>1, <2>2
  <2>. QED  BY <2>1, <2>3 DEF Ahead
<1>5. ASSUME NEW y \in Ahead(t, e) PROVE y \in ToSet(s)
  <2>1. PICK m \in DOMAIN t, k \in DOMAIN t : m < k /\ t[k] = e /\ y = t[m]
    BY <1>5 DEF Ahead
  <2>2. m \in 1 .. Len(s)
    BY <1>1, <2>1
  <2>. QED  BY <1>1, <1>3, <2>1, <2>2
<1>6. ASSUME NEW y \in ToSet(s) PROVE y \in Ahead(t, e)
  <2>1. PICK m \in 1 .. Len(s) : y = s[m]
    BY <1>1, <1>6 DEF ToSet
  <2>2. m \in DOMAIN t /\ Len(s) + 1 \in DOMAIN t /\ m < Len(s) + 1 /\ y = t[m]
    BY <1>1, <2>1
  <2>. QED  BY <1>1, <2>2 DEF Ahead
<1>7. InOrder(s, t) /\ Left(s, t) = {}
  BY <1>2, <1>4 DEF InOrder, Left
<1>. QED  BY <1>4, <1>5, <1>6, <1>7 DEF t

\* The first leaves, and was behind nobody.
LEMMA FirstLeaves ==
    ASSUME NEW S, NEW s \in Seq(S), s # <<>>, IsInjective(s)
    PROVE  /\ \A x : Ahead(Tail(s), x) \subseteq Ahead(s, x)
           /\ Ahead(s, Head(s)) = {}
           /\ InOrder(s, Tail(s)) /\ Left(s, Tail(s)) = {Head(s)}
<1>. DEFINE t == Tail(s)
<1>1. /\ Len(s) \in Nat \ {0} /\ DOMAIN s = 1 .. Len(s) /\ DOMAIN t = 1 .. (Len(s) - 1)
      /\ Head(s) = s[1] /\ \A n \in 1 .. (Len(s) - 1) : t[n] = s[n + 1]
  OBVIOUS
<1>2. Head(s) \in ToSet(s) /\ ToSet(t) = ToSet(s) \ {Head(s)}
  BY TailElements
<1>. HIDE DEF t
<1>3. ASSUME NEW x, NEW y \in Ahead(t, x) PROVE y \in Ahead(s, x)
  <2>1. PICK m \in DOMAIN t, k \in DOMAIN t : m < k /\ t[k] = x /\ y = t[m]
    BY <1>3 DEF Ahead
  <2>2. m + 1 \in DOMAIN s /\ k + 1 \in DOMAIN s /\ m + 1 < k + 1
        /\ s[k + 1] = x /\ y = s[m + 1]
    BY <1>1, <2>1
  <2>. QED  BY <2>2 DEF Ahead
<1>4. ASSUME NEW y \in Ahead(s, Head(s)) PROVE FALSE
  <2>1. PICK m \in DOMAIN s, k \in DOMAIN s : m < k /\ s[k] = Head(s)
    BY <1>4 DEF Ahead
  <2>2. k = 1
    BY <1>1, <2>1 DEF IsInjective
  <2>. QED  BY <1>1, <2>1, <2>2
<1>5. Left(s, t) = {Head(s)}
  BY <1>2 DEF Left
<1>6. InOrder(s, t)
  <2>. SUFFICES ASSUME NEW x \in ToSet(s), x \notin ToSet(t)
                PROVE  Ahead(s, x) \cap ToSet(t) = {}
    BY <1>3 DEF InOrder
  <2>1. x = Head(s)
    BY <1>2
  <2>. QED  BY <1>4, <2>1
<1>. QED  BY <1>3, <1>4, <1>5, <1>6 DEF t

-----------------------------------------------------------------------------
(* The queues.                                                             *)

\* What waits in a lane, and everywhere.
HeldBy(g) == ToSet(lanes[g].jobs)

WaitingJobs == JobsIn(DOMAIN lanes) \cup ToSet(host)

AgentLanes == [agent : Agents, expires : Nat, jobs : Seq(AgentJobs), bytes : Nat]

\* Types of the queues.  An agent's job is never in the host's queue.
QueueTypes ==
    /\ lanes \in [DOMAIN lanes -> AgentLanes]
    /\ DOMAIN lanes \subseteq Grants
    /\ IsFiniteSet(DOMAIN lanes)
    /\ active \in Seq(Grants)
    /\ host \in Seq(HostJobs) /\ hostBytes \in Nat

\* A job waits at one place of one queue.
WaitsOnce ==
    /\ IsInjective(host)
    /\ \A g \in DOMAIN lanes : IsInjective(lanes[g].jobs)
    /\ \A g, h \in DOMAIN lanes : g # h => HeldBy(g) \cap HeldBy(h) = {}

QueueInv == QueueTypes /\ WaitsOnce /\ TurnsAreExact /\ BytesAreExact

\* The function by which WithoutTurns is defined.
IsKept(kept, keys) ==
    kept = [n \in 0 .. Len(active) |->
                IF n = 0 THEN <<>>
                ELSE IF active[n] \in keys THEN kept[n - 1] ELSE Append(kept[n - 1], active[n])]

\* The recursion of retain() ends.
LEMMA KeptExists ==
    ASSUME active \in Seq(Grants), NEW keys
    PROVE  \E kept : IsKept(kept, keys)
<1>. DEFINE At(f, n) == IF n = 0 THEN <<>>
                        ELSE IF active[n] \in keys THEN f[n - 1] ELSE Append(f[n - 1], active[n])
            N == {m \in Nat : \E f : f = [n \in 0 .. m |-> At(f, n)]}
<1>1. 0 \in N
  <2>. DEFINE f == [n \in 0 .. 0 |-> <<>>]
  <2>1. f = [n \in 0 .. 0 |-> At(f, n)]
    OBVIOUS
  <2>. QED  BY <2>1
<1>2. ASSUME NEW m \in Nat, m \in N PROVE m + 1 \in N
  <2>1. PICK f : f = [n \in 0 .. m |-> At(f, n)]
    BY <1>2
  <2>. DEFINE g == [n \in 0 .. (m + 1) |-> At(f, n)]
  <2>2. \A n \in 0 .. m : g[n] = f[n]
    <3>1. \A n \in 0 .. m : n \in 0 .. (m + 1)
      OBVIOUS
    <3>. HIDE DEF At
    <3>2. \A n \in 0 .. m : f[n] = At(f, n)
      BY <2>1
    <3>. QED  BY <3>1, <3>2
  <2>3. \A n \in 0 .. (m + 1) : n # 0 => n - 1 \in 0 .. m
    OBVIOUS
  <2>4. \A n \in 0 .. (m + 1) : At(f, n) = At(g, n)
    BY <2>2, <2>3
  <2>5. g = [n \in 0 .. (m + 1) |-> At(g, n)]
    BY <2>4
  <2>. HIDE DEF At, g
  <2>6. \E h : h = [n \in 0 .. (m + 1) |-> At(h, n)]
    BY <2>5
  <2>. QED  BY <2>6
<1>. HIDE DEF N
<1>3. Len(active) \in N
  <2>1. Len(active) \in Nat
    OBVIOUS
  <2>. QED  BY <1>1, <1>2, <2>1, NatSetInduction
<1>. QED  BY <1>3 DEF N, IsKept

\* retain() keeps the other lanes' turns, each once and in their order.
LEMMA TurnsKept ==
    ASSUME active \in Seq(Grants), IsInjective(active), NEW keys
    PROVE  /\ WithoutTurns(keys) \in Seq(Grants)
           /\ IsInjective(WithoutTurns(keys))
           /\ ToSet(WithoutTurns(keys)) = ToSet(active) \ keys
           /\ \A g \in ToSet(WithoutTurns(keys)) :
                 Ahead(WithoutTurns(keys), g) \subseteq Ahead(active, g)
<1>. DEFINE kept == CHOOSE k : IsKept(k, keys)
            First(n) == {active[i] : i \in 1 .. n}
            Good(n) == /\ kept[n] \in Seq(Grants) /\ IsInjective(kept[n])
                       /\ ToSet(kept[n]) = First(n) \ keys
                       /\ \A x \in ToSet(kept[n]) : Ahead(kept[n], x) \subseteq Ahead(active, x)
            N == {n \in Nat : n <= Len(active) => Good(n)}
<1>1. WithoutTurns(keys) = kept[Len(active)]
  BY DEF WithoutTurns, IsKept
<1>2. IsKept(kept, keys)
  BY KeptExists
<1>3. Len(active) \in Nat /\ DOMAIN active = 1 .. Len(active)
      /\ \A i \in 1 .. Len(active) : active[i] \in Grants
  OBVIOUS
<1>. HIDE DEF kept
<1>4. kept[0] = <<>>
  BY <1>2, <1>3 DEF IsKept
<1>5. \A n \in 0 .. Len(active) : n # 0 =>
          kept[n] = IF active[n] \in keys THEN kept[n - 1] ELSE Append(kept[n - 1], active[n])
  BY <1>2 DEF IsKept
<1>6. 0 \in N
  <2>1. ToSet(<<>>) = {} /\ IsInjective(<<>>) /\ <<>> \in Seq(Grants)
    BY DEF ToSet, IsInjective
  <2>2. First(0) = {}
    OBVIOUS
  <2>. HIDE DEF First
  <2>3. Good(0)
    BY <1>4, <2>1, <2>2
  <2>. QED  BY <2>3
<1>7. ASSUME NEW n \in Nat, n \in N PROVE n + 1 \in N
  <2>. SUFFICES ASSUME n + 1 <= Len(active) PROVE Good(n + 1)
    OBVIOUS
  <2>1. Good(n) /\ n + 1 \in 1 .. Len(active) /\ n + 1 \in 0 .. Len(active) /\ n + 1 # 0
        /\ (n + 1) - 1 = n
    BY <1>3, <1>7
  <2>. DEFINE g == active[n + 1]
  <2>2. g \in Grants /\ kept[n + 1] = IF g \in keys THEN kept[n] ELSE Append(kept[n], g)
    BY <1>3, <1>5, <2>1
  <2>3. First(n + 1) = First(n) \cup {g}
    <3>1. \A i \in 1 .. (n + 1) : i \in 1 .. n \/ i = n + 1
      OBVIOUS
    <3>2. \A i \in 1 .. n : i \in 1 .. (n + 1)
      OBVIOUS
    <3>. QED  BY <2>1, <3>1, <3>2
  <2>4. g \notin First(n)
    <3>1. \A i \in 1 .. n : i \in 1 .. Len(active) /\ i # n + 1
      BY <1>3, <2>1
    <3>. QED  BY <1>3, <2>1, <3>1 DEF IsInjective
  <2>7. First(n) \subseteq Ahead(active, g)
    <3>1. \A i \in 1 .. n : i \in DOMAIN active /\ n + 1 \in DOMAIN active /\ i < n + 1
      BY <1>3, <2>1
    <3>. QED  BY <3>1 DEF Ahead
  <2>. HIDE DEF g, First
  <2>5. CASE g \in keys
    BY <2>1, <2>2, <2>3, <2>5
  <2>6. CASE g \notin keys
    <3>1. g \notin ToSet(kept[n]) /\ kept[n] \in Seq(Grants) /\ kept[n + 1] = Append(kept[n], g)
          /\ ToSet(kept[n]) \subseteq First(n)
      BY <2>1, <2>2, <2>4, <2>6
    <3>2. /\ kept[n + 1] \in Seq(Grants) /\ IsInjective(kept[n + 1])
          /\ ToSet(kept[n + 1]) = ToSet(kept[n]) \cup {g}
      BY <2>1, <2>2, <3>1, AppendElements
    <3>3. /\ \A x \in ToSet(kept[n]) : Ahead(kept[n + 1], x) \subseteq Ahead(kept[n], x)
          /\ Ahead(kept[n + 1], g) = ToSet(kept[n])
      BY <2>2, <3>1, JoinsBehind
    <3>4. \A x \in ToSet(kept[n + 1]) : Ahead(kept[n + 1], x) \subseteq Ahead(active, x)
      BY <2>1, <2>7, <3>1, <3>2, <3>3
    <3>. QED  BY <2>1, <2>3, <2>6, <3>2, <3>4
  <2>. QED  BY <2>5, <2>6
<1>. HIDE DEF N
<1>8. Len(active) \in N
  BY <1>3, <1>6, <1>7, NatSetInduction
<1>9. Good(Len(active))
  BY <1>3, <1>8 DEF N
<1>10. First(Len(active)) = ToSet(active)
  BY <1>3 DEF ToSet
<1>. QED  BY <1>1, <1>9, <1>10

\* The bytes of all lanes, as a sum over a set.
LEMMA QueuedIsSum ==
    ASSUME QueueTypes
    PROVE  LET bytes == [g \in DOMAIN lanes |-> lanes[g].bytes] IN
           /\ QueuedBytes = SumFunctionOnSet(bytes, DOMAIN lanes)
           /\ \A g \in DOMAIN lanes : bytes[g] \in Nat
BY DEF QueueTypes, AgentLanes, QueuedBytes, SumFunction

\* What waits in lanes, by lane.
LEMMA HeldJobs ==
    ASSUME QueueTypes
    PROVE  /\ \A keys \in SUBSET DOMAIN lanes : \A j :
                 j \in JobsIn(keys) <=> \E g \in keys : j \in HeldBy(g)
           /\ \A g \in DOMAIN lanes : HeldBy(g) \subseteq AgentJobs
           /\ \A g \in DOMAIN lanes : HeldBy(g) = {} <=> lanes[g].jobs = <<>>
           /\ ToSet(host) \subseteq HostJobs
           /\ host = <<>> <=> ToSet(host) = {}
           /\ JobsIn(DOMAIN lanes) \cap ToSet(host) = {}
<1>1. \A g \in DOMAIN lanes : lanes[g].jobs \in Seq(AgentJobs)
  BY DEF QueueTypes, AgentLanes
<1>2. \A g \in DOMAIN lanes : HeldBy(g) \subseteq AgentJobs
                              /\ (HeldBy(g) = {} <=> lanes[g].jobs = <<>>)
  BY <1>1, SeqElements DEF HeldBy
<1>3. ToSet(host) \subseteq HostJobs /\ (host = <<>> <=> ToSet(host) = {})
  BY SeqElements DEF QueueTypes
<1>4. \A keys \in SUBSET DOMAIN lanes : \A j :
          j \in JobsIn(keys) <=> \E g \in keys : j \in HeldBy(g)
  BY DEF JobsIn, HeldBy
<1>5. AgentJobs \cap HostJobs = {}
  BY DEF AgentJobs
<1>. QED  BY <1>2, <1>3, <1>4, <1>5

\* Lanes are removed, replaced or pruned: those in kept stay as they are, and
\* at most one empty lane is added.
LEMMA LanesChange ==
    ASSUME QueueInv, NEW kept \in SUBSET DOMAIN lanes, NEW new \in SUBSET Grants,
           new = {} \/ (\E g : new = {g}), kept \cap new = {},
           lanes' \in [kept \cup new -> AgentLanes],
           \A g \in kept : lanes'[g] = lanes[g],
           \A g \in new : lanes'[g].jobs = <<>> /\ lanes'[g].bytes = 0,
           active' = WithoutTurns(DOMAIN lanes \ kept), UNCHANGED <<host, hostBytes>>
    PROVE  /\ QueueInv'
           /\ WaitingJobs' = WaitingJobs \ JobsIn(DOMAIN lanes \ kept)
<1>. USE DEF QueueInv
<1>1. DOMAIN lanes' = kept \cup new
  OBVIOUS
<1>2. QueueTypes'
  <2>1. IsFiniteSet(kept) /\ IsFiniteSet(new)
    BY FS_Subset, FS_Singleton, FS_EmptySet DEF QueueTypes
  <2>2. IsFiniteSet(kept \cup new)
    BY <2>1, FS_Union
  <2>3. active' \in Seq(Grants)
    BY TurnsKept DEF QueueTypes, TurnsAreExact
  <2>. QED  BY <1>1, <2>2, <2>3 DEF QueueTypes
<1>3. \A g \in kept : HeldBy(g)' = HeldBy(g)
  BY DEF HeldBy
<1>4. \A g \in new : HeldBy(g)' = {}
  BY DEF HeldBy, ToSet
<1>5. WaitsOnce'
  <2>1. \A g \in new : IsInjective(lanes'[g].jobs)
    BY DEF IsInjective
  <2>. QED  BY <1>1, <1>3, <1>4, <2>1 DEF WaitsOnce
<1>6. TurnsAreExact'
  <2>1. IsInjective(active') /\ ToSet(active') = ToSet(active) \ (DOMAIN lanes \ kept)
    BY TurnsKept DEF QueueTypes, TurnsAreExact
  <2>2. {g \in DOMAIN lanes' : lanes'[g].jobs # <<>>} = {g \in kept : lanes[g].jobs # <<>>}
    BY <1>1
  <2>3. ToSet(active) = {g \in DOMAIN lanes : lanes[g].jobs # <<>>}
    BY DEF TurnsAreExact
  <2>4. ToSet(active) \ (DOMAIN lanes \ kept) = {g \in kept : lanes[g].jobs # <<>>}
    BY <2>3
  <2>. QED  BY <2>1, <2>2, <2>4 DEF TurnsAreExact
<1>7. QueuedBytes' <= QueuedBytes /\ QueuedBytes \in Nat /\ QueuedBytes' \in Nat
  <2>. DEFINE b == [g \in DOMAIN lanes |-> lanes[g].bytes]
              c == [g \in DOMAIN lanes' |-> lanes'[g].bytes]
  <2>1. QueuedBytes = SumFunctionOnSet(b, DOMAIN lanes) /\ \A g \in DOMAIN lanes : b[g] \in Nat
    BY QueuedIsSum
  <2>2. QueuedBytes' = SumFunctionOnSet(c, DOMAIN lanes')
    BY DEF QueuedBytes, SumFunction
  <2>3. \A g \in kept : c[g] = b[g]
    BY <1>1
  <2>4. \A g \in new : c[g] = 0
    BY <1>1
  <2>. HIDE DEF b, c
  <2>5. IsFiniteSet(DOMAIN lanes) /\ IsFiniteSet(kept) /\ IsFiniteSet(DOMAIN lanes')
    BY <1>2, FS_Subset DEF QueueTypes
  <2>6. SumFunctionOnSet(c, kept) = SumFunctionOnSet(b, kept)
    BY <2>1, <2>3, <2>5, SumAgrees
  <2>7. SumFunctionOnSet(b, kept) <= SumFunctionOnSet(b, DOMAIN lanes)
    BY <2>1, <2>5, SumSubset
  <2>8. \A g \in DOMAIN lanes' : c[g] \in Nat
    BY <1>1, <2>1, <2>3, <2>4
  <2>9. SumFunctionOnSet(c, kept) \in Nat /\ SumFunctionOnSet(b, DOMAIN lanes) \in Nat
        /\ SumFunctionOnSet(c, DOMAIN lanes') \in Nat
    BY <1>1, <2>1, <2>5, <2>8, SumOnSet
  <2>10. SumFunctionOnSet(c, DOMAIN lanes') = SumFunctionOnSet(c, kept)
    <3>1. CASE new = {}
      BY <1>1, <3>1
    <3>2. ASSUME NEW g, new = {g}
          PROVE  SumFunctionOnSet(c, DOMAIN lanes') = SumFunctionOnSet(c, kept)
      <4>1. g \in DOMAIN lanes' /\ DOMAIN lanes' \ {g} = kept
        BY <1>1, <3>2
      <4>2. SumFunctionOnSet(c, DOMAIN lanes') = c[g] + SumFunctionOnSet(c, DOMAIN lanes' \ {g})
        BY <2>5, <2>8, <4>1, SumOnSet
      <4>3. c[g] = 0
        BY <2>4, <3>2
      <4>4. SumFunctionOnSet(c, DOMAIN lanes') = 0 + SumFunctionOnSet(c, kept)
        BY <4>1, <4>2, <4>3
      <4>. QED  BY <2>9, <4>4
    <3>. QED  BY <3>1, <3>2
  <2>. QED  BY <2>1, <2>2, <2>6, <2>7, <2>9, <2>10
<1>8. BytesAreExact'
  <2>1. \A g \in new : SumFunctionOnSet(Size, ToSet(lanes'[g].jobs)) = 0
    <3>1. ToSet(<<>>) = {} /\ IsFiniteSet({})
      BY FS_EmptySet DEF ToSet
    <3>2. SumFunctionOnSet(Size, {}) = 0
      BY <3>1, SumOnSet
    <3>. QED  BY <3>1, <3>2
  <2>2. \A g \in DOMAIN lanes' :
            /\ lanes'[g].bytes = SumFunctionOnSet(Size, ToSet(lanes'[g].jobs))
            /\ lanes'[g].bytes <= LaneBytes
    BY <1>1, <2>1, SchedulerAssumption DEF BytesAreExact
  <2>3. QueuedBytes' <= MaxAgentBytes
    BY <1>7, SchedulerAssumption DEF BytesAreExact
  <2>. QED  BY <2>2, <2>3 DEF BytesAreExact
<1>9. WaitingJobs' = WaitingJobs \ JobsIn(DOMAIN lanes \ kept)
  <2>1. \A j : j \in JobsIn(DOMAIN lanes)' <=> \E g \in kept : j \in HeldBy(g)
    BY <1>1, <1>3, <1>4 DEF JobsIn, HeldBy
  <2>2. \A j : j \in JobsIn(DOMAIN lanes) <=> \E g \in DOMAIN lanes : j \in HeldBy(g)
    BY HeldJobs
  <2>3. \A j : j \in JobsIn(DOMAIN lanes \ kept) <=> \E g \in DOMAIN lanes \ kept : j \in HeldBy(g)
    BY HeldJobs
  <2>4. JobsIn(DOMAIN lanes \ kept) \cap ToSet(host) = {}
    BY <2>2, <2>3, HeldJobs
  <2>5. \A g \in kept, h \in DOMAIN lanes \ kept : HeldBy(g) \cap HeldBy(h) = {}
    BY DEF WaitsOnce
  <2>. QED  BY <2>1, <2>2, <2>3, <2>4, <2>5 DEF WaitingJobs
<1>. QED  BY <1>2, <1>5, <1>6, <1>8, <1>9

\* One lane changes: the bytes of all lanes change by as much.
LEMMA LaneUpdate ==
    ASSUME QueueTypes, NEW g \in DOMAIN lanes,
           lanes' \in [DOMAIN lanes -> AgentLanes],
           \A h \in DOMAIN lanes : h # g => lanes'[h] = lanes[h]
    PROVE  /\ QueuedBytes \in Nat /\ QueuedBytes' \in Nat
           /\ lanes[g].bytes \in Nat /\ lanes'[g].bytes \in Nat
           /\ lanes[g].bytes <= QueuedBytes
           /\ QueuedBytes' + lanes[g].bytes = QueuedBytes + lanes'[g].bytes
<1>. DEFINE b == [h \in DOMAIN lanes |-> lanes[h].bytes]
            c == [h \in DOMAIN lanes' |-> lanes'[h].bytes]
            rest == DOMAIN lanes \ {g}
<1>1. QueuedBytes = SumFunctionOnSet(b, DOMAIN lanes) /\ \A h \in DOMAIN lanes : b[h] \in Nat
  BY QueuedIsSum
<1>2. DOMAIN lanes' = DOMAIN lanes
  OBVIOUS
<1>3. QueuedBytes' = SumFunctionOnSet(c, DOMAIN lanes)
  BY <1>2 DEF QueuedBytes, SumFunction
<1>4. \A h \in DOMAIN lanes : c[h] \in Nat /\ (h # g => c[h] = b[h])
  BY <1>2 DEF AgentLanes
<1>5. b[g] = lanes[g].bytes /\ c[g] = lanes'[g].bytes
  BY <1>2
<1>6. IsFiniteSet(DOMAIN lanes) /\ IsFiniteSet(rest) /\ \A h \in rest : h \in DOMAIN lanes /\ h # g
  BY FS_Subset DEF QueueTypes
<1>. HIDE DEF b, c
<1>7. SumFunctionOnSet(b, DOMAIN lanes) = b[g] + SumFunctionOnSet(b, rest)
  BY <1>1, <1>6, SumOnSet
<1>8. SumFunctionOnSet(c, DOMAIN lanes) = c[g] + SumFunctionOnSet(c, rest)
  BY <1>4, <1>6, SumOnSet
<1>. HIDE DEF rest
<1>9. SumFunctionOnSet(b, rest) \in Nat
  BY <1>1, <1>6, SumOnSet
<1>10. SumFunctionOnSet(c, rest) = SumFunctionOnSet(b, rest)
  BY <1>1, <1>4, <1>6, SumAgrees
<1>11. b[g] \in Nat /\ c[g] \in Nat
  BY <1>1, <1>4
<1>. QED  BY <1>1, <1>3, <1>5, <1>7, <1>8, <1>9, <1>10, <1>11

\* The bytes of a set of jobs when one joins it.
LEMMA BytesJoin ==
    ASSUME NEW s \in Seq(Jobs), NEW j \in Jobs, j \notin ToSet(s)
    PROVE  /\ SumFunctionOnSet(Size, ToSet(s)) \in Nat
           /\ SumFunctionOnSet(Size, ToSet(s) \cup {j})
                = SumFunctionOnSet(Size, ToSet(s)) + Size[j]
<1>1. ToSet(s) \subseteq Jobs /\ ToSet(s) = {s[i] : i \in 1 .. Len(s)} /\ Len(s) \in Nat
  BY SeqElements
<1>2. IsFiniteSet(ToSet(s))
  <2>1. IsFiniteSet(1 .. Len(s))
    BY <1>1, FS_Interval
  <2>2. s \in Surjection(1 .. Len(s), ToSet(s))
    BY <1>1 DEF Surjection
  <2>. QED  BY <2>1, <2>2, FS_Surjection
<1>3. IsFiniteSet(ToSet(s) \cup {j})
  BY <1>2, FS_AddElement
<1>4. \A x \in ToSet(s) \cup {j} : Size[x] \in Nat
  BY <1>1, SchedulerAssumption
<1>5. (ToSet(s) \cup {j}) \ {j} = ToSet(s)
  OBVIOUS
<1>. DEFINE T == ToSet(s) \cup {j}
<1>. HIDE DEF T
<1>6. SumFunctionOnSet(Size, T) = Size[j] + SumFunctionOnSet(Size, T \ {j})
  BY <1>3, <1>4, SumOnSet DEF T
<1>7. SumFunctionOnSet(Size, ToSet(s)) \in Nat /\ Size[j] \in Nat
  BY <1>2, <1>4, SumOnSet
<1>8. T = ToSet(s) \cup {j} /\ T \ {j} = ToSet(s)
  BY <1>5 DEF T
<1>9. SumFunctionOnSet(Size, T) = Size[j] + SumFunctionOnSet(Size, ToSet(s))
  BY <1>6, <1>8
<1>10. SumFunctionOnSet(Size, T) = SumFunctionOnSet(Size, ToSet(s)) + Size[j]
  BY <1>7, <1>9
<1>. QED  BY <1>7, <1>8, <1>10

\* admit(): a job joins a lane, which gets a turn if it had none.
LEMMA JobJoinsLane ==
    ASSUME QueueInv, NEW g \in DOMAIN lanes, NEW j \in AgentJobs, j \notin WaitingJobs,
           QueuedBytes + Size[j] <= MaxAgentBytes, lanes[g].bytes + Size[j] <= LaneBytes,
           active' = IF lanes[g].jobs = <<>> THEN Append(active, g) ELSE active,
           lanes' = [lanes EXCEPT ![g].jobs = Append(@, j), ![g].bytes = @ + Size[j]],
           UNCHANGED <<host, hostBytes>>
    PROVE  /\ QueueInv'
           /\ WaitingJobs' = WaitingJobs \cup {j}
           /\ \A h \in DOMAIN lanes : HeldBy(h)' = IF h = g THEN HeldBy(g) \cup {j} ELSE HeldBy(h)
<1>. USE DEF QueueInv
<1>. DEFINE lane == lanes[g]
<1>1. lane \in AgentLanes /\ lane.jobs \in Seq(AgentJobs) /\ lane.bytes \in Nat
  BY DEF QueueTypes, AgentLanes
<1>2. Size[j] \in Nat /\ j \in Jobs
  BY SchedulerAssumption DEF AgentJobs
<1>3. j \notin HeldBy(g)
  BY HeldJobs DEF WaitingJobs
<1>4. /\ Append(lane.jobs, j) \in Seq(AgentJobs)
      /\ ToSet(Append(lane.jobs, j)) = HeldBy(g) \cup {j}
      /\ IsInjective(Append(lane.jobs, j))
  <2>1. IsInjective(lane.jobs) /\ HeldBy(g) = ToSet(lane.jobs)
    BY DEF WaitsOnce, HeldBy
  <2>. HIDE DEF lane
  <2>. QED  BY <1>1, <1>3, <2>1, AppendElements
<1>5. /\ DOMAIN lanes' = DOMAIN lanes
      /\ lanes'[g] = [lane EXCEPT !.jobs = Append(@, j), !.bytes = @ + Size[j]]
      /\ \A h \in DOMAIN lanes : h # g => lanes'[h] = lanes[h]
  BY DEF QueueTypes
<1>6. lanes'[g].jobs = Append(lane.jobs, j) /\ lanes'[g].bytes = lane.bytes + Size[j]
      /\ lanes'[g] \in AgentLanes
  <2>. DEFINE jobs == Append(lane.jobs, j)
              bytes == lane.bytes + Size[j]
  <2>1. lanes'[g] = [lane EXCEPT !.jobs = jobs, !.bytes = bytes]
    BY <1>5
  <2>2. jobs \in Seq(AgentJobs) /\ bytes \in Nat
    BY <1>1, <1>2, <1>4
  <2>. HIDE DEF jobs, bytes, lane
  <2>3. lanes'[g].jobs = jobs /\ lanes'[g].bytes = bytes /\ lanes'[g] \in AgentLanes
    BY <1>1, <2>1, <2>2 DEF AgentLanes
  <2>. QED  BY <2>3 DEF jobs, bytes
<1>7. lanes' \in [DOMAIN lanes -> AgentLanes]
  BY <1>5, <1>6 DEF QueueTypes
<1>8. \A h \in DOMAIN lanes : HeldBy(h)' = IF h = g THEN HeldBy(g) \cup {j} ELSE HeldBy(h)
  BY <1>4, <1>5, <1>6 DEF HeldBy
<1>9. ToSet(active) = {h \in DOMAIN lanes : lanes[h].jobs # <<>>} /\ IsInjective(active)
      /\ active \in Seq(Grants) /\ g \in Grants
  BY DEF TurnsAreExact, QueueTypes
<1>10. active' \in Seq(Grants) /\ IsInjective(active')
       /\ ToSet(active') = ToSet(active) \cup {g}
  <2>1. CASE lane.jobs = <<>>
    BY <1>9, <2>1, AppendElements
  <2>2. CASE lane.jobs # <<>>
    BY <1>9, <2>2
  <2>. QED  BY <2>1, <2>2
<1>11. QueueTypes'
  BY <1>5, <1>7, <1>10 DEF QueueTypes
<1>12. WaitsOnce'
  <2>1. \A h \in DOMAIN lanes : h # g => j \notin HeldBy(h)
    BY HeldJobs DEF WaitingJobs
  <2>2. IsInjective(lanes'[g].jobs)
    BY <1>4, <1>6
  <2>3. \A h, k \in DOMAIN lanes : h # k => HeldBy(h)' \cap HeldBy(k)' = {}
    BY <1>8, <2>1 DEF WaitsOnce
  <2>. QED  BY <1>5, <2>2, <2>3 DEF WaitsOnce
<1>13. TurnsAreExact'
  <2>1. Append(lane.jobs, j) # <<>>
    BY <1>1
  <2>2. {h \in DOMAIN lanes' : lanes'[h].jobs # <<>>} = ToSet(active) \cup {g}
    BY <1>5, <1>6, <1>9, <2>1
  <2>. QED  BY <1>10, <2>2 DEF TurnsAreExact
<1>14. BytesAreExact'
  <2>1. /\ SumFunctionOnSet(Size, HeldBy(g)) \in Nat
        /\ SumFunctionOnSet(Size, HeldBy(g) \cup {j}) = SumFunctionOnSet(Size, HeldBy(g)) + Size[j]
    <3>1. lane.jobs \in Seq(Jobs)
      BY <1>1 DEF AgentJobs
    <3>. QED  BY <1>2, <1>3, <3>1, BytesJoin DEF HeldBy
  <2>2. lane.bytes = SumFunctionOnSet(Size, HeldBy(g))
    BY DEF BytesAreExact, HeldBy
  <2>3. lanes'[g].bytes = SumFunctionOnSet(Size, ToSet(lanes'[g].jobs))
    BY <1>4, <1>6, <2>1, <2>2
  <2>4. lanes'[g].bytes <= LaneBytes
    BY <1>6
  <2>5. \A h \in DOMAIN lanes' :
            /\ lanes'[h].bytes = SumFunctionOnSet(Size, ToSet(lanes'[h].jobs))
            /\ lanes'[h].bytes <= LaneBytes
    BY <1>5, <2>3, <2>4 DEF BytesAreExact
  <2>6. QueuedBytes' <= MaxAgentBytes
    <3>1. /\ QueuedBytes \in Nat /\ QueuedBytes' \in Nat /\ lanes[g].bytes \in Nat
          /\ QueuedBytes' + lanes[g].bytes = QueuedBytes + lanes'[g].bytes
      <4>1. QueueTypes
        OBVIOUS
      <4>. QED  BY ONLY <1>5, <1>7, <4>1, g \in DOMAIN lanes, LaneUpdate
    <3>2. QueuedBytes' = QueuedBytes + Size[j]
      <4>1. lanes'[g].bytes = lanes[g].bytes + Size[j] /\ Size[j] \in Nat
        BY <1>2, <1>6
      <4>. QED  BY ONLY <3>1, <4>1
    <3>. QED  BY <3>2
  <2>. QED  BY <2>5, <2>6 DEF BytesAreExact
<1>15. WaitingJobs' = WaitingJobs \cup {j}
  <2>1. \A i : i \in JobsIn(DOMAIN lanes)' <=> \E h \in DOMAIN lanes : i \in HeldBy(h)'
    BY <1>5 DEF JobsIn, HeldBy
  <2>2. \A i : i \in JobsIn(DOMAIN lanes) <=> \E h \in DOMAIN lanes : i \in HeldBy(h)
    BY HeldJobs
  <2>3. \A i : i \in JobsIn(DOMAIN lanes)' <=> i \in JobsIn(DOMAIN lanes) \/ i = j
    BY <1>8, <2>1, <2>2
  <2>. QED  BY <2>3 DEF WaitingJobs
<1>. QED  BY <1>8, <1>11, <1>12, <1>13, <1>14, <1>15

\* pop() takes the first job of the lane whose turn it is; the lane goes to the
\* end of the turns while it has more.
LEMMA JobLeavesLane ==
    ASSUME QueueInv, active # <<>>, NEW g, g = Head(active), NEW j, j = Head(lanes[g].jobs),
           active' = NextTurns(g, Tail(lanes[g].jobs)),
           lanes' = [lanes EXCEPT ![g].jobs = Tail(@), ![g].bytes = @ - Size[j]],
           UNCHANGED <<host, hostBytes>>
    PROVE  /\ QueueInv'
           /\ g \in DOMAIN lanes /\ j \in HeldBy(g) /\ j \in AgentJobs
           /\ WaitingJobs' = WaitingJobs \ {j}
           /\ \A h \in DOMAIN lanes : HeldBy(h)' = HeldBy(h) \ {j}
           /\ DOMAIN lanes' = DOMAIN lanes
           /\ \A h \in DOMAIN lanes : lanes'[h].expires = lanes[h].expires
<1>. USE DEF QueueInv
<1>. DEFINE lane == lanes[g]
            left == Tail(lane.jobs)
<1>1. active \in Seq(Grants) /\ IsInjective(active)
      /\ ToSet(active) = {h \in DOMAIN lanes : lanes[h].jobs # <<>>}
  BY DEF QueueTypes, TurnsAreExact
<1>2. /\ Head(active) \in ToSet(active) /\ Tail(active) \in Seq(Grants)
      /\ IsInjective(Tail(active)) /\ ToSet(Tail(active)) = ToSet(active) \ {g}
  BY <1>1, TailElements
<1>3. g \in DOMAIN lanes /\ lane.jobs # <<>> /\ g \in Grants
  BY <1>1, <1>2 DEF QueueTypes
<1>4. lane \in AgentLanes /\ lane.jobs \in Seq(AgentJobs) /\ lane.bytes \in Nat
      /\ IsInjective(lane.jobs) /\ HeldBy(g) = ToSet(lane.jobs) /\ j = Head(lane.jobs)
  BY <1>3 DEF QueueTypes, AgentLanes, WaitsOnce, HeldBy
<1>. HIDE DEF lane
<1>5. /\ j \in HeldBy(g) /\ left \in Seq(AgentJobs) /\ IsInjective(left)
      /\ ToSet(left) = HeldBy(g) \ {j}
  BY <1>3, <1>4, TailElements
<1>6. j \in AgentJobs /\ j \in Jobs /\ Size[j] \in Nat
  BY <1>3, <1>5, HeldJobs, SchedulerAssumption DEF AgentJobs
<1>. HIDE DEF left
<1>7. /\ SumFunctionOnSet(Size, ToSet(left)) \in Nat
      /\ lane.bytes = SumFunctionOnSet(Size, ToSet(left)) + Size[j]
  <2>1. left \in Seq(Jobs) /\ j \notin ToSet(left) /\ HeldBy(g) = ToSet(left) \cup {j}
    BY <1>5 DEF AgentJobs
  <2>2. lane.bytes = SumFunctionOnSet(Size, HeldBy(g))
    BY <1>3, <1>4 DEF BytesAreExact, lane
  <2>. QED  BY <1>6, <2>1, <2>2, BytesJoin
<1>8. lane.bytes - Size[j] \in Nat /\ lane.bytes - Size[j] = SumFunctionOnSet(Size, ToSet(left))
  BY ONLY <1>4, <1>6, <1>7
<1>9. /\ DOMAIN lanes' = DOMAIN lanes
      /\ lanes'[g] = [lane EXCEPT !.jobs = left, !.bytes = lane.bytes - Size[j]]
      /\ \A h \in DOMAIN lanes : h # g => lanes'[h] = lanes[h]
  BY <1>3 DEF QueueTypes, lane, left
<1>10. /\ lanes'[g].jobs = left /\ lanes'[g].bytes = lane.bytes - Size[j]
       /\ lanes'[g].expires = lane.expires
       /\ lanes'[g] \in AgentLanes
  <2>. DEFINE bytes == lane.bytes - Size[j]
  <2>1. bytes \in Nat /\ lanes'[g] = [lane EXCEPT !.jobs = left, !.bytes = bytes]
    BY <1>8, <1>9
  <2>. HIDE DEF bytes
  <2>2. lanes'[g].jobs = left /\ lanes'[g].bytes = bytes /\ lanes'[g].expires = lane.expires
        /\ lanes'[g] \in AgentLanes
    BY <1>4, <1>5, <2>1 DEF AgentLanes
  <2>. QED  BY <2>2 DEF bytes
<1>11. lanes' \in [DOMAIN lanes -> AgentLanes]
  BY <1>9, <1>10 DEF QueueTypes
<1>12. \A h \in DOMAIN lanes : HeldBy(h)' = HeldBy(h) \ {j}
  <2>1. \A h \in DOMAIN lanes : h # g => j \notin HeldBy(h)
    BY <1>3, <1>5 DEF WaitsOnce
  <2>. QED  BY <1>5, <1>9, <1>10, <2>1 DEF HeldBy
<1>13. /\ active' \in Seq(Grants) /\ IsInjective(active')
       /\ ToSet(active') = (ToSet(active) \ {g}) \cup (IF left = <<>> THEN {} ELSE {g})
  <2>1. CASE left = <<>>
    <3>1. active' = Tail(active)
      BY <1>2, <2>1 DEF NextTurns, left, lane
    <3>. QED  BY <1>2, <2>1, <3>1
  <2>2. CASE left # <<>>
    <3>1. active' = Append(Tail(active), g)
      BY <1>2, <1>3, <2>2 DEF NextTurns, left, lane
    <3>2. g \notin ToSet(Tail(active))
      BY <1>2
    <3>3. active' \in Seq(Grants) /\ IsInjective(active')
          /\ ToSet(active') = ToSet(Tail(active)) \cup {g}
      <4>. DEFINE rest == Tail(active)
      <4>1. rest \in Seq(Grants) /\ IsInjective(rest) /\ g \in Grants /\ g \notin ToSet(rest)
        BY <1>2, <1>3, <3>2
      <4>. HIDE DEF rest
      <4>2. Append(rest, g) \in Seq(Grants) /\ IsInjective(Append(rest, g))
            /\ ToSet(Append(rest, g)) = ToSet(rest) \cup {g}
        BY <4>1, AppendElements
      <4>. QED  BY <3>1, <4>2 DEF rest
    <3>. QED  BY <1>2, <2>2, <3>3
  <2>. QED  BY <2>1, <2>2
<1>14. QueueTypes'
  BY <1>9, <1>11, <1>13 DEF QueueTypes
<1>15. WaitsOnce'
  <2>1. IsInjective(lanes'[g].jobs)
    BY <1>5, <1>10
  <2>2. \A h, k \in DOMAIN lanes : h # k => HeldBy(h)' \cap HeldBy(k)' = {}
    BY <1>12 DEF WaitsOnce
  <2>. QED  BY <1>9, <2>1, <2>2 DEF WaitsOnce
<1>16. TurnsAreExact'
  <2>1. {h \in DOMAIN lanes' : lanes'[h].jobs # <<>>}
           = (ToSet(active) \ {g}) \cup (IF left = <<>> THEN {} ELSE {g})
    BY <1>1, <1>3, <1>9, <1>10
  <2>. QED  BY <1>13, <2>1 DEF TurnsAreExact
<1>17. BytesAreExact'
  <2>1. lanes'[g].bytes = SumFunctionOnSet(Size, ToSet(lanes'[g].jobs))
    BY <1>8, <1>10
  <2>2. lanes'[g].bytes <= LaneBytes
    <3>1. lane.bytes <= LaneBytes /\ LaneBytes \in Nat
      BY <1>3, SchedulerAssumption DEF BytesAreExact, lane
    <3>. QED  BY ONLY <1>4, <1>6, <1>10, <3>1
  <2>3. \A h \in DOMAIN lanes' :
            /\ lanes'[h].bytes = SumFunctionOnSet(Size, ToSet(lanes'[h].jobs))
            /\ lanes'[h].bytes <= LaneBytes
    BY <1>9, <2>1, <2>2 DEF BytesAreExact
  <2>4. QueuedBytes' <= MaxAgentBytes
    <3>1. /\ QueuedBytes \in Nat /\ QueuedBytes' \in Nat /\ lanes[g].bytes \in Nat
          /\ QueuedBytes' + lanes[g].bytes = QueuedBytes + lanes'[g].bytes
      <4>1. QueueTypes
        OBVIOUS
      <4>. QED  BY ONLY <1>3, <1>9, <1>11, <4>1, LaneUpdate
    <3>2. lanes'[g].bytes = lanes[g].bytes - Size[j] /\ Size[j] \in Nat
      BY <1>6, <1>10 DEF lane
    <3>3. QueuedBytes' <= QueuedBytes
      BY ONLY <3>1, <3>2
    <3>4. QueuedBytes <= MaxAgentBytes /\ MaxAgentBytes \in Nat
      BY SchedulerAssumption DEF BytesAreExact
    <3>. QED  BY ONLY <3>1, <3>3, <3>4
  <2>. QED  BY <2>3, <2>4 DEF BytesAreExact
<1>18. WaitingJobs' = WaitingJobs \ {j}
  <2>1. \A i : i \in JobsIn(DOMAIN lanes)' <=> \E h \in DOMAIN lanes : i \in HeldBy(h)'
    BY <1>9 DEF JobsIn, HeldBy
  <2>2. \A i : i \in JobsIn(DOMAIN lanes) <=> \E h \in DOMAIN lanes : i \in HeldBy(h)
    BY HeldJobs
  <2>3. \A i : i \in JobsIn(DOMAIN lanes)' <=> i \in JobsIn(DOMAIN lanes) /\ i # j
    BY <1>12, <2>1, <2>2
  <2>4. j \notin ToSet(host)
    BY <1>6, HeldJobs DEF AgentJobs
  <2>. QED  BY <2>3, <2>4 DEF WaitingJobs
<1>19. \A h \in DOMAIN lanes : lanes'[h].expires = lanes[h].expires
  BY <1>9, <1>10 DEF lane
<1>. QED  BY <1>3, <1>5, <1>6, <1>9, <1>12, <1>14, <1>15, <1>16, <1>17, <1>18, <1>19

\* The host's queue: admission,
LEMMA JobJoinsHost ==
    ASSUME QueueInv, NEW j \in HostJobs, j \notin WaitingJobs,
           hostBytes + Size[j] <= MaxHostBytes,
           host' = Append(host, j), hostBytes' = hostBytes + Size[j],
           UNCHANGED <<lanes, active>>
    PROVE  QueueInv' /\ WaitingJobs' = WaitingJobs \cup {j}
<1>. USE DEF QueueInv
<1>1. host \in Seq(HostJobs) /\ host \in Seq(Jobs) /\ hostBytes \in Nat /\ IsInjective(host)
  BY SchedulerAssumption DEF QueueTypes, WaitsOnce
<1>2. j \notin ToSet(host) /\ j \in Jobs /\ Size[j] \in Nat
  BY SchedulerAssumption DEF WaitingJobs
<1>3. host' \in Seq(HostJobs) /\ IsInjective(host') /\ ToSet(host') = ToSet(host) \cup {j}
  BY <1>1, <1>2, AppendElements
<1>4. /\ SumFunctionOnSet(Size, ToSet(host)) \in Nat
      /\ SumFunctionOnSet(Size, ToSet(host) \cup {j}) = SumFunctionOnSet(Size, ToSet(host)) + Size[j]
  BY <1>1, <1>2, BytesJoin
<1>5. QueueTypes'
  BY <1>1, <1>2, <1>3 DEF QueueTypes
<1>6. WaitsOnce'
  BY <1>3 DEF WaitsOnce, HeldBy
<1>7. TurnsAreExact'
  BY DEF TurnsAreExact
<1>8. BytesAreExact'
  <2>1. QueuedBytes' = QueuedBytes
    BY DEF QueuedBytes
  <2>2. hostBytes' = SumFunctionOnSet(Size, ToSet(host')) /\ hostBytes' <= MaxHostBytes
    BY <1>3, <1>4 DEF BytesAreExact
  <2>. QED  BY <2>1, <2>2 DEF BytesAreExact
<1>9. WaitingJobs' = WaitingJobs \cup {j}
  BY <1>3 DEF WaitingJobs, JobsIn
<1>. QED  BY <1>5, <1>6, <1>7, <1>8, <1>9

\* and pop().
LEMMA JobLeavesHost ==
    ASSUME QueueInv, host # <<>>, NEW j, j = Head(host),
           host' = Tail(host), hostBytes' = hostBytes - Size[j],
           UNCHANGED <<lanes, active>>
    PROVE  QueueInv' /\ j \in HostJobs /\ j \in WaitingJobs /\ WaitingJobs' = WaitingJobs \ {j}
<1>. USE DEF QueueInv
<1>1. host \in Seq(HostJobs) /\ hostBytes \in Nat /\ IsInjective(host)
  BY DEF QueueTypes, WaitsOnce
<1>2. j \in ToSet(host) /\ host' \in Seq(HostJobs) /\ IsInjective(host')
      /\ ToSet(host') = ToSet(host) \ {j}
  BY <1>1, TailElements
<1>3. j \in HostJobs /\ j \in Jobs /\ Size[j] \in Nat /\ j \notin JobsIn(DOMAIN lanes)
      /\ host' \in Seq(Jobs)
  BY <1>2, HeldJobs, SchedulerAssumption
<1>4. /\ SumFunctionOnSet(Size, ToSet(host')) \in Nat
      /\ hostBytes = SumFunctionOnSet(Size, ToSet(host')) + Size[j]
  <2>1. j \notin ToSet(host') /\ ToSet(host) = ToSet(host') \cup {j}
    BY <1>2
  <2>2. hostBytes = SumFunctionOnSet(Size, ToSet(host))
    BY DEF BytesAreExact
  <2>3. \A t \in Seq(Jobs) : j \notin ToSet(t) =>
            /\ SumFunctionOnSet(Size, ToSet(t)) \in Nat
            /\ SumFunctionOnSet(Size, ToSet(t) \cup {j})
                = SumFunctionOnSet(Size, ToSet(t)) + Size[j]
    BY <1>3, BytesJoin
  <2>. QED  BY <1>3, <2>1, <2>2, <2>3
<1>5. hostBytes' \in Nat /\ hostBytes' = SumFunctionOnSet(Size, ToSet(host'))
  BY ONLY <1>1, <1>3, <1>4, hostBytes' = hostBytes - Size[j]
<1>6. QueueTypes'
  BY <1>2, <1>5 DEF QueueTypes
<1>7. WaitsOnce'
  BY <1>2 DEF WaitsOnce, HeldBy
<1>8. TurnsAreExact'
  BY DEF TurnsAreExact
<1>9. BytesAreExact'
  <2>1. QueuedBytes' = QueuedBytes
    BY DEF QueuedBytes
  <2>2. hostBytes <= MaxHostBytes /\ MaxHostBytes \in Nat
    BY SchedulerAssumption DEF BytesAreExact
  <2>3. hostBytes' <= MaxHostBytes
    BY ONLY <1>1, <1>3, <1>5, <2>2, hostBytes' = hostBytes - Size[j]
  <2>. QED  BY <1>5, <2>1, <2>3 DEF BytesAreExact
<1>10. WaitingJobs' = WaitingJobs \ {j}
  BY <1>2, <1>3 DEF WaitingJobs, JobsIn
<1>. QED  BY <1>2, <1>3, <1>6, <1>7, <1>8, <1>9, <1>10 DEF WaitingJobs

\* Queues that nobody has joined yet.
LEMMA EmptyQueues ==
    ASSUME lanes = <<>>, active = <<>>, host = <<>>, hostBytes = 0
    PROVE  QueueInv /\ WaitingJobs = {}
<1>1. DOMAIN lanes = {} /\ IsFiniteSet({})
  BY FS_EmptySet
<1>2. ToSet(<<>>) = {} /\ IsInjective(<<>>)
  BY DEF ToSet, IsInjective
<1>3. SumFunctionOnSet(Size, {}) = 0
  BY <1>1, SumOnSet
<1>4. QueueTypes
  BY <1>1 DEF QueueTypes
<1>5. QueuedBytes = 0
  <2>. DEFINE b == [g \in DOMAIN lanes |-> lanes[g].bytes]
  <2>1. QueuedBytes = SumFunctionOnSet(b, {})
    BY <1>1 DEF QueuedBytes, SumFunction
  <2>. HIDE DEF b
  <2>2. SumFunctionOnSet(b, {}) = 0
    BY <1>1, SumOnSet
  <2>. QED  BY <2>1, <2>2
<1>6. WaitsOnce /\ TurnsAreExact
  BY <1>1, <1>2 DEF WaitsOnce, TurnsAreExact
<1>7. BytesAreExact
  <2>1. 0 <= MaxHostBytes /\ 0 <= MaxAgentBytes
    BY SchedulerAssumption
  <2>. QED  BY <1>1, <1>2, <1>3, <1>5, <2>1 DEF BytesAreExact
<1>8. WaitingJobs = {}
  BY <1>1, <1>2 DEF WaitingJobs, JobsIn
<1>. QED  BY <1>4, <1>6, <1>7, <1>8 DEF QueueInv

\* Queues that were drained.
LEMMA EmptiedQueues ==
    ASSUME lanes' = <<>>, active' = <<>>, host' = <<>>, hostBytes' = 0
    PROVE  QueueInv' /\ WaitingJobs' = {}
<1>1. DOMAIN lanes' = {} /\ IsFiniteSet({})
  BY FS_EmptySet
<1>2. ToSet(<<>>) = {} /\ IsInjective(<<>>)
  BY DEF ToSet, IsInjective
<1>3. SumFunctionOnSet(Size, {}) = 0
  BY <1>1, SumOnSet
<1>4. QueueTypes'
  BY <1>1 DEF QueueTypes
<1>5. QueuedBytes' = 0
  <2>. DEFINE b == [g \in DOMAIN lanes' |-> lanes'[g].bytes]
  <2>1. QueuedBytes' = SumFunctionOnSet(b, {})
    BY <1>1 DEF QueuedBytes, SumFunction
  <2>. HIDE DEF b
  <2>2. SumFunctionOnSet(b, {}) = 0
    BY <1>1, SumOnSet
  <2>. QED  BY <2>1, <2>2
<1>6. WaitsOnce' /\ TurnsAreExact'
  BY <1>1, <1>2 DEF WaitsOnce, TurnsAreExact
<1>7. BytesAreExact'
  <2>1. 0 <= MaxHostBytes /\ 0 <= MaxAgentBytes
    BY SchedulerAssumption
  <2>. QED  BY <1>1, <1>2, <1>3, <1>5, <2>1 DEF BytesAreExact
<1>8. WaitingJobs' = {}
  BY <1>1, <1>2 DEF WaitingJobs, JobsIn
<1>. QED  BY <1>4, <1>6, <1>7, <1>8 DEF QueueInv

-----------------------------------------------------------------------------
(* Jobs and queues together.                                               *)

Undecided == {"queued", "cancelled"}

\* A job that waits, or is inside dispatch(), is in one place, nothing was said
\* of it yet and its slot is not free.
OpenInv ==
    /\ popped \subseteq [job : Jobs, expired : BOOLEAN]
    /\ \A p, q \in popped : p = q
    /\ \A j \in WaitingJobs : flag[j] \in Undecided /\ status[j] = "none"
    /\ \A p \in popped :
          p.job \notin WaitingJobs /\ flag[p.job] \in Undecided /\ status[p.job] = "none"
    /\ \A j \in Jobs : flag[j] = "none" => status[j] = "none"

\* No job waits longer than its lane's lease.
WaitsEnd ==
    /\ expires \in [Jobs -> Nat]
    /\ \A g \in DOMAIN lanes : \A j \in HeldBy(g) : expires[j] <= lanes[g].expires

SchedulerInv == QueueInv /\ CancelInv /\ OpenInv /\ WaitsEnd /\ clock \in Nat

\* All that waits is a job.
LEMMA WaitingAreJobs ==
    ASSUME QueueInv
    PROVE  WaitingJobs \subseteq Jobs
BY HeldJobs, SchedulerAssumption DEF QueueInv, WaitingJobs, AgentJobs

\* Cancelling what leaves the queues leaves everything else open.
LEMMA CancelledLeave ==
    ASSUME SchedulerInv, NEW jobs \in SUBSET WaitingJobs, CancelWaiting(jobs),
           WaitingJobs' = WaitingJobs \ jobs
    PROVE  OpenInv' /\ CancelInv' /\ UNCHANGED <<expires, popped>>
<1>1. CancelInv'
  BY CancelWaitingCancel DEF SchedulerInv
<1>2. WaitingJobs \subseteq Jobs
  BY WaitingAreJobs DEF SchedulerInv
<1>3. flag \in [Jobs -> Flags] /\ status \in [Jobs -> Statuses]
  BY DEF SchedulerInv, CancelInv, JobTypes
<1>4. \A j \in Jobs \ jobs : flag'[j] = flag[j] /\ status'[j] = status[j]
  BY <1>3 DEF CancelWaiting
<1>5. \A j \in jobs : j \in Jobs /\ flag'[j] = "cancelled"
  BY <1>2, <1>3 DEF CancelWaiting, SchedulerInv, OpenInv, Undecided
<1>6. UNCHANGED <<expires, popped>>
  BY DEF CancelWaiting
<1>7. \A p \in popped : p.job \in Jobs \ jobs
  BY DEF SchedulerInv, OpenInv
<1>8. OpenInv'
  BY <1>2, <1>4, <1>5, <1>6, <1>7 DEF SchedulerInv, OpenInv
<1>. QED  BY <1>1, <1>6, <1>8

\* host_prune(), host_revoke() and the clean-up of a grant that failed.
LEMMA RemoveLanesInv ==
    ASSUME SchedulerInv, NEW keys \in SUBSET DOMAIN lanes, RemoveLanes(keys), UNCHANGED clock
    PROVE  SchedulerInv' /\ WaitingJobs' = WaitingJobs \ JobsIn(keys)
<1>. DEFINE kept == DOMAIN lanes \ keys
<1>1. lanes \in [DOMAIN lanes -> AgentLanes]
  BY DEF SchedulerInv, QueueInv, QueueTypes
<1>2. lanes' \in [kept \cup {} -> AgentLanes] /\ \A g \in kept : lanes'[g] = lanes[g]
  BY <1>1 DEF RemoveLanes, Restrict
<1>3. DOMAIN lanes \ kept = keys
  OBVIOUS
<1>4. active' = WithoutTurns(DOMAIN lanes \ kept) /\ UNCHANGED <<host, hostBytes>>
  BY <1>3 DEF RemoveLanes
<1>. HIDE DEF kept
<1>5. kept \in SUBSET DOMAIN lanes /\ {} \in SUBSET Grants /\ kept \cap {} = {}
  BY DEF kept
<1>6. QueueInv' /\ WaitingJobs' = WaitingJobs \ JobsIn(DOMAIN lanes \ kept)
  BY <1>2, <1>4, <1>5, LanesChange DEF SchedulerInv
<1>7. JobsIn(keys) \in SUBSET WaitingJobs
  BY HeldJobs DEF SchedulerInv, QueueInv, WaitingJobs
<1>8. OpenInv' /\ CancelInv' /\ UNCHANGED expires
  BY <1>3, <1>6, <1>7, CancelledLeave DEF RemoveLanes
<1>9. WaitsEnd'
  BY <1>2, <1>5, <1>8 DEF SchedulerInv, WaitsEnd, HeldBy
<1>. QED  BY <1>3, <1>6, <1>8, <1>9 DEF SchedulerInv

\* host_register(), after the lanes in gone were pruned.
LEMMA RegisterInv ==
    ASSUME SchedulerInv, NEW gone \in SUBSET DOMAIN lanes, NEW g \in Grants,
           NEW agent \in Agents, NEW until \in Nat,
           Register(gone, g, agent, until), UNCHANGED clock
    PROVE  /\ SchedulerInv'
           /\ WaitingJobs' = WaitingJobs \ JobsIn(gone \cup LaneOf(agent))
           /\ DOMAIN lanes' = (DOMAIN lanes \ (gone \cup LaneOf(agent))) \cup {g}
           /\ lanes'[g] = NewLane(agent, until)
           /\ \A h \in DOMAIN lanes \ (gone \cup LaneOf(agent)) : h # g /\ lanes'[h] = lanes[h]
<1>. DEFINE removed == gone \cup LaneOf(agent)
            kept == DOMAIN lanes \ removed
            new == {g}
<1>1. lanes \in [DOMAIN lanes -> AgentLanes]
  BY DEF SchedulerInv, QueueInv, QueueTypes
<1>2. removed \in SUBSET DOMAIN lanes /\ g \notin kept
  BY DEF Register, LaneOf, Replaced
<1>3. NewLane(agent, until) \in AgentLanes
      /\ NewLane(agent, until).jobs = <<>> /\ NewLane(agent, until).bytes = 0
  BY DEF NewLane, AgentLanes
<1>4. lanes' = [h \in kept \cup new |-> IF h = g THEN NewLane(agent, until) ELSE lanes[h]]
  <2>1. Restrict(lanes, kept) = [h \in kept |-> lanes[h]]
    BY DEF Restrict
  <2>2. lanes' = Inserted(Restrict(lanes, kept), g, NewLane(agent, until))
    BY DEF Register, Replaced
  <2>. HIDE DEF kept
  <2>. QED  BY <2>1, <2>2 DEF Inserted
<1>. HIDE DEF kept
<1>5. /\ lanes' \in [kept \cup new -> AgentLanes]
      /\ \A h \in kept : lanes'[h] = lanes[h]
      /\ \A h \in new : lanes'[h] = NewLane(agent, until)
  BY <1>1, <1>2, <1>3, <1>4 DEF kept
<1>6. DOMAIN lanes \ kept = removed
  BY <1>2 DEF kept
<1>7. active' = WithoutTurns(DOMAIN lanes \ kept) /\ UNCHANGED <<host, hostBytes>>
  BY <1>6 DEF Register, Replaced
<1>8. kept \in SUBSET DOMAIN lanes /\ new \in SUBSET Grants /\ kept \cap new = {}
  BY <1>2 DEF kept
<1>9. QueueInv' /\ WaitingJobs' = WaitingJobs \ JobsIn(DOMAIN lanes \ kept)
  BY <1>3, <1>5, <1>7, <1>8, LanesChange DEF SchedulerInv
<1>10. JobsIn(removed) \in SUBSET WaitingJobs
  BY <1>2, HeldJobs DEF SchedulerInv, QueueInv, WaitingJobs
<1>11. OpenInv' /\ CancelInv' /\ UNCHANGED expires
  BY <1>6, <1>9, <1>10, CancelledLeave DEF Register, Replaced
<1>12. WaitsEnd'
  <2>1. \A h \in new : HeldBy(h)' = {}
    BY <1>3, <1>5 DEF HeldBy, ToSet
  <2>2. \A h \in kept : HeldBy(h)' = HeldBy(h)
    BY <1>5 DEF HeldBy
  <2>. QED  BY <1>5, <1>8, <1>11, <2>1, <2>2 DEF SchedulerInv, WaitsEnd
<1>13. SchedulerInv'
  BY <1>9, <1>11, <1>12 DEF SchedulerInv
<1>14. \A h \in kept : h # g
  BY <1>2 DEF kept
<1>. QED  BY <1>5, <1>6, <1>9, <1>13, <1>14 DEF kept

\* host_drain()
LEMMA DrainInv ==
    ASSUME SchedulerInv, HostDrain, UNCHANGED clock
    PROVE  SchedulerInv' /\ WaitingJobs' = {} /\ DOMAIN lanes' = {} /\ host' = <<>>
<1>1. QueueInv' /\ WaitingJobs' = {}
  BY EmptiedQueues DEF HostDrain
<1>2. CancelWaiting(WaitingJobs)
  BY DEF HostDrain, WaitingJobs
<1>3. OpenInv' /\ CancelInv' /\ UNCHANGED expires
  BY <1>1, <1>2, CancelledLeave
<1>4. DOMAIN lanes' = {} /\ host' = <<>>
  BY DEF HostDrain
<1>5. WaitsEnd'
  BY <1>3, <1>4 DEF SchedulerInv, WaitsEnd
<1>. QED  BY <1>1, <1>3, <1>4, <1>5 DEF SchedulerInv

\* A free slot is nowhere, and becomes one that waits.
LEMMA SlotTaken ==
    ASSUME SchedulerInv, NEW j \in Jobs, flag[j] = "none",
           flag' = [flag EXCEPT ![j] = "queued"], UNCHANGED <<popped, status, told>>
    PROVE  /\ j \notin WaitingJobs
           /\ CancelInv'
           /\ WaitingJobs' = WaitingJobs \cup {j} => OpenInv'
<1>1. j \notin WaitingJobs /\ \A p \in popped : p.job # j
  BY DEF SchedulerInv, OpenInv, Undecided
<1>2. CancelInv'
  BY AdmissionCancel DEF SchedulerInv
<1>3. flag \in [Jobs -> Flags] /\ WaitingJobs \subseteq Jobs
  BY WaitingAreJobs DEF SchedulerInv, CancelInv, JobTypes
<1>4. flag'[j] = "queued" /\ \A i \in Jobs : i # j => flag'[i] = flag[i]
  BY <1>3
<1>5. status[j] = "none"
  BY DEF SchedulerInv, OpenInv
<1>6. ASSUME WaitingJobs' = WaitingJobs \cup {j} PROVE OpenInv'
  BY <1>1, <1>3, <1>4, <1>5, <1>6 DEF SchedulerInv, OpenInv, Undecided
<1>. QED  BY <1>1, <1>2, <1>6

\* enqueue() for an agent
LEMMA EnqueueAgentInv ==
    ASSUME SchedulerInv, NEW j \in AgentJobs, NEW g, NEW wait \in Waits,
           EnqueueAgent(j, g, wait), UNCHANGED clock
    PROVE  SchedulerInv' /\ j \notin WaitingJobs /\ WaitingJobs' = WaitingJobs \cup {j}
<1>1. j \in Jobs /\ flag[j] = "none" /\ flag' = [flag EXCEPT ![j] = "queued"]
      /\ UNCHANGED <<popped, status, told>>
  BY DEF EnqueueAgent, AgentJobs
<1>2. /\ j \notin WaitingJobs /\ CancelInv'
      /\ WaitingJobs' = WaitingJobs \cup {j} => OpenInv'
  BY <1>1, SlotTaken
<1>3. g \in DOMAIN lanes /\ QueuedBytes + Size[j] <= MaxAgentBytes
      /\ lanes[g].bytes + Size[j] <= LaneBytes
  BY DEF EnqueueAgent, LaneLive, Fits
<1>4. /\ QueueInv' /\ WaitingJobs' = WaitingJobs \cup {j}
      /\ \A h \in DOMAIN lanes : HeldBy(h)' = IF h = g THEN HeldBy(g) \cup {j} ELSE HeldBy(h)
  BY <1>2, <1>3, JobJoinsLane DEF EnqueueAgent, SchedulerInv
<1>5. WaitsEnd'
  <2>1. lanes \in [DOMAIN lanes -> AgentLanes] /\ expires \in [Jobs -> Nat]
        /\ clock \in Nat /\ wait \in Nat
    BY SchedulerAssumption DEF SchedulerInv, QueueInv, QueueTypes, WaitsEnd
  <2>2. DOMAIN lanes' = DOMAIN lanes /\ \A h \in DOMAIN lanes : lanes'[h].expires = lanes[h].expires
    BY <1>3, <2>1 DEF EnqueueAgent, AgentLanes
  <2>3. lanes[g].expires \in Nat
    BY <1>3, <2>1 DEF AgentLanes
  <2>4. AdmittedUntil(g, wait) \in Nat /\ AdmittedUntil(g, wait) <= lanes[g].expires
    BY <2>1, <2>3 DEF AdmittedUntil, Earlier
  <2>5. expires' = [expires EXCEPT ![j] = AdmittedUntil(g, wait)]
    BY DEF EnqueueAgent
  <2>6. expires' \in [Jobs -> Nat] /\ expires'[j] <= lanes[g].expires
        /\ \A i \in Jobs : i # j => expires'[i] = expires[i]
    BY <1>1, <2>1, <2>4, <2>5
  <2>7. \A h \in DOMAIN lanes : HeldBy(h) \subseteq Jobs /\ (h # g => j \notin HeldBy(h))
    BY <1>2, HeldJobs DEF SchedulerInv, QueueInv, WaitingJobs, AgentJobs
  <2>8. ASSUME NEW h \in DOMAIN lanes, NEW i \in HeldBy(h)' PROVE expires'[i] <= lanes'[h].expires
    <3>1. CASE i = j
      BY <1>4, <2>2, <2>6, <2>7, <3>1
    <3>2. CASE i # j
      <4>1. i \in HeldBy(h) /\ expires[i] <= lanes[h].expires
        BY <1>4, <2>8, <3>2 DEF SchedulerInv, WaitsEnd
      <4>. QED  BY <2>2, <2>6, <2>7, <3>2, <4>1
    <3>. QED  BY <3>1, <3>2
  <2>. QED  BY <2>2, <2>6, <2>8 DEF WaitsEnd
<1>. QED  BY <1>2, <1>4, <1>5 DEF SchedulerInv

\* enqueue() for the host
LEMMA EnqueueHostInv ==
    ASSUME SchedulerInv, NEW j \in HostJobs, NEW wait \in Waits,
           EnqueueHost(j, wait), UNCHANGED clock
    PROVE  SchedulerInv' /\ j \notin WaitingJobs /\ WaitingJobs' = WaitingJobs \cup {j}
<1>1. j \in Jobs /\ flag[j] = "none" /\ flag' = [flag EXCEPT ![j] = "queued"]
      /\ UNCHANGED <<popped, status, told>>
  BY SchedulerAssumption DEF EnqueueHost
<1>2. /\ j \notin WaitingJobs /\ CancelInv'
      /\ WaitingJobs' = WaitingJobs \cup {j} => OpenInv'
  BY <1>1, SlotTaken
<1>3. QueueInv' /\ WaitingJobs' = WaitingJobs \cup {j}
  BY <1>2, JobJoinsHost DEF EnqueueHost, HostFits, HostBytesWith, SchedulerInv
<1>4. WaitsEnd'
  <2>1. expires' \in [Jobs -> Nat] /\ \A i \in Jobs : i # j => expires'[i] = expires[i]
    BY <1>1, SchedulerAssumption DEF EnqueueHost, SchedulerInv, WaitsEnd
  <2>2. UNCHANGED lanes /\ \A h \in DOMAIN lanes : HeldBy(h) \subseteq AgentJobs
    BY HeldJobs DEF EnqueueHost, SchedulerInv, QueueInv
  <2>3. \A h \in DOMAIN lanes : \A i \in HeldBy(h) : i # j /\ i \in Jobs
    BY <2>2 DEF AgentJobs
  <2>. QED  BY <2>1, <2>2, <2>3 DEF SchedulerInv, WaitsEnd, HeldBy
<1>. QED  BY <1>2, <1>3, <1>4 DEF SchedulerInv

\* The lanes' and the host's part of pop().
LEMMA DequeueInv ==
    ASSUME SchedulerInv, NEW j \in Jobs, Dequeue(j), UNCHANGED expires
    PROVE  /\ QueueInv' /\ WaitsEnd'
           /\ j \in WaitingJobs /\ WaitingJobs' = WaitingJobs \ {j}
           /\ j \in AgentJobs => \E g \in DOMAIN lanes :
                  j \in HeldBy(g) /\ expires[j] <= lanes[g].expires
           /\ DOMAIN lanes' = DOMAIN lanes
           /\ \A g \in DOMAIN lanes : /\ lanes'[g].expires = lanes[g].expires
                                      /\ lanes'[g].agent = lanes[g].agent
<1>1. CASE HostsTurn /\ j = Head(host) /\ host' = Tail(host) /\ hostBytes' = hostBytes - Size[j]
           /\ UNCHANGED <<lanes, active>>
  <2>1. QueueInv' /\ j \in HostJobs /\ j \in WaitingJobs /\ WaitingJobs' = WaitingJobs \ {j}
    BY <1>1, JobLeavesHost DEF SchedulerInv, HostsTurn
  <2>2. WaitsEnd'
    BY <1>1 DEF SchedulerInv, WaitsEnd, HeldBy
  <2>. QED  BY <1>1, <2>1, <2>2 DEF AgentJobs
<1>2. CASE /\ ~HostsTurn /\ active # <<>>
           /\ j = Head(lanes[Head(active)].jobs)
           /\ active' = NextTurns(Head(active), Tail(lanes[Head(active)].jobs))
           /\ lanes' = [lanes EXCEPT ![Head(active)].jobs = Tail(@),
                                     ![Head(active)].bytes = @ - Size[j]]
           /\ UNCHANGED <<host, hostBytes>>
  <2>. DEFINE g == Head(active)
  <2>1. /\ active # <<>> /\ g = Head(active) /\ j = Head(lanes[g].jobs)
        /\ active' = NextTurns(g, Tail(lanes[g].jobs))
        /\ lanes' = [lanes EXCEPT ![g].jobs = Tail(@), ![g].bytes = @ - Size[j]]
        /\ UNCHANGED <<host, hostBytes>> /\ QueueInv
    BY <1>2 DEF SchedulerInv
  <2>. HIDE DEF g
  <2>2. /\ QueueInv'
        /\ g \in DOMAIN lanes /\ j \in HeldBy(g) /\ j \in AgentJobs
        /\ WaitingJobs' = WaitingJobs \ {j}
        /\ \A h \in DOMAIN lanes : HeldBy(h)' = HeldBy(h) \ {j}
        /\ DOMAIN lanes' = DOMAIN lanes
        /\ \A h \in DOMAIN lanes : lanes'[h].expires = lanes[h].expires
    BY <2>1, JobLeavesLane
  <2>3. j \in WaitingJobs
    BY <2>2, HeldJobs DEF SchedulerInv, QueueInv, WaitingJobs
  <2>4. expires[j] <= lanes[g].expires
    BY <2>2 DEF SchedulerInv, WaitsEnd
  <2>5. WaitsEnd'
    BY <2>2 DEF SchedulerInv, WaitsEnd
  <2>6. \A h \in DOMAIN lanes : lanes'[h].agent = lanes[h].agent
    BY <2>1, <2>2 DEF QueueInv, QueueTypes, AgentLanes
  <2>. QED  BY <2>2, <2>3, <2>4, <2>5, <2>6
<1>. QED  BY <1>1, <1>2 DEF Dequeue

\* pop(), up to the first read of the flag
LEMMA PopInv ==
    ASSUME SchedulerInv, NEW j \in Jobs, Pop(j), UNCHANGED clock
    PROVE  SchedulerInv' /\ j \in WaitingJobs /\ WaitingJobs' = WaitingJobs \ {j}
<1>1. /\ QueueInv' /\ WaitsEnd' /\ j \in WaitingJobs /\ WaitingJobs' = WaitingJobs \ {j}
  BY DequeueInv DEF Pop
<1>2. CancelInv'
  BY PopCancel DEF SchedulerInv
<1>3. flag[j] \in Undecided /\ status[j] = "none" /\ popped = {} /\ UNCHANGED flag
      /\ status \in [Jobs -> Statuses]
  BY <1>1 DEF SchedulerInv, OpenInv, Pop, CancelInv, JobTypes
<1>4. WaitingJobs \subseteq Jobs
  BY WaitingAreJobs DEF SchedulerInv
<1>5. OpenInv'
  <2>1. CASE flag[j] = "cancelled"
    <3>1. popped' = {} /\ \A i \in Jobs : i # j => status'[i] = status[i]
      BY <1>3, <2>1 DEF Pop
    <3>. QED  BY <1>1, <1>3, <1>4, <2>1, <3>1 DEF SchedulerInv, OpenInv, Undecided
  <2>2. CASE flag[j] # "cancelled"
    <3>. DEFINE p == [job |-> j, expired |-> expires[j] <= clock]
    <3>1. popped' = {p} /\ UNCHANGED status
      BY <2>2 DEF Pop
    <3>2. p \in [job : Jobs, expired : BOOLEAN] /\ p.job = j
      OBVIOUS
    <3>. HIDE DEF p
    <3>. QED  BY <1>1, <1>3, <1>4, <3>1, <3>2 DEF SchedulerInv, OpenInv, Undecided
  <2>. QED  BY <2>1, <2>2
<1>. QED  BY <1>1, <1>2, <1>5 DEF SchedulerInv

\* The flags and the statuses change while the queues stay.
LEMMA QueuesStay ==
    ASSUME SchedulerInv, UNCHANGED queueVars
    PROVE  QueueInv' /\ WaitingJobs' = WaitingJobs /\ \A g : HeldBy(g)' = HeldBy(g)
<1>1. UNCHANGED <<lanes, active, host, hostBytes>>
  BY DEF queueVars
<1>2. QueueTypes' /\ WaitsOnce' /\ TurnsAreExact'
  BY <1>1 DEF SchedulerInv, QueueInv, QueueTypes, WaitsOnce, TurnsAreExact, HeldBy
<1>3. BytesAreExact'
  BY <1>1 DEF SchedulerInv, QueueInv, BytesAreExact, QueuedBytes
<1>. QED  BY <1>1, <1>2, <1>3 DEF QueueInv, WaitingJobs, JobsIn, HeldBy

\* The rest of dispatch()
LEMMA DispatchInv ==
    ASSUME SchedulerInv, Dispatch, UNCHANGED clock
    PROVE  SchedulerInv' /\ WaitingJobs' = WaitingJobs
<1>1. QueueInv' /\ WaitingJobs' = WaitingJobs /\ \A g : HeldBy(g)' = HeldBy(g)
  BY QueuesStay DEF Dispatch
<1>2. CancelInv'
  BY DispatchCancel DEF SchedulerInv
<1>3. PICK p \in popped : Decided(p)
  BY DEF Dispatch
<1>4. popped' = {} /\ UNCHANGED <<expires, lanes>>
  BY DEF Dispatch, queueVars
<1>5. p.job \in Jobs /\ p.job \notin WaitingJobs /\ flag[p.job] \in Undecided
  BY <1>3 DEF SchedulerInv, OpenInv
<1>6. flag \in [Jobs -> Flags] /\ status \in [Jobs -> Statuses] /\ WaitingJobs \subseteq Jobs
  BY WaitingAreJobs DEF SchedulerInv, CancelInv, JobTypes
<1>7. \A i \in Jobs : i # p.job => flag'[i] = flag[i] /\ status'[i] = status[i]
  BY <1>3, <1>6 DEF Decided
<1>8. flag'[p.job] # "none"
  BY <1>3, <1>5, <1>6 DEF Decided, Undecided
<1>9. OpenInv'
  BY <1>1, <1>4, <1>5, <1>6, <1>7, <1>8 DEF SchedulerInv, OpenInv
<1>10. WaitsEnd'
  BY <1>1, <1>4 DEF SchedulerInv, WaitsEnd
<1>. QED  BY <1>1, <1>2, <1>9, <1>10 DEF SchedulerInv

\* cancel(), the end of a job and the reuse of its slot
LEMMA JobStepInv ==
    ASSUME SchedulerInv, NEW j \in Jobs, Cancel(j) \/ Finish(j) \/ Retire(j), UNCHANGED clock
    PROVE  SchedulerInv' /\ WaitingJobs' = WaitingJobs
<1>1. UNCHANGED queueVars /\ UNCHANGED popped
  BY DEF Cancel, Finish, Retire
<1>2. QueueInv' /\ WaitingJobs' = WaitingJobs /\ \A g : HeldBy(g)' = HeldBy(g)
  BY <1>1, QueuesStay
<1>3. CancelInv'
  BY CancelCancel, EndCancel DEF SchedulerInv
<1>4. flag \in [Jobs -> Flags] /\ status \in [Jobs -> Statuses] /\ WaitingJobs \subseteq Jobs
      /\ expires \in [Jobs -> Nat]
  BY WaitingAreJobs DEF SchedulerInv, CancelInv, JobTypes, WaitsEnd
<1>5. \A i \in Jobs : i # j => flag'[i] = flag[i] /\ status'[i] = status[i] /\ expires'[i] = expires[i]
  BY <1>4 DEF Cancel, Finish, Retire
<1>6. OpenInv' /\ WaitsEnd'
  <2>1. CASE Cancel(j)
    <3>1. UNCHANGED <<status, expires, lanes>> /\ (flag[j] \in Undecided => flag'[j] \in Undecided)
          /\ flag'[j] # "none"
      BY <1>4, <2>1 DEF Cancel, Undecided, queueVars
    <3>2. OpenInv'
      BY <1>1, <1>2, <1>4, <1>5, <3>1 DEF SchedulerInv, OpenInv
    <3>. QED  BY <1>2, <3>1, <3>2 DEF SchedulerInv, WaitsEnd
  <2>2. CASE Finish(j)
    <3>1. UNCHANGED <<status, expires, lanes>> /\ flag[j] = "dispatched" /\ flag'[j] = "finished"
      BY <1>4, <2>2 DEF Finish, queueVars
    <3>2. OpenInv'
      BY <1>1, <1>2, <1>4, <1>5, <3>1 DEF SchedulerInv, OpenInv, Undecided
    <3>. QED  BY <1>2, <3>1, <3>2 DEF SchedulerInv, WaitsEnd
  <2>3. CASE Retire(j)
    <3>1. status[j] # "none" /\ flag'[j] = "none" /\ status'[j] = "none" /\ UNCHANGED lanes
          /\ expires' \in [Jobs -> Nat]
      BY <1>4, <2>3 DEF Retire, queueVars
    <3>2. j \notin WaitingJobs /\ \A p \in popped : p.job # j
      BY <3>1 DEF SchedulerInv, OpenInv
    <3>3. OpenInv'
      BY <1>1, <1>2, <1>4, <1>5, <3>1, <3>2 DEF SchedulerInv, OpenInv
    <3>4. \A g \in DOMAIN lanes : \A i \in HeldBy(g) : i \in Jobs /\ i # j
      BY <1>4, <3>2, HeldJobs DEF SchedulerInv, QueueInv, WaitingJobs
    <3>5. WaitsEnd'
      BY <1>2, <1>5, <3>1, <3>4 DEF SchedulerInv, WaitsEnd
    <3>. QED  BY <3>3, <3>5
  <2>. QED  BY <2>1, <2>2, <2>3
<1>. QED  BY <1>2, <1>3, <1>6 DEF SchedulerInv

\* What the holder of the mutex does
LEMMA OwnerInv ==
    ASSUME SchedulerInv, Owner, UNCHANGED clock
    PROVE  SchedulerInv'
<1>1. ASSUME NEW g \in Grants, NEW agent \in Agents, NEW lease \in Leases,
             Register({}, g, agent, clock + lease)
      PROVE  SchedulerInv'
  <2>1. clock + lease \in Nat /\ {} \in SUBSET DOMAIN lanes
    BY SchedulerAssumption DEF SchedulerInv
  <2>. QED  BY <1>1, <2>1, RegisterInv
<1>2. ASSUME NEW agent \in Agents, HostRevoke(agent)
      PROVE  SchedulerInv'
  <2>1. LaneOf(agent) \in SUBSET DOMAIN lanes
    BY DEF LaneOf
  <2>. QED  BY <1>2, <2>1, RemoveLanesInv DEF HostRevoke
<1>3. CASE HostPrune
  <2>1. ExpiredLanes \in SUBSET DOMAIN lanes
    BY DEF ExpiredLanes
  <2>. QED  BY <1>3, <2>1, RemoveLanesInv DEF HostPrune
<1>4. CASE HostDrain
  BY <1>4, DrainInv
<1>5. ASSUME NEW j \in AgentJobs, NEW g \in Grants, NEW wait \in Waits,
             EnqueueAgent(j, g, wait)
      PROVE  SchedulerInv'
  BY <1>5, EnqueueAgentInv
<1>6. ASSUME NEW j \in HostJobs, NEW wait \in Waits, EnqueueHost(j, wait)
      PROVE  SchedulerInv'
  BY <1>6, EnqueueHostInv
<1>7. ASSUME NEW j \in Jobs, Pop(j)
      PROVE  SchedulerInv'
  BY <1>7, PopInv
<1>. QED  BY <1>1, <1>2, <1>3, <1>4, <1>5, <1>6, <1>7 DEF Owner

\* Nothing but the clock changes, or nothing at all.
LEMMA StutterInv ==
    ASSUME SchedulerInv, UNCHANGED queueVars, UNCHANGED jobVars, clock' \in Nat
    PROVE  SchedulerInv' /\ WaitingJobs' = WaitingJobs
<1>1. QueueInv' /\ WaitingJobs' = WaitingJobs /\ \A g : HeldBy(g)' = HeldBy(g)
  BY QueuesStay
<1>2. UNCHANGED <<flag, expires, popped, status, told, lanes>>
  BY DEF jobVars, queueVars
<1>3. CancelInv' /\ OpenInv' /\ WaitsEnd'
  BY <1>1, <1>2 DEF SchedulerInv, CancelInv, JobTypes, ToldAreCancelled, ReadyWonTheFlag,
                    OpenInv, WaitsEnd
<1>. QED  BY <1>1, <1>3 DEF SchedulerInv

\* The queue starts empty.
LEMMA InitInv == SchedulerInit => SchedulerInv
<1>. SUFFICES ASSUME SchedulerInit PROVE SchedulerInv
  OBVIOUS
<1>1. QueueInv /\ WaitingJobs = {}
  BY EmptyQueues DEF SchedulerInit
<1>2. CancelInv
  BY DEF SchedulerInit, CancelInv, JobTypes, ToldAreCancelled, ReadyWonTheFlag
<1>3. OpenInv
  BY <1>1 DEF SchedulerInit, OpenInv
<1>4. WaitsEnd
  BY DEF SchedulerInit, WaitsEnd
<1>. QED  BY <1>1, <1>2, <1>3, <1>4 DEF SchedulerInv, SchedulerInit

\* Every step of the scheduler keeps its invariant.
LEMMA NextInv ==
    ASSUME SchedulerInv, [SchedulerNext]_schedulerVars
    PROVE  SchedulerInv'
<1>1. CASE Owner /\ UNCHANGED clock
  BY <1>1, OwnerInv
<1>2. CASE Dispatch /\ UNCHANGED clock
  BY <1>2, DispatchInv
<1>3. ASSUME NEW j \in Jobs, Cancel(j) \/ Finish(j) \/ Retire(j), UNCHANGED clock
      PROVE  SchedulerInv'
  BY <1>3, JobStepInv
<1>4. CASE SchedulerTick
  <2>1. clock' \in Nat
    BY <1>4 DEF SchedulerTick, SchedulerInv
  <2>. QED  BY <1>4, <2>1, StutterInv DEF SchedulerTick
<1>5. CASE UNCHANGED schedulerVars
  <2>1. UNCHANGED queueVars /\ UNCHANGED jobVars /\ clock' \in Nat
    BY <1>5 DEF schedulerVars, SchedulerInv
  <2>. QED  BY <2>1, StutterInv
<1>. QED  BY <1>1, <1>2, <1>3, <1>4, <1>5 DEF SchedulerNext

\* The inductive invariant of the queue: its lanes, turns, byte counters, flags
\* and deadlines agree in every reachable state.
THEOREM SchedulerIsInvariant == SchedulerSpec => []SchedulerInv
<1>1. SchedulerInit => SchedulerInv
  BY InitInv
<1>2. SchedulerInv /\ [SchedulerNext]_schedulerVars => SchedulerInv'
  BY NextInv
<1>. QED  BY <1>1, <1>2, PTL DEF SchedulerSpec

\* Whose turn it is stays a truth value: only pop() decides it.
LEMMA TurnType ==
    ASSUME hostTurn \in BOOLEAN, [SchedulerNext]_schedulerVars
    PROVE  hostTurn' \in BOOLEAN
<1>1. CASE UNCHANGED schedulerVars \/ SchedulerTick \/ Dispatch
  BY <1>1 DEF schedulerVars, queueVars, SchedulerTick, Dispatch
<1>2. CASE \E j \in Jobs : Cancel(j) \/ Finish(j) \/ Retire(j)
  BY <1>2 DEF Cancel, Finish, Retire, queueVars
<1>3. CASE Owner
  <2>1. CASE \E g \in Grants, agent \in Agents, lease \in Leases :
                Register({}, g, agent, clock + lease)
    BY <2>1 DEF Register
  <2>2. CASE HostDrain \/ HostPrune \/ \E agent \in Agents : HostRevoke(agent)
    BY <2>2 DEF HostDrain, HostPrune, HostRevoke, RemoveLanes
  <2>3. CASE \E j \in AgentJobs, g \in Grants, wait \in Waits : EnqueueAgent(j, g, wait)
    BY <2>3 DEF EnqueueAgent
  <2>4. CASE \E j \in HostJobs, wait \in Waits : EnqueueHost(j, wait)
    BY <2>4 DEF EnqueueHost
  <2>5. CASE \E j \in Jobs : Pop(j)
    BY <2>5 DEF Pop, Dequeue
  <2>. QED  BY <1>3, <2>1, <2>2, <2>3, <2>4, <2>5, Zenon DEF Owner
<1>. QED  BY <1>1, <1>2, <1>3, Zenon DEF SchedulerNext

\* The types follow from the invariant, but for the turn.
LEMMA InvariantTypes ==
    ASSUME SchedulerInv, hostTurn \in BOOLEAN
    PROVE  SchedulerTypeOK
<1>1. ASSUME NEW g \in DOMAIN lanes PROVE lanes[g] \in LaneRecords
  <2>1. lanes[g] \in AgentLanes
    BY DEF SchedulerInv, QueueInv, QueueTypes
  <2>2. AgentJobs \subseteq Jobs
    BY DEF AgentJobs
  <2>3. ASSUME NEW q \in Seq(AgentJobs) PROVE q \in Seq(Jobs)
    BY <2>2
  <2>. QED  BY <2>1, <2>3 DEF AgentLanes, LaneRecords
<1>2. Cardinality(popped) <= 1
  <2>1. CASE popped = {}
    BY <2>1, FS_EmptySet
  <2>2. CASE popped # {}
    <3>1. PICK p \in popped : popped = {p}
      BY <2>2 DEF SchedulerInv, OpenInv
    <3>. QED  BY <3>1, FS_Singleton
  <2>. QED  BY <2>1, <2>2
<1>. QED
  BY <1>1, <1>2
  DEF SchedulerInv, QueueInv, QueueTypes, CancelInv, JobTypes, OpenInv, WaitsEnd, SchedulerTypeOK

\* Every variable of the queue keeps its type, for every number of lanes, jobs
\* and grants: in particular at most one job is between pop() and its dispatch(),
\* and no counter is ever negative.
THEOREM SchedulerTypes == SchedulerSpec => []SchedulerTypeOK
<1>1. SchedulerInit => hostTurn \in BOOLEAN
  BY DEF SchedulerInit
<1>2. hostTurn \in BOOLEAN /\ [SchedulerNext]_schedulerVars => (hostTurn \in BOOLEAN)'
  BY TurnType
<1>3. SchedulerInv /\ hostTurn \in BOOLEAN => SchedulerTypeOK
  BY InvariantTypes
<1>. QED  BY <1>1, <1>2, <1>3, SchedulerIsInvariant, PTL DEF SchedulerSpec

\* The turn list holds exactly the lanes with work, each once, whatever lanes
\* are registered, replaced, pruned and revoked while jobs come and go: pop()
\* finds a job whenever there is one.
THEOREM TurnsAreExactHolds == SchedulerSpec => []TurnsAreExact
<1>1. SchedulerInv => TurnsAreExact
  BY DEF SchedulerInv, QueueInv
<1>. QED  BY <1>1, SchedulerIsInvariant, PTL

\* The byte counters of lanes and host are the sums of what is queued and stay
\* within their limits, for jobs of any sizes: no subtraction underflows.
THEOREM BytesAreExactHolds == SchedulerSpec => []BytesAreExact
<1>1. SchedulerInv => BytesAreExact
  BY DEF SchedulerInv, QueueInv
<1>. QED  BY <1>1, SchedulerIsInvariant, PTL

\* A job that pop() finds not expired.
LEMMA PoppedIsCovered ==
    ASSUME SchedulerInv, NEW j \in AgentJobs, Pop(j), ~(expires[j] <= clock)
    PROVE  \E g \in DOMAIN lanes : Contains(lanes[g].jobs, j) /\ LaneLive(g)
<1>1. j \in Jobs
  BY DEF AgentJobs
<1>2. PICK g \in DOMAIN lanes : j \in HeldBy(g) /\ expires[j] <= lanes[g].expires
  BY <1>1, DequeueInv DEF Pop
<1>3. lanes[g] \in AgentLanes /\ clock \in Nat /\ expires[j] \in Nat
  BY <1>1 DEF SchedulerInv, QueueInv, QueueTypes, WaitsEnd
<1>4. lanes[g].jobs \in Seq(AgentJobs) /\ lanes[g].expires \in Nat
  BY <1>3 DEF AgentLanes
<1>5. Contains(lanes[g].jobs, j)
  BY <1>2, <1>4, SeqElements DEF HeldBy
<1>6. LaneLive(g)
  BY <1>2, <1>3, <1>4 DEF LaneLive
<1>. QED  BY <1>5, <1>6

\* A job of an agent starts only under a grant that is still registered and
\* has not run out, however long the request offered to wait.
THEOREM ReadyIsCoveredHolds == SchedulerSpec => ReadyIsCovered
<1>. DEFINE Covered == \A p \in popped' \ popped :
        p.job \in AgentJobs /\ ~p.expired =>
            \E g \in DOMAIN lanes : Contains(lanes[g].jobs, p.job) /\ LaneLive(g)
<1>1. SchedulerInv /\ [SchedulerNext]_schedulerVars => [Covered]_schedulerVars
  <2>. SUFFICES ASSUME SchedulerInv, SchedulerNext, NEW p \in popped' \ popped,
                       p.job \in AgentJobs, ~p.expired
                PROVE  \E g \in DOMAIN lanes : Contains(lanes[g].jobs, p.job) /\ LaneLive(g)
    OBVIOUS
  <2>1. popped' # popped /\ popped' # {}
    OBVIOUS
  <2>2. PICK j \in Jobs : Pop(j)
    <3>1. ~Dispatch /\ ~SchedulerTick
      BY <2>1 DEF Dispatch, SchedulerTick, jobVars
    <3>2. ~ \E j \in Jobs : Cancel(j) \/ Finish(j) \/ Retire(j)
      BY <2>1 DEF Cancel, Finish, Retire
    <3>3. Owner
      BY <3>1, <3>2 DEF SchedulerNext
    <3>. QED
      BY <2>1, <3>3 DEF Owner, Register, HostRevoke, HostPrune, HostDrain, RemoveLanes,
                        CancelWaiting, EnqueueAgent, EnqueueHost
  <2>3. popped' = {[job |-> j, expired |-> expires[j] <= clock]}
    BY <2>1, <2>2 DEF Pop
  <2>4. p.job = j /\ p.expired = (expires[j] <= clock)
    BY <2>3
  <2>. QED  BY <2>2, <2>4, PoppedIsCovered
<1>. QED  BY <1>1, SchedulerIsInvariant, PTL DEF SchedulerSpec, ReadyIsCovered

-----------------------------------------------------------------------------
(* Who is served first.                                                    *)

StepInOrder == TurnsInOrder /\ JobsInOrder /\ SidesAlternate

\* Jobs that stay where they are.
LEMMA JobsStay ==
    ASSUME \A g \in DOMAIN lanes \cap DOMAIN lanes' : lanes'[g].jobs = lanes[g].jobs
    PROVE  /\ ServedLanes = {}
           /\ \A g \in DOMAIN lanes \cap DOMAIN lanes' : InOrder(lanes[g].jobs, lanes'[g].jobs)
BY DEF ServedLanes, Left, InOrder

\* The queues stay as they are.
LEMMA StayInOrder ==
    ASSUME UNCHANGED queueVars
    PROVE  StepInOrder
<1>1. UNCHANGED <<lanes, active, host, hostTurn>>
  BY DEF queueVars
<1>2. ServedLanes = {} /\ \A g \in DOMAIN lanes \cap DOMAIN lanes' : InOrder(lanes[g].jobs, lanes'[g].jobs)
  BY <1>1, JobsStay
<1>3. InOrder(host, host') /\ Left(host, host') = {}
  BY <1>1 DEF InOrder, Left
<1>. QED  BY <1>1, <1>2, <1>3 DEF StepInOrder, TurnsInOrder, JobsInOrder, SidesAlternate

\* Lanes are removed or replaced; the others keep their jobs and their turns.
LEMMA RemovalInOrder ==
    ASSUME QueueInv, NEW keys, active' = WithoutTurns(keys), UNCHANGED <<host, hostTurn>>,
           \A g \in DOMAIN lanes \cap DOMAIN lanes' : lanes'[g].jobs = lanes[g].jobs
    PROVE  StepInOrder
<1>1. ServedLanes = {} /\ \A g \in DOMAIN lanes \cap DOMAIN lanes' : InOrder(lanes[g].jobs, lanes'[g].jobs)
  BY JobsStay
<1>2. InOrder(host, host') /\ Left(host, host') = {}
  BY DEF InOrder, Left
<1>3. \A g \in ToSet(active') : Ahead(active', g) \subseteq Ahead(active, g)
  BY TurnsKept DEF QueueInv, QueueTypes, TurnsAreExact
<1>. QED  BY <1>1, <1>2, <1>3 DEF StepInOrder, TurnsInOrder, JobsInOrder, SidesAlternate

\* Everybody leaves.
LEMMA DrainInOrder ==
    ASSUME HostDrain
    PROVE  StepInOrder
<1>1. DOMAIN lanes' = {} /\ ToSet(active') = {} /\ ToSet(host') = {} /\ active' = <<>>
      /\ UNCHANGED hostTurn
  BY DEF HostDrain, ToSet
<1>2. ServedLanes = {}
  BY <1>1 DEF ServedLanes
<1>3. InOrder(host, host')
  BY <1>1 DEF InOrder
<1>. QED  BY <1>1, <1>2, <1>3 DEF StepInOrder, TurnsInOrder, JobsInOrder, SidesAlternate

\* An admitted job is the last of its lane, and a lane that was empty the last
\* of the turns.
LEMMA EnqueueAgentInOrder ==
    ASSUME SchedulerInv, NEW j \in AgentJobs, NEW g, NEW wait \in Waits,
           EnqueueAgent(j, g, wait), UNCHANGED clock
    PROVE  StepInOrder
<1>1. /\ g \in DOMAIN lanes /\ lanes \in [DOMAIN lanes -> AgentLanes] /\ DOMAIN lanes \subseteq Grants
      /\ active \in Seq(Grants) /\ UNCHANGED <<host, hostTurn>>
      /\ ToSet(active) = {h \in DOMAIN lanes : lanes[h].jobs # <<>>}
  BY DEF EnqueueAgent, LaneLive, SchedulerInv, QueueInv, QueueTypes, TurnsAreExact
<1>2. /\ DOMAIN lanes' = DOMAIN lanes /\ lanes'[g].jobs = Append(lanes[g].jobs, j)
      /\ \A h \in DOMAIN lanes : h # g => lanes'[h] = lanes[h]
      /\ lanes[g].jobs \in Seq(AgentJobs)
  BY <1>1 DEF EnqueueAgent, AgentLanes
<1>3. j \notin ToSet(lanes[g].jobs)
  <2>1. j \notin WaitingJobs
    BY EnqueueAgentInv
  <2>. QED  BY <1>1, <2>1, HeldJobs DEF WaitingJobs, HeldBy, SchedulerInv, QueueInv
<1>4. InOrder(lanes[g].jobs, lanes'[g].jobs) /\ Left(lanes[g].jobs, lanes'[g].jobs) = {}
  BY <1>2, <1>3, JoinsBehind
<1>5. \A h \in DOMAIN lanes : h # g =>
          InOrder(lanes[h].jobs, lanes'[h].jobs) /\ Left(lanes[h].jobs, lanes'[h].jobs) = {}
  BY <1>2 DEF InOrder, Left
<1>6. ServedLanes = {}
  BY <1>2, <1>4, <1>5 DEF ServedLanes
<1>7. \A h \in ToSet(active) : Ahead(active', h) \subseteq Ahead(active, h)
  <2>1. CASE lanes[g].jobs = <<>>
    <3>1. g \notin ToSet(active) /\ g \in Grants /\ active' = Append(active, g)
      BY <1>1, <2>1 DEF EnqueueAgent
    <3>. QED  BY <1>1, <3>1, JoinsBehind
  <2>2. CASE lanes[g].jobs # <<>>
    BY <2>2 DEF EnqueueAgent
  <2>. QED  BY <2>1, <2>2
<1>8. InOrder(host, host') /\ Left(host, host') = {}
  BY <1>1 DEF InOrder, Left
<1>. QED  BY <1>1, <1>2, <1>4, <1>5, <1>6, <1>7, <1>8
          DEF StepInOrder, TurnsInOrder, JobsInOrder, SidesAlternate

\* An admitted job of the host is its last.
LEMMA EnqueueHostInOrder ==
    ASSUME SchedulerInv, NEW j \in HostJobs, NEW wait \in Waits, EnqueueHost(j, wait), UNCHANGED clock
    PROVE  StepInOrder
<1>1. host \in Seq(HostJobs) /\ host' = Append(host, j) /\ UNCHANGED <<lanes, active, hostTurn>>
  BY DEF EnqueueHost, SchedulerInv, QueueInv, QueueTypes
<1>2. j \notin ToSet(host)
  <2>1. j \notin WaitingJobs
    BY EnqueueHostInv
  <2>. QED  BY <2>1 DEF WaitingJobs
<1>3. InOrder(host, host') /\ Left(host, host') = {}
  BY <1>1, <1>2, JoinsBehind
<1>4. ServedLanes = {} /\ \A g \in DOMAIN lanes \cap DOMAIN lanes' : InOrder(lanes[g].jobs, lanes'[g].jobs)
  BY <1>1, JobsStay
<1>. QED  BY <1>1, <1>3, <1>4 DEF StepInOrder, TurnsInOrder, JobsInOrder, SidesAlternate

\* pop() takes the first job of the host, when it is its turn or no agent waits.
LEMMA HostPopInOrder ==
    ASSUME SchedulerInv, HostsTurn, host' = Tail(host), hostTurn' = FALSE,
           UNCHANGED <<lanes, active>>
    PROVE  StepInOrder
<1>1. host \in Seq(HostJobs) /\ host # <<>> /\ IsInjective(host)
  BY DEF SchedulerInv, QueueInv, QueueTypes, WaitsOnce, HostsTurn
<1>2. InOrder(host, host') /\ Left(host, host') # {}
  BY <1>1, FirstLeaves
<1>3. ServedLanes = {} /\ \A g \in DOMAIN lanes \cap DOMAIN lanes' : InOrder(lanes[g].jobs, lanes'[g].jobs)
  BY JobsStay
<1>4. SidesAlternate
  BY <1>2, <1>3 DEF SidesAlternate, HostsTurn
<1>. QED  BY <1>2, <1>3, <1>4 DEF StepInOrder, TurnsInOrder, JobsInOrder

\* pop() takes the first job of the first lane, which is then the last.
LEMMA AgentPopInOrder ==
    ASSUME SchedulerInv, ~HostsTurn, active # <<>>, NEW g, g = Head(active),
           NEW j, active' = NextTurns(g, Tail(lanes[g].jobs)),
           lanes' = [lanes EXCEPT ![g].jobs = Tail(@), ![g].bytes = @ - Size[j]],
           hostTurn' = TRUE, UNCHANGED host
    PROVE  StepInOrder
<1>1. /\ active \in Seq(Grants) /\ IsInjective(active)
      /\ ToSet(active) = {h \in DOMAIN lanes : lanes[h].jobs # <<>>}
      /\ lanes \in [DOMAIN lanes -> AgentLanes]
  BY DEF SchedulerInv, QueueInv, QueueTypes, TurnsAreExact
<1>2. /\ g \in ToSet(active) /\ Tail(active) \in Seq(Grants)
      /\ ToSet(Tail(active)) = ToSet(active) \ {g}
  BY <1>1, TailElements
<1>3. /\ \A x : Ahead(Tail(active), x) \subseteq Ahead(active, x)
      /\ Ahead(active, g) = {}
  BY <1>1, FirstLeaves
<1>4. g \in DOMAIN lanes /\ lanes[g].jobs # <<>> /\ g \in Grants
      /\ lanes[g].jobs \in Seq(AgentJobs) /\ IsInjective(lanes[g].jobs)
  BY <1>1, <1>2 DEF AgentLanes, SchedulerInv, QueueInv, QueueTypes, WaitsOnce
<1>5. /\ DOMAIN lanes' = DOMAIN lanes /\ lanes'[g].jobs = Tail(lanes[g].jobs)
      /\ \A h \in DOMAIN lanes : h # g => lanes'[h] = lanes[h]
  BY <1>1, <1>4 DEF AgentLanes
<1>6. InOrder(lanes[g].jobs, lanes'[g].jobs) /\ Left(lanes[g].jobs, lanes'[g].jobs) # {}
  <2>. DEFINE old == lanes[g].jobs
  <2>1. old \in Seq(AgentJobs) /\ old # <<>> /\ IsInjective(old) /\ lanes'[g].jobs = Tail(old)
    BY <1>4, <1>5
  <2>. HIDE DEF old
  <2>2. InOrder(old, Tail(old)) /\ Left(old, Tail(old)) = {Head(old)}
    BY <2>1, FirstLeaves
  <2>3. InOrder(old, lanes'[g].jobs) /\ Left(old, lanes'[g].jobs) # {}
    BY ONLY <2>1, <2>2
  <2>. QED  BY <2>3 DEF old
<1>7. \A h \in DOMAIN lanes : h # g =>
          InOrder(lanes[h].jobs, lanes'[h].jobs) /\ Left(lanes[h].jobs, lanes'[h].jobs) = {}
  BY <1>5 DEF InOrder, Left
<1>8. ServedLanes = {g}
  BY <1>4, <1>5, <1>6, <1>7 DEF ServedLanes
<1>9. /\ \A h \in ToSet(active) \ {g} : Ahead(active', h) \subseteq Ahead(active, h)
      /\ g \in ToSet(active') => Ahead(active', g) = ToSet(active') \ {g}
  <2>1. CASE Tail(lanes[g].jobs) = <<>>
    <3>1. active' = Tail(active)
      BY <1>2, <2>1 DEF NextTurns
    <3>. QED  BY <1>2, <1>3, <3>1
  <2>2. CASE Tail(lanes[g].jobs) # <<>>
    <3>. DEFINE others == Tail(active)
    <3>1. active' = Append(others, g) /\ others \in Seq(Grants) /\ g \in Grants /\ g \notin ToSet(others)
      BY <1>2, <1>4, <2>2 DEF NextTurns
    <3>. HIDE DEF others
    <3>2. /\ \A h \in ToSet(others) : Ahead(Append(others, g), h) \subseteq Ahead(others, h)
          /\ Ahead(Append(others, g), g) = ToSet(others)
          /\ ToSet(Append(others, g)) = ToSet(others) \cup {g}
      BY <3>1, JoinsBehind, AppendElements
    <3>3. /\ \A h \in ToSet(others) : Ahead(active', h) \subseteq Ahead(others, h)
          /\ Ahead(active', g) = ToSet(others) /\ ToSet(active') = ToSet(others) \cup {g}
      BY ONLY <3>1, <3>2
    <3>4. ToSet(others) = ToSet(active) \ {g} /\ \A x : Ahead(others, x) \subseteq Ahead(active, x)
      BY <1>2, <1>3 DEF others
    <3>. QED  BY ONLY <3>3, <3>4
  <2>. QED  BY <2>1, <2>2
<1>10. TurnsInOrder
  BY <1>3, <1>8, <1>9 DEF TurnsInOrder
<1>11. JobsInOrder
  <2>1. InOrder(host, host')
    BY DEF InOrder
  <2>. QED  BY <1>5, <1>6, <1>7, <2>1 DEF JobsInOrder
<1>12. SidesAlternate
  BY <1>8 DEF SidesAlternate, HostsTurn, Left
<1>. QED  BY <1>10, <1>11, <1>12 DEF StepInOrder

\* What the holder of the mutex does.
LEMMA OwnerInOrder ==
    ASSUME SchedulerInv, Owner, UNCHANGED clock
    PROVE  StepInOrder
<1>1. ASSUME NEW g \in Grants, NEW agent \in Agents, NEW lease \in Leases,
             Register({}, g, agent, clock + lease)
      PROVE  StepInOrder
  <2>1. clock + lease \in Nat /\ {} \in SUBSET DOMAIN lanes
    BY SchedulerAssumption DEF SchedulerInv
  <2>2. /\ DOMAIN lanes' = (DOMAIN lanes \ LaneOf(agent)) \cup {g}
        /\ \A h \in DOMAIN lanes \ LaneOf(agent) : h # g /\ lanes'[h] = lanes[h]
    <3>. DEFINE until == clock + lease
                gone == {}
    <3>1. until \in Nat /\ gone \in SUBSET DOMAIN lanes /\ Register(gone, g, agent, until)
      BY <1>1, <2>1
    <3>. HIDE DEF until, gone
    <3>2. /\ DOMAIN lanes' = (DOMAIN lanes \ (gone \cup LaneOf(agent))) \cup {g}
          /\ \A h \in DOMAIN lanes \ (gone \cup LaneOf(agent)) : h # g /\ lanes'[h] = lanes[h]
      BY <3>1, RegisterInv, Zenon
    <3>. QED  BY <3>2 DEF gone
  <2>3. g \notin DOMAIN lanes /\ UNCHANGED <<host, hostTurn>>
        /\ active' = WithoutTurns({} \cup Replaced(agent))
    BY <1>1 DEF Register
  <2>4. \A h \in DOMAIN lanes \cap DOMAIN lanes' : lanes'[h].jobs = lanes[h].jobs
    BY <2>2, <2>3
  <2>. QED  BY <2>3, <2>4, RemovalInOrder DEF SchedulerInv
<1>2. ASSUME NEW keys, RemoveLanes(keys) PROVE StepInOrder
  <2>1. lanes' = [h \in DOMAIN lanes \cap (DOMAIN lanes \ keys) |-> lanes[h]]
        /\ active' = WithoutTurns(keys) /\ UNCHANGED <<host, hostTurn>>
    BY <1>2 DEF RemoveLanes, Restrict
  <2>2. \A h \in DOMAIN lanes \cap DOMAIN lanes' : lanes'[h].jobs = lanes[h].jobs
    BY <2>1
  <2>. QED  BY <2>1, <2>2, RemovalInOrder DEF SchedulerInv
<1>3. CASE HostPrune \/ \E agent \in Agents : HostRevoke(agent)
  BY <1>2, <1>3 DEF HostPrune, HostRevoke
<1>4. CASE HostDrain
  BY <1>4, DrainInOrder
<1>5. ASSUME NEW j \in AgentJobs, NEW g \in Grants, NEW wait \in Waits,
             EnqueueAgent(j, g, wait)
      PROVE  StepInOrder
  BY <1>5, EnqueueAgentInOrder
<1>6. ASSUME NEW j \in HostJobs, NEW wait \in Waits, EnqueueHost(j, wait)
      PROVE  StepInOrder
  BY <1>6, EnqueueHostInOrder
<1>7. ASSUME NEW j \in Jobs, Pop(j)
      PROVE  StepInOrder
  BY <1>7, HostPopInOrder, AgentPopInOrder DEF Pop, Dequeue
<1>. QED  BY <1>1, <1>3, <1>4, <1>5, <1>6, <1>7 DEF Owner

\* Nobody is overtaken for ever, for any number of agents, lanes and jobs: the
\* round robin over the lanes is fair whatever lanes are registered, replaced,
\* pruned and revoked between two turns, a lane and the host's queue are
\* first-in first-out, and host and agents alternate while both wait.
THEOREM NobodyOvertakesHolds == SchedulerSpec => NobodyOvertakes
<1>1. SchedulerInv /\ [SchedulerNext]_schedulerVars => [StepInOrder]_schedulerVars
  <2>. SUFFICES ASSUME SchedulerInv, SchedulerNext PROVE StepInOrder
    OBVIOUS
  <2>1. CASE Owner /\ UNCHANGED clock
    BY <2>1, OwnerInOrder
  <2>2. CASE Dispatch \/ SchedulerTick \/ \E j \in Jobs : Cancel(j) \/ Finish(j) \/ Retire(j)
    <3>1. UNCHANGED queueVars
      BY <2>2 DEF Dispatch, SchedulerTick, Cancel, Finish, Retire
    <3>. QED  BY <3>1, StayInOrder
  <2>. QED  BY <2>1, <2>2 DEF SchedulerNext
<1>. QED  BY <1>1, SchedulerIsInvariant, PTL DEF SchedulerSpec, NobodyOvertakes, StepInOrder

=============================================================================
