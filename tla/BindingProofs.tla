--------------------------- MODULE BindingProofs ----------------------------
(***************************************************************************)
(* Proofs about the three ways into the Rust code, for any number of calls.*)
(* The worker pool, for every set of threads and jobs and for threads that *)
(* die: the lock is free while jobs run, the calling thread measures only  *)
(* when no thread can, and only a dead pool loses jobs.  The addon loader: *)
(* one answer per process, and no stale addon.  The WebAssembly binding:   *)
(* no call sees anything of another.                                       *)
(***************************************************************************)
EXTENDS WorkerPool, NativeBinding, WasmBinding, FiniteSetTheorems, TLAPS

-----------------------------------------------------------------------------
(* The worker pool.                                                        *)

(* Threads are started by the first call alone, before any job is sent.    *)
ThreadsComeFirst ==
  /\ caller = "starting" => sender = "uninitialized"
  /\ caller \in {"sending", "working"} => sender # "uninitialized"
  /\ sender # "some" => /\ channel = <<>>
                        /\ lost = {}
                        /\ \A w \in Workers : thread[w] # "running"

(* Without a pool no thread was started. *)
NoPoolIsUnborn == sender = "none" => Live = {}

(* A caller that sends or works has a job, and so has a running thread.    *)
HandsAJob ==
  /\ caller \in {"starting", "sending", "working"} => inHand \in Jobs
  /\ \A w \in Workers : thread[w] = "running" => running[w] \in Jobs

PoolInv ==
  /\ TypeOK
  /\ HandsAJob
  /\ ThreadsComeFirst
  /\ NoPoolIsUnborn
  /\ LockNeverPoisoned
  /\ CallerWorksOnlyAlone
  /\ OnlyADeadPoolLosesJobs

-----------------------------------------------------------------------------
LEMMA InitPoolInv == Init => PoolInv
<1> SUFFICES ASSUME Init PROVE PoolInv
  OBVIOUS
<1> USE DEF Init
<1>1. TypeOK
  BY DEF TypeOK, Callers, Threads
<1>2. Live = {}
  BY DEF Live
<1> QED
  BY <1>1, <1>2, PoolAssumption DEF PoolInv, ThreadsComeFirst, NoPoolIsUnborn,
     LockNeverPoisoned, CallerWorksOnlyAlone, OnlyADeadPoolLosesJobs, HandsAJob

-----------------------------------------------------------------------------
(* The steps of the calling thread leave every started thread as it is.    *)

LEMMA QueuedAreJobs ==
  ASSUME NEW s \in Seq(Jobs), NEW j \in Jobs
  PROVE  /\ Append(s, j) \in Seq(Jobs)
         /\ s # <<>> => Head(s) \in Jobs /\ Tail(s) \in Seq(Jobs)
OBVIOUS

LEMMA CallerStepKeepsPoolInv ==
  ASSUME PoolInv, HandsAJob',
         \/ \E job \in Jobs : Call(job) \/ Deliver(job)
         \/ EndStarting \/ SendJob \/ SendFails \/ NoPool \/ RunOnCaller
  PROVE  PoolInv'
<1> USE DEF PoolInv
<1>1. UNCHANGED <<thread, running, lockedBy, lost>>
  BY DEF Call, Deliver, EndStarting, SendJob, SendFails, NoPool, RunOnCaller, callerVars, poolVars
<1>2. UNCHANGED <<Live, Unborn>> /\ LockNeverPoisoned' /\ OnlyADeadPoolLosesJobs'
  BY <1>1 DEF Live, Unborn, LockNeverPoisoned, OnlyADeadPoolLosesJobs
<1>3. CASE \E job \in Jobs : Call(job) \/ Deliver(job)
  <2>1. TypeOK'
    BY <1>1, <1>3 DEF TypeOK, Call, Deliver, Callers, callerVars, poolVars
  <2>2. ThreadsComeFirst' /\ NoPoolIsUnborn' /\ CallerWorksOnlyAlone'
    BY <1>1, <1>2, <1>3 DEF Call, Deliver, callerVars, poolVars, ThreadsComeFirst,
       NoPoolIsUnborn, CallerWorksOnlyAlone
  <2> QED  BY <1>2, <2>1, <2>2
<1>4. CASE EndStarting
  <2>1. TypeOK'
    BY <1>1, <1>4 DEF TypeOK, EndStarting, Callers, poolVars
  <2>2. sender' = "none" => Live = {}
    BY <1>4 DEF EndStarting, Live, Unborn
  <2>3. ThreadsComeFirst'
    BY <1>1, <1>4 DEF EndStarting, ThreadsComeFirst, poolVars
  <2> QED  BY <1>2, <1>4, <2>1, <2>2, <2>3 DEF EndStarting, NoPoolIsUnborn, CallerWorksOnlyAlone
<1>5. CASE SendJob
  <2>1. inHand \in Jobs
    BY <1>5 DEF SendJob, TypeOK, HandsAJob
  <2>2. TypeOK'
    <3>1. channel' \in Seq(Jobs)
      BY <1>5, <2>1, QueuedAreJobs DEF SendJob, TypeOK
    <3> QED  BY <1>1, <1>5, <3>1 DEF TypeOK, SendJob, Callers
  <2> QED
    BY <1>1, <1>2, <1>5, <2>2 DEF SendJob, ThreadsComeFirst, NoPoolIsUnborn, CallerWorksOnlyAlone
<1>6. CASE SendFails
  <2>1. TypeOK'
    BY <1>1, <1>6 DEF TypeOK, SendFails, Callers, poolVars
  <2> QED
    BY <1>1, <1>2, <1>6, <2>1 DEF SendFails, poolVars, ThreadsComeFirst, NoPoolIsUnborn,
       CallerWorksOnlyAlone
<1>7. CASE NoPool
  <2>1. TypeOK'
    BY <1>1, <1>7 DEF TypeOK, NoPool, Callers, poolVars
  <2> QED
    BY <1>1, <1>2, <1>7, <2>1 DEF NoPool, poolVars, ThreadsComeFirst, NoPoolIsUnborn,
       CallerWorksOnlyAlone
<1>8. CASE RunOnCaller
  <2>1. TypeOK'
    BY <1>1, <1>8 DEF TypeOK, RunOnCaller, Callers, poolVars, HandsAJob
  <2> QED
    BY <1>1, <1>2, <1>8, <2>1 DEF RunOnCaller, poolVars, ThreadsComeFirst, NoPoolIsUnborn,
       CallerWorksOnlyAlone
<1> QED  BY <1>3, <1>4, <1>5, <1>6, <1>7, <1>8

-----------------------------------------------------------------------------
(* The steps of the threads.                                               *)

LEMMA StartKeepsPoolInv ==
  ASSUME PoolInv, HandsAJob', NEW w \in Workers, StartThread(w)
  PROVE  PoolInv'
<1> USE DEF PoolInv, StartThread, callerVars
<1>1. TypeOK'
  BY DEF TypeOK, Threads
<1>2. \A v \in Workers : thread'[v] = IF v = w THEN "idle" ELSE thread[v]
  BY DEF TypeOK
<1>3. sender' = "uninitialized" /\ lost' = {} /\ caller' = "starting"
  BY DEF ThreadsComeFirst
<1>4. LockNeverPoisoned'
  BY <1>2 DEF LockNeverPoisoned
<1>5. ThreadsComeFirst'
  BY <1>2, <1>3 DEF ThreadsComeFirst
<1> QED
  BY <1>1, <1>3, <1>4, <1>5 DEF NoPoolIsUnborn, CallerWorksOnlyAlone, OnlyADeadPoolLosesJobs

LEMMA WorkerKeepsPoolInv ==
  ASSUME PoolInv, HandsAJob', NEW w \in Workers, Worker(w)
  PROVE  PoolInv'
<1> USE DEF PoolInv
<1>1. UNCHANGED <<caller, inHand, sender, promise>> /\ w \in Live
  BY DEF Worker, LockReceiver, Receive, FinishJob, Die, callerVars, Live
<1>2. \A v \in Workers : v # w => thread'[v] = thread[v]
  BY DEF Worker, LockReceiver, Receive, FinishJob, Die, TypeOK
<1>3. NoPoolIsUnborn' /\ CallerWorksOnlyAlone' /\ ~(lost # {})
  BY <1>1 DEF NoPoolIsUnborn, CallerWorksOnlyAlone, OnlyADeadPoolLosesJobs
<1>4. CASE LockReceiver(w)
  <2>1. TypeOK'
    BY <1>1, <1>4 DEF LockReceiver, TypeOK, Threads
  <2>2. LockNeverPoisoned'
    BY <1>2, <1>4, PoolAssumption DEF LockReceiver, LockNeverPoisoned, TypeOK
  <2>3. ThreadsComeFirst' /\ OnlyADeadPoolLosesJobs'
    BY <1>1, <1>2, <1>3, <1>4 DEF LockReceiver, ThreadsComeFirst, OnlyADeadPoolLosesJobs, TypeOK
  <2> QED  BY <1>3, <2>1, <2>2, <2>3
<1>5. CASE Receive(w)
  <2>1. TypeOK'
    <3>1. channel \in Seq(Jobs) /\ channel # <<>>
      BY <1>5 DEF Receive, TypeOK
    <3>2. Head(channel) \in Jobs /\ channel' \in Seq(Jobs)
      BY <1>5, <3>1 DEF Receive
    <3> QED  BY <1>1, <1>5, <3>2 DEF Receive, TypeOK, Threads
  <2>2. LockNeverPoisoned'
    BY <1>2, <1>5, PoolAssumption DEF Receive, LockNeverPoisoned, TypeOK
  <2>3. ThreadsComeFirst' /\ OnlyADeadPoolLosesJobs'
    BY <1>1, <1>3, <1>5 DEF Receive, ThreadsComeFirst, OnlyADeadPoolLosesJobs
  <2> QED  BY <1>3, <2>1, <2>2, <2>3
<1>6. CASE FinishJob(w)
  <2>1. TypeOK'
    BY <1>1, <1>6 DEF FinishJob, TypeOK, Threads, HandsAJob
  <2>2. LockNeverPoisoned'
    BY <1>2, <1>6, PoolAssumption DEF FinishJob, LockNeverPoisoned, TypeOK
  <2>3. ThreadsComeFirst' /\ OnlyADeadPoolLosesJobs'
    BY <1>1, <1>3, <1>6 DEF FinishJob, ThreadsComeFirst, OnlyADeadPoolLosesJobs
  <2> QED  BY <1>3, <2>1, <2>2, <2>3
<1>7. CASE Die(w)
  <2>1. TypeOK'
    <3>1. Queued \subseteq Jobs
      BY DEF Queued, TypeOK, ToSet
    <3>2. channel' \in Seq(Jobs) /\ lost' \subseteq Jobs
      <4>1. \/ channel' = <<>> /\ lost' = lost \cup Queued
            \/ channel' = channel /\ lost' = lost
        BY <1>7 DEF Die
      <4>2. channel \in Seq(Jobs) /\ <<>> \in Seq(Jobs) /\ lost \subseteq Jobs
        BY DEF TypeOK
      <4> HIDE DEF PoolInv
      <4> QED  BY <3>1, <4>1, <4>2
    <3>3. thread' \in [Workers -> Threads] /\ running' \in [Workers -> Jobs \cup {NoJob}]
      BY <1>7 DEF Die, TypeOK, Threads
    <3>4. UNCHANGED <<lockedBy, posted>>
      BY <1>7 DEF Die
    <3> QED  BY <1>1, <3>2, <3>3, <3>4 DEF TypeOK
  <2>2. LockNeverPoisoned'
    BY <1>2, <1>7, PoolAssumption DEF Die, LockNeverPoisoned, TypeOK
  <2>3. thread'[w] = "dead" /\ thread[w] = "running"
    BY <1>7 DEF Die, TypeOK
  <2>4. ThreadsComeFirst'
    BY <1>1, <1>7, <2>3 DEF Die, ThreadsComeFirst
  <2>5. OnlyADeadPoolLosesJobs'
    BY <1>2, <1>3, <1>7, <2>3 DEF Die, OnlyADeadPoolLosesJobs, Live
  <2> QED  BY <1>3, <2>1, <2>2, <2>4, <2>5
<1> QED  BY <1>4, <1>5, <1>6, <1>7 DEF Worker

LEMMA HandsAJobInductive == PoolInv /\ [Next]_vars => HandsAJob'
<1> SUFFICES ASSUME PoolInv, [Next]_vars PROVE HandsAJob'
  OBVIOUS
<1> USE DEF PoolInv, TypeOK, HandsAJob, vars, callerVars, poolVars
<1>1. ASSUME NEW w \in Workers, Receive(w)
      PROVE  HandsAJob'
  <2>1. Head(channel) \in Jobs
    BY <1>1, QueuedAreJobs DEF Receive
  <2> QED  BY <1>1, <2>1 DEF Receive
<1>2. ASSUME NEW w \in Workers, LockReceiver(w) \/ FinishJob(w) \/ Die(w) \/ StartThread(w)
      PROVE  HandsAJob'
  BY <1>2 DEF LockReceiver, FinishJob, Die, StartThread
<1>3. CASE \E job \in Jobs : Call(job) \/ Deliver(job)
  BY <1>3 DEF Call, Deliver
<1>4. CASE EndStarting \/ SendJob \/ SendFails \/ NoPool \/ RunOnCaller
  BY <1>4 DEF EndStarting, SendJob, SendFails, NoPool, RunOnCaller
<1>5. CASE UNCHANGED vars
  BY <1>5
<1> QED  BY <1>1, <1>2, <1>3, <1>4, <1>5 DEF Next, Caller, Worker

LEMMA PoolInvInductive == PoolInv /\ [Next]_vars => PoolInv'
<1> SUFFICES ASSUME PoolInv, [Next]_vars PROVE PoolInv'
  OBVIOUS
<1>0. HandsAJob'
  BY HandsAJobInductive
<1>1. CASE UNCHANGED vars
  BY <1>0, <1>1 DEF vars, callerVars, poolVars, PoolInv, TypeOK, ThreadsComeFirst, NoPoolIsUnborn, Live,
     LockNeverPoisoned, CallerWorksOnlyAlone, OnlyADeadPoolLosesJobs
<1> QED
  BY <1>0, <1>1, CallerStepKeepsPoolInv, StartKeepsPoolInv, WorkerKeepsPoolInv DEF Next, Caller

LEMMA PoolInvAlways == Safety => []PoolInv
BY InitPoolInv, PoolInvInductive, PTL DEF Safety

-----------------------------------------------------------------------------
(* No thread runs a job, or dies of one, while it holds the receiver's     *)
(* mutex (worker_pool.rs:31), so no panic can poison it.                   *)
THEOREM NeverPoisoned == Safety => []LockNeverPoisoned
<1>1. PoolInv => LockNeverPoisoned
  BY DEF PoolInv
<1> QED  BY PoolInvAlways, <1>1, PTL

(* A measurement blocks the calling thread, and with it the event loop,    *)
(* only when no thread of the pool is alive (worker_pool.rs:44-51).        *)
THEOREM CallerWorksAlone == Safety => []CallerWorksOnlyAlone
<1>1. PoolInv => CallerWorksOnlyAlone
  BY DEF PoolInv
<1> QED  BY PoolInvAlways, <1>1, PTL

-----------------------------------------------------------------------------
(* No job is lost or doubled.                                              *)

Held(job) == inHand = job
Sent(job) == \E i \in 1..Len(channel) : channel[i] = job
Runs(job) == \E w \in Workers : running[w] = job

Somewhere(job) == Held(job) \/ Sent(job) \/ Runs(job) \/ job \in posted \/ job \in lost

(* A job is in one place at most, and there once. *)
Alone(job) ==
  /\ Held(job) => ~Sent(job) /\ ~Runs(job) /\ job \notin posted /\ job \notin lost
  /\ Sent(job) => ~Runs(job) /\ job \notin posted /\ job \notin lost
  /\ Runs(job) => job \notin posted /\ job \notin lost
  /\ job \in posted => job \notin lost
  /\ \A i, k \in 1..Len(channel) : channel[i] = job /\ channel[k] = job => i = k
  /\ \A v, w \in Workers : running[v] = job /\ running[w] = job => v = w

Accounted(job) ==
  /\ Alone(job)
  /\ Somewhere(job) => promise[job] = "pending"
  /\ promise[job] = "pending" /\ job \notin Dying => Somewhere(job)

(* A caller that is free, and a thread that does not run, have no job.     *)
NothingElseInHand ==
  /\ caller = "free" => inHand = NoJob
  /\ \A w \in Workers : thread[w] # "running" => running[w] = NoJob

JobInv == PoolInv /\ NothingElseInHand /\ \A job \in Jobs : Accounted(job)

LEMMA NothingElseInHandInductive ==
  ASSUME PoolInv, NothingElseInHand, [Next]_vars
  PROVE  NothingElseInHand'
<1> USE DEF NothingElseInHand, PoolInv, TypeOK
<1>1. CASE \E job \in Jobs : Call(job) \/ Deliver(job)
  BY <1>1 DEF Call, Deliver, callerVars, poolVars
<1>2. CASE EndStarting \/ SendJob \/ SendFails \/ NoPool \/ RunOnCaller
  BY <1>2 DEF EndStarting, SendJob, SendFails, NoPool, RunOnCaller, callerVars, poolVars
<1>3. ASSUME NEW w \in Workers, StartThread(w) PROVE NothingElseInHand'
  BY <1>3 DEF StartThread, callerVars
<1>4. ASSUME NEW w \in Workers, LockReceiver(w) \/ Receive(w) \/ FinishJob(w) \/ Die(w)
      PROVE  NothingElseInHand'
  BY <1>4 DEF LockReceiver, Receive, FinishJob, Die, callerVars
<1>5. CASE UNCHANGED vars
  BY <1>5 DEF vars, callerVars, poolVars
<1> QED  BY <1>1, <1>2, <1>3, <1>4, <1>5 DEF Next, Caller, Worker

(* A step that leaves the channel, the running jobs or the promises alone. *)
LEMMA WhatStays ==
  /\ UNCHANGED inHand => \A job : Held(job)' <=> Held(job)
  /\ UNCHANGED channel => \A job : Sent(job)' <=> Sent(job)
  /\ UNCHANGED running => \A job : Runs(job)' <=> Runs(job)
BY DEF Held, Sent, Runs

LEMMA QueueSteps ==
  ASSUME NEW s \in Seq(Jobs)
  PROVE  /\ \A j \in Jobs :
              /\ Len(Append(s, j)) = Len(s) + 1 /\ Len(s) \in Nat
              /\ Append(s, j)[Len(s) + 1] = j
              /\ \A i \in 1..Len(s) : Append(s, j)[i] = s[i]
         /\ s # <<>> => /\ Len(Tail(s)) = Len(s) - 1 /\ Len(s) \in Nat \ {0}
                        /\ Head(s) = s[1]
                        /\ \A i \in 1..Len(Tail(s)) : Tail(s)[i] = s[i + 1]
OBVIOUS

LEMMA CallAccounts ==
  ASSUME JobInv, NEW j \in Jobs, Call(j), NEW job \in Jobs
  PROVE  Accounted(job)'
<1>1. /\ inHand = NoJob /\ inHand' = j /\ promise[j] = "none"
      /\ UNCHANGED <<channel, running, posted, lost>>
      /\ promise' = [promise EXCEPT ![j] = "pending"]
  BY DEF Call, JobInv, NothingElseInHand, poolVars
<1>2. promise'[job] = IF job = j THEN "pending" ELSE promise[job]
  BY <1>1 DEF JobInv, PoolInv, TypeOK
<1>3. Accounted(job) /\ (job = j => ~Somewhere(job)) /\ ~Held(job)
  BY <1>1, PoolAssumption DEF JobInv, Accounted, Held
<1>4. Held(job)' <=> job = j
  BY <1>1 DEF Held
<1> QED  BY <1>1, <1>2, <1>3, <1>4, WhatStays DEF Accounted, Alone, Somewhere

LEMMA DeliverAccounts ==
  ASSUME JobInv, NEW j \in Jobs, Deliver(j), NEW job \in Jobs
  PROVE  Accounted(job)'
<1>1. /\ UNCHANGED <<inHand, channel, running, lost>> /\ j \in posted /\ posted' = posted \ {j}
      /\ \E outcome \in {"resolved", "rejected"} : promise' = [promise EXCEPT ![j] = outcome]
  BY DEF Deliver, callerVars, poolVars
<1>2. IF job = j THEN promise'[job] # "pending" ELSE promise'[job] = promise[job]
  BY <1>1 DEF JobInv, PoolInv, TypeOK
<1>3. Accounted(job)
  BY DEF JobInv
<1> QED  BY <1>1, <1>2, <1>3, WhatStays DEF Accounted, Alone, Somewhere

LEMMA SendAccounts ==
  ASSUME JobInv, SendJob, NEW job \in Jobs
  PROVE  Accounted(job)'
<1>1. /\ inHand \in Jobs /\ inHand' = NoJob /\ channel' = Append(channel, inHand)
      /\ UNCHANGED <<running, lost, posted, promise>> /\ channel \in Seq(Jobs)
  BY DEF SendJob, JobInv, PoolInv, HandsAJob, TypeOK
<1>2. /\ Len(channel') = Len(channel) + 1 /\ Len(channel) \in Nat
      /\ channel'[Len(channel) + 1] = inHand
      /\ \A i \in 1..Len(channel) : channel'[i] = channel[i]
  BY <1>1, QueueSteps
<1>3. Sent(job)' <=> Sent(job) \/ job = inHand
  BY <1>2 DEF Sent
<1>4. ~Held(job)' /\ (Held(job) <=> job = inHand)
  BY <1>1, PoolAssumption DEF Held
<1>5. Accounted(job)
  BY DEF JobInv
<1>6. \A i, k \in 1..Len(channel') : channel'[i] = job /\ channel'[k] = job => i = k
  <2>1. job = inHand => \A i \in 1..Len(channel) : channel[i] # job
    BY <1>4, <1>5 DEF Accounted, Alone, Sent
  <2>2. job # inHand => channel'[Len(channel) + 1] # job
    BY <1>2
  <2> QED  BY <1>2, <1>5, <2>1, <2>2 DEF Accounted, Alone
<1> QED  BY <1>1, <1>3, <1>4, <1>5, <1>6, WhatStays DEF Accounted, Alone, Somewhere

LEMMA RunOnCallerAccounts ==
  ASSUME JobInv, RunOnCaller, NEW job \in Jobs
  PROVE  Accounted(job)'
<1>1. /\ inHand' = NoJob /\ UNCHANGED <<channel, running, lost, promise>>
      /\ posted' = IF inHand \in Dying THEN posted ELSE posted \cup {inHand}
  BY DEF RunOnCaller, poolVars, Escapes
<1>2. ~Held(job)' /\ (Held(job) <=> job = inHand)
  BY <1>1, PoolAssumption DEF Held
<1>3. Accounted(job)
  BY DEF JobInv
<1> QED  BY <1>1, <1>2, <1>3, WhatStays DEF Accounted, Alone, Somewhere

LEMMA ReceiveAccounts ==
  ASSUME JobInv, NEW w \in Workers, Receive(w), NEW job \in Jobs
  PROVE  Accounted(job)'
<1> DEFINE j == Head(channel)
<1>1. /\ channel \in Seq(Jobs) /\ channel # <<>> /\ running[w] = NoJob
      /\ channel' = Tail(channel) /\ running' = [running EXCEPT ![w] = j]
      /\ UNCHANGED <<inHand, lost, posted, promise>>
  BY DEF Receive, callerVars, JobInv, PoolInv, TypeOK, NothingElseInHand
<1>2. /\ Len(channel') = Len(channel) - 1 /\ Len(channel) \in Nat \ {0} /\ j = channel[1]
      /\ \A i \in 1..Len(channel') : channel'[i] = channel[i + 1]
  BY <1>1, QueueSteps
<1> HIDE DEF j
<1>3. Accounted(job) /\ Alone(job)
  BY DEF JobInv, Accounted
<1>4. Sent(job)' <=> Sent(job) /\ job # j
  <2>1. \A i \in 1..Len(channel) : i # 1 => i - 1 \in 1..Len(channel') /\ channel'[i - 1] = channel[i]
    BY <1>2
  <2>2. \A i \in 1..Len(channel') : i + 1 \in 1..Len(channel) /\ i + 1 # 1 /\ channel'[i] = channel[i + 1]
    BY <1>2
  <2>3. 1 \in 1..Len(channel) /\ (job = j => channel[1] = job)
    BY <1>2
  <2>4. ASSUME Sent(job)' PROVE Sent(job) /\ job # j
    BY <1>3, <2>2, <2>3, <2>4 DEF Sent, Alone
  <2>5. ASSUME Sent(job), job # j PROVE Sent(job)'
    BY <1>2, <2>1, <2>5 DEF Sent
  <2> QED  BY <2>4, <2>5
<1>5. \A v \in Workers : running'[v] = IF v = w THEN j ELSE running[v]
  BY <1>1 DEF JobInv, PoolInv, TypeOK
<1>6. Runs(job)' <=> Runs(job) \/ job = j
  BY <1>1, <1>5, PoolAssumption DEF Runs
<1>7. job = j => Sent(job)
  BY <1>2 DEF Sent
<1>8. \A i, k \in 1..Len(channel') : channel'[i] = job /\ channel'[k] = job => i = k
  BY <1>2, <1>3 DEF Alone
<1>9. \A u, v \in Workers : running'[u] = job /\ running'[v] = job => u = v
  BY <1>3, <1>5, <1>7 DEF Alone, Runs
<1> QED
  BY <1>1, <1>3, <1>4, <1>6, <1>7, <1>8, <1>9, WhatStays DEF Accounted, Alone, Somewhere

LEMMA EndOfRunAccounts ==
  ASSUME JobInv, NEW w \in Workers, FinishJob(w) \/ Die(w), NEW job \in Jobs
  PROVE  Accounted(job)'
<1> DEFINE j == running[w]
<1>1. /\ running' = [running EXCEPT ![w] = NoJob] /\ j \in Jobs
      /\ UNCHANGED <<inHand, promise>>
  BY DEF FinishJob, Die, callerVars, JobInv, PoolInv, HandsAJob
<1> HIDE DEF j
<1>2. \A v \in Workers : running'[v] = IF v = w THEN NoJob ELSE running[v]
  BY <1>1 DEF JobInv, PoolInv, TypeOK
<1>3. Accounted(job) /\ Alone(job)
  BY DEF JobInv, Accounted
<1>4. /\ Runs(job)' <=> Runs(job) /\ job # j
      /\ job = j => Runs(job)
      /\ \A u, v \in Workers : running'[u] = job /\ running'[v] = job => u = v
  BY <1>2, <1>3, PoolAssumption DEF Runs, Alone, j
<1>5. CASE FinishJob(w)
  <2>1. posted' = posted \cup {j} /\ UNCHANGED <<channel, lost>>
    BY <1>5 DEF FinishJob, j
  <2> QED  BY <1>1, <1>3, <1>4, <2>1, WhatStays DEF Accounted, Alone, Somewhere
<1>6. CASE Die(w)
  <2>1. UNCHANGED posted /\ j \in Dying
    BY <1>6 DEF Die, Escapes, j
  <2>2. CASE UNCHANGED <<channel, lost>>
    BY <1>1, <1>3, <1>4, <2>1, <2>2, WhatStays DEF Accounted, Alone, Somewhere
  <2>3. CASE channel' = <<>> /\ lost' = lost \cup Queued
    <3>1. ~Sent(job)' /\ (job \in Queued <=> Sent(job)) /\ Len(channel') = 0
      BY <2>3 DEF Sent, Queued, ToSet, JobInv, PoolInv, TypeOK
    <3> QED  BY <1>1, <1>3, <1>4, <2>1, <2>3, <3>1, WhatStays DEF Accounted, Alone, Somewhere
  <2> QED  BY <1>6, <2>2, <2>3 DEF Die
<1> QED  BY <1>5, <1>6

LEMMA JobInvInductive ==
  ASSUME JobInv, [Next]_vars
  PROVE  JobInv'
<1>1. PoolInv' /\ NothingElseInHand'
  BY PoolInvInductive, NothingElseInHandInductive DEF JobInv
<1>2. ASSUME NEW job \in Jobs PROVE Accounted(job)'
  <2>1. CASE UNCHANGED <<inHand, channel, running, posted, lost, promise>>
    BY <2>1, WhatStays DEF JobInv, Accounted, Alone, Somewhere
  <2>2. CASE \/ \E w \in Workers : StartThread(w) \/ LockReceiver(w)
             \/ EndStarting \/ SendFails \/ NoPool \/ UNCHANGED vars
    BY <2>1, <2>2 DEF StartThread, LockReceiver, EndStarting, SendFails, NoPool, vars,
       callerVars, poolVars
  <2> QED
    BY <2>2, CallAccounts, DeliverAccounts, SendAccounts, RunOnCallerAccounts,
       ReceiveAccounts, EndOfRunAccounts DEF Next, Caller, Worker
<1> QED  BY <1>1, <1>2 DEF JobInv

LEMMA JobInvAlways == Safety => []JobInv
<1>1. Init => JobInv
  <2> SUFFICES ASSUME Init PROVE NothingElseInHand /\ \A job \in Jobs : Accounted(job)
    BY InitPoolInv DEF JobInv
  <2>1. NothingElseInHand
    BY DEF Init, NothingElseInHand
  <2>2. ASSUME NEW job \in Jobs PROVE ~Somewhere(job) /\ promise[job] = "none"
    BY PoolAssumption DEF Init, Somewhere, Held, Sent, Runs
  <2>3. ASSUME NEW job \in Jobs PROVE Alone(job)
    <3>1. ~Held(job) /\ ~Sent(job) /\ ~Runs(job) /\ job \notin posted
      BY <2>2 DEF Somewhere
    <3> QED  BY <3>1 DEF Alone, Sent, Runs
  <2> QED  BY <2>1, <2>2, <2>3 DEF Accounted
<1> QED  BY <1>1, JobInvInductive, PTL DEF Safety

(* The places of a job, one by one. *)
LEMMA PlacesOf ==
  ASSUME NEW job \in Jobs, NEW p
  PROVE  p \in Places(job) <=>
           \/ p = <<"hand", 0>> /\ Held(job)
           \/ \E i \in 1..Len(channel) : p = <<"channel", i>> /\ channel[i] = job
           \/ \E w \in Workers : p = <<"running", w>> /\ running[w] = job
           \/ p = <<"posted", 0>> /\ job \in posted
           \/ p = <<"lost", 0>> /\ job \in lost
BY DEF Places, Held

LEMMA OnlyPlace ==
  ASSUME NEW job \in Jobs, NEW x, \A p : p \in Places(job) <=> p = x
  PROVE  Cardinality(Places(job)) = 1
<1> DEFINE S == Places(job)
<1>1. \A p : p \in S <=> p = x
  OBVIOUS
<1> HIDE DEF S
<1>2. S = {x}
  BY <1>1
<1>3. Cardinality(S) = 1
  BY <1>2, FS_Singleton
<1> QED  BY <1>3 DEF S

(* spawn and run_jobs (worker_pool.rs) neither forget a job nor hand it to *)
(* two threads: a call whose promise is pending is in one place, whatever  *)
(* threads die and however the threads race for the channel.               *)
THEOREM PoolConservesJobs == Safety => []JobsConserved
<1>1. JobInv => JobsConserved
  <2> SUFFICES ASSUME JobInv, NEW job \in Jobs
               PROVE  IF promise[job] = "pending"
                        THEN job \notin Dying => Cardinality(Places(job)) = 1
                        ELSE Places(job) = {}
    BY DEF JobsConserved
  <2>1. Accounted(job) /\ Alone(job)
    BY DEF JobInv, Accounted
  <2>2. ~Somewhere(job) => Places(job) = {}
    BY PlacesOf DEF Somewhere, Sent, Runs
  <2>3. ASSUME Somewhere(job) PROVE Cardinality(Places(job)) = 1
    <3>1. CASE Held(job)
      <4>1. PICK x : x = <<"hand", 0>>
        OBVIOUS
      <4>2. \A p : p \in Places(job) <=> p = x
        BY <2>1, <3>1, <4>1, PlacesOf DEF Alone, Sent, Runs
      <4> QED  BY <4>2, OnlyPlace
    <3>2. CASE Sent(job)
      <4>1. PICK i : i \in 1..Len(channel) /\ channel[i] = job
        BY <3>2 DEF Sent
      <4>2. PICK x : x = <<"channel", i>>
        OBVIOUS
      <4>3. \A p : p \in Places(job) <=> p = x
        BY <2>1, <3>2, <4>1, <4>2, PlacesOf DEF Alone, Runs
      <4> QED  BY <4>3, OnlyPlace
    <3>3. CASE Runs(job)
      <4>1. PICK w \in Workers : running[w] = job
        BY <3>3 DEF Runs
      <4>2. PICK x : x = <<"running", w>>
        OBVIOUS
      <4>3. \A p : p \in Places(job) <=> p = x
        BY <2>1, <3>3, <4>1, <4>2, PlacesOf DEF Alone, Sent
      <4> QED  BY <4>3, OnlyPlace
    <3>4. CASE job \in posted
      <4>1. PICK x : x = <<"posted", 0>>
        OBVIOUS
      <4>2. \A p : p \in Places(job) <=> p = x
        BY <2>1, <3>4, <4>1, PlacesOf DEF Alone, Sent, Runs
      <4> QED  BY <4>2, OnlyPlace
    <3>5. CASE job \in lost
      <4>1. PICK x : x = <<"lost", 0>>
        OBVIOUS
      <4>2. \A p : p \in Places(job) <=> p = x
        BY <2>1, <3>5, <4>1, PlacesOf DEF Alone, Sent, Runs
      <4> QED  BY <4>2, OnlyPlace
    <3> QED  BY <2>3, <3>1, <3>2, <3>3, <3>4, <3>5 DEF Somewhere
  <2> QED  BY <2>1, <2>2, <2>3 DEF Accounted
<1> QED  BY <1>1, JobInvAlways, PTL

(* A job that killed its thread stays where it is: nowhere, its promise    *)
(* pending.                                                                *)
IsKiller(job) == job \in Dying /\ promise[job] = "pending" /\ ~Somewhere(job)

KillersAreThose == \A job : job \in Killers <=> IsKiller(job)

LEMMA KillersAre == KillersAreThose
<1> SUFFICES ASSUME NEW job \in Jobs PROVE Places(job) = {} <=> ~Somewhere(job)
  BY PoolAssumption DEF Killers, IsKiller, KillersAreThose
<1>1. CASE ~Somewhere(job)
  BY <1>1, PlacesOf DEF Somewhere, Sent, Runs
<1>2. CASE Somewhere(job)
  <2>1. \E p : p \in Places(job)
    BY <1>2, PlacesOf DEF Somewhere, Sent, Runs
  <2> QED  BY <1>2, <2>1
<1> QED  BY <1>1, <1>2

LEMMA KillersStay ==
  ASSUME JobInv, [Next]_vars, NEW job, IsKiller(job)
  PROVE  IsKiller(job)'
<1> USE DEF IsKiller
<1>0. /\ job \in Jobs /\ ~Held(job) /\ ~Sent(job) /\ ~Runs(job)
      /\ job \notin posted /\ job \notin lost
  BY PoolAssumption DEF Somewhere
<1>1. ASSUME NEW j \in Jobs, Call(j) PROVE IsKiller(job)'
  <2>1. /\ inHand' = j /\ promise[j] = "none" /\ UNCHANGED <<channel, running, posted, lost>>
        /\ promise' = [promise EXCEPT ![j] = "pending"]
    BY <1>1 DEF Call, poolVars
  <2>2. job # j /\ promise'[job] = "pending"
    BY <2>1 DEF JobInv, PoolInv, TypeOK
  <2> QED  BY <1>0, <2>1, <2>2, WhatStays DEF Somewhere, Held
<1>2. ASSUME NEW j \in Jobs, Deliver(j) PROVE IsKiller(job)'
  <2>1. /\ UNCHANGED <<inHand, channel, running, lost>> /\ j \in posted /\ posted' = posted \ {j}
        /\ \E outcome \in {"resolved", "rejected"} : promise' = [promise EXCEPT ![j] = outcome]
    BY <1>2 DEF Deliver, callerVars, poolVars
  <2>2. job # j /\ promise'[job] = "pending"
    BY <1>0, <2>1 DEF JobInv, PoolInv, TypeOK
  <2> QED  BY <1>0, <2>1, <2>2, WhatStays DEF Somewhere
<1>3. CASE SendJob
  <2>1. /\ inHand \in Jobs /\ inHand' = NoJob /\ channel' = Append(channel, inHand)
        /\ UNCHANGED <<running, lost, posted, promise>> /\ channel \in Seq(Jobs)
    BY <1>3 DEF SendJob, JobInv, PoolInv, HandsAJob, TypeOK
  <2>2. /\ Len(channel') = Len(channel) + 1 /\ Len(channel) \in Nat
        /\ channel'[Len(channel) + 1] = inHand
        /\ \A i \in 1..Len(channel) : channel'[i] = channel[i]
    BY <2>1, QueueSteps
  <2>3. ~Sent(job)' /\ ~Held(job)'
    BY <1>0, <2>1, <2>2, PoolAssumption DEF Sent, Held
  <2> QED  BY <1>0, <2>1, <2>3, WhatStays DEF Somewhere
<1>4. CASE RunOnCaller
  <2>1. /\ inHand' = NoJob /\ UNCHANGED <<channel, running, lost, promise>>
        /\ posted' \subseteq posted \cup {inHand}
    BY <1>4 DEF RunOnCaller, poolVars
  <2> QED  BY <1>0, <2>1, WhatStays, PoolAssumption DEF Somewhere, Held
<1>5. ASSUME NEW w \in Workers, Receive(w) PROVE IsKiller(job)'
  <2> DEFINE j == Head(channel)
  <2>1. /\ channel \in Seq(Jobs) /\ channel # <<>>
        /\ channel' = Tail(channel) /\ running' = [running EXCEPT ![w] = j]
        /\ UNCHANGED <<inHand, lost, posted, promise>>
    BY <1>5 DEF Receive, callerVars, JobInv, PoolInv, TypeOK
  <2>2. /\ Len(channel') = Len(channel) - 1 /\ Len(channel) \in Nat \ {0} /\ j = channel[1]
        /\ \A i \in 1..Len(channel') : channel'[i] = channel[i + 1]
    BY <2>1, QueueSteps
  <2> HIDE DEF j
  <2>3. j # job /\ ~Sent(job)'
    BY <1>0, <2>2 DEF Sent
  <2>4. ~Runs(job)'
    BY <1>0, <2>1, <2>3 DEF Runs, JobInv, PoolInv, TypeOK
  <2> QED  BY <1>0, <2>1, <2>3, <2>4, WhatStays DEF Somewhere
<1>6. ASSUME NEW w \in Workers, FinishJob(w) \/ Die(w) PROVE IsKiller(job)'
  <2>1. /\ running' = [running EXCEPT ![w] = NoJob] /\ UNCHANGED <<inHand, promise>>
        /\ posted' \subseteq posted \cup {running[w]}
        /\ \/ UNCHANGED <<channel, lost>>
           \/ channel' = <<>> /\ lost' = lost \cup Queued
    BY <1>6 DEF FinishJob, Die, callerVars
  <2>2. ~Runs(job)' /\ job # running[w]
    BY <1>0, <2>1, PoolAssumption DEF Runs, JobInv, PoolInv, TypeOK
  <2>3. ~Sent(job)' /\ job \notin lost'
    <3>1. job \notin Queued
      BY <1>0 DEF Sent, Queued, ToSet, JobInv, PoolInv, TypeOK
    <3> QED  BY <1>0, <2>1, <3>1 DEF Sent
  <2> QED  BY <1>0, <2>1, <2>2, <2>3, WhatStays DEF Somewhere
<1>7. CASE \/ \E w \in Workers : StartThread(w) \/ LockReceiver(w)
           \/ EndStarting \/ SendFails \/ NoPool \/ UNCHANGED vars
  <2>1. UNCHANGED <<inHand, channel, running, posted, lost, promise>>
    BY <1>7 DEF StartThread, LockReceiver, EndStarting, SendFails, NoPool, vars,
       callerVars, poolVars
  <2> QED  BY <1>0, <2>1, WhatStays DEF Somewhere
<1> QED  BY <1>1, <1>2, <1>3, <1>4, <1>5, <1>6, <1>7 DEF Next, Caller, Worker

LEMMA DeathsInductive ==
  ASSUME JobInv, EachDeathHasItsJob, [Next]_vars
  PROVE  EachDeathHasItsJob'
<1>0. KillersAreThose /\ KillersAreThose'
  BY KillersAre, PTL
<1>1. Killers \subseteq Killers'
  BY <1>0, KillersStay DEF KillersAreThose
<1>2. PICK killer \in [Dead -> Killers] : IsInjective(killer)
  BY DEF EachDeathHasItsJob
<1>3. \A v, w \in Dead : killer[v] = killer[w] => v = w
  BY <1>2 DEF IsInjective
<1>4. ASSUME NEW w \in Workers, Die(w) PROVE EachDeathHasItsJob'
  <2>0. PICK j : j = running[w]
    OBVIOUS
  <2>1. /\ thread[w] = "running" /\ thread' = [thread EXCEPT ![w] = "dead"] /\ j \in Dying
        /\ running' = [running EXCEPT ![w] = NoJob] /\ UNCHANGED <<inHand, promise, posted>>
        /\ \/ UNCHANGED <<channel, lost>>
           \/ channel' = <<>> /\ lost' = lost \cup Queued
    BY <1>4, <2>0 DEF Die, Escapes, callerVars
  <2>2. Dead' = Dead \cup {w} /\ w \notin Dead
    BY <2>1 DEF Dead, JobInv, PoolInv, TypeOK
  <2>3. j \in Jobs /\ Runs(j)
    BY <2>0, <2>1, PoolAssumption DEF Runs
  <2>4. Alone(j) /\ promise[j] = "pending"
    BY <2>3 DEF JobInv, Accounted, Somewhere
  <2>5. j \notin Killers
    BY <1>0, <2>3 DEF KillersAreThose, IsKiller, Somewhere
  <2>6. IsKiller(j)'
    <3>1. ~Held(j) /\ ~Sent(j) /\ j \notin posted /\ j \notin lost
      BY <2>3, <2>4 DEF Alone
    <3>2. ~Runs(j)'
      BY <2>0, <2>1, <2>3, <2>4, PoolAssumption DEF Runs, Alone, JobInv, PoolInv, TypeOK
    <3>3. j \notin Queued
      BY <3>1 DEF Sent, Queued, ToSet, JobInv, PoolInv, TypeOK
    <3>4. ~Sent(j)' /\ j \notin lost'
      BY <2>1, <3>1, <3>3 DEF Sent
    <3> QED  BY <2>1, <2>4, <3>1, <3>2, <3>4 DEF IsKiller, Somewhere, Held
  <2>7. j \in Killers'
    BY <1>0, <2>6 DEF KillersAreThose
  <2> DEFINE new == [v \in Dead' |-> IF v = w THEN j ELSE killer[v]]
  <2>8. new \in [Dead' -> Killers']
    BY <1>1, <1>2, <2>2, <2>7
  <2>9. IsInjective(new)
    BY <1>2, <1>3, <2>2, <2>5 DEF IsInjective
  <2> QED  BY <2>8, <2>9 DEF EachDeathHasItsJob
<1>5. CASE ~\E w \in Workers : Die(w)
  <2>1. Dead' = Dead
    BY <1>5 DEF Dead, Next, Caller, Worker, Call, Deliver, StartThread, EndStarting, SendJob, SendFails,
       NoPool, RunOnCaller, LockReceiver, Receive, FinishJob, vars, poolVars, JobInv, PoolInv, TypeOK
  <2>2. killer \in [Dead' -> Killers']
    BY <1>1, <1>2, <2>1
  <2> QED  BY <1>2, <2>2 DEF EachDeathHasItsJob
<1> QED  BY <1>4, <1>5

(* Jobs waiting in the channel are dropped only with the last thread, and  *)
(* the threads die one by one, each of a job that panicked outside         *)
(* catch_unwind and of no other's: worker_pool.rs:47 has nothing else to   *)
(* make up for, however many threads and jobs there are.                   *)
THEOREM DeadPoolsLoseJobs == Safety => [](OnlyADeadPoolLosesJobs /\ EachDeathHasItsJob)
<1>1. Init => EachDeathHasItsJob
  <2> SUFFICES ASSUME Init PROVE EachDeathHasItsJob
    OBVIOUS
  <2>1. Dead = {}
    BY DEF Init, Dead
  <2> DEFINE none == [w \in Dead |-> NoJob]
  <2>2. none \in [Dead -> Killers] /\ IsInjective(none)
    BY <2>1 DEF IsInjective
  <2> QED  BY <2>2 DEF EachDeathHasItsJob
<1>2. JobInv => OnlyADeadPoolLosesJobs
  BY DEF JobInv, PoolInv
<1> QED  BY <1>1, <1>2, JobInvAlways, DeathsInductive, PTL DEF Safety

(* What the caller of measure_code_native_async sees is the promised       *)
(* service: each step of the pool calls, settles one pending promise as    *)
(* its measurement came out, or shows nothing.                             *)
THEOREM PoolStepsAreTheService == Safety => Service!Init /\ [][Service!Next]_promise
<1>1. Init => Service!Init
  BY DEF Init, Service!Init
<1>2. JobInv /\ [Next]_vars => [Service!Next]_promise
  <2> SUFFICES ASSUME JobInv, [Next]_vars PROVE [Service!Next]_promise
    OBVIOUS
  <2>1. ASSUME NEW job \in Jobs, Call(job) PROVE Service!Call(job)
    BY <2>1 DEF Call, Service!Call
  <2>2. ASSUME NEW job \in Jobs, Deliver(job) PROVE Service!Settle(job)
    <3>1. promise[job] = "pending"
      BY <2>2 DEF Deliver, JobInv, Accounted, Somewhere
    <3> QED  BY <2>2, <3>1 DEF Deliver, Service!Settle, Service!Outcome
  <2>3. CASE Caller \/ (\E w \in Workers : Worker(w)) \/ UNCHANGED vars
    BY <2>3 DEF Caller, StartThread, EndStarting, SendJob, SendFails, NoPool, RunOnCaller,
       Worker, LockReceiver, Receive, FinishJob, Die, vars
  <2> QED  BY <2>1, <2>2, <2>3 DEF Next, Service!Next
<1> QED  BY <1>1, <1>2, JobInvAlways, PTL DEF Safety

-----------------------------------------------------------------------------
(* The addon loader.                                                       *)

(* A load is under way only while the process has no answer yet. *)
TriesOnce ==
  /\ trying \in Nat
  /\ trying > 0 => cached = None /\ ~failed

(* The answer of a process that keeps its own binding is what it memoized. *)
RemembersItsAnswer ==
  served # None /\ ~replaced =>
    \/ served = cached
    \/ served = Failure /\ failed /\ cached = None

MemoizesFresh ==
  \A binding \in {cached, served} :
    \/ binding \in {None, Embedder, Failure}
    \/ binding.version = "expected"

LoadInv == TriesOnce /\ RemembersItsAnswer /\ MemoizesFresh

LEMMA DistinctBindings ==
  /\ None # Embedder /\ None # Failure
  /\ None.addon \notin Addons /\ Failure.addon \notin Addons
  /\ Embedder.version = "expected"
  /\ \A addon, version : Binding(addon, version).version = version
BY BindingAssumption DEF None, Failure, Embedder, Binding

LEMMA LoadStep ==
  ASSUME LoadInv, [LoadNext]_loadVars
  PROVE  LoadInv' /\ NeverStale' /\ OneAnswerPerProcess
<1> USE DEF LoadInv, TriesOnce, RemembersItsAnswer, MemoizesFresh, NeverStale, OneAnswerPerProcess
<1> USE DistinctBindings
<1>1. CASE (\E addon \in Addons : DiskChanges(addon)) \/ UNCHANGED loadVars
  BY <1>1 DEF DiskChanges, loadVars
<1>2. CASE SetNativeBinding
  BY <1>2 DEF SetNativeBinding
<1>3. CASE LoadBinding
  BY <1>3 DEF LoadBinding
<1>4. CASE TryAccepted
  <2>1. Found.version = "expected" /\ Found # None
    BY <1>4 DEF TryAccepted, Accepts, None, Binding
  <2> QED  BY <1>4, <2>1 DEF TryAccepted
<1>5. CASE TryRefused
  BY <1>5 DEF TryRefused
<1>6. CASE AllRefused
  BY <1>6, BindingAssumption DEF AllRefused
<1> QED  BY <1>1, <1>2, <1>3, <1>4, <1>5, <1>6 DEF LoadNext

(* loadBinding answers every call of a process alike and never with a      *)
(* stale addon, however many calls there are and whatever other processes  *)
(* do to the disk, between the attempts of one load too.                   *)
THEOREM ProcessesGetOneFreshAnswer == LoadSpec => OneFreshAnswer
<1>1. LoadInit => LoadInv
  BY DEF LoadInit, LoadInv, TriesOnce, RemembersItsAnswer, MemoizesFresh
<1>2. LoadInv /\ [LoadNext]_loadVars => LoadInv' /\ [NeverStale' /\ OneAnswerPerProcess]_loadVars
  BY LoadStep
<1> QED  BY <1>1, <1>2, PTL DEF LoadSpec, OneFreshAnswer

-----------------------------------------------------------------------------
(* The WebAssembly binding.                                                *)

InModule == {"pass code", "pass language", "measure", "read"}

(* Instances are numbered as they are made, and only those made trap. *)
Numbered ==
  /\ call \in Nat /\ created \in Nat
  /\ instance \in 0..created /\ trapped \subseteq 1..created

PhaseOK == phase \in {"idle", "instantiate"} \cup InModule

(* Exports are called on an instance; none is made while one is there. *)
InstanceIsThere ==
  /\ phase \in InModule => instance # 0
  /\ phase = "instantiate" => instance = 0

FailureIsKnown == failure = (refused # 0)

(* Once an instantiation failed there is no instance again. *)
FailureStays ==
  /\ refused \in 0..call
  /\ refused # 0 => instance = 0 /\ phase \notin InModule
  /\ phase # "idle" => call # 0

(* The memory holds nothing but what the call under way has put there.     *)
OwnTraces ==
  /\ phase \in InModule => stderr \subseteq {call}
  /\ phase = "read" => result = call
  /\ phase = "pass code" => buffers = {}
  /\ phase = "pass language" => buffers \subseteq {<<call, "code">>}
  /\ phase = "measure" => buffers \subseteq TakenBuffers
  /\ phase = "read" => buffers = {}

CallInv ==
  /\ Numbered
  /\ PhaseOK
  /\ InstanceIsThere
  /\ FailureIsKnown
  /\ FailureStays
  /\ OwnTraces
  /\ NoUseAfterTrap
  /\ AnswersAreOwn
  /\ NoLeak
  /\ CrashesAreIndependent

LEMMA NumbersStep ==
  ASSUME Numbered, NoUseAfterTrap, phase \in InModule => instance # 0, [CallNext]_callVars
  PROVE  Numbered' /\ NoUseAfterTrap'
<1>1. CASE BeginCall
  <2>1. UNCHANGED <<instance, created, trapped>> /\ call' = call + 1
    BY <1>1 DEF BeginCall
  <2> QED  BY <2>1 DEF Numbered, NoUseAfterTrap
<1>2. CASE Instantiate
  <2>1. UNCHANGED <<call, trapped>> /\ created' = created + 1 /\ instance' = created + 1
    BY <1>2 DEF Instantiate
  <2> QED  BY <2>1 DEF Numbered, NoUseAfterTrap
<1>3. CASE Trap
  <2>1. phase \in InModule
    BY <1>3 DEF Trap, InModule
  <2>2. /\ UNCHANGED <<call, created>>
        /\ trapped' = trapped \cup {instance} /\ instance' = 0
    BY <1>3 DEF Trap, Dropped
  <2> QED  BY <2>1, <2>2 DEF Numbered, NoUseAfterTrap
<1>4. CASE \/ RethrowFailure \/ InstantiateFails \/ PassCode \/ PassLanguage
           \/ Measure \/ ReadResult \/ UNCHANGED callVars
  <2>1. UNCHANGED <<call, instance, created, trapped>>
    BY <1>4 DEF RethrowFailure, InstantiateFails, PassCode, PassLanguage, Measure, ReadResult, callVars
  <2> QED  BY <2>1 DEF Numbered, NoUseAfterTrap
<1> QED  BY <1>1, <1>2, <1>3, <1>4 DEF CallNext

LEMMA PhaseStep ==
  ASSUME PhaseOK, InstanceIsThere, Numbered, [CallNext]_callVars
  PROVE  PhaseOK' /\ InstanceIsThere'
<1>1. CASE Instantiate
  <2>1. created + 1 # 0
    BY DEF Numbered
  <2>2. instance' = created + 1 /\ phase' = "pass code"
    BY <1>1 DEF Instantiate
  <2>3. instance' # 0
    BY <2>1, <2>2
  <2> QED  BY <2>2, <2>3 DEF PhaseOK, InstanceIsThere, InModule
<1>2. CASE BeginCall
  BY <1>2 DEF BeginCall, PhaseOK, InstanceIsThere, InModule
<1>3. CASE RethrowFailure \/ InstantiateFails
  <2>1. phase' = "idle"
    BY <1>3 DEF RethrowFailure, InstantiateFails
  <2> QED  BY <2>1 DEF PhaseOK, InstanceIsThere, InModule
<1>4. CASE PassCode \/ PassLanguage \/ Measure \/ ReadResult
  <2>1. /\ UNCHANGED instance
        /\ phase \in InModule /\ phase' \in InModule \cup {"idle"}
    BY <1>4 DEF PassCode, PassLanguage, Measure, ReadResult, InModule
  <2> QED  BY <2>1 DEF PhaseOK, InstanceIsThere, InModule
<1>5. CASE Trap
  <2>1. phase' = "idle"
    BY <1>5 DEF Trap
  <2> QED  BY <2>1 DEF PhaseOK, InstanceIsThere, InModule
<1>6. CASE UNCHANGED callVars
  <2>1. UNCHANGED <<phase, instance>>
    BY <1>6 DEF callVars
  <2> QED  BY <2>1 DEF PhaseOK, InstanceIsThere, InModule
<1> QED  BY <1>1, <1>2, <1>3, <1>4, <1>5, <1>6 DEF CallNext

(* What each step tells the caller.                                        *)
LEMMA Answers ==
  /\ RethrowFailure \/ InstantiateFails =>
       answer'.kind = "failure" /\ answer'.call = call /\ answer'.from = {}
  /\ Trap => /\ answer'.kind = "crash" /\ answer'.call = call
             /\ answer'.from = stderr \/ answer'.from = stderr \cup {call}
  /\ ReadResult => /\ answer'.kind = "result" /\ answer'.call = call
                   /\ answer'.from = {result}
<1>1. RethrowFailure \/ InstantiateFails =>
        answer'.kind = "failure" /\ answer'.call = call /\ answer'.from = {}
  BY DEF RethrowFailure, InstantiateFails, Answer
<1>2. ASSUME Trap
      PROVE  /\ answer'.kind = "crash" /\ answer'.call = call
             /\ answer'.from = stderr \/ answer'.from = stderr \cup {call}
  <2>1. PICK from \in {stderr, stderr \cup {call}} : Answer("crash", from)
    BY <1>2 DEF Trap
  <2> QED  BY <2>1 DEF Answer
<1>3. ASSUME ReadResult
      PROVE  answer'.kind = "result" /\ answer'.call = call /\ answer'.from = {result}
  <2>1. Answer("result", {result})
    BY <1>3 DEF ReadResult
  <2> QED  BY <2>1 DEF Answer
<1> QED  BY <1>1, <1>2, <1>3

LEMMA FailureStep ==
  ASSUME Numbered, PhaseOK, InstanceIsThere, FailureIsKnown, FailureStays, CrashesAreIndependent,
         [CallNext]_callVars
  PROVE  FailureIsKnown' /\ FailureStays' /\ CrashesAreIndependent'
<1> USE DEF FailureStays, CrashesAreIndependent
<1>0. call \in Nat
  BY DEF Numbered
<1>1. CASE RethrowFailure
  <2>1. UNCHANGED <<call, instance, failure, refused>> /\ failure /\ phase' = "idle"
    BY <1>1 DEF RethrowFailure
  <2>3. refused # 0
    BY <2>1 DEF FailureIsKnown
  <2>2. answer'.kind = "failure" /\ answer'.call = call
    BY <1>1, Answers
  <2>4. FailureIsKnown'
    BY <2>1 DEF FailureIsKnown
  <2>5. FailureStays'
    BY <1>0, <2>1, <2>3 DEF InModule
  <2>6. CrashesAreIndependent'
    BY <1>0, <2>1, <2>2, <2>3
  <2> QED  BY <2>4, <2>5, <2>6
<1>2. CASE InstantiateFails
  <2>1. /\ UNCHANGED <<call, instance>> /\ phase = "instantiate" /\ phase' = "idle"
        /\ failure' = TRUE /\ refused' = call
    BY <1>2 DEF InstantiateFails
  <2>2. answer'.kind = "failure" /\ answer'.call = call
    BY <1>2, Answers
  <2>3. call # 0
    BY <2>1
  <2>4. FailureIsKnown'
    <3>1. failure' = TRUE /\ refused' # 0
      BY <2>1, <2>3
    <3> QED  BY <3>1 DEF FailureIsKnown
  <2>5. instance = 0
    BY <2>1 DEF InstanceIsThere
  <2>6. FailureStays'
    BY <1>0, <2>1, <2>3, <2>5 DEF InModule
  <2>7. CrashesAreIndependent'
    BY <1>0, <2>1, <2>2, <2>3
  <2> QED  BY <2>4, <2>6, <2>7
<1>3. CASE Trap \/ ReadResult
  <2>1. UNCHANGED <<call, failure, refused>> /\ phase \in InModule /\ phase' = "idle"
    BY <1>3 DEF Trap, ReadResult, InModule
  <2>2. answer'.kind \in {"crash", "result"}
    BY <1>3, Answers
  <2>3. refused = 0 /\ FailureIsKnown'
    BY <2>1 DEF FailureIsKnown
  <2>4. CrashesAreIndependent'
    BY <2>1, <2>2, <2>3
  <2> QED  BY <2>1, <2>3, <2>4 DEF InModule
<1>4. CASE BeginCall
  <2>1. /\ UNCHANGED <<instance, failure, refused, answer>> /\ call' = call + 1
        /\ instance # 0 \/ phase' = "instantiate"
    BY <1>4 DEF BeginCall
  <2>2. FailureIsKnown' /\ CrashesAreIndependent'
    BY <2>1 DEF FailureIsKnown
  <2>4. (refused \in 0..call)'
    <3>1. call' = call + 1 /\ refused' = refused /\ refused \in 0..call
      BY <2>1
    <3> QED  BY <1>0, <3>1
  <2>5. refused # 0 => phase' = "instantiate"
    BY <2>1
  <2>6. call' # 0
    BY <1>0, <2>1
  <2>7. FailureStays'
    BY <2>1, <2>4, <2>5, <2>6 DEF InModule
  <2> QED  BY <2>2, <2>7
<1>5. CASE Instantiate
  <2>1. UNCHANGED <<call, failure, refused, answer>> /\ ~failure /\ phase = "instantiate"
    BY <1>5 DEF Instantiate
  <2>2. refused = 0 /\ FailureIsKnown' /\ CrashesAreIndependent'
    BY <2>1 DEF FailureIsKnown
  <2> QED  BY <2>1, <2>2
<1>6. CASE PassCode \/ PassLanguage \/ Measure
  <2>1. UNCHANGED <<call, failure, refused, answer>> /\ phase \in InModule
    BY <1>6 DEF PassCode, PassLanguage, Measure, InModule
  <2>2. FailureIsKnown' /\ CrashesAreIndependent'
    BY <2>1 DEF FailureIsKnown
  <2> QED  BY <2>1, <2>2 DEF InModule
<1>7. CASE UNCHANGED callVars
  <2>1. UNCHANGED <<phase, call, instance, failure, refused, answer>>
    BY <1>7 DEF callVars
  <2>2. FailureIsKnown' /\ CrashesAreIndependent' /\ FailureStays'
    BY <2>1 DEF FailureIsKnown
  <2> QED  BY <2>2
<1> QED  BY <1>1, <1>2, <1>3, <1>4, <1>5, <1>6, <1>7 DEF CallNext

LEMMA TracesStep ==
  ASSUME InstanceIsThere, OwnTraces, AnswersAreOwn, NoLeak, [CallNext]_callVars
  PROVE  OwnTraces' /\ AnswersAreOwn' /\ NoLeak'
<1> USE DEF InstanceIsThere, OwnTraces, AnswersAreOwn, NoLeak, InModule
<1>1. CASE BeginCall
  <2>1. /\ UNCHANGED <<buffers, result, answer, instance>> /\ phase = "idle"
        /\ \/ instance # 0 /\ phase' = "pass code" /\ stderr' = {}
           \/ phase' = "instantiate"
    BY <1>1 DEF BeginCall
  <2> QED  BY <2>1
<1>2. CASE Instantiate
  <2>1. /\ UNCHANGED <<call, answer>> /\ phase' = "pass code" /\ stderr' = {} /\ buffers' = {}
    BY <1>2 DEF Instantiate
  <2> QED  BY <2>1
<1>3. CASE PassCode \/ PassLanguage
  <2>1. /\ UNCHANGED <<call, answer, instance, stderr>>
        /\ \/ /\ phase = "pass code" /\ phase' = "pass language"
              /\ buffers' = buffers \cup {<<call, "code">>}
           \/ /\ phase = "pass language" /\ phase' = "measure"
              /\ buffers' = buffers \cup {<<call, "language">>}
    BY <1>3 DEF PassCode, PassLanguage
  <2> QED  BY <2>1 DEF TakenBuffers
<1>4. CASE Measure
  <2>1. /\ UNCHANGED <<call, answer>> /\ phase = "measure" /\ phase' = "read"
        /\ buffers' = buffers \ TakenBuffers /\ result' = call
        /\ stderr' = stderr \cup {call} \/ stderr' = stderr
    BY <1>4 DEF Measure
  <2> QED  BY <2>1
<1>5. CASE Trap
  <2>1. UNCHANGED call /\ phase \in InModule /\ phase' = "idle" /\ instance' = 0
    BY <1>5 DEF Trap, Dropped
  <2>2. /\ answer'.call = call
        /\ answer'.from = stderr \/ answer'.from = stderr \cup {call}
    BY <1>5, Answers
  <2> QED  BY <2>1, <2>2
<1>6. CASE ReadResult
  <2>1. /\ UNCHANGED <<call, buffers, instance>> /\ phase = "read" /\ phase' = "idle"
        /\ answer'.call = call /\ answer'.from = {result}
    BY <1>6, Answers DEF ReadResult
  <2> QED  BY <2>1
<1>7. CASE RethrowFailure \/ InstantiateFails
  <2>1. UNCHANGED instance /\ phase = "instantiate" /\ phase' = "idle"
    BY <1>7 DEF RethrowFailure, InstantiateFails
  <2>2. answer'.from = {}
    BY <1>7, Answers
  <2> QED  BY <2>1, <2>2
<1>8. CASE UNCHANGED callVars
  <2>1. UNCHANGED <<phase, call, instance, buffers, result, stderr, answer>>
    BY <1>8 DEF callVars
  <2> QED  BY <2>1 DEF TakenBuffers
<1> QED  BY <1>1, <1>2, <1>3, <1>4, <1>5, <1>6, <1>7, <1>8 DEF CallNext

LEMMA CallInvHolds == CallSpec => []CallInv
<1>1. CallInit => CallInv
  <2> SUFFICES ASSUME CallInit PROVE CallInv
    OBVIOUS
  <2>1. FailureStays /\ CrashesAreIndependent /\ AnswersAreOwn
    BY DEF CallInit, FailureStays, CrashesAreIndependent, AnswersAreOwn, InModule
  <2>3. FailureIsKnown
    BY DEF CallInit, FailureIsKnown
  <2>2. /\ phase = "idle" /\ call = 0 /\ instance = 0 /\ created = 0 /\ trapped = {}
        /\ buffers = {}
    BY DEF CallInit
  <2> QED
    BY <2>1, <2>2, <2>3 DEF CallInv, Numbered, PhaseOK, InstanceIsThere, OwnTraces, InModule,
       NoUseAfterTrap, NoLeak
<1>2. CallInv /\ [CallNext]_callVars => CallInv'
  BY NumbersStep, PhaseStep, FailureStep, TracesStep DEF CallInv, InstanceIsThere
<1> QED  BY <1>1, <1>2, PTL DEF CallSpec

(* call() of wasmBinding.ts drops an instance that trapped before it       *)
(* answers, so no export of it is called again, in any number of calls.    *)
THEOREM TrappedInstancesAreDropped == CallSpec => []NoUseAfterTrap
<1>1. CallInv => NoUseAfterTrap
  BY DEF CallInv
<1> QED  BY <1>1, CallInvHolds, PTL

(* However many calls one instance serves, none is told another's result   *)
(* or output, none leaves an input in its memory, and a call fails to      *)
(* instantiate only if an instantiation did fail, its own or an earlier    *)
(* one's: no crash is remembered.                                          *)
THEOREM WasmCallsAreIndependent == CallSpec => []CallsAreIndependent
<1>1. CallInv => CallsAreIndependent
  BY DEF CallInv, CallsAreIndependent
<1> QED  BY <1>1, CallInvHolds, PTL
=============================================================================
