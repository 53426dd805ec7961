----------------------------- MODULE WorkerPool -----------------------------
(***************************************************************************)
(* The addon's worker pool (src/native/src/worker_pool.rs) under the       *)
(* asynchronous binding that uses it (src/native/src/napi.rs).  The caller *)
(* is the JavaScript thread: its first call starts the threads, which race *)
(* for the lock around the channel's receiver while it still starts more;  *)
(* it settles promises from its event loop once a job posted a result.     *)
(***************************************************************************)
EXTENDS Naturals, Sequences, FiniteSets, SequencesExt

CONSTANTS
  Workers,      \* one thread per available core
  Jobs,         \* the jobs the caller submits
  Succeeding,   \* jobs whose measurement returns Ok
  Panicking,    \* jobs whose measurement panics
  Dying,        \* jobs that panic outside catch_unwind, where posting does
  Endless,      \* jobs that may run for ever
  NoWorker, NoJob

ASSUME PoolAssumption ==
  /\ IsFiniteSet(Workers) /\ Workers # {}
  /\ Succeeding \subseteq Jobs /\ Panicking \subseteq Jobs
  /\ Dying \subseteq Jobs      /\ Endless \subseteq Jobs
  /\ Succeeding \cap Panicking = {}
  /\ NoWorker \notin Workers /\ NoJob \notin Jobs

VARIABLES
  caller,    \* what the calling thread does
  inHand,    \* the job it is submitting or running itself
  sender,    \* SENDER: not initialized, Some(sender) or None
  thread,    \* by worker: not started, idle, blocked in recv, running, dead
  running,   \* by worker: the job it runs
  lockedBy,  \* the worker that holds the receiver's mutex
  channel,   \* the jobs sent and not received
  posted,    \* results posted to the event loop and not yet delivered
  promise,   \* by job: the promise the caller got
  lost       \* history: jobs dropped unrun, with the channel

callerVars == <<caller, inHand, sender>>
poolVars   == <<thread, running, lockedBy, channel, lost>>
vars       == <<callerVars, poolVars, posted, promise>>

Callers == {"free", "starting", "sending", "working"}
Threads == {"unborn", "idle", "receiving", "running", "dead"}

Unborn  == {w \in Workers : thread[w] = "unborn"}
Live    == {w \in Workers : thread[w] \in {"idle", "receiving", "running"}}
Queued  == ToSet(channel)

-----------------------------------------------------------------------------
Init ==
  /\ caller = "free"
  /\ inHand = NoJob
  /\ sender = "uninitialized"
  /\ thread = [w \in Workers |-> "unborn"]
  /\ running = [w \in Workers |-> NoJob]
  /\ lockedBy = NoWorker
  /\ channel = <<>>
  /\ posted = {}
  /\ promise = [j \in Jobs |-> "none"]
  /\ lost = {}

(* measure_code_native_async: a deferred promise, then spawn.  The first   *)
(* call initializes SENDER; every later one finds it.                      *)
Call(job) ==
  /\ caller = "free"
  /\ promise[job] = "none"
  /\ promise' = [promise EXCEPT ![job] = "pending"]
  /\ inHand' = job
  /\ caller' = IF sender = "uninitialized" THEN "starting" ELSE "sending"
  /\ UNCHANGED <<sender, poolVars, posted>>

(* One turn of the starting loop that succeeds. *)
StartThread(w) ==
  /\ caller = "starting"
  /\ thread[w] = "unborn"
  /\ thread' = [thread EXCEPT ![w] = "idle"]
  /\ UNCHANGED <<callerVars, running, lockedBy, channel, lost, posted, promise>>

(* The loop ends: every thread is started, or the OS refused one. *)
EndStarting ==
  /\ caller = "starting"
  /\ sender' = IF Unborn # Workers THEN "some" ELSE "none"
  /\ caller' = "sending"
  /\ UNCHANGED <<inHand, poolVars, posted, promise>>

(* The receiver lives as long as a started thread does: send fails, and    *)
(* hands the job back, once all are dead.  Without a pool the job runs on  *)
(* the calling thread too.                                                 *)
SendJob ==
  /\ caller = "sending"
  /\ sender = "some"
  /\ Live # {}
  /\ channel' = Append(channel, inHand)
  /\ caller' = "free"
  /\ inHand' = NoJob
  /\ UNCHANGED <<sender, thread, running, lockedBy, lost, posted, promise>>

SendFails ==
  /\ caller = "sending"
  /\ sender = "some"
  /\ Live = {}
  /\ caller' = "working"
  /\ UNCHANGED <<inHand, sender, poolVars, posted, promise>>

NoPool ==
  /\ caller = "sending"
  /\ sender = "none"
  /\ caller' = "working"
  /\ UNCHANGED <<inHand, sender, poolVars, posted, promise>>

(* Variant: no panic is caught. *)
EscapesUncaught(job) == job \in Dying \cup Panicking

(* catch_unwind turns a panic of the measurement into an error; a panic    *)
(* outside it ends the job before anything is posted.                      *)
Escapes(job) == job \in Dying

(* The job runs to its end on the calling thread. *)
RunOnCaller ==
  /\ caller = "working"
  /\ posted' = IF Escapes(inHand) THEN posted ELSE posted \cup {inHand}
  /\ caller' = "free"
  /\ inHand' = NoJob
  /\ UNCHANGED <<sender, poolVars, promise>>

-----------------------------------------------------------------------------
LockReceiver(w) ==
  /\ thread[w] = "idle"
  /\ lockedBy = NoWorker
  /\ lockedBy' = w
  /\ thread' = [thread EXCEPT ![w] = "receiving"]
  /\ UNCHANGED <<callerVars, running, channel, lost, posted, promise>>

(* Variants: the guard outlives the statement; the job stays queued. *)
ReceiveHoldingLock(w) ==
  /\ thread[w] = "receiving"
  /\ channel # <<>>
  /\ running' = [running EXCEPT ![w] = Head(channel)]
  /\ channel' = Tail(channel)
  /\ thread' = [thread EXCEPT ![w] = "running"]
  /\ UNCHANGED <<callerVars, lockedBy, lost, posted, promise>>

(* recv returns; the guard, a temporary of the same statement, is dropped. *)
Receive(w) ==
  /\ thread[w] = "receiving"
  /\ channel # <<>>
  /\ running' = [running EXCEPT ![w] = Head(channel)]
  /\ channel' = Tail(channel)
  /\ thread' = [thread EXCEPT ![w] = "running"]
  /\ lockedBy' = NoWorker
  /\ UNCHANGED <<callerVars, lost, posted, promise>>

(* job() returns: the deferred was resolved or rejected. *)
FinishJob(w) ==
  /\ thread[w] = "running"
  /\ ~Escapes(running[w])
  /\ posted' = posted \cup {running[w]}
  /\ running' = [running EXCEPT ![w] = NoJob]
  /\ thread' = [thread EXCEPT ![w] = "idle"]
  /\ UNCHANGED <<callerVars, lockedBy, channel, lost, promise>>

(* job() panics: the thread unwinds, and the last one takes the receiver,  *)
(* and with it every job still in the channel.                             *)
Die(w) ==
  /\ thread[w] = "running"
  /\ Escapes(running[w])
  /\ thread' = [thread EXCEPT ![w] = "dead"]
  /\ running' = [running EXCEPT ![w] = NoJob]
  /\ IF Live = {w}
       THEN /\ channel' = <<>>
            /\ lost' = lost \cup Queued
       ELSE UNCHANGED <<channel, lost>>
  /\ UNCHANGED <<callerVars, lockedBy, posted, promise>>

(* The event loop runs the deferred's callback when nothing blocks it. *)
Deliver(job) ==
  /\ caller = "free"
  /\ job \in posted
  /\ posted' = posted \ {job}
  /\ promise' = [promise EXCEPT ![job] =
                   IF job \in Succeeding THEN "resolved" ELSE "rejected"]
  /\ UNCHANGED <<callerVars, poolVars>>

-----------------------------------------------------------------------------
Caller ==
  \/ \E w \in Workers : StartThread(w)
  \/ EndStarting
  \/ SendJob
  \/ SendFails
  \/ NoPool
  \/ RunOnCaller

Worker(w) ==
  \/ LockReceiver(w)
  \/ Receive(w)
  \/ FinishJob(w)
  \/ Die(w)

Next ==
  \/ \E job \in Jobs : Call(job) \/ Deliver(job)
  \/ Caller
  \/ \E w \in Workers : Worker(w)

(* The operating system schedules every thread, the mutex is handed to     *)
(* some waiting thread, and the event loop runs posted callbacks; a job    *)
(* that runs for ever is the one thing that need not end.                  *)
Fairness ==
  /\ WF_vars(Caller /\ (caller = "working" => inHand \notin Endless))
  /\ WF_vars(\E w \in Workers : LockReceiver(w))
  /\ \A w \in Workers :
       /\ WF_vars(Receive(w))
       /\ WF_vars(FinishJob(w) /\ running[w] \notin Endless)
       /\ WF_vars(Die(w))
  /\ \A job \in Jobs : WF_vars(Deliver(job))

Safety == Init /\ [][Next]_vars
Spec   == Safety /\ Fairness

-----------------------------------------------------------------------------
TypeOK ==
  /\ caller \in Callers
  /\ inHand \in Jobs \cup {NoJob}
  /\ sender \in {"uninitialized", "some", "none"}
  /\ thread \in [Workers -> Threads]
  /\ running \in [Workers -> Jobs \cup {NoJob}]
  /\ lockedBy \in Workers \cup {NoWorker}
  /\ channel \in Seq(Jobs)
  /\ posted \subseteq Jobs
  /\ promise \in [Jobs -> {"none", "pending", "resolved", "rejected"}]
  /\ lost \subseteq Jobs

(* Where a job can be between its call and its settlement. *)
Places(job) ==
  {<<"hand", 0>> : x \in {inHand} \cap {job}} \cup
  {<<"channel", i>> : i \in {k \in 1..Len(channel) : channel[k] = job}} \cup
  {<<"running", w>> : w \in {v \in Workers : running[v] = job}} \cup
  {<<"posted", 0>> : x \in posted \cap {job}} \cup
  {<<"lost", 0>> : x \in lost \cap {job}}

(* A pending job is in exactly one place, with the jobs dropped unrun for  *)
(* one, so none runs twice; no other job is anywhere.                      *)
JobsConserved ==
  \A job \in Jobs :
    IF promise[job] = "pending"
      THEN job \notin Dying => Cardinality(Places(job)) = 1
      ELSE Places(job) = {}

(* worker_pool.rs:31, "jobs run after the lock is released, so it is never *)
(* poisoned": no thread runs a job, or dies of one, with the lock held.    *)
LockNeverPoisoned ==
  \A w \in Workers : lockedBy = w <=> thread[w] = "receiving"

(* The event loop is blocked by a measurement only when no worker could    *)
(* ever take it.                                                           *)
CallerWorksOnlyAlone == caller = "working" => Live = {}

(* Jobs are dropped unrun only by the death of the last thread. *)
OnlyADeadPoolLosesJobs == lost # {} => Live = {}

Dead == {w \in Workers : thread[w] = "dead"}

(* The jobs a panic outside catch_unwind ended: nothing answers their call. *)
Killers == {job \in Dying : promise[job] = "pending" /\ Places(job) = {}}

(* Each thread that died had a job of its own to die of: no job takes more *)
(* than the thread it runs on, by the mutex say.                           *)
EachDeathHasItsJob == \E killer \in [Dead -> Killers] : IsInjective(killer)

Settled  == {"resolved", "rejected"}
Ordinary == Jobs \ (Endless \cup Dying)

(* A job that waits behind jobs that never end: queued while every thread  *)
(* runs one, or done while the calling thread, having no pool, runs one    *)
(* and its event loop delivers nothing.                                    *)
WaitsForEndless(job) ==
  \/ job \in Queued /\ Live # {} /\ \A w \in Live : running[w] \in Endless
  \/ job \in posted /\ caller = "working" /\ inHand \in Endless

(* The one way a call gets no answer while anything is left to give one:   *)
(* jobs that never end hold everything, and hold it for ever.              *)
OnlyEndlessJobsKeepWaiting ==
  \A job \in Ordinary :
    <>[](promise[job] = "pending" /\ job \notin lost) => <>[]WaitsForEndless(job)

(* What other jobs do to threads, or the OS to the pool, keeps the promise *)
(* of an ordinary job pending in two ways only: the job was queued when    *)
(* the last thread died, each thread of a job of its own, and went with    *)
(* the channel; or it waits for jobs that never end.                       *)
OrdinaryJobsAreServed ==
  /\ []JobsConserved
  /\ []OnlyADeadPoolLosesJobs
  /\ []EachDeathHasItsJob
  /\ OnlyEndlessJobsKeepWaiting

(* Seen by the caller, the pool is the service that settles every promise. *)
Service == INSTANCE JobService
ImplementsJobService == Service!Spec
=============================================================================
