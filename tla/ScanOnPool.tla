----------------------------- MODULE ScanOnPool -----------------------------
(***************************************************************************)
(* A directory scan (Scan) whose measurements are the addon's asynchronous *)
(* calls (WorkerPool).  Both share the JavaScript thread: while it starts  *)
(* threads, sends a job or runs one itself, no continuation of the scan    *)
(* runs.  What Scan assumes of a measurement, that it answers, is here the *)
(* work of threads.                                                        *)
(***************************************************************************)
EXTENDS Scan

CONSTANTS Workers,      \* the threads the pool tries to start
          Succeeding,   \* the files whose asynchronous measurement resolves
          Panicking,    \* the files whose measurement panics
          NoWorker

VARIABLES caller, inHand, sender, thread, running, lockedBy, channel, posted, promise, lost

Pool == INSTANCE WorkerPool
          WITH Jobs <- Paths, NoJob <- NoPath, Dying <- {}, Endless <- {}

poolVars == <<caller, inHand, sender, thread, running, lockedBy, channel, posted, promise, lost>>
allVars  == <<vars, poolVars>>

(* The verdicts of the pool are those the scan's worlds foresee. *)
ASSUME WorldsAgree ==
  \A w \in Worlds : /\ w.mode = "directory"
                    /\ \A p \in Paths : w.fate[p] = "measured" <=> p \in Succeeding

-----------------------------------------------------------------------------
ComposedInit == Init /\ Pool!Init

(* The event loop is free to run a continuation. *)
EventLoopFree == caller = "free"

MainStep ==
  /\ EventLoopFree
  /\ Main
  /\ UNCHANGED poolVars

(* readAndMeasureFile up to its measurement: measureCodeNativeAsync throws *)
(* without an addon and otherwise calls it, which enters the pool.         *)
FileReadStep(real) ==
  /\ EventLoopFree
  /\ FileRead(real)
  /\ IF task'[real] = "measuring" /\ world.addon
       THEN Pool!Call(real)
       ELSE UNCHANGED poolVars

(* The awaited promise has settled, or there never was one to await. *)
MeasuredStep(real) ==
  /\ EventLoopFree
  /\ world.addon => promise[real] \in Pool!Settled
  /\ Measured(real)
  /\ UNCHANGED poolVars

FreeSlotStep(real) ==
  /\ EventLoopFree
  /\ FreeSlot(real)
  /\ UNCHANGED poolVars

CallerStep    == Pool!Caller /\ UNCHANGED vars
WorkerStep(w) == Pool!Worker(w) /\ UNCHANGED vars
DeliverStep(real) == Pool!Deliver(real) /\ UNCHANGED vars

ComposedNext ==
  \/ MainStep
  \/ CallerStep
  \/ \E real \in Paths :
       FileReadStep(real) \/ MeasuredStep(real) \/ FreeSlotStep(real) \/ DeliverStep(real)
  \/ \E w \in Workers : WorkerStep(w)

(* The event loop runs what is ready, files are read, threads run. *)
ComposedFairness ==
  /\ WF_allVars(MainStep)
  /\ WF_allVars(CallerStep)
  /\ WF_allVars(\E w \in Workers : Pool!LockReceiver(w) /\ UNCHANGED vars)
  /\ \A w \in Workers :
       /\ WF_allVars(Pool!Receive(w) /\ UNCHANGED vars)
       /\ WF_allVars(Pool!FinishJob(w) /\ UNCHANGED vars)
  /\ \A real \in Paths :
       WF_allVars(FileReadStep(real) \/ MeasuredStep(real) \/ FreeSlotStep(real))
       /\ WF_allVars(DeliverStep(real))

ComposedSpec == ComposedInit /\ [][ComposedNext]_allVars /\ ComposedFairness

-----------------------------------------------------------------------------
(* With the pool in place of Scan's measurements every behaviour is still  *)
(* one of Scan, its fairness included: the threads make the scan end.      *)
ImplementsScan == Spec

(* To the scan the pool is the service that settles each promise once, as  *)
(* its measurement came out.                                               *)
ImplementsJobService == Pool!ImplementsJobService
=============================================================================
