---------------------------- MODULE WasmBinding -----------------------------
(***************************************************************************)
(* The WebAssembly binding: call() of src/src/wasmBinding.ts around the    *)
(* exports of native/src/wasm.rs.  One call is a run of steps on the one   *)
(* JavaScript thread; any step inside the module may trap.  Inputs are     *)
(* buffers of the module's memory whose ownership passes to the export;    *)
(* the answer is read from the module's one result.                        *)
(***************************************************************************)
EXTENDS Naturals, FiniteSets

CONSTANTS MaxCalls,     \* calls a run makes
          MaxTraps      \* traps a run meets

ASSUME WasmAssumption == MaxCalls \in Nat /\ MaxTraps \in Nat

VARIABLES
  module,    \* the compiled module: of the expected payload version or not
  phase,     \* how far the current call is
  call,      \* its number; 0 before the first
  instance,  \* the instance in use; 0 for undefined
  created,   \* instances created so far
  trapped,   \* history: the instances that trapped
  failure,   \* instantiationFailure is set
  refused,   \* history: the call whose instantiation failed; 0 for none
  buffers,   \* the input buffers alive in the instance's memory
  result,    \* the call whose result RESULT holds; 0 for none
  stderr,    \* the calls whose output the instance's stderr holds
  answer     \* what the last finished call told its caller

callVars == <<module, phase, call, instance, created, trapped, failure, refused, buffers, result, stderr, answer>>

Answer(kind, from) == answer' = [call |-> call, kind |-> kind, from |-> from]

-----------------------------------------------------------------------------
CallInit ==
  /\ module \in {"expected", "stale"}
  /\ phase = "idle"
  /\ call = 0
  /\ instance = 0
  /\ created = 0
  /\ trapped = {}
  /\ failure = FALSE
  /\ refused = 0
  /\ buffers = {}
  /\ result = 0
  /\ stderr = {}
  /\ answer = [call |-> 0, kind |-> "none", from |-> {}]

(* Variant: the output of earlier calls is kept. *)
BeginCallKeepingOutput ==
  /\ phase = "idle"
  /\ call < MaxCalls
  /\ call' = call + 1
  /\ phase' = IF instance # 0 THEN "pass code" ELSE "instantiate"
  /\ UNCHANGED <<module, instance, created, trapped, failure, refused, buffers, result, stderr, answer>>

(* The head of call(): an instance is there, must be made, or cannot be. *)
BeginCall ==
  /\ phase = "idle"
  /\ call < MaxCalls
  /\ call' = call + 1
  /\ \/ /\ instance # 0
        /\ phase' = "pass code"
        /\ stderr' = {}
     \/ /\ instance = 0
        /\ phase' = "instantiate"
        /\ UNCHANGED stderr
  /\ UNCHANGED <<module, instance, created, trapped, failure, refused, buffers, result, answer>>

RethrowFailure ==
  /\ phase = "instantiate"
  /\ failure
  /\ phase' = "idle"
  /\ Answer("failure", {})
  /\ UNCHANGED <<module, call, instance, created, trapped, failure, refused, buffers, result, stderr>>

(* An instance is made of a module of the expected payload version alone. *)
Instantiate ==
  /\ phase = "instantiate"
  /\ ~failure
  /\ module = "expected"
  /\ created' = created + 1
  /\ instance' = created + 1
  /\ buffers' = {}
  /\ result' = 0
  /\ stderr' = {}
  /\ phase' = "pass code"
  /\ UNCHANGED <<module, call, trapped, failure, refused, answer>>

(* A module of another version always fails, one of the expected may. *)
InstantiateFails ==
  /\ phase = "instantiate"
  /\ ~failure
  /\ failure' = TRUE
  /\ refused' = call
  /\ phase' = "idle"
  /\ Answer("failure", {})
  /\ UNCHANGED <<module, call, instance, created, trapped, buffers, result, stderr>>

(* passString(code), then passString(language): alloc and copy. *)
PassCode ==
  /\ phase = "pass code"
  /\ buffers' = buffers \cup {<<call, "code">>}
  /\ phase' = "pass language"
  /\ UNCHANGED <<module, call, instance, created, trapped, failure, refused, result, stderr, answer>>

PassLanguage ==
  /\ phase = "pass language"
  /\ buffers' = buffers \cup {<<call, "language">>}
  /\ phase' = "measure"
  /\ UNCHANGED <<module, call, instance, created, trapped, failure, refused, result, stderr, answer>>

(* Both buffers are taken, and freed, before anything can return early;    *)
(* the JSON or the error message replaces RESULT; output may be written.   *)
TakenBuffers == {<<call, "code">>, <<call, "language">>}

Measure ==
  /\ phase = "measure"
  /\ buffers' = buffers \ TakenBuffers
  /\ result' = call
  /\ \/ stderr' = stderr \cup {call}
     \/ UNCHANGED stderr
  /\ phase' = "read"
  /\ UNCHANGED <<module, call, instance, created, trapped, failure, refused, answer>>

(* Variant: the instance is kept. *)
Kept == instance

(* A trap in an export leaves the instance's memory undefined. *)
Dropped == 0

Trap ==
  /\ phase \in {"pass code", "pass language", "measure"}
  /\ Cardinality(trapped) < MaxTraps
  /\ trapped' = trapped \cup {instance}
  /\ instance' = Dropped
  /\ \/ Answer("crash", stderr)
     \/ Answer("crash", stderr \cup {call})
  /\ phase' = "idle"
  /\ UNCHANGED <<module, call, created, failure, refused, buffers, result, stderr>>

ReadResult ==
  /\ phase = "read"
  /\ Answer("result", {result})
  /\ phase' = "idle"
  /\ UNCHANGED <<module, call, instance, created, trapped, failure, refused, buffers, result, stderr>>

CallNext ==
  \/ BeginCall
  \/ RethrowFailure
  \/ Instantiate
  \/ InstantiateFails
  \/ PassCode
  \/ PassLanguage
  \/ Measure
  \/ Trap
  \/ ReadResult

CallSpec == CallInit /\ [][CallNext]_callVars

-----------------------------------------------------------------------------
(* An instance that trapped, its stack pointer and memory undefined, is    *)
(* never called again (wasmBinding.ts:41-42).                              *)
NoUseAfterTrap == instance \notin trapped

(* Every answer is the one of its own call: neither an earlier result in   *)
(* RESULT nor an earlier call's output is told to a later caller.          *)
AnswersAreOwn == answer.from \subseteq {answer.call}

(* Between calls the module's memory holds no input: a long run of calls   *)
(* on one instance cannot exhaust it.                                      *)
NoLeak == phase = "idle" /\ instance # 0 => buffers = {}

(* Calls fail to instantiate from the first that did on, and no other does: *)
(* a crash is its own call's, whatever the next instantiation does, and the *)
(* failure remembered is never that of a trap.                             *)
CrashesAreIndependent ==
  answer.kind = "failure" <=> refused \in 1..answer.call

(* One instance serves many calls, and none leaves a trace in another: no *)
(* output, no input and no crash outlives its call.                        *)
CallsAreIndependent == AnswersAreOwn /\ NoLeak /\ CrashesAreIndependent
=============================================================================
