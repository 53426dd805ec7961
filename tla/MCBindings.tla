----------------------------- MODULE MCBindings -----------------------------
(***************************************************************************)
(* The three ways into the Rust code: the pool of threads behind the       *)
(* addon's asynchronous calls, the loading of the addon, and the calls of  *)
(* the WebAssembly module.  They share no state; each behaviour is one     *)
(* binding's, the others staying as they start.                            *)
(***************************************************************************)
EXTENDS WorkerPool, NativeBinding, WasmBinding

VARIABLE binding   \* whose behaviour it is; never changes

bindingVars == <<vars, loadVars, callVars, binding>>

(* The two specifiers loadBinding tries. *)
MCSpecifiers == <<"platform package", "local build">>

BindingInit ==
  /\ Init /\ LoadInit /\ CallInit
  /\ binding \in {"pool", "addon", "wasm"}
  /\ binding # "addon" => disk = [addon \in Addons |-> "missing"]
  /\ binding # "wasm" => module = "expected"

BindingNext ==
  \/ binding = "pool" /\ Next /\ UNCHANGED <<loadVars, callVars, binding>>
  \/ binding = "addon" /\ LoadNext /\ UNCHANGED <<vars, callVars, binding>>
  \/ binding = "wasm" /\ CallNext /\ UNCHANGED <<vars, loadVars, binding>>

BindingSpec == BindingInit /\ [][BindingNext]_bindingVars /\ Fairness
=============================================================================
