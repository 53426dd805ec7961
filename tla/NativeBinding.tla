---------------------------- MODULE NativeBinding ----------------------------
(***************************************************************************)
(* How src/src/nativeMetrics.ts finds the addon: loadBinding tries the     *)
(* platform package, then the locally built addon, checks the payload      *)
(* version and memoizes what it found, good or bad; setNativeBinding       *)
(* installs a binding of the embedder's.  Another process may install or   *)
(* rebuild an addon at any time, between two attempts of one load too.     *)
(***************************************************************************)
EXTENDS Naturals, Sequences

CONSTANTS Specifiers,   \* the specifiers tried, in order
          MaxLoads, MaxChanges

Addons == {Specifiers[i] : i \in 1..Len(Specifiers)}

(* "none" and "failure" stand for no binding: no specifier is called so. *)
ASSUME BindingAssumption ==
  /\ Len(Specifiers) \in Nat \ {0} /\ MaxLoads \in Nat /\ MaxChanges \in Nat
  /\ {"none", "failure"} \cap Addons = {}

VARIABLES
  disk,      \* by specifier: the addon require would find there
  cached,    \* cachedBinding: none, an addon and its version, or embedder
  failed,    \* cachedFailure is set
  trying,    \* the attempt of the load under way; 0 outside loadBinding
  served,    \* what the last call got: a binding, or the failure
  calls, changes, replaced   \* bounds, and history: setNativeBinding was called

loadVars == <<disk, cached, failed, trying, served, calls, changes, replaced>>

(* missing or unloadable; another payload version, or no version function  *)
(* at all; the expected version                                            *)
Versions == {"missing", "stale", "expected"}
Binding(addon, version) == [addon |-> addon, version |-> version]
None     == Binding("none", "missing")
Embedder == Binding("embedder", "expected")
Failure  == Binding("failure", "missing")

LoadInit ==
  /\ disk \in [Addons -> Versions]
  /\ cached = None
  /\ failed = FALSE
  /\ trying = 0
  /\ served = None
  /\ calls = 0
  /\ changes = 0
  /\ replaced = FALSE

(* An addon is installed, rebuilt or removed by another process. *)
DiskChanges(addon) ==
  /\ changes < MaxChanges
  /\ \E version \in Versions \ {disk[addon]} : disk' = [disk EXCEPT ![addon] = version]
  /\ changes' = changes + 1
  /\ UNCHANGED <<cached, failed, trying, served, calls, replaced>>

SetNativeBinding ==
  /\ trying = 0
  /\ cached' = Embedder
  /\ replaced' = TRUE
  /\ UNCHANGED <<disk, failed, trying, served, calls, changes>>

(* A measurement calls loadBinding: a memoized answer, or the first try. *)
LoadBinding ==
  /\ trying = 0
  /\ calls < MaxLoads
  /\ calls' = calls + 1
  /\ \/ /\ cached # None
        /\ served' = cached
        /\ UNCHANGED trying
     \/ /\ cached = None
        /\ failed
        /\ served' = Failure
        /\ UNCHANGED trying
     \/ /\ cached = None
        /\ ~failed
        /\ trying' = 1
        /\ UNCHANGED served
  /\ UNCHANGED <<disk, cached, failed, changes, replaced>>

Found == Binding(Specifiers[trying], disk[Specifiers[trying]])

(* Variant: whatever loads is accepted. *)
AcceptsAny(version) == version # "missing"

Accepts(version) == version = "expected"

TryAccepted ==
  /\ trying > 0
  /\ trying <= Len(Specifiers)
  /\ Accepts(Found.version)
  /\ cached' = Found
  /\ served' = Found
  /\ trying' = 0
  /\ UNCHANGED <<disk, failed, calls, changes, replaced>>

TryRefused ==
  /\ trying > 0
  /\ trying <= Len(Specifiers)
  /\ ~Accepts(Found.version)
  /\ trying' = trying + 1
  /\ UNCHANGED <<disk, cached, failed, served, calls, changes, replaced>>

AllRefused ==
  /\ trying > Len(Specifiers)
  /\ failed' = TRUE
  /\ served' = Failure
  /\ trying' = 0
  /\ UNCHANGED <<disk, cached, calls, changes, replaced>>

LoadNext ==
  \/ \E addon \in Addons : DiskChanges(addon)
  \/ SetNativeBinding
  \/ LoadBinding
  \/ TryAccepted
  \/ TryRefused
  \/ AllRefused

LoadSpec == LoadInit /\ [][LoadNext]_loadVars

-----------------------------------------------------------------------------
(* A stale addon is never measured with, even when another process swaps   *)
(* the file between the attempts or after the handshake.                   *)
NeverStale == served.addon \in Addons => served.version = "expected"

(* What a scan relies on when it takes one missing addon as fatal for all  *)
(* of its files (scan.ts:126-128): until the embedder replaces the         *)
(* binding, every call of a process gets the answer of the first, whatever *)
(* happens to the disk meanwhile.                                          *)
OneAnswerPerProcess == served # None /\ ~replaced => served' = served

(* A process measures all its files with one addon, of the expected        *)
(* version, or with none.                                                  *)
OneFreshAnswer == [][NeverStale' /\ OneAnswerPerProcess]_loadVars
=============================================================================
