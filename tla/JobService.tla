----------------------------- MODULE JobService -----------------------------
(***************************************************************************)
(* What measure_code_native_async (src/native/src/napi.rs) promises its    *)
(* JavaScript caller: each call returns a promise that settles once, as    *)
(* the measurement of that call came out.                                  *)
(***************************************************************************)
CONSTANTS Jobs,       \* the calls
          Succeeding  \* the calls whose measurement returns Ok(json)

VARIABLE promise

Outcome(job) == IF job \in Succeeding THEN "resolved" ELSE "rejected"

Init == promise = [job \in Jobs |-> "none"]

Call(job) ==
  /\ promise[job] = "none"
  /\ promise' = [promise EXCEPT ![job] = "pending"]

Settle(job) ==
  /\ promise[job] = "pending"
  /\ promise' = [promise EXCEPT ![job] = Outcome(job)]

Next == \E job \in Jobs : Call(job) \/ Settle(job)

Spec == Init /\ [][Next]_promise /\ \A job \in Jobs : WF_promise(Settle(job))
=============================================================================
