----------------------------- MODULE KoiosRequests -----------------------------
(***************************************************************************)
(* What stands between a call of a service and a request that goes out to  *)
(* Koios: the gate of cooldowns and bursts, the nested limiters, and the   *)
(* retries of the call.  Each is a process of its own.                     *)
(***************************************************************************)
EXTENDS KoiosGate, ConcurrencyLimiter, Retry

requestVars == <<gateVars, limiterVars, retryVars>>

(* No request goes out that should wait or stop: none gets through the gate  *)
(* during a cooldown it could know of, the burst limiter never grants more   *)
(* than its maximum in any window, each limiter counts who holds it and      *)
(* exceeds its maximum only when a woken request was overtaken, requests     *)
(* wait only while one holds the limiter that will wake them, no class of    *)
(* error gets more retries than its budget, and no attempt starts once the   *)
(* signal is aborted.                                                        *)
RequestsAdmitted ==
    /\ []GrantsSpaced /\ CooldownHonoured
    /\ []LimiterInv
    /\ []RetriesWithinBudget /\ NoAttemptAfterAbort
===============================================================================
