---------------------------- MODULE MCKoiosClient ----------------------------
(* The parts of the Koios client: the cooldowns of two containers, a list    *)
(* that is read page by page, two callers at the gate, the limiters of four  *)
(* requests, and the retries of one call.  They share no state: a behaviour  *)
(* of the run works one of them.                                             *)
EXTENDS SharedCooldown, KoiosPaging, KoiosRequests, TLC

CONSTANTS c1, c2, r1, r2, r3, r4, votes, backoff

VARIABLE part

FirstLists == {s \in UNION {[1..n -> Row] : n \in 0..3} : \A i \in DOMAIN s : s[i] = i}

(* Two kinds of cooldown; errors of the second count, and start it at two. *)
TwoKinds == <<"backoff", "pressure">>
TwoLong == [k \in {"backoff", "pressure"} |-> 2]
OneOrTwo == [backoff |-> 1, pressure |-> 2]

(* Two requests of an endpoint with a limiter, two of one without. *)
OfTheirs == r1 :> votes @@ r2 :> votes @@ r3 :> Global @@ r4 :> Global
OnePlace == votes :> 1 @@ Global :> 2

(* KOIOS_DEFAULT_RETRY_OPTIONS of koios.ts. *)
Budgets == [rate_limit |-> 4, server |-> 3, timeout |-> 1, network |-> 2, unknown |-> 3]

clientVars == <<vars, pagingVars, requestVars>>
mcvars == <<part, clientVars>>

MCInit ==
    /\ part \in {"cooldown", "paging", "gate", "limiter", "call"}
    /\ Init /\ PagingInit /\ GateInit /\ LimiterInit /\ RetryInit
    /\ part # "paging" => rows = <<>>
    /\ aborted => part = "call"
MCNext ==
    /\ \/ part = "cooldown" /\ Next /\ UNCHANGED <<pagingVars, requestVars>>
       \/ part = "paging" /\ PagingNext /\ UNCHANGED <<vars, requestVars>>
       \/ /\ part = "gate" /\ GateNext
          /\ UNCHANGED <<vars, pagingVars, limiterVars, retryVars>>
       \/ /\ part = "limiter" /\ LimiterNext
          /\ UNCHANGED <<vars, pagingVars, gateVars, retryVars>>
       \/ /\ part = "call" /\ RetryNext
          /\ UNCHANGED <<vars, pagingVars, gateVars, limiterVars>>
    /\ UNCHANGED part

(* The fairness of the modules, for the part that is at work. *)
MCFairSpec ==
    /\ MCInit /\ [][MCNext]_mcvars
    /\ \A m \in [by : Containers, of : Snapshots] :
          WF_vars(part = "cooldown" /\ m \in merges /\ Merge(m))
    /\ \A c \in Containers :
          /\ WF_vars(part = "cooldown" /\ StartPull(c))
          /\ WF_vars(part = "cooldown" /\ Read(c))
          /\ WF_vars(part = "cooldown" /\ Apply(c))
          /\ WF_vars(part = "cooldown" /\ PullIntervalOver(c))
    /\ \A r \in Requests : WF_limiterVars(part = "limiter" /\ Step(r))

(* Every request gets through both limiters, however the pressure scales     *)
(* them (r2 is like r1, and r4 like r3).                                     *)
LimiterPasses ==
    \A r \in {r1, r3} :
        part = "limiter" /\ doing[r] = "asking" ~> doing[r] = "idle"
===============================================================================
