-------------------------- MODULE ConcurrencyLimiter --------------------------
(***************************************************************************)
(* The limiters that every Koios request passes: the one of its endpoint,  *)
(* if it has one, then the global one (services/koios/limiters.ts and      *)
(* withKoiosConcurrencyLimit of services/koios.ts).  Their maximum scales  *)
(* with the pressure Koios is under.                                       *)
(*                                                                         *)
(* A request that is woken counts only when it resumes: release() counts   *)
(* down and resolves the promise of the head of the queue, and the counter *)
(* goes up again in a later microtask.  Requests that arrive in between    *)
(* find a free place.                                                      *)
(***************************************************************************)
EXTENDS Integers, Sequences, FiniteSets

CONSTANTS
    Requests,
    Endpoints,   \* those with a limiter of their own
    Global,      \* the limiter of all requests
    EndpointOf,  \* [Requests -> Endpoints \cup {Global}]; Global: it has none
    BaseMax,     \* the configured maximum of each limiter
    Scales       \* the percentages of getAdaptiveScalePercent

Limiters == Endpoints \cup {Global}

ASSUME LimiterAssumption ==
    /\ IsFiniteSet(Requests)
    /\ Global \notin Endpoints
    /\ EndpointOf \in [Requests -> Limiters]
    /\ BaseMax \in [Limiters -> Nat \ {0}]
    /\ Scales \subseteq 1..100 /\ 100 \in Scales

VARIABLES
    scale,    \* getAdaptiveScalePercent()
    at,       \* the limiter a request is asking for, or holds as its last
    doing,    \* what a request does there
    active,   \* activeCount of each limiter
    queue,    \* its queue
    overtook  \* a request took a place that was meant for one already woken

limiterVars == <<scale, at, doing, active, queue, overtook>>

(* Where a request enters, and which limiters it holds. *)
First(r) == EndpointOf[r]
Holds(r, l) ==
    \/ at[r] = l /\ doing[r] \in {"inside", "leaving"}
    \/ at[r] = Global /\ l = First(r) /\ l # Global
Woken(l) == {r \in Requests : at[r] = l /\ doing[r] = "woken"}

LimiterTypeOK ==
    /\ scale \in Scales
    /\ at \in [Requests -> Limiters]
    /\ doing \in [Requests -> {"idle", "asking", "waiting", "woken", "inside", "leaving"}]
    /\ active \in [Limiters -> Nat]
    /\ queue \in [Limiters -> Seq(Requests)]
    /\ overtook \in [Limiters -> BOOLEAN]

LimiterInit ==
    /\ scale = 100
    /\ at = [r \in Requests |-> First(r)]
    /\ doing = [r \in Requests |-> "idle"]
    /\ active = [l \in Limiters |-> 0]
    /\ queue = [l \in Limiters |-> <<>>]
    /\ overtook = [l \in Limiters |-> FALSE]

(* applyAdaptiveCap and getMaxConcurrent. *)
ApplyAdaptiveCap(base, percent) ==
    LET scaled == (base * percent) \div 100 IN IF scaled >= 1 THEN scaled ELSE 1
MaxConcurrent(l) == ApplyAdaptiveCap(BaseMax[l], scale)

(* The pressure comes and goes, whatever the requests do. *)
Rescale ==
    /\ scale' \in Scales \ {scale}
    /\ UNCHANGED <<at, doing, active, queue, overtook>>

Ask(r) ==
    /\ doing[r] = "idle"
    /\ doing' = [doing EXCEPT ![r] = "asking"]
    /\ UNCHANGED <<scale, at, active, queue, overtook>>

AcquireNow(r) ==
    /\ doing[r] = "asking" /\ active[at[r]] < MaxConcurrent(at[r])
    /\ doing' = [doing EXCEPT ![r] = "inside"]
    /\ active' = [active EXCEPT ![at[r]] = @ + 1]
    /\ overtook' = [overtook EXCEPT ![at[r]] = @ \/ Woken(at[r]) # {}]
    /\ UNCHANGED <<scale, at, queue>>

AcquireQueued(r) ==
    /\ doing[r] = "asking" /\ active[at[r]] >= MaxConcurrent(at[r])
    /\ doing' = [doing EXCEPT ![r] = "waiting"]
    /\ queue' = [queue EXCEPT ![at[r]] = Append(@, r)]
    /\ UNCHANGED <<scale, at, active, overtook>>

(* Mutant: a woken request looks at the maximum again and waits in vain. *)
ResumeRechecks(r) ==
    /\ doing[r] = "woken"
    /\ IF active[at[r]] < MaxConcurrent(at[r])
       THEN /\ doing' = [doing EXCEPT ![r] = "inside"]
            /\ active' = [active EXCEPT ![at[r]] = @ + 1]
            /\ UNCHANGED queue
       ELSE /\ doing' = [doing EXCEPT ![r] = "waiting"]
            /\ queue' = [queue EXCEPT ![at[r]] = Append(@, r)]
            /\ UNCHANGED active
    /\ UNCHANGED <<scale, at, overtook>>

Resume(r) ==
    /\ doing[r] = "woken"
    /\ doing' = [doing EXCEPT ![r] = "inside"]
    /\ active' = [active EXCEPT ![at[r]] = @ + 1]
    /\ UNCHANGED <<scale, at, queue, overtook>>

(* Inside the limiter of its endpoint the operation is the global limiter. *)
GoOn(r) ==
    /\ doing[r] = "inside" /\ at[r] # Global
    /\ at' = [at EXCEPT ![r] = Global]
    /\ doing' = [doing EXCEPT ![r] = "asking"]
    /\ UNCHANGED <<scale, active, queue, overtook>>

(* The request is answered or fails. *)
Settle(r) ==
    /\ doing[r] = "inside" /\ at[r] = Global
    /\ doing' = [doing EXCEPT ![r] = "leaving"]
    /\ UNCHANGED <<scale, at, active, queue, overtook>>

(* The head of the queue is woken; it is not counted yet. *)
WakeNext(l, phases) ==
    IF queue[l] = <<>>
    THEN doing' = phases /\ UNCHANGED queue
    ELSE /\ doing' = [phases EXCEPT ![Head(queue[l])] = "woken"]
         /\ queue' = [queue EXCEPT ![l] = Tail(@)]

(* release(), of the global limiter and then of the endpoint's. *)
Release(r) ==
    /\ doing[r] = "leaving"
    /\ active' = [active EXCEPT ![at[r]] = @ - 1]
    /\ at' = [at EXCEPT ![r] = First(r)]
    /\ WakeNext(at[r], [doing EXCEPT ![r] = IF at[r] = First(r) THEN "idle" ELSE "leaving"])
    /\ UNCHANGED <<scale, overtook>>

Step(r) ==
    \/ AcquireNow(r) \/ AcquireQueued(r) \/ Resume(r)
    \/ GoOn(r) \/ Settle(r) \/ Release(r)

LimiterNext == Rescale \/ \E r \in Requests : Ask(r) \/ Step(r)

LimiterSpec == LimiterInit /\ [][LimiterNext]_limiterVars

(* A request that holds a place is answered or times out, and microtasks   *)
(* run.                                                                    *)
LimiterFairSpec == LimiterSpec /\ \A r \in Requests : WF_limiterVars(Step(r))

-------------------------------------------------------------------------------
(* Properties *)

(* The counter of each limiter is the number of requests that hold it, and *)
(* so comes back to zero when all are answered, however they end.          *)
CountersExact ==
    \A l \in Limiters : active[l] = Cardinality({r \in Requests : Holds(r, l)})

(* No lost wake-up, and no wake-up in vain: requests wait only while one   *)
(* holds the limiter, or is about to, that will wake them when it leaves;  *)
(* a maximum that grows does not.  The queue holds those that wait.        *)
NoLostWakeup ==
    \A l \in Limiters :
        /\ queue[l] # <<>> => \E r \in Requests : Holds(r, l) \/ r \in Woken(l)
        /\ \A r \in Requests :
              at[r] = l /\ doing[r] = "waiting" <=> \E i \in DOMAIN queue[l] : queue[l][i] = r
        /\ \A i, j \in DOMAIN queue[l] : queue[l][i] = queue[l][j] => i = j

(* A limiter exceeds its maximum only when a request took the place of one *)
(* that was already woken; a woken request counts as if it were inside.    *)
WithinMax ==
    \A l \in Limiters :
        ~overtook[l] =>
            Cardinality({r \in Requests : Holds(r, l)} \cup Woken(l)) <= BaseMax[l]

(* The queues, the counters and the requests tell one story. *)
LimiterInv == LimiterTypeOK /\ CountersExact /\ NoLostWakeup /\ WithinMax

===============================================================================
