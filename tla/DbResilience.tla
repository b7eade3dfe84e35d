----------------------------- MODULE DbResilience -----------------------------
(***************************************************************************)
(* How every database call of a process is run (services/prisma.ts): the   *)
(* semaphore with its bounded queue that writes pass, the attempts with a  *)
(* sleep between them, and the circuit that opens when calls keep failing; *)
(* and the fail-fast switch of the ingestion units on top of it            *)
(* (services/ingestion/dbFailFast.ts).                                     *)
(*                                                                         *)
(* Time is relative: openLeft and failFastLeft are what is left of         *)
(* dbCircuitOpenUntil and dbFailFastUntilMs, failures[a] counts the        *)
(* timestamps of dbFailureTimestamps that are a ticks old.  Older ones     *)
(* than the window are dropped at once, where the code prunes them before  *)
(* every use.                                                              *)
(***************************************************************************)
EXTENDS Integers, Sequences, SequencesExt, FiniteSets

CONSTANTS
    Calls,            \* the callers of withDbRead and withDbWrite
    Writes,           \* those that write
    Guarded,          \* those that ask shouldFailFastForDb first
    Limit,            \* DB_WRITE_MAX_IN_FLIGHT
    MaxQueue,         \* DB_WRITE_QUEUE_MAX_DEPTH
    MaxAttempts,      \* DB_RETRY_MAX_ATTEMPTS
    Threshold,        \* DB_CIRCUIT_THRESHOLD
    Window,           \* DB_CIRCUIT_WINDOW_MS, in ticks
    Cooldown,         \* DB_CIRCUIT_COOLDOWN_MS, in ticks
    FailFastCooldown  \* INGESTION_DB_FAILFAST_COOLDOWN_MS, in ticks

ASSUME CallsAssumption ==
    /\ IsFiniteSet(Calls)
    /\ Writes \subseteq Calls
    /\ Guarded \subseteq Calls
ASSUME BoundsAssumption ==
    /\ {Limit, MaxQueue, MaxAttempts, Threshold} \subseteq Nat \ {0}
    /\ {Window, Cooldown, FailFastCooldown} \subseteq Nat \ {0}

VARIABLES
    pc,           \* what each call is doing
    attempt,      \* its attempt, from 1
    active,       \* the counter of the semaphore
    queue,        \* the writes that wait for a slot, in order
    failures,     \* calls that failed for good, by age
    openLeft,     \* the circuit is open for that long
    failFastLeft  \* ingestion units are skipped for that long

vars == <<pc, attempt, active, queue, failures, openLeft, failFastLeft>>
slots == <<active, queue>>
health == <<failures, openLeft, failFastLeft>>

Ages == 0..Window

Larger(a, b) == IF a >= b THEN a ELSE b

(* The writes that are past the semaphore. *)
InFlight == {c \in Writes : pc[c] \in {"running", "sleeping"}}

TypeOK ==
    /\ pc \in [Calls -> {"idle", "checked", "queued", "running", "sleeping"}]
    /\ attempt \in [Calls -> 1..MaxAttempts]
    /\ active \in Nat
    /\ queue \in Seq(Writes)
    /\ failures \in [Ages -> Nat]
    /\ openLeft \in 0..Cooldown
    /\ failFastLeft \in 0..Larger(Cooldown, FailFastCooldown)

Init ==
    /\ pc = [c \in Calls |-> "idle"]
    /\ attempt = [c \in Calls |-> 1]
    /\ active = 0
    /\ queue = <<>>
    /\ failures = [a \in Ages |-> 0]
    /\ openLeft = 0
    /\ failFastLeft = 0


-------------------------------------------------------------------------------
(* Starting a call *)

(* shouldFailFastForDb: an open circuit prolongs the switch. *)
FailFastNow == Larger(failFastLeft, openLeft)

(* The check of a guarded unit: it is skipped, or it goes on to its call,  *)
(* and meanwhile the switch or the circuit may change.                     *)
CheckFailFast(c) ==
    /\ pc[c] = "idle" /\ c \in Guarded
    /\ failFastLeft' = FailFastNow
    /\ pc' = [pc EXCEPT ![c] = IF FailFastNow > 0 THEN "idle" ELSE "checked"]
    /\ UNCHANGED <<attempt, slots, failures, openLeft>>

(* recordDbFailureForFailFast, for a connectivity error of a guarded unit. *)
RecordFailFast(c) ==
    failFastLeft' =
        IF c \in Guarded THEN Larger(failFastLeft, FailFastCooldown) ELSE failFastLeft

MayStart(c) == pc[c] = IF c \in Guarded THEN "checked" ELSE "idle"

Reject(c) == pc' = [pc EXCEPT ![c] = "idle"]

(* Mutant: a rejected call counts as a failure and prolongs the circuit. *)
RejectOpenCounts(c) ==
    /\ MayStart(c)
    /\ openLeft > 0
    /\ openLeft' = Cooldown
    /\ RecordFailFast(c)
    /\ Reject(c)
    /\ UNCHANGED <<attempt, slots, failures>>

(* The circuit is open: "DB Circuit Open", itself a connectivity error. *)
RejectOpen(c) ==
    /\ MayStart(c)
    /\ openLeft > 0
    /\ RecordFailFast(c)
    /\ Reject(c)
    /\ UNCHANGED <<attempt, slots, failures, openLeft>>

Begin(c, phase) ==
    /\ pc' = [pc EXCEPT ![c] = phase]
    /\ attempt' = [attempt EXCEPT ![c] = 1]

(* A read, or a write that finds a free slot. *)
StartNow(c) ==
    /\ MayStart(c) /\ openLeft = 0
    /\ c \in Writes => active < Limit
    /\ Begin(c, "running")
    /\ active' = IF c \in Writes THEN active + 1 ELSE active
    /\ UNCHANGED <<queue, health>>

StartQueued(c) ==
    /\ MayStart(c) /\ openLeft = 0 /\ c \in Writes
    /\ active >= Limit
    /\ Len(queue) < MaxQueue
    /\ Begin(c, "queued")
    /\ queue' = Append(queue, c)
    /\ UNCHANGED <<active, health>>

(* queue-overflow: not a connectivity error. *)
RejectOverflow(c) ==
    /\ MayStart(c) /\ openLeft = 0 /\ c \in Writes
    /\ active >= Limit
    /\ Len(queue) >= MaxQueue
    /\ Reject(c)
    /\ UNCHANGED <<attempt, slots, health>>

-------------------------------------------------------------------------------
(* Attempts *)

(* Mutants of Finish: a release that only counts down, and one that wakes  *)
(* the write that came last.                                               *)
FinishNoWake(c) ==
    /\ pc' = [pc EXCEPT ![c] = "idle"]
    /\ active' = IF c \in Writes THEN Larger(0, active - 1) ELSE active
    /\ UNCHANGED queue
(* Mutant: the write that is woken does not count. *)
FinishUncounted(c) ==
    IF c \in Writes /\ queue # <<>>
    THEN /\ pc' = [pc EXCEPT ![c] = "idle", ![Head(queue)] = "running"]
         /\ active' = Larger(0, active - 1)
         /\ queue' = Tail(queue)
    ELSE /\ pc' = [pc EXCEPT ![c] = "idle"]
         /\ active' = IF c \in Writes THEN Larger(0, active - 1) ELSE active
         /\ UNCHANGED queue

(* The call is over.  release() counts down and hands the slot to the head *)
(* of the queue in the same turn, which counts up again.                   *)
Finish(c) ==
    IF c \in Writes /\ queue # <<>>
    THEN /\ pc' = [pc EXCEPT ![c] = "idle", ![Head(queue)] = "running"]
         /\ active' = Larger(0, active - 1) + 1
         /\ queue' = Tail(queue)
    ELSE /\ pc' = [pc EXCEPT ![c] = "idle"]
         /\ active' = IF c \in Writes THEN Larger(0, active - 1) ELSE active
         /\ UNCHANGED queue

Succeed(c) ==
    /\ pc[c] = "running"
    /\ Finish(c)
    /\ UNCHANGED <<attempt, health>>

(* An error that is not transient is thrown at once and not counted. *)
FailForGood(c) ==
    /\ pc[c] = "running"
    /\ Finish(c)
    /\ UNCHANGED <<attempt, health>>

(* The call sleeps and keeps its slot. *)
FailTransient(c) ==
    /\ pc[c] = "running" /\ attempt[c] < MaxAttempts
    /\ pc' = [pc EXCEPT ![c] = "sleeping"]
    /\ UNCHANGED <<attempt, slots, health>>

Retry(c) ==
    /\ pc[c] = "sleeping"
    /\ pc' = [pc EXCEPT ![c] = "running"]
    /\ attempt' = [attempt EXCEPT ![c] = @ + 1]
    /\ UNCHANGED <<slots, health>>

Observed(f) == FoldFunction(+, 0, f)

(* recordDbFailure: the circuit opens, or stays open for longer. *)
RecordDbFailure ==
    /\ failures' = [failures EXCEPT ![0] = @ + 1]
    /\ openLeft' = IF Observed(failures') >= Threshold THEN Cooldown ELSE openLeft

(* The last attempt fails. *)
FailExhausted(c) ==
    /\ pc[c] = "running" /\ attempt[c] >= MaxAttempts
    /\ RecordDbFailure
    /\ RecordFailFast(c)
    /\ Finish(c)
    /\ UNCHANGED attempt

Older(f) == [a \in Ages |-> IF a = 0 THEN 0 ELSE f[a - 1]]

Sooner(left) == IF left > 0 THEN left - 1 ELSE 0

Tick ==
    /\ failures' = Older(failures)
    /\ openLeft' = Sooner(openLeft)
    /\ failFastLeft' = Sooner(failFastLeft)
    /\ UNCHANGED <<pc, attempt, slots>>

Start(c) ==
    \/ CheckFailFast(c) \/ RejectOpen(c)
    \/ StartNow(c) \/ StartQueued(c) \/ RejectOverflow(c)
Attempt(c) ==
    \/ Succeed(c) \/ FailForGood(c) \/ FailTransient(c) \/ Retry(c) \/ FailExhausted(c)

Next == Tick \/ \E c \in Calls : Start(c) \/ Attempt(c)

Spec == Init /\ [][Next]_vars

(* Every attempt and every sleep ends, a unit that was let through makes   *)
(* its call, and time passes.                                              *)
Continue(c) == pc[c] # "idle" /\ (Start(c) \/ Attempt(c))

FairSpec == Spec /\ WF_vars(Tick) /\ \A c \in Calls : WF_vars(Continue(c))

-------------------------------------------------------------------------------
(* Properties *)

(* The counter of the semaphore is the number of writes that hold a slot,  *)
(* through every error, retry and hand-over, and never exceeds the limit.  *)
SlotsAccounted == active = Cardinality(InFlight) /\ active <= Limit

(* No lost wake-up: a write waits only while every slot is taken, and the  *)
(* queue holds just the calls that wait, once each.                        *)
NoLostWakeup ==
    /\ queue # <<>> => active = Limit
    /\ \A c \in Calls : pc[c] = "queued" <=> \E i \in DOMAIN queue : queue[i] = c
    /\ \A i, j \in DOMAIN queue : queue[i] = queue[j] => i = j

(* The queue, the counter and the calls tell one story. *)
Inv == TypeOK /\ SlotsAccounted /\ NoLostWakeup

(* Every call that was let in returns: no write waits for ever behind      *)
(* writes that sleep between attempts.                                     *)
CallsReturn == \A c \in Calls : pc[c] # "idle" ~> pc[c] = "idle"

(* However the database behaves, the circuit closes again and the units    *)
(* are let through: what is in flight when it opens can prolong it only so *)
(* often, and a skipped or rejected call does not count as a failure.      *)
DegradationEnds == (openLeft > 0 ~> openLeft = 0) /\ (failFastLeft > 0 ~> failFastLeft = 0)
===============================================================================
