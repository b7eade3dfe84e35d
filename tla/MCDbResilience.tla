---------------------------- MODULE MCDbResilience ----------------------------
(* What comes back after the database failed.  "calls": writes and a read,  *)
(* one write guarded by the fail-fast switch.  "locks": two heavy cron jobs *)
(* whose writes to the lock rows fail, or whose container stops.  They share *)
(* no state: a behaviour works one of them.                                 *)
EXTENDS DbResilience, TLC

CONSTANTS w1, w2, w3, w4, r1, a1, a2, j1, j2, c1, lane, NoRun

VARIABLES part,
    row, at, lag, tries, lock, laneHeld, faults, owner, breached

Jobs == INSTANCE SyncLock WITH
    pc <- at, lane <- laneHeld,
    Runs <- {a1, a2}, CronRuns <- {a1, a2}, HeavyRuns <- {a1, a2}, ReadRuns <- {},
    Jobs <- {j1, j2}, JobOf <- (a1 :> j1 @@ a2 :> j2), Lane <- lane,
    InstanceOf <- [r \in {a1, a2} |-> c1],
    Ttl <- [r \in {a1, a2} |-> 2], LaneTtl <- 1, Strict <- TRUE,
    MaxLag <- 1, MaxAttempts <- 1, MaxFaults <- 1

lockVars == <<row, at, lag, tries, lock, laneHeld, faults, owner, breached>>
allVars == <<part, vars, lockVars>>

MCInit == part \in {"calls", "locks"} /\ Init /\ Jobs!Init
MCNext ==
    /\ \/ part = "calls" /\ Next /\ UNCHANGED lockVars
       \/ part = "locks" /\ Jobs!Next /\ UNCHANGED vars
    /\ UNCHANGED part

(* The fairness of the modules, for the part that is at work. *)
MCFairSpec ==
    /\ MCInit /\ [][MCNext]_allVars
    /\ WF_vars(part = "calls" /\ Tick)
    /\ \A c \in Calls : WF_vars(part = "calls" /\ Continue(c))
    /\ WF_lockVars(part = "locks" /\ Jobs!Tick)
    /\ \A r \in {a1, a2} :
          /\ WF_lockVars(part = "locks" /\ Jobs!Continue(r))
          /\ WF_lockVars(part = "locks" /\ Jobs!Fire(r))
          /\ SF_lockVars(part = "locks" /\ Jobs!GatePass(r))

(* A row left behind does not block its job for ever, and the local flag    *)
(* isRunning is always reset.                                               *)
RunsRecover == Jobs!LeakedRowRecovered /\ Jobs!EveryRunEnds
===============================================================================
