------------------------------ MODULE WriterLock ------------------------------
(***************************************************************************)
(* The single writer of the delegation sync: a session-level advisory lock *)
(* of PostgreSQL that is taken and given back through Prisma's pool, each  *)
(* statement on whatever connection the pool hands out.  A session may     *)
(* take a lock it has again; it has it until it gave it back as often, or  *)
(* ends.  A run is runDrepDelegatorSyncWithDailyRetry under the job's lock *)
(* (SyncLock), whose lease may run out while the run goes on: one or two   *)
(* passes of syncDrepDelegationChanges (DelegationSync), each under the    *)
(* writer lock.                                                            *)
(***************************************************************************)
EXTENDS Integers, FiniteSets

CONSTANTS
    Processes, Slots,   \* the runs of a process
    Pool,               \* the connections in the pool of a process
    LeaseEnds,          \* whether the lease of the job may run out
    ReleaseFails,       \* whether the statement that unlocks may fail
    Losses,             \* whether a session may end that a run relies on
    MaxHeld             \* bound: how often a session takes the lock in a row

ASSUME ParametersAssumption ==
    /\ IsFiniteSet(Slots) /\ IsFiniteSet(Processes)
    /\ {LeaseEnds, ReleaseFails, Losses} \subseteq BOOLEAN /\ MaxHeld \in Nat

Runs == Processes \X Slots
Sessions == Processes \X Pool

VARIABLES
    held,         \* how often each session has the advisory lock
    job,          \* the run that holds the lock of the job
    pc,           \* where each run is
    first, last,  \* the results of its passes
    session,      \* where it took the writer lock
    recorded      \* what the job's row says of it

run == <<pc, first, last, session, recorded>>
vars == <<held, job, run>>

Nobody == <<"nobody">>
NoSession == <<"none">>
Places == {"idle", "acquire", "work", "release", "next", "end"}
Results == {"none", "full", "partial", "skipped"}
Outcomes == {"none", "success", "partial", "failed"}

TypeOK ==
    /\ held \in [Sessions -> Nat]
    /\ job \in Runs \cup {Nobody}
    /\ pc \in [Runs -> Places]
    /\ first \in [Runs -> Results] /\ last \in [Runs -> Results]
    /\ session \in [Runs -> Sessions \cup {NoSession}]
    /\ recorded \in [Runs -> Outcomes]

Init ==
    /\ held = [c \in Sessions |-> 0]
    /\ job = Nobody
    /\ pc = [r \in Runs |-> "idle"]
    /\ first = [r \in Runs |-> "none"] /\ last = [r \in Runs |-> "none"]
    /\ session = [r \in Runs |-> NoSession]
    /\ recorded = [r \in Runs |-> "none"]

Writing(r) == pc[r] \in {"work", "release"}

-------------------------------------------------------------------------------
(* The advisory lock *)

(* pg_try_advisory_lock on session c *)
Granted(c) == \A d \in Sessions \ {c} : held[d] = 0

(* Mutant: a lock that the session has twice is given back altogether. *)
UnlockedAll(c) == held' = [held EXCEPT ![c] = 0]

(* pg_advisory_unlock on session c: a warning where it is not held. *)
Unlocked(c) == held' = [held EXCEPT ![c] = IF @ = 0 THEN 0 ELSE @ - 1]

-------------------------------------------------------------------------------
(* Runs *)

(* The job's lock is taken: nobody has it, or the lease of its holder ended. *)
Begin(r) ==
    /\ pc[r] = "idle"
    /\ job = Nobody \/ LeaseEnds
    /\ job' = r
    /\ pc' = [pc EXCEPT ![r] = "acquire"]
    /\ UNCHANGED <<held, first, last, session, recorded>>

Acquire(r) == \E c \in Sessions :
    /\ pc[r] = "acquire" /\ c[1] = r[1] /\ held[c] < MaxHeld
    /\ IF Granted(c)
       THEN /\ held' = [held EXCEPT ![c] = @ + 1]
            /\ pc' = [pc EXCEPT ![r] = "work"]
            /\ session' = [session EXCEPT ![r] = c]
            /\ UNCHANGED last
       ELSE /\ pc' = [pc EXCEPT ![r] = "next"]
            /\ last' = [last EXCEPT ![r] = "skipped"]
            /\ UNCHANGED <<held, session>>
    /\ UNCHANGED <<job, first, recorded>>

(* The pass ends, with or without failed DReps, or throws. *)
Work(r) == \E result \in {"none", "full", "partial"} :
    /\ pc[r] = "work"
    /\ pc' = [pc EXCEPT ![r] = "release"]
    /\ last' = [last EXCEPT ![r] = result]
    /\ UNCHANGED <<held, job, first, session, recorded>>

(* The finally of a pass: unlock, on some connection; a failure is logged. *)
Release(r) ==
    /\ pc[r] = "release"
    /\ \/ \E c \in Sessions : c[1] = r[1] /\ Unlocked(c)
       \/ ReleaseFails /\ UNCHANGED held
    /\ pc' = [pc EXCEPT ![r] = "next"]
    /\ session' = [session EXCEPT ![r] = NoSession]
    /\ UNCHANGED <<job, first, last, recorded>>

(* runDrepDelegatorSyncWithDailyRetry after a pass: a second one after the   *)
(* first had failures; else the outcome.  A skipped pass lists no failure.   *)
Again(r) == first[r] = "none" /\ last[r] = "partial"

Outcome(result) ==
    IF result = "none" THEN "failed" ELSE IF result = "partial" THEN "partial" ELSE "success"

Retry(r) ==
    /\ pc[r] = "next" /\ Again(r)
    /\ pc' = [pc EXCEPT ![r] = "acquire"]
    /\ first' = [first EXCEPT ![r] = "partial"] /\ last' = [last EXCEPT ![r] = "none"]
    /\ UNCHANGED <<held, job, session, recorded>>

(* releaseJobLock: whoever holds the lock *)
Record(r) ==
    /\ pc[r] = "next" /\ ~Again(r)
    /\ pc' = [pc EXCEPT ![r] = "end"]
    /\ recorded' = [recorded EXCEPT ![r] = Outcome(last[r])]
    /\ job' = Nobody
    /\ UNCHANGED <<held, first, last, session>>

Ends(r) ==
    /\ pc[r] = "end"
    /\ pc' = [pc EXCEPT ![r] = "idle"]
    /\ first' = [first EXCEPT ![r] = "none"] /\ last' = [last EXCEPT ![r] = "none"]
    /\ recorded' = [recorded EXCEPT ![r] = "none"]
    /\ UNCHANGED <<held, job, session>>

(* The pool closes a connection, or the database does. *)
SessionEnds(c) ==
    /\ held[c] > 0
    /\ Losses \/ \A r \in Runs : Writing(r) => session[r] # c
    /\ held' = [held EXCEPT ![c] = 0]
    /\ UNCHANGED <<job, run>>

(* A process stops; the lease of its lock runs out before the next run.      *)
Crash(p) ==
    /\ \E r \in Runs : r[1] = p /\ pc[r] # "idle"
    /\ held' = [c \in Sessions |-> IF c[1] = p THEN 0 ELSE held[c]]
    /\ pc' = [r \in Runs |-> IF r[1] = p THEN "idle" ELSE pc[r]]
    /\ session' = [r \in Runs |-> IF r[1] = p THEN NoSession ELSE session[r]]
    /\ first' = [r \in Runs |-> IF r[1] = p THEN "none" ELSE first[r]]
    /\ last' = [r \in Runs |-> IF r[1] = p THEN "none" ELSE last[r]]
    /\ recorded' = [r \in Runs |-> IF r[1] = p THEN "none" ELSE recorded[r]]
    /\ job' = IF job # Nobody /\ job[1] = p THEN Nobody ELSE job

Next ==
    \/ \E r \in Runs :
          Begin(r) \/ Acquire(r) \/ Work(r) \/ Release(r) \/ Retry(r) \/ Record(r) \/ Ends(r)
    \/ \E c \in Sessions : SessionEnds(c)
    \/ \E p \in Processes : Crash(p)

Spec == Init /\ [][Next]_vars

-------------------------------------------------------------------------------
(* Properties *)

(* One session at most has the advisory lock. *)
OneSession == \A c, d \in Sessions : held[c] > 0 /\ held[d] > 0 => c = d

(* Two processes never sync delegations at the same time, whatever becomes   *)
(* of the job's lease: unlocking on another connection than the one that     *)
(* locked, or twice on the same, never frees the lock under a run.           *)
OneProcess == \A r, s \in Runs : Writing(r) /\ Writing(s) => r[1] = s[1]

(* What OneProcess rests on: a session has the lock as often, at least, as   *)
(* runs rely on it.                                                          *)
Covered == \A c \in Sessions :
    Cardinality({r \in Runs : Writing(r) /\ session[r] = c}) <= held[c]

(* While no run is under way, no session has the lock ("pair with release    *)
(* after work").                                                             *)
NoLeak == (\A r \in Runs : pc[r] = "idle") => \A c \in Sessions : held[c] = 0
===============================================================================
