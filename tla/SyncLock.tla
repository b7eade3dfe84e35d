------------------------------- MODULE SyncLock -------------------------------
(***************************************************************************)
(* The lease lock that every ingestion job takes in the table sync_status  *)
(* (services/ingestion/syncLock.ts), together with the runs that take it:  *)
(* the cron wrapper (jobs/runIngestionCronJob.ts) with the Koios heavy-job *)
(* lane (jobs/koiosPressureGuard.ts), the HTTP triggers                    *)
(* (controllers/data/trigger*.ts) and the sync-on-read overview and guards *)
(* (services/syncOnRead.ts), which use the same rows.                      *)
(*                                                                         *)
(* Time is relative.  row[l].left is expires_at minus the present, and     *)
(* lag[r] is how long ago run r evaluated `now`: the code reads the clock  *)
(* once, before it queues for the write semaphore, retries and waits for   *)
(* the row lock, so the value it compares and writes may be old.           *)
(***************************************************************************)
EXTENDS Integers, FiniteSets

CONSTANTS
    Runs,         \* who may run: a cron timer of an instance, or a request
    Jobs,         \* job names, the keys of sync_status
    Lane,         \* the key of the Koios heavy-job lane, a row of its own
    NoRun,        \* no run
    JobOf,        \* the job each run is for
    CronRuns,     \* runs of startIngestionCronJob
    HeavyRuns,    \* the cron runs with useKoiosHeavyLane
    ReadRuns,     \* sync-on-read runs: their release swallows errors at once
    InstanceOf,   \* the process (container) each run lives in
    Ttl,          \* ttlMs each run passes for its job, in ticks
    LaneTtl,      \* KOIOS_HEAVY_JOB_LANE_TTL_MS, in ticks
    Strict,       \* STRICT_SYNC_LOCK_ENABLED
    MaxLag,       \* bound: the longest an acquisition is in flight, in ticks
    MaxAttempts,  \* DB_RETRY_MAX_ATTEMPTS
    MaxFaults     \* bound: crashes and failed database writes in a behaviour

Instances == {InstanceOf[r] : r \in Runs}
Locks == Jobs \union {Lane}

ASSUME RunsAssumption ==
    /\ NoRun \notin Runs
    /\ JobOf \in [Runs -> Jobs]
    /\ CronRuns \subseteq Runs
    /\ HeavyRuns \subseteq CronRuns
    /\ ReadRuns \subseteq Runs \ CronRuns
    /\ Lane \notin Jobs
ASSUME TimeAssumption ==
    /\ Ttl \in [Runs -> Nat]
    /\ LaneTtl \in Nat
    /\ MaxLag \in Nat
    /\ MaxAttempts \in Nat
    /\ MaxFaults \in Nat
    /\ Strict \in BOOLEAN

VARIABLES
    row,       \* the rows of sync_status: is_running and the lease left
    pc,        \* where each run is; "idle" is the local flag isRunning = false
    lag,       \* the age of the `now` an acquisition in flight uses
    tries,     \* the attempt of withDbWrite that is under way
    lock,      \* lockAcquired (cron) or acquired (triggers)
    lane,      \* laneAcquired
    faults,    \* crashes and failed writes so far
    owner,     \* ghost: the run whose acquisition the row records
    breached   \* ghost: the lease of a run still inside was lost (see Breach)

vars == <<row, pc, lag, tries, lock, lane, faults, owner, breached>>

AcquirePhases == {"acquire", "upsert", "acquireLane", "upsertLane"}
ReleasePhases == {"release", "releaseSkipped", "releaseLane", "failLane", "releaseLast"}
Phases == {"idle", "gate", "running"} \union AcquirePhases \union ReleasePhases

LanePhases == {"acquireLane", "upsertLane", "releaseLane", "failLane"}

(* The row that the database call of run r is about. *)
Target(r) == IF pc[r] \in LanePhases THEN Lane ELSE JobOf[r]

TtlOf(r) == IF pc[r] \in LanePhases THEN LaneTtl ELSE Ttl[r]

(* The runs that believe they hold lock l. *)
Holders(l) == {r \in Runs : \/ lock[r] /\ JobOf[r] = l
                            \/ lane[r] /\ l = Lane}

(* The runs doing the work that lock l is for. *)
Working(l) == {r \in Holders(l) : pc[r] = "running"}

TypeOK ==
    /\ row \in [Locks -> [running : BOOLEAN, left : Int]]
    /\ pc \in [Runs -> Phases]
    /\ lag \in [Runs -> Nat]
    /\ tries \in [Runs -> Nat]
    /\ lock \in [Runs -> BOOLEAN]
    /\ lane \in [Runs -> BOOLEAN]
    /\ faults \in Nat
    /\ owner \in [Locks -> Runs \union {NoRun}]
    /\ breached \in [Locks -> BOOLEAN]

Init ==
    /\ row = [l \in Locks |-> [running |-> FALSE, left |-> 0]]
    /\ pc = [r \in Runs |-> "idle"]
    /\ lag = [r \in Runs |-> 0]
    /\ tries = [r \in Runs |-> 0]
    /\ lock = [r \in Runs |-> FALSE]
    /\ lane = [r \in Runs |-> FALSE]
    /\ faults = 0
    /\ owner = [l \in Locks |-> NoRun]
    /\ breached = [l \in Locks |-> FALSE]

(***************************************************************************)
(* A lease is breached when the run that holds it can no longer count on   *)
(* the row: the time ran out under it, its release was committed but not   *)
(* acknowledged so that it will be sent again, or (without STRICT) its row *)
(* was written over after a stale check.  The breach is over when nobody   *)
(* is inside any more.                                                     *)
(***************************************************************************)
Breach(S) ==
    breached' = [l \in Locks |-> Holders(l)' # {} /\ (breached[l] \/ l \in S)]

(* Run r goes to a phase: a new database call starts with attempt 1 and,   *)
(* when it acquires, with a fresh `now`; back at idle the locals are gone. *)
Goto(r, phase, holdsLock, holdsLane) ==
    /\ pc' = [pc EXCEPT ![r] = phase]
    /\ tries' = [tries EXCEPT ![r] = 1]
    /\ lag' = [lag EXCEPT ![r] = 0]
    /\ lock' = [lock EXCEPT ![r] = holdsLock /\ phase # "idle"]
    /\ lane' = [lane EXCEPT ![r] = holdsLane /\ phase # "idle"]

-------------------------------------------------------------------------------
(* Starting a run *)

(* The timer of a cron run goes off, or a request arrives.  A timer that   *)
(* goes off during a run is ignored (isRunning): only an idle run starts.  *)
Fire(r) ==
    /\ pc[r] = "idle"
    /\ Goto(r, IF r \in CronRuns THEN "gate" ELSE "acquire", FALSE, FALSE)
    /\ Breach({})
    /\ UNCHANGED <<row, owner, faults>>

(* Jitter is over and neither the pressure guards nor beforeAcquire skip.  *)
GatePass(r) ==
    /\ pc[r] = "gate"
    /\ Goto(r, "acquire", FALSE, FALSE)
    /\ Breach({})
    /\ UNCHANGED <<row, owner, faults>>

(* shouldSkipForDbPressure, shouldSkipForKoiosPressure or beforeAcquire.   *)
GateSkip(r) ==
    /\ pc[r] = "gate"
    /\ Goto(r, "idle", FALSE, FALSE)
    /\ Breach({})
    /\ UNCHANGED <<row, owner, faults>>

-------------------------------------------------------------------------------
(* acquireJobLock *)

(* Mutant: no take-over of old leases.                                     *)
ExpiredNever(l, r) == FALSE

(* is_running and expires_at < now, with the `now` of the call. *)
Expired(l, r) == row[l].running /\ row[l].left < -lag[r]

Contended(l, r) == row[l].running /\ ~Expired(l, r)

(* The lease written is now + ttl: what is left of it counts from now. *)
LeaseLeft(r) == TtlOf(r) - lag[r]

(* After the job lock a heavy cron run goes for the lane. *)
AfterAcquire(r) ==
    IF pc[r] \in LanePhases \/ r \notin HeavyRuns THEN "running" ELSE "acquireLane"

(* Mutants: a release of what was not acquired, no skip when the lane is    *)
(* busy.                                                                   *)
AfterContendedFinally(r) == "releaseSkipped"
AfterContendedIgnored(r) == IF pc[r] \in LanePhases THEN "running" ELSE "idle"

(* Nothing was acquired: without the job lock the run just ends; without   *)
(* the lane it gives the job lock back, as a success when the lane is busy *)
(* and as a failure when the call threw.                                   *)
AfterContended(r) == IF pc[r] \in LanePhases THEN "releaseSkipped" ELSE "idle"
AfterAcquireThrow(r) == IF pc[r] \in LanePhases THEN "releaseLast" ELSE "idle"

(* The transaction starts over: withDbWrite runs its function again. *)
FirstStep(r) == CASE pc[r] = "upsert" -> "acquire"
                  [] pc[r] = "upsertLane" -> "acquireLane"
                  [] OTHER -> pc[r]

WriteRow(l, r) ==
    /\ row' = [row EXCEPT ![l] = [running |-> TRUE, left |-> LeaseLeft(r)]]
    /\ owner' = [owner EXCEPT ![l] = r]

(* withDbWrite tries again, with the same `now`. *)
Retry(r, phase) ==
    /\ tries[r] < MaxAttempts
    /\ pc' = [pc EXCEPT ![r] = phase]
    /\ tries' = [tries EXCEPT ![r] = @ + 1]
    /\ UNCHANGED <<lag, lock, lane>>

Fault == faults < MaxFaults /\ faults' = faults + 1

(* Mutant: the row is written without the check. *)
MayWriteUnchecked(r) == pc[r] \in AcquirePhases

(* The row may be written in this step: the row lock makes check and write *)
(* one step; without STRICT that is so only for a row found expired, which *)
(* updateMany locks, and the upsert writes whatever has happened since.    *)
MayWrite(r) ==
    \/ /\ pc[r] \in {"acquire", "acquireLane"}
       /\ ~Contended(Target(r), r)
       /\ Strict \/ Expired(Target(r), r)
    \/ pc[r] \in {"upsert", "upsertLane"}

(* Leases that are lost by this write: one that is over when it is         *)
(* written, and one written over a row that is no longer free.             *)
LostByWrite(r) ==
    {l \in {Target(r)} : \/ LeaseLeft(r) < 0
                         \/ pc[r] \in {"upsert", "upsertLane"} /\ row[l].running}

Acquire(r) ==
    /\ MayWrite(r)
    /\ WriteRow(Target(r), r)
    /\ Goto(r, AfterAcquire(r), TRUE, pc[r] \in LanePhases)
    /\ Breach(LostByWrite(r))
    /\ UNCHANGED faults

(* The transaction commits and its answer is lost: the run that tries      *)
(* again will find its own row, and the one that gives up leaves it.       *)
AcquireUnacknowledged(r) ==
    /\ MayWrite(r)
    /\ Fault
    /\ WriteRow(Target(r), r)
    /\ \/ Retry(r, FirstStep(r))
       \/ Goto(r, AfterAcquireThrow(r), lock[r], FALSE)
    /\ Breach(LostByWrite(r))

(* Without STRICT the check is a plain read: the row is free now. *)
AcquireCheck(r) ==
    /\ ~Strict
    /\ pc[r] \in {"acquire", "acquireLane"}
    /\ ~row[Target(r)].running
    /\ pc' = [pc EXCEPT ![r] = IF @ = "acquire" THEN "upsert" ELSE "upsertLane"]
    /\ UNCHANGED <<row, lag, tries, lock, lane, faults, owner, breached>>

AcquireContended(r) ==
    /\ pc[r] \in {"acquire", "acquireLane"}
    /\ Contended(Target(r), r)
    /\ Goto(r, AfterContended(r), lock[r], FALSE)
    /\ Breach({})
    /\ UNCHANGED <<row, owner, faults>>

(* The transaction fails without an effect. *)
AcquireFails(r) ==
    /\ pc[r] \in AcquirePhases
    /\ Fault
    /\ \/ Retry(r, FirstStep(r))
       \/ Goto(r, AfterAcquireThrow(r), lock[r], FALSE)
    /\ Breach({})
    /\ UNCHANGED <<row, owner>>

-------------------------------------------------------------------------------
(* The work and releaseJobLock *)

(* options.run() returns.  A sync-on-read run releases in a finally that   *)
(* swallows the error: one call, like the last one of the others.          *)
RunReturns(r) ==
    /\ pc[r] = "running"
    /\ Goto(r, IF r \in ReadRuns THEN "releaseLast" ELSE "release", lock[r], lane[r])
    /\ Breach({})
    /\ UNCHANGED <<row, owner, faults>>

(* Mutant: the catch block releases the lane and not the job. *)
RunThrowsForgets(r) ==
    /\ pc[r] = "running"
    /\ Goto(r, IF lane[r] THEN "failLane" ELSE "idle", lock[r], lane[r])
    /\ Breach({})
    /\ UNCHANGED <<row, owner, faults>>

(* options.run() throws: the catch block, the lane first. *)
RunThrows(r) ==
    /\ pc[r] = "running"
    /\ Goto(r, IF lane[r] THEN "failLane" ELSE "releaseLast", lock[r], lane[r])
    /\ Breach({})
    /\ UNCHANGED <<row, owner, faults>>

(* releaseJobLock is an update by job name: it says nothing of who asks.   *)
ClearRow(l) ==
    /\ row' = [row EXCEPT ![l] = [running |-> FALSE, left |-> 0]]
    /\ owner' = [owner EXCEPT ![l] = NoRun]

AfterRelease(r) ==
    CASE pc[r] = "release" /\ lane[r] -> "releaseLane"
      [] pc[r] = "failLane" /\ lock[r] -> "releaseLast"
      [] OTHER -> "idle"

(* In the try block an exception leads to the catch block, which releases  *)
(* again what the flags still say is held; in the catch block it is logged.*)
AfterReleaseThrow(r) ==
    CASE pc[r] \in {"release", "releaseLane"} /\ lane[r] -> "failLane"
      [] pc[r] \in {"release", "releaseSkipped"} /\ ~lane[r] -> "releaseLast"
      [] pc[r] = "failLane" /\ lock[r] -> "releaseLast"
      [] OTHER -> "idle"

Release(r) ==
    /\ pc[r] \in ReleasePhases
    /\ ClearRow(Target(r))
    /\ Goto(r, AfterRelease(r),
            lock[r] /\ pc[r] \in LanePhases, lane[r] /\ pc[r] \notin LanePhases)
    /\ Breach({})
    /\ UNCHANGED faults

(* The flags survive an exception of the try block; after the one of the   *)
(* lane in the catch block laneAcquired is not read again.                 *)
ReleaseThrows(r) ==
    Goto(r, AfterReleaseThrow(r), lock[r], lane[r] /\ pc[r] # "failLane")

(* The update is committed and its answer is lost. *)
ReleaseUnacknowledged(r) ==
    /\ pc[r] \in ReleasePhases
    /\ Fault
    /\ ClearRow(Target(r))
    /\ \/ Retry(r, pc[r])
       \/ ReleaseThrows(r)
    /\ Breach({Target(r)})

(* The update fails, or withDbWrite rejects it (circuit open, queue full). *)
ReleaseFails(r) ==
    /\ pc[r] \in ReleasePhases
    /\ Fault
    /\ \/ Retry(r, pc[r])
       \/ ReleaseThrows(r)
    /\ Breach({})
    /\ UNCHANGED <<row, owner>>

-------------------------------------------------------------------------------
(* The environment *)

(* A process dies: its runs and their locals are gone, the rows stay. *)
Crash(i) ==
    /\ Fault
    /\ \E r \in Runs : InstanceOf[r] = i /\ pc[r] # "idle"
    /\ LET gone == {r \in Runs : InstanceOf[r] = i} IN
         /\ pc' = [r \in Runs |-> IF r \in gone THEN "idle" ELSE pc[r]]
         /\ tries' = [r \in Runs |-> IF r \in gone THEN 1 ELSE tries[r]]
         /\ lag' = [r \in Runs |-> IF r \in gone THEN 0 ELSE lag[r]]
         /\ lock' = [r \in Runs |-> r \notin gone /\ lock[r]]
         /\ lane' = [r \in Runs |-> r \notin gone /\ lane[r]]
    /\ Breach({})
    /\ UNCHANGED <<row, owner>>

(* Below this no `now` in flight can tell how long a lease has been over. *)
LeftFloor == -(MaxLag + 1)

Sooner(rw) ==
    IF rw.running /\ rw.left > LeftFloor THEN [rw EXCEPT !.left = @ - 1] ELSE rw

Tick ==
    /\ \A r \in Runs : pc[r] \in AcquirePhases => lag[r] < MaxLag
    /\ row' = [l \in Locks |-> Sooner(row[l])]
    /\ lag' = [r \in Runs |-> IF pc[r] \in AcquirePhases THEN lag[r] + 1 ELSE lag[r]]
    /\ UNCHANGED <<pc, tries, lock, lane, faults, owner>>
    /\ Breach({l \in Locks : row[l].running /\ row[l].left <= 0})

Step(r) ==
    \/ Fire(r) \/ GatePass(r) \/ GateSkip(r)
    \/ Acquire(r) \/ AcquireUnacknowledged(r) \/ AcquireCheck(r)
    \/ AcquireContended(r) \/ AcquireFails(r)
    \/ RunReturns(r) \/ RunThrows(r)
    \/ Release(r) \/ ReleaseUnacknowledged(r) \/ ReleaseFails(r)

Next ==
    \/ \E r \in Runs : Step(r)
    \/ \E i \in Instances : Crash(i)
    \/ Tick

Spec == Init /\ [][Next]_vars

(***************************************************************************)
(* Fairness.  Every await of a run ends (requests and transactions have    *)
(* timeouts), node-cron fires every timer again and again, time passes,    *)
(* and a pressure cooldown is not renewed for ever.  Requests need not     *)
(* come.                                                                   *)
(***************************************************************************)
Continue(r) == pc[r] # "idle" /\ Step(r)

Fairness ==
    /\ WF_vars(Tick)
    /\ \A r \in Runs : WF_vars(Continue(r))
    /\ \A r \in CronRuns : WF_vars(Fire(r)) /\ SF_vars(GatePass(r))

FairSpec == Spec /\ Fairness

-------------------------------------------------------------------------------
(* Properties *)

(* Two runs never hold the same lock while nobody has lost a lease: what   *)
(* acquireJobLock's row lock, its expiry test and the pairing of acquire   *)
(* and release in every path of the callers are for.                       *)
Exclusion == \A l \in Locks : ~breached[l] => Cardinality(Holders(l)) <= 1

(* The heavy-job lane: two heavy cron jobs, of whatever job names, are at  *)
(* work at once only when the lane itself was lost.                        *)
HeavyRunsSerialized ==
    ~breached[Lane] =>
        \A r, q \in HeavyRuns : pc[r] = "running" /\ pc[q] = "running" => r = q

(* Without a crash or a failed write no path forgets its row: a row says   *)
(* running only while the run that wrote it is inside.                     *)
NoLeakWithoutFault ==
    faults = 0 =>
        \A l \in Locks : row[l].running => owner[l] \in Holders(l)

(* What the work of a run counts on: while nobody lost a lease, the row of *)
(* a run at work is cleared only by that run, when its work is over.       *)
ClearedOnlyAfterWork ==
    [][\A l \in Locks :
          ~breached[l] /\ row[l].running /\ owner[l] \in Working(l)
          /\ ~row'[l].running => owner[l] \notin Working(l)']_vars

(* A row left behind by a crash or by a lost answer does not block its job *)
(* for ever: the lease runs out and the cron takes the row over.           *)
LeakedRowRecovered ==
    \A l \in Locks :
        (row[l].running /\ Holders(l) = {})
            ~> (Holders(l) # {} \/ ~row[l].running)

(* The local flag isRunning is always reset, whatever fails: a timer does  *)
(* not go on skipping its job as "still running locally".                  *)
EveryRunEnds == \A r \in Runs : pc[r] # "idle" ~> pc[r] = "idle"

(* The lock as its users see it (module JobExclusion). *)
Abstract == INSTANCE JobExclusion
              WITH inside <- [l \in Locks |-> Holders(l)], unsafe <- breached
ImplementsJobExclusion == Abstract!Spec
===============================================================================
