---------------------------- MODULE SyncLockProofs ----------------------------
(***************************************************************************)
(* Theorems about SyncLock, for every set of runs, jobs and containers,    *)
(* every lease time, and both values of STRICT_SYNC_LOCK_ENABLED; and      *)
(* about the powers that jobs write under the locks (VotingPower and       *)
(* InactivePower), for all proposals, runs, DReps, actions and epochs.     *)
(***************************************************************************)
EXTENDS SyncLock, VotingPower, InactivePower, FiniteSetTheorems, TLAPS

(* Every step keeps the types of the rows, the locals and the ghosts. *)
LEMMA TypeStep == TypeOK /\ [Next]_vars => TypeOK'
<1> SUFFICES ASSUME TypeOK, [Next]_vars PROVE TypeOK'
  OBVIOUS
<1> USE DEF TypeOK
<1>1. ASSUME NEW r \in Runs, NEW phase \in Phases, NEW a \in BOOLEAN,
             NEW b \in BOOLEAN, Goto(r, phase, a, b)
      PROVE  /\ pc' \in [Runs -> Phases] /\ lag' \in [Runs -> Nat]
             /\ tries' \in [Runs -> Nat]
             /\ lock' \in [Runs -> BOOLEAN] /\ lane' \in [Runs -> BOOLEAN]
  BY <1>1 DEF Goto
<1>2. ASSUME NEW S, Breach(S) PROVE breached' \in [Locks -> BOOLEAN]
  BY <1>2 DEF Breach
<1>3. ASSUME NEW r \in Runs PROVE Target(r) \in Locks /\ LeaseLeft(r) \in Int
  BY RunsAssumption, TimeAssumption DEF Target, Locks, LeaseLeft, TtlOf
<1>4. ASSUME NEW r \in Runs, WriteRow(Target(r), r)
      PROVE  /\ row' \in [Locks -> [running : BOOLEAN, left : Int]]
             /\ owner' \in [Locks -> Runs \union {NoRun}]
  BY <1>3, <1>4 DEF WriteRow
<1>5. ASSUME NEW l \in Locks, ClearRow(l)
      PROVE  /\ row' \in [Locks -> [running : BOOLEAN, left : Int]]
             /\ owner' \in [Locks -> Runs \union {NoRun}]
  BY <1>5 DEF ClearRow
<1>6. ASSUME NEW r \in Runs, NEW phase \in Phases, Retry(r, phase)
      PROVE  /\ pc' \in [Runs -> Phases] /\ lag' \in [Runs -> Nat]
             /\ tries' \in [Runs -> Nat]
             /\ lock' \in [Runs -> BOOLEAN] /\ lane' \in [Runs -> BOOLEAN]
  BY <1>6 DEF Retry
<1>7. ASSUME Fault PROVE faults' \in Nat
  BY <1>7 DEF Fault
<1>8. ASSUME NEW r \in Runs
      PROVE  /\ FirstStep(r) \in Phases /\ AfterAcquireThrow(r) \in Phases
             /\ AfterAcquire(r) \in Phases /\ AfterContended(r) \in Phases
             /\ AfterRelease(r) \in Phases /\ AfterReleaseThrow(r) \in Phases
             /\ pc[r] \in Phases
  BY DEF FirstStep, AfterAcquireThrow, AfterAcquire, AfterContended,
         AfterRelease, AfterReleaseThrow, Phases, AcquirePhases, ReleasePhases
<1>9. {"idle", "gate", "acquire", "running", "release", "releaseLast", "failLane"}
        \subseteq Phases
  BY DEF Phases, AcquirePhases, ReleasePhases
<1>10. ASSUME NEW r \in Runs, Step(r) PROVE TypeOK'
  <2>1. CASE Fire(r)
    BY <2>1, <1>1, <1>2, <1>9 DEF Fire
  <2>2. CASE GatePass(r)
    BY <2>2, <1>1, <1>2, <1>9 DEF GatePass
  <2>3. CASE GateSkip(r)
    BY <2>3, <1>1, <1>2, <1>9 DEF GateSkip
  <2>4. CASE Acquire(r)
    <3>1. /\ pc' \in [Runs -> Phases] /\ lag' \in [Runs -> Nat]
          /\ tries' \in [Runs -> Nat]
          /\ lock' \in [Runs -> BOOLEAN] /\ lane' \in [Runs -> BOOLEAN]
      BY <2>4, <1>8 DEF Acquire, Goto
    <3> QED
      BY <2>4, <3>1, <1>2, <1>4 DEF Acquire
  <2>5. CASE AcquireUnacknowledged(r)
    BY <2>5, <1>1, <1>2, <1>4, <1>6, <1>7, <1>8 DEF AcquireUnacknowledged
  <2>6. CASE AcquireCheck(r)
    BY <2>6 DEF AcquireCheck, Phases, AcquirePhases
  <2>7. CASE AcquireContended(r)
    BY <2>7, <1>1, <1>2, <1>8 DEF AcquireContended
  <2>8. CASE AcquireFails(r)
    BY <2>8, <1>1, <1>2, <1>6, <1>7, <1>8 DEF AcquireFails
  <2>9. CASE RunReturns(r)
    BY <2>9, <1>1, <1>2, <1>9 DEF RunReturns
  <2>10. CASE RunThrows(r)
    BY <2>10, <1>1, <1>2, <1>9 DEF RunThrows
  <2>11. CASE Release(r)
    BY <2>11, <1>1, <1>2, <1>3, <1>5, <1>8 DEF Release
  <2>12. CASE ReleaseUnacknowledged(r)
    BY <2>12, <1>1, <1>2, <1>3, <1>5, <1>6, <1>7, <1>8
    DEF ReleaseUnacknowledged, ReleaseThrows
  <2>13. CASE ReleaseFails(r)
    BY <2>13, <1>1, <1>2, <1>6, <1>7, <1>8 DEF ReleaseFails, ReleaseThrows
  <2> QED
    BY <1>10, <2>1, <2>2, <2>3, <2>4, <2>5, <2>6, <2>7, <2>8, <2>9, <2>10,
       <2>11, <2>12, <2>13 DEF Step
<1>11. ASSUME NEW i \in Instances, Crash(i) PROVE TypeOK'
  BY <1>11, <1>2, <1>7, <1>9 DEF Crash
<1>12. CASE Tick
  <2>1. \A l \in Locks : Sooner(row[l]) \in [running : BOOLEAN, left : Int]
    BY DEF Sooner
  <2> QED
    BY <1>12, <1>2, <2>1 DEF Tick
<1>13. CASE UNCHANGED vars
  BY <1>13 DEF vars
<1> QED
  BY <1>10, <1>11, <1>12, <1>13 DEF Next

(* The rows and ghosts keep their types, for every number of runs. *)
THEOREM TypeCorrect == Spec => []TypeOK
<1>1. Init => TypeOK
  BY DEF Init, TypeOK, Phases
<1> QED
  BY <1>1, TypeStep, PTL DEF Spec

-------------------------------------------------------------------------------
(* The inductive invariant *)

(* The local flags lockAcquired and laneAcquired of a run in each phase. *)
FlagsOf(r) ==
    /\ pc[r] \in {"idle", "gate", "acquire", "upsert"} => ~lock[r] /\ ~lane[r]
    /\ pc[r] \in {"acquireLane", "upsertLane", "releaseSkipped", "releaseLast"}
         => lock[r] /\ ~lane[r]
    /\ pc[r] \in {"acquireLane", "upsertLane"} => r \in HeavyRuns
    /\ pc[r] \in {"running", "release"}
         => lock[r] /\ (lane[r] <=> r \in HeavyRuns)
    /\ pc[r] = "releaseLane" => lane[r] /\ ~lock[r]
    /\ pc[r] = "failLane" => lane[r]

Flags == \A r \in Runs : FlagsOf(r)

(* While no lease of a lock was lost, its row is the row of whoever holds *)
(* it, with time left.                                                    *)
LeaseHeld ==
    \A l \in Locks : ~breached[l] =>
        \A r \in Holders(l) : row[l].running /\ row[l].left >= 0 /\ owner[l] = r

(* A lease is lost under somebody. *)
BreachOccupied == \A l \in Locks : breached[l] => Holders(l) # {}

IInv == TypeOK /\ Flags /\ LeaseHeld /\ BreachOccupied

(* What a retry of withDbWrite leaves alone. *)
LEMMA RetryEffect ==
    ASSUME TypeOK, NEW r \in Runs, NEW phase, Retry(r, phase)
    PROVE  /\ pc'[r] = phase
           /\ lock' = lock /\ lane' = lane
           /\ \A q \in Runs : q # r => pc'[q] = pc[q]
BY DEF Retry, TypeOK

(* The flags follow the phases: every path through the try and catch       *)
(* blocks of the callers keeps the two in step.                            *)
LEMMA FlagsStep == TypeOK /\ Flags /\ [Next]_vars => Flags'
<1> SUFFICES ASSUME TypeOK, Flags, [Next]_vars PROVE Flags'
  OBVIOUS
<1>1. ASSUME NEW r \in Runs, Step(r) PROVE Flags'
  <2>1. FlagsOf(r)
    BY DEF Flags
  <2>2. ASSUME FlagsOf(r)', \A q \in Runs : q # r =>
                 pc'[q] = pc[q] /\ lock'[q] = lock[q] /\ lane'[q] = lane[q]
        PROVE  Flags'
    BY <2>2 DEF Flags, FlagsOf
  <2>3. ASSUME NEW phase, Retry(r, phase), FlagsOf(r)' PROVE Flags'
    BY <2>2, <2>3, RetryEffect
  <2>4. CASE Fire(r)
    <3>1. Goto(r, IF r \in CronRuns THEN "gate" ELSE "acquire", FALSE, FALSE)
      BY <2>4 DEF Fire
    <3> QED
      BY <3>1, <2>2 DEF FlagsOf, Goto, TypeOK
  <2>5. CASE GatePass(r)
    <3>1. Goto(r, "acquire", FALSE, FALSE)
      BY <2>5 DEF GatePass
    <3> QED
      BY <3>1, <2>2 DEF FlagsOf, Goto, TypeOK
  <2>6. CASE GateSkip(r)
    <3>1. Goto(r, "idle", FALSE, FALSE)
      BY <2>6 DEF GateSkip
    <3> QED
      BY <3>1, <2>2 DEF FlagsOf, Goto, TypeOK
  <2>7. CASE Acquire(r)
    <3>1. Goto(r, AfterAcquire(r), TRUE, pc[r] \in LanePhases)
      BY <2>7 DEF Acquire
    <3>2. pc[r] \in AcquirePhases
      BY <2>7 DEF Acquire, MayWrite, AcquirePhases
    <3> QED
      BY <3>1, <3>2, <2>1, <2>2, RunsAssumption
      DEF FlagsOf, Goto, TypeOK, AfterAcquire, LanePhases, AcquirePhases
  <2>8. CASE AcquireUnacknowledged(r) \/ AcquireFails(r)
    <3>1. pc[r] \in AcquirePhases
      BY <2>8 DEF AcquireUnacknowledged, AcquireFails, MayWrite, AcquirePhases
    <3>2. CASE Retry(r, FirstStep(r))
      BY <3>1, <3>2, <2>1, <2>3, RetryEffect DEF FlagsOf, Goto, TypeOK, FirstStep, AcquirePhases
    <3>3. CASE Goto(r, AfterAcquireThrow(r), lock[r], FALSE)
      BY <3>1, <3>3, <2>1, <2>2
      DEF FlagsOf, Goto, TypeOK, AfterAcquireThrow, AcquirePhases, LanePhases
    <3> QED
      BY <2>8, <3>2, <3>3 DEF AcquireUnacknowledged, AcquireFails
  <2>9. CASE AcquireCheck(r)
    <3>1. /\ pc'[r] = IF pc[r] = "acquire" THEN "upsert" ELSE "upsertLane"
          /\ \A q \in Runs : q # r => pc'[q] = pc[q]
          /\ lock' = lock /\ lane' = lane
          /\ pc[r] \in {"acquire", "acquireLane"}
      BY <2>9 DEF AcquireCheck, TypeOK
    <3> QED
      BY <3>1, <2>1, <2>2 DEF FlagsOf, Goto, TypeOK
  <2>10. CASE AcquireContended(r)
    <3>1. Goto(r, AfterContended(r), lock[r], FALSE)
          /\ pc[r] \in {"acquire", "acquireLane"}
      BY <2>10 DEF AcquireContended
    <3> QED
      BY <3>1, <2>1, <2>2 DEF FlagsOf, Goto, TypeOK, AfterContended, LanePhases
  <2>11. CASE RunReturns(r)
    <3>1. Goto(r, IF r \in ReadRuns THEN "releaseLast" ELSE "release",
               lock[r], lane[r]) /\ pc[r] = "running"
      BY <2>11 DEF RunReturns
    <3> QED
      BY <3>1, <2>1, <2>2, RunsAssumption DEF FlagsOf, Goto, TypeOK
  <2>12. CASE RunThrows(r)
    <3>1. Goto(r, IF lane[r] THEN "failLane" ELSE "releaseLast", lock[r], lane[r])
          /\ pc[r] = "running"
      BY <2>12 DEF RunThrows
    <3> QED
      BY <3>1, <2>1, <2>2 DEF FlagsOf, Goto, TypeOK
  <2>13. CASE Release(r)
    <3>1. Goto(r, AfterRelease(r), lock[r] /\ pc[r] \in LanePhases,
               lane[r] /\ pc[r] \notin LanePhases) /\ pc[r] \in ReleasePhases
      BY <2>13 DEF Release
    <3> QED
      BY <3>1, <2>1, <2>2
      DEF FlagsOf, Goto, TypeOK, AfterRelease, LanePhases, ReleasePhases
  <2>14. CASE ReleaseUnacknowledged(r) \/ ReleaseFails(r)
    <3>1. pc[r] \in ReleasePhases
      BY <2>14 DEF ReleaseUnacknowledged, ReleaseFails
    <3>2. CASE Retry(r, pc[r])
      BY <3>2, <2>1, <2>3, RetryEffect DEF FlagsOf, Goto, TypeOK
    <3>3. CASE ReleaseThrows(r)
      BY <3>1, <3>3, <2>1, <2>2
      DEF FlagsOf, Goto, TypeOK, ReleaseThrows, AfterReleaseThrow, ReleasePhases
    <3> QED
      BY <2>14, <3>2, <3>3 DEF ReleaseUnacknowledged, ReleaseFails
  <2> QED
    BY <1>1, <2>4, <2>5, <2>6, <2>7, <2>8, <2>9, <2>10, <2>11, <2>12, <2>13,
       <2>14 DEF Step
<1>2. ASSUME NEW i \in Instances, Crash(i) PROVE Flags'
  BY <1>2 DEF Crash, Flags, FlagsOf, TypeOK
<1>3. CASE Tick
  BY <1>3 DEF Tick, Flags, FlagsOf
<1>4. CASE UNCHANGED vars
  BY <1>4 DEF vars, Flags, FlagsOf
<1> QED
  BY <1>1, <1>2, <1>3, <1>4 DEF Next

-------------------------------------------------------------------------------
(* Who holds which lock after a step *)

(* A run in a release phase holds the lock it is about to release, one in  *)
(* an acquire phase does not hold the lock it asks for.                    *)
LEMMA TargetHeld ==
    ASSUME TypeOK, Flags, NEW r \in Runs
    PROVE  /\ Target(r) \in Locks
           /\ pc[r] \in ReleasePhases => r \in Holders(Target(r))
           /\ pc[r] \in AcquirePhases => r \notin Holders(Target(r))
BY RunsAssumption
DEF TypeOK, Flags, FlagsOf, Target, Holders, Locks, LanePhases, ReleasePhases,
    AcquirePhases

(* Steps that change no flag of any run. *)
LEMMA HoldersKept ==
    ASSUME TypeOK, Flags, NEW r \in Runs,
           \/ Fire(r) \/ GatePass(r) \/ GateSkip(r)
           \/ AcquireUnacknowledged(r) \/ AcquireCheck(r)
           \/ AcquireContended(r) \/ AcquireFails(r)
           \/ RunReturns(r) \/ RunThrows(r)
    PROVE  \A l \in Locks : Holders(l)' = Holders(l)
<1>1. FlagsOf(r)
  BY DEF Flags
<1>2. \A q \in Runs : q # r => lock'[q] = lock[q] /\ lane'[q] = lane[q]
  BY DEF Fire, GatePass, GateSkip, AcquireUnacknowledged, AcquireCheck,
         AcquireContended, AcquireFails, RunReturns, RunThrows, Goto, Retry, TypeOK
<1>3. (lock'[r] <=> lock[r]) /\ (lane'[r] <=> lane[r])
  <2>1. CASE Fire(r) \/ GatePass(r) \/ GateSkip(r)
    BY <1>1, <2>1 DEF Fire, GatePass, GateSkip, Goto, TypeOK, FlagsOf
  <2>2. CASE AcquireUnacknowledged(r) \/ AcquireFails(r)
    <3>1. pc[r] \in AcquirePhases
      BY <2>2 DEF AcquireUnacknowledged, AcquireFails, MayWrite, AcquirePhases
    <3>2. CASE Retry(r, FirstStep(r))
      BY <3>2 DEF Retry
    <3>3. CASE Goto(r, AfterAcquireThrow(r), lock[r], FALSE)
      BY <1>1, <3>1, <3>3
      DEF Goto, TypeOK, FlagsOf, AfterAcquireThrow, AcquirePhases, LanePhases
    <3> QED
      BY <2>2, <3>2, <3>3 DEF AcquireUnacknowledged, AcquireFails
  <2>3. CASE AcquireCheck(r)
    BY <2>3 DEF AcquireCheck
  <2>4. CASE AcquireContended(r)
    BY <1>1, <2>4 DEF AcquireContended, Goto, TypeOK, FlagsOf, AfterContended,
                      LanePhases
  <2>5. CASE RunReturns(r)
    BY <1>1, <2>5 DEF RunReturns, Goto, TypeOK, FlagsOf
  <2>6. CASE RunThrows(r)
    BY <1>1, <2>6 DEF RunThrows, Goto, TypeOK, FlagsOf
  <2> QED
    BY <2>1, <2>2, <2>3, <2>4, <2>5, <2>6
<1> QED
  BY <1>2, <1>3 DEF Holders

(* An acquisition adds the run to the lock it asked for, and to no other. *)
LEMMA HoldersGrow ==
    ASSUME TypeOK, Flags, NEW r \in Runs, Acquire(r)
    PROVE  \A l \in Locks :
             Holders(l)' = IF l = Target(r) THEN Holders(l) \union {r} ELSE Holders(l)
<1>1. FlagsOf(r)
  BY DEF Flags
<1>2. \A q \in Runs : q # r => lock'[q] = lock[q] /\ lane'[q] = lane[q]
  BY DEF Acquire, Goto, TypeOK
<1>3. pc[r] \in AcquirePhases
  BY DEF Acquire, MayWrite, AcquirePhases
<1>4. lock'[r] /\ (lane'[r] <=> pc[r] \in LanePhases)
  BY DEF Acquire, Goto, TypeOK, AfterAcquire
<1>5. (lock[r] <=> pc[r] \in LanePhases) /\ ~lane[r]
  BY <1>1, <1>3 DEF FlagsOf, AcquirePhases, LanePhases
<1>6. JobOf[r] # Lane
  BY RunsAssumption
<1> QED
  BY <1>2, <1>4, <1>5, <1>6 DEF Holders, Target, Locks

(* A release takes at most the run itself out of a lock, and when it       *)
(* succeeds it is the lock released, and no other.                         *)
LEMMA HoldersShrink ==
    ASSUME TypeOK, Flags, NEW r \in Runs,
           Release(r) \/ ReleaseUnacknowledged(r) \/ ReleaseFails(r)
    PROVE  /\ \A l \in Locks :
                Holders(l)' = Holders(l) \/ Holders(l)' = Holders(l) \ {r}
           /\ Release(r) =>
                \A l \in Locks :
                  Holders(l)' = IF l = Target(r) THEN Holders(l) \ {r} ELSE Holders(l)
           /\ (\E l \in Locks : Holders(l)' # Holders(l))
                => \A l \in Locks : l = Target(r) => r \notin Holders(l)'
<1>1. FlagsOf(r) /\ JobOf[r] # Lane
  BY RunsAssumption DEF Flags
<1>2. \A q \in Runs : q # r => lock'[q] = lock[q] /\ lane'[q] = lane[q]
  BY DEF Release, ReleaseUnacknowledged, ReleaseFails, ReleaseThrows, Goto, Retry,
         TypeOK
<1>3. (lock'[r] => lock[r]) /\ (lane'[r] => lane[r])
  BY DEF Release, ReleaseUnacknowledged, ReleaseFails, ReleaseThrows, Goto, Retry,
         TypeOK
<1>4. ASSUME Release(r)
      PROVE  /\ lock'[r] <=> (lock[r] /\ pc[r] \in LanePhases)
             /\ lane'[r] <=> (lane[r] /\ pc[r] \notin LanePhases)
  BY <1>1, <1>4 DEF Release, Goto, TypeOK, FlagsOf, AfterRelease, LanePhases,
                    ReleasePhases
<1>5. \/ lock'[r] = lock[r] /\ lane'[r] = lane[r]
      \/ ~lock'[r] /\ ~lane'[r]
      \/ ~lane'[r] /\ Target(r) = Lane
      \/ Release(r)
  <2>1. CASE Retry(r, pc[r])
    BY <2>1 DEF Retry
  <2>2. CASE ReleaseThrows(r)
    BY <1>1, <2>2
    DEF ReleaseThrows, Goto, TypeOK, FlagsOf, AfterReleaseThrow, Target, LanePhases
  <2> QED
    BY <2>1, <2>2 DEF ReleaseUnacknowledged, ReleaseFails
<1>6. /\ \A l \in Locks :
           Holders(l)' = Holders(l) \/ Holders(l)' = Holders(l) \ {r}
      /\ Release(r) =>
           \A l \in Locks :
             Holders(l)' = IF l = Target(r) THEN Holders(l) \ {r} ELSE Holders(l)
  BY <1>1, <1>2, <1>3, <1>4 DEF Holders, Target, Locks
<1>7. ASSUME NEW k \in Locks, k = Target(r), r \in Holders(k)', NEW l \in Locks
      PROVE  Holders(l)' = Holders(l)
  <2>1. ~Release(r)
    BY <1>6, <1>7
  <2>2. lock'[r] = lock[r] /\ lane'[r] = lane[r]
    BY <1>1, <1>5, <1>7, <2>1 DEF Holders
  <2> QED
    BY <1>2, <2>2 DEF Holders
<1> QED
  BY <1>6, <1>7

-------------------------------------------------------------------------------
(* A lease is held until it is breached *)

(* No run can take a row whose lease somebody holds: the acquisitions that *)
(* would are refused, or counted as breaches.                              *)
LEMMA NoTakeover ==
    ASSUME TypeOK, LeaseHeld, NEW r \in Runs, MayWrite(r), Target(r) \in Locks,
           ~breached[Target(r)], Target(r) \notin LostByWrite(r)
    PROVE  Holders(Target(r)) = {}
<1> SUFFICES ASSUME NEW q \in Holders(Target(r)) PROVE FALSE
  OBVIOUS
<1>1. row[Target(r)].running /\ row[Target(r)].left >= 0
  BY DEF LeaseHeld
<1>2. ~Expired(Target(r), r)
  BY <1>1 DEF Expired, TypeOK
<1> QED
  BY <1>1, <1>2 DEF MayWrite, Contended, LostByWrite

(* Every step keeps the row of a lock in agreement with its holder. *)
LEMMA LeaseStep == IInv /\ [Next]_vars => LeaseHeld'
<1> SUFFICES ASSUME IInv, [Next]_vars, NEW l \in Locks, ~breached'[l],
                    NEW q \in Holders(l)'
             PROVE  row'[l].running /\ row'[l].left >= 0 /\ owner'[l] = q
  BY DEF LeaseHeld, Holders
<1>1. TypeOK /\ Flags /\ LeaseHeld
  BY DEF IInv
<1>2. ASSUME NEW S, Breach(S) PROVE ~breached[l] /\ l \notin S
  BY <1>2 DEF Breach
<1>3. ASSUME q \in Holders(l), ~breached[l]
      PROVE  row[l].running /\ row[l].left >= 0 /\ owner[l] = q
  BY <1>1, <1>3 DEF LeaseHeld
<1>4. ASSUME NEW r \in Runs, Step(r) PROVE
             row'[l].running /\ row'[l].left >= 0 /\ owner'[l] = q
  <2>1. /\ Target(r) \in Locks
        /\ pc[r] \in ReleasePhases => r \in Holders(Target(r))
        /\ pc[r] \in AcquirePhases => r \notin Holders(Target(r))
    BY <1>1, TargetHeld
  <2>2. CASE \/ Fire(r) \/ GatePass(r) \/ GateSkip(r) \/ AcquireCheck(r)
             \/ AcquireContended(r) \/ AcquireFails(r)
             \/ RunReturns(r) \/ RunThrows(r)
    <3>1. row' = row /\ owner' = owner
      BY <2>2 DEF Fire, GatePass, GateSkip, AcquireCheck, AcquireContended,
                  AcquireFails, RunReturns, RunThrows
    <3>2. ~breached[l]
      BY <2>2, <1>2 DEF Fire, GatePass, GateSkip, AcquireCheck, AcquireContended,
                        AcquireFails, RunReturns, RunThrows
    <3>3. q \in Holders(l)
      BY <2>2, <1>1, HoldersKept
    <3> QED
      BY <3>1, <3>2, <3>3, <1>3
  <2>3. CASE Acquire(r)
    <3>1. ~breached[l] /\ l \notin LostByWrite(r)
      BY <2>3, <1>2 DEF Acquire
    <3>2. CASE l = Target(r)
      <4>1. Holders(l) = {}
        BY <2>1, <2>3, <3>1, <3>2, <1>1, NoTakeover DEF Acquire
      <4>2. q = r
        BY <4>1, <2>3, <3>2, <1>1, HoldersGrow
      <4>3. row'[l] = [running |-> TRUE, left |-> LeaseLeft(r)] /\ owner'[l] = r
        BY <2>3, <3>2, <1>1 DEF Acquire, WriteRow, TypeOK
      <4>4. LeaseLeft(r) >= 0
        BY <3>1, <3>2, <1>1, TimeAssumption
        DEF LostByWrite, LeaseLeft, TtlOf, TypeOK
      <4> QED
        BY <4>2, <4>3, <4>4
    <3>3. CASE l # Target(r)
      <4>1. row'[l] = row[l] /\ owner'[l] = owner[l]
        BY <2>3, <3>3, <1>1 DEF Acquire, WriteRow, TypeOK
      <4>2. q \in Holders(l)
        BY <2>3, <3>3, <1>1, HoldersGrow
      <4> QED
        BY <4>1, <4>2, <3>1, <1>3
    <3> QED
      BY <3>2, <3>3
  <2>4. CASE AcquireUnacknowledged(r)
    <3>1. ~breached[l] /\ l \notin LostByWrite(r)
      BY <2>4, <1>2 DEF AcquireUnacknowledged
    <3>2. q \in Holders(l)
      BY <2>4, <1>1, HoldersKept
    <3>3. l # Target(r)
      BY <2>1, <2>4, <3>1, <3>2, <1>1, NoTakeover DEF AcquireUnacknowledged
    <3>4. row'[l] = row[l] /\ owner'[l] = owner[l]
      BY <2>4, <3>3, <1>1 DEF AcquireUnacknowledged, WriteRow, TypeOK
    <3> QED
      BY <3>1, <3>2, <3>4, <1>3
  <2>5. CASE Release(r)
    <3>1. ~breached[l]
      BY <2>5, <1>2 DEF Release
    <3>2. q \in Holders(l) /\ (l = Target(r) => q # r)
      BY <2>5, <1>1, HoldersShrink
    <3>3. l # Target(r)
      <4>1. l = Target(r) => owner[l] = r /\ owner[l] = q
        BY <2>1, <2>5, <3>1, <3>2, <1>1 DEF Release, LeaseHeld
      <4> QED
        BY <4>1, <3>2
    <3>4. row'[l] = row[l] /\ owner'[l] = owner[l]
      BY <2>5, <3>3, <1>1 DEF Release, ClearRow, TypeOK
    <3> QED
      BY <3>1, <3>2, <3>4, <1>3
  <2>6. CASE ReleaseUnacknowledged(r)
    <3>1. ~breached[l] /\ l # Target(r)
      BY <2>6, <1>2 DEF ReleaseUnacknowledged
    <3>2. q \in Holders(l)
      BY <2>6, <1>1, HoldersShrink
    <3>3. row'[l] = row[l] /\ owner'[l] = owner[l]
      BY <2>6, <3>1, <1>1 DEF ReleaseUnacknowledged, ClearRow, TypeOK
    <3> QED
      BY <3>1, <3>2, <3>3, <1>3
  <2>7. CASE ReleaseFails(r)
    <3>1. ~breached[l] /\ row' = row /\ owner' = owner
      BY <2>7, <1>2 DEF ReleaseFails
    <3>2. q \in Holders(l)
      BY <2>7, <1>1, HoldersShrink
    <3> QED
      BY <3>1, <3>2, <1>3
  <2> QED
    BY <1>4, <2>2, <2>3, <2>4, <2>5, <2>6, <2>7 DEF Step
<1>5. ASSUME NEW i \in Instances, Crash(i) PROVE
             row'[l].running /\ row'[l].left >= 0 /\ owner'[l] = q
  <2>1. ~breached[l] /\ row' = row /\ owner' = owner
    BY <1>5, <1>2 DEF Crash
  <2>2. q \in Holders(l)
    BY <1>5 DEF Crash, Holders
  <2> QED
    BY <2>1, <2>2, <1>3
<1>6. CASE Tick
  <2>1. /\ ~breached[l] /\ ~(row[l].running /\ row[l].left <= 0)
        /\ owner' = owner /\ row'[l] = Sooner(row[l])
    BY <1>6, <1>2 DEF Tick
  <2>2. q \in Holders(l)
    BY <1>6 DEF Tick, Holders
  <2> QED
    BY <2>1, <2>2, <1>1, <1>3 DEF Sooner, TypeOK
<1>7. CASE UNCHANGED vars
  BY <1>7, <1>3 DEF vars, Holders
<1> QED
  BY <1>4, <1>5, <1>6, <1>7 DEF Next

(* A breach is forgotten with the last run inside: every step says so. *)
LEMMA BreachStep == IInv /\ [Next]_vars => BreachOccupied'
<1> SUFFICES ASSUME IInv, [Next]_vars PROVE BreachOccupied'
  OBVIOUS
<1>1. ASSUME NEW S, Breach(S) PROVE BreachOccupied'
  BY <1>1 DEF Breach, BreachOccupied, Holders
<1>2. ASSUME NEW r \in Runs, AcquireCheck(r) PROVE BreachOccupied'
  BY <1>2 DEF AcquireCheck, IInv, BreachOccupied, Holders
<1>3. CASE UNCHANGED vars
  BY <1>3 DEF vars, IInv, BreachOccupied, Holders
<1> QED
  BY <1>1, <1>2, <1>3
  DEF Next, Step, Fire, GatePass, GateSkip, Acquire, AcquireUnacknowledged,
      AcquireContended, AcquireFails, RunReturns, RunThrows, Release,
      ReleaseUnacknowledged, ReleaseFails, Crash, Tick

(* The inductive invariant holds throughout. *)
LEMMA Inductive == Spec => []IInv
<1>1. Init => IInv
  BY DEF Init, IInv, TypeOK, Phases, Flags, FlagsOf, LeaseHeld, BreachOccupied,
         Holders
<1>2. IInv /\ [Next]_vars => IInv'
  BY TypeStep, FlagsStep, LeaseStep, BreachStep DEF IInv
<1> QED
  BY <1>1, <1>2, PTL DEF Spec

-------------------------------------------------------------------------------
(* The theorems *)

(* acquireJobLock excludes: two runs hold one lock only when a lease of it *)
(* was lost, whatever crashes, fails, is retried or comes late.            *)
THEOREM ExclusionHolds == Spec => []Exclusion
<1>1. IInv => Exclusion
  <2> SUFFICES ASSUME IInv, NEW l \in Locks, ~breached[l]
               PROVE  Cardinality(Holders(l)) <= 1
    BY DEF Exclusion
  <2>1. Holders(l) \subseteq {owner[l]}
    BY DEF IInv, LeaseHeld
  <2>2. IsFiniteSet({owner[l]}) /\ Cardinality({owner[l]}) = 1
    BY FS_Singleton
  <2>3. Cardinality(Holders(l)) <= Cardinality({owner[l]})
    BY <2>1, <2>2, FS_Subset
  <2> QED
    BY <2>2, <2>3
<1> QED
  BY <1>1, Inductive, PTL

(* The Koios heavy-job lane serialises the heavy cron jobs: two of them    *)
(* are at work together only when the lease of the lane was lost.          *)
THEOREM HeavyRunsSerializedHolds == Spec => []HeavyRunsSerialized
<1>1. IInv => HeavyRunsSerialized
  <2> SUFFICES ASSUME IInv, ~breached[Lane], NEW r \in HeavyRuns, NEW q \in HeavyRuns,
                      pc[r] = "running", pc[q] = "running"
               PROVE  r = q
    BY DEF HeavyRunsSerialized
  <2>1. r \in Holders(Lane) /\ q \in Holders(Lane)
    BY RunsAssumption DEF IInv, Flags, FlagsOf, Holders
  <2> QED
    BY <2>1 DEF IInv, LeaseHeld, Locks
<1> QED
  BY <1>1, Inductive, PTL

(* While no lease of a lock was lost, the row of a run at work is cleared  *)
(* by no other run: every releaseJobLock is paired with an acquisition.    *)
THEOREM ClearedOnlyAfterWorkHolds == Spec => ClearedOnlyAfterWork
<1> DEFINE Cleared == \A l \in Locks :
              ~breached[l] /\ row[l].running /\ owner[l] \in Working(l)
              /\ ~row'[l].running => owner[l] \notin Working(l)'
<1>1. IInv /\ [Next]_vars => [Cleared]_vars
  <2> SUFFICES ASSUME IInv, [Next]_vars, NEW l \in Locks, ~breached[l],
                      row[l].running, owner[l] \in Working(l), ~row'[l].running
               PROVE  FALSE
    OBVIOUS
  <2>1. TypeOK /\ Flags /\ LeaseHeld
    BY DEF IInv
  <2>2. ASSUME NEW r \in Runs, Step(r) PROVE FALSE
    <3>1. \/ row' = row
          \/ row' = [row EXCEPT ![Target(r)] =
                        [running |-> TRUE, left |-> LeaseLeft(r)]]
          \/ /\ row' = [row EXCEPT ![Target(r)] = [running |-> FALSE, left |-> 0]]
             /\ pc[r] \in ReleasePhases
      BY <2>2 DEF Step, Fire, GatePass, GateSkip, Acquire, AcquireUnacknowledged,
                  AcquireCheck, AcquireContended, AcquireFails, RunReturns, RunThrows,
                  Release, ReleaseUnacknowledged, ReleaseFails, WriteRow, ClearRow
    <3>2. l = Target(r) /\ pc[r] \in ReleasePhases
      BY <3>1, <2>1 DEF TypeOK
    <3>3. owner[l] = r
      BY <3>2, <2>1, TargetHeld DEF LeaseHeld
    <3> QED
      BY <3>2, <3>3 DEF Working, ReleasePhases
  <2>3. ASSUME NEW i \in Instances, Crash(i) PROVE FALSE
    BY <2>3 DEF Crash
  <2>4. CASE Tick
    BY <2>4, <2>1 DEF Tick, Sooner, TypeOK
  <2>5. CASE UNCHANGED vars
    BY <2>5 DEF vars
  <2> QED
    BY <2>2, <2>3, <2>4, <2>5 DEF Next
<1> QED
  BY <1>1, Inductive, PTL DEF Spec, ClearedOnlyAfterWork

(* A row that says running while its owner is gone is the trace of a crash *)
(* or of a failed write: no path of the callers forgets to release.        *)
THEOREM NoLeakWithoutFaultHolds == Spec => []NoLeakWithoutFault
<1>1. IInv /\ NoLeakWithoutFault /\ [Next]_vars => NoLeakWithoutFault'
  <2> SUFFICES ASSUME IInv, NoLeakWithoutFault, [Next]_vars, faults' = 0,
                      NEW l \in Locks, row'[l].running
               PROVE  owner'[l] \in Holders(l)'
    BY DEF NoLeakWithoutFault
  <2>1. TypeOK /\ Flags
    BY DEF IInv
  <2>2. ASSUME faults' = faults, row[l].running PROVE owner[l] \in Holders(l)
    BY <2>2 DEF NoLeakWithoutFault
  <2>3. ~Fault
    BY <2>1 DEF Fault, TypeOK
  <2>4. ASSUME NEW r \in Runs, Step(r) PROVE owner'[l] \in Holders(l)'
    <3>1. CASE \/ Fire(r) \/ GatePass(r) \/ GateSkip(r) \/ AcquireCheck(r)
               \/ AcquireContended(r) \/ RunReturns(r) \/ RunThrows(r)
      <4>1. row' = row /\ owner' = owner /\ faults' = faults
        BY <3>1 DEF Fire, GatePass, GateSkip, AcquireCheck, AcquireContended,
                    RunReturns, RunThrows
      <4>2. Holders(l)' = Holders(l)
        BY <3>1, <2>1, HoldersKept
      <4> QED
        BY <4>1, <4>2, <2>2
    <3>2. CASE Acquire(r)
      <4>1. CASE l = Target(r)
        BY <4>1, <3>2, <2>1, HoldersGrow DEF Acquire, WriteRow, TypeOK
      <4>2. CASE l # Target(r)
        <5>1. row'[l] = row[l] /\ owner'[l] = owner[l] /\ faults' = faults
          BY <4>2, <3>2, <2>1 DEF Acquire, WriteRow, TypeOK
        <5> QED
          BY <5>1, <4>2, <3>2, <2>1, <2>2, HoldersGrow
      <4> QED
        BY <4>1, <4>2
    <3>3. CASE Release(r)
      <4>1. l # Target(r)
        BY <3>3, <2>1 DEF Release, ClearRow, TypeOK
      <4>2. row'[l] = row[l] /\ owner'[l] = owner[l] /\ faults' = faults
        BY <4>1, <3>3, <2>1 DEF Release, ClearRow, TypeOK
      <4> QED
        BY <4>1, <4>2, <3>3, <2>1, <2>2, HoldersShrink
    <3> QED
      BY <2>3, <2>4, <3>1, <3>2, <3>3
      DEF Step, AcquireUnacknowledged, AcquireFails, ReleaseUnacknowledged, ReleaseFails
  <2>5. CASE Tick
    BY <2>1, <2>2, <2>5 DEF Tick, Sooner, TypeOK, Holders
  <2>6. CASE UNCHANGED vars
    BY <2>2, <2>6 DEF vars, Holders
  <2> QED
    BY <2>3, <2>4, <2>5, <2>6 DEF Next, Crash
<1>2. Init => NoLeakWithoutFault
  BY DEF Init, NoLeakWithoutFault
<1> QED
  BY <1>1, <1>2, Inductive, PTL DEF Spec

-------------------------------------------------------------------------------
(* The refinement of JobExclusion *)

(* Some runs leave some locks, and no lease is newly lost. *)
LEMMA LeaveRefines ==
    ASSUME NEW gone \in SUBSET Runs,
           \A l \in Locks : Holders(l)' = Holders(l) \/ Holders(l)' = Holders(l) \ gone,
           \A l \in Locks : breached'[l] <=> breached[l] /\ Holders(l)' # {},
           breached' \in [Locks -> BOOLEAN], breached \in [Locks -> BOOLEAN]
    PROVE  Abstract!Next
<1> DEFINE where == {l \in Locks : Holders(l)' # Holders(l)}
<1>1. Abstract!Leave(gone, where)
  BY DEF Abstract!Leave
<1> QED
  BY <1>1 DEF Abstract!Next

(* Leases are lost, and nobody enters or leaves. *)
LEMMA BreakRefines ==
    ASSUME NEW S, Breach(S), \A l \in Locks : Holders(l)' = Holders(l),
           BreachOccupied, TypeOK
    PROVE  Abstract!Next
<1>1. Abstract!Break(S \intersect Locks)
  BY DEF Abstract!Break, Breach, BreachOccupied, TypeOK
<1> QED
  BY <1>1 DEF Abstract!Next

(* Every step of the lock and its users is a step of JobExclusion. *)
LEMMA StepRefines == IInv /\ IInv' /\ [Next]_vars => [Abstract!Next]_(Abstract!vars)
<1> SUFFICES ASSUME IInv, IInv', [Next]_vars PROVE [Abstract!Next]_(Abstract!vars)
  OBVIOUS
<1>1. /\ TypeOK /\ Flags /\ LeaseHeld /\ BreachOccupied
      /\ TypeOK' /\ LeaseHeld' /\ BreachOccupied'
  BY DEF IInv
<1>2. ASSUME NEW r \in Runs, Step(r) PROVE [Abstract!Next]_(Abstract!vars)
  <2>1. CASE \/ Fire(r) \/ GatePass(r) \/ GateSkip(r)
             \/ AcquireUnacknowledged(r) \/ AcquireContended(r) \/ AcquireFails(r)
             \/ RunReturns(r) \/ RunThrows(r)
    <3>1. \E S : Breach(S)
      BY <2>1 DEF Fire, GatePass, GateSkip, AcquireUnacknowledged,
                  AcquireContended, AcquireFails, RunReturns, RunThrows
    <3> QED
      BY <2>1, <3>1, <1>1, HoldersKept, BreakRefines
  <2>2. CASE AcquireCheck(r)
    <3>1. breached' = breached /\ \A l \in Locks : Holders(l)' = Holders(l)
      BY <2>2, <1>1, HoldersKept DEF AcquireCheck
    <3> QED
      BY <3>1 DEF Abstract!vars
  <2>3. CASE Acquire(r)
    <3>1. Target(r) \in Locks
      BY <1>1, TargetHeld
    <3>2. \A l \in Locks :
             Holders(l)' = IF l = Target(r) THEN Holders(l) \union {r} ELSE Holders(l)
      BY <2>3, <1>1, HoldersGrow
    <3>3. /\ \A l \in Locks : breached'[l] <=>
                 Holders(l)' # {} /\ (breached[l] \/ l \in LostByWrite(r))
          /\ \A l \in LostByWrite(r) : l = Target(r)
          /\ MayWrite(r)
      BY <2>3 DEF Acquire, Breach, LostByWrite
    <3>4. Holders(Target(r)) # {} \/ breached[Target(r)] => breached'[Target(r)]
      <4>1. \A l \in Locks : l = Target(r) => Holders(l)' # {}
        BY <3>2
      <4>2. ~breached'[Target(r)]
              => ~breached[Target(r)] /\ Target(r) \notin LostByWrite(r)
        BY <3>1, <3>3, <4>1
      <4>3. ~breached'[Target(r)] => Holders(Target(r)) = {}
        BY <3>1, <3>3, <4>2, <1>1, NoTakeover
      <4> QED
        BY <4>2, <4>3
    <3>5. breached' = [breached EXCEPT ![Target(r)] = breached'[Target(r)]]
      BY <3>1, <3>2, <3>3, <1>1 DEF TypeOK, BreachOccupied
    <3>6. breached'[Target(r)] \in BOOLEAN
      BY <3>1, <1>1 DEF TypeOK
    <3>7. Abstract!Enter(r, Target(r))
      <4>1. [l \in Locks |-> Holders(l)]' =
              [[l \in Locks |-> Holders(l)] EXCEPT ![Target(r)] = @ \union {r}]
        BY <3>1, <3>2
      <4> QED
        BY <3>1, <3>4, <3>5, <3>6, <4>1 DEF Abstract!Enter
    <3> QED
      BY <3>1, <3>7 DEF Abstract!Next
  <2>4. CASE Release(r) \/ ReleaseUnacknowledged(r) \/ ReleaseFails(r)
    <3>1. \A l \in Locks : Holders(l)' = Holders(l) \/ Holders(l)' = Holders(l) \ {r}
      BY <2>4, <1>1, HoldersShrink
    <3>2. CASE \A l \in Locks : Holders(l)' = Holders(l)
      <4>1. \E S : Breach(S)
        BY <2>4 DEF Release, ReleaseUnacknowledged, ReleaseFails
      <4> QED
        BY <3>2, <4>1, <1>1, BreakRefines
    <3>3. CASE ~ \A l \in Locks : Holders(l)' = Holders(l)
      <4>1. /\ Target(r) \in Locks
            /\ r \in Holders(Target(r))
            /\ \A l \in Locks : l = Target(r) => r \notin Holders(l)'
        BY <2>4, <3>3, <1>1, TargetHeld, HoldersShrink
        DEF Release, ReleaseUnacknowledged, ReleaseFails
      <4>2. \A l \in Locks : l = Target(r) /\ ~breached[l] => Holders(l)' = {}
        BY <4>1, <3>1, <1>1 DEF LeaseHeld
      <4>3. \A l \in Locks : breached'[l] <=> breached[l] /\ Holders(l)' # {}
        BY <2>4, <4>1, <4>2
        DEF Release, ReleaseUnacknowledged, ReleaseFails, Breach
      <4> QED
        BY <3>1, <4>3, <1>1, LeaveRefines DEF TypeOK
    <3> QED
      BY <3>2, <3>3
  <2> QED
    BY <1>2, <2>1, <2>2, <2>3, <2>4 DEF Step
<1>3. ASSUME NEW i \in Instances, Crash(i) PROVE [Abstract!Next]_(Abstract!vars)
  <2> DEFINE gone == {r \in Runs : InstanceOf[r] = i}
  <2>1. \A l \in Locks : Holders(l)' = Holders(l) \ gone
    BY <1>3 DEF Crash, Holders
  <2>2. \A l \in Locks : breached'[l] <=> breached[l] /\ Holders(l)' # {}
    BY <1>3 DEF Crash, Breach
  <2> QED
    BY <2>1, <2>2, <1>1, LeaveRefines DEF TypeOK
<1>4. CASE Tick
  <2>1. Breach({l \in Locks : row[l].running /\ row[l].left <= 0})
    BY <1>4 DEF Tick
  <2>2. \A l \in Locks : Holders(l)' = Holders(l)
    BY <1>4 DEF Tick, Holders
  <2> QED
    BY <2>1, <2>2, <1>1, BreakRefines
<1>5. CASE UNCHANGED vars
  BY <1>5 DEF vars, Abstract!vars, Holders
<1> QED
  BY <1>2, <1>3, <1>4, <1>5 DEF Next

(* The lease lock and its users implement the exclusion that the callers   *)
(* of the lock count on.                                                   *)
THEOREM RefinesJobExclusion == Spec => ImplementsJobExclusion
<1>1. Init => Abstract!Init
  BY DEF Init, Abstract!Init, Holders
<1> QED
  BY <1>1, StepRefines, Inductive, PTL DEF Spec, ImplementsJobExclusion, Abstract!Spec

-------------------------------------------------------------------------------
(* The stored voting power: every part of a run is of the epoch and the way  *)
(* that its proposal calls for, and so is whatever is kept of it.            *)
Ways == [epoch : Int, mode : {"active", "completed"}]
KeptPowers == {c \in [key : Ways, made : Ways] : c.key = c.made}
PowerPlaces == {"idle", "next", "summary", "parts"}
PowerRecords ==
    [pc : PowerPlaces, epoch : Nat, todo : SUBSET Proposals, p : Proposals \cup {None},
     summary : Int \cup {None}, drep : Int \cup {None, Failed},
     spo : Int \cup {None, Failed}, inactive : KeptPowers \cup {None}]
PowerTyped ==
    /\ epoch \in Nat
    /\ run \in [PowerRuns -> PowerRecords]
    /\ cache \in [drep : SUBSET Int, spo : SUBSET Int, inactive : SUBSET KeptPowers]
    /\ process \subseteq KeptPowers

(* What a run has put together so far. *)
PartsOf(j) ==
    /\ j.epoch <= epoch
    /\ j.pc \in {"summary", "parts"} => j.p \in Proposals
    /\ j.pc = "summary" => j.drep = None /\ j.spo = None /\ j.inactive = None
    /\ j.pc = "parts" =>
          /\ j.summary \in j.epoch .. epoch
          /\ j.drep \in {None, Failed, DrepEpoch(j.p, j.epoch)}
          /\ j.spo \in {None, Failed, SpoEpoch(j.p, j.epoch)}
          /\ j.inactive # None => j.inactive.made = InactiveKey(j.p, j.epoch)

PowerInv ==
    /\ PowerTyped
    /\ \A r \in PowerRuns : PartsOf(run[r])
    /\ RowsWhole

(* The epochs of a proposal are numbers, and its key is a way. *)
LEMMA WaysOf ==
    ASSUME NEW p \in Proposals, NEW e \in Int
    PROVE  DrepEpoch(p, e) \in Int /\ SpoEpoch(p, e) \in Int /\ InactiveKey(p, e) \in Ways
BY PowerAssumption DEF DrepEpoch, SpoEpoch, InactiveKey, Completed, Ways

(* A run that goes on in order keeps the invariant, if the rest does. *)
LEMMA PowerRunOf ==
    ASSUME PowerInv, NEW r \in PowerRuns, NEW w \in PowerRecords, PartsOf(w),
           run' = [run EXCEPT ![r] = w],
           epoch' = epoch, written' = written,
           cache' \in [drep : SUBSET Int, spo : SUBSET Int, inactive : SUBSET KeptPowers],
           process' \subseteq KeptPowers
    PROVE  PowerInv'
<1>1. PowerTyped'
  BY DEF PowerInv, PowerTyped
<1>2. ASSUME NEW s \in PowerRuns PROVE PartsOf(run[s])'
  <2>1. run'[s] \in {w, run[s]}
    BY DEF PowerInv, PowerTyped
  <2> QED BY <2>1 DEF PowerInv, PartsOf
<1> QED
  BY <1>1, <1>2 DEF PowerInv, RowsWhole

(* A run begins, takes the next proposal, or reads its summary. *)
LEMMA PowerBegins ==
    ASSUME PowerInv, NEW r \in PowerRuns, StartPower(r) \/ NextProposal(r) \/ Summary(r)
    PROVE  PowerInv'
<1>0. PICK j \in PowerRecords : j = run[r]
  BY DEF PowerInv, PowerTyped
<1>1. PartsOf(j) /\ epoch \in Nat /\ process \subseteq KeptPowers
      /\ cache \in [drep : SUBSET Int, spo : SUBSET Int, inactive : SUBSET KeptPowers]
  BY <1>0 DEF PowerInv, PowerTyped
<1>2. Idle \in PowerRecords /\ Idle.pc = "idle" /\ Idle.epoch = 0
  BY DEF Idle, PowerRecords, PowerPlaces
<1>3. PICK i \in PowerRecords : i = Idle
  BY <1>2
<1>4. CASE StartPower(r)
  <2>1. PICK T \in SUBSET Proposals :
          run' = [run EXCEPT ![r] = [i EXCEPT !.pc = "next", !.epoch = epoch, !.todo = T]]
    BY <1>3, <1>4 DEF StartPower
  <2>2. PICK w : w = [i EXCEPT !.pc = "next", !.epoch = epoch, !.todo = T]
    OBVIOUS
  <2>3. w \in PowerRecords
    BY <1>1, <2>2 DEF PowerRecords, PowerPlaces
  <2>4. w.pc = "next" /\ w.epoch = epoch
    BY <2>2 DEF PowerRecords
  <2>5. PartsOf(w)
    BY <1>1, <2>4 DEF PartsOf
  <2>6. UNCHANGED <<epoch, written, cache, process>>
    BY <1>4 DEF StartPower
  <2> QED BY <1>1, <2>1, <2>2, <2>3, <2>5, <2>6, PowerRunOf
<1>5. CASE NextProposal(r)
  <2>1. cache' \in [drep : SUBSET Int, spo : SUBSET Int, inactive : SUBSET KeptPowers]
    BY <1>1, <1>5 DEF NextProposal, NoCache
  <2>2. UNCHANGED <<epoch, written, process>>
    BY <1>5 DEF NextProposal
  <2>3. CASE j.todo = {}
    <3>1. run' = [run EXCEPT ![r] = i]
      BY <1>0, <1>3, <1>5, <2>3 DEF NextProposal
    <3>2. PartsOf(i)
      BY <1>1, <1>2, <1>3 DEF PartsOf
    <3> QED BY <1>1, <2>1, <2>2, <3>1, <3>2, PowerRunOf
  <2>4. CASE j.todo # {}
    <3>1. PICK p \in Proposals : p = CHOOSE q \in j.todo : TRUE
      BY <2>4 DEF PowerRecords
    <3>2. PICK w : w = [i EXCEPT !.pc = "summary", !.epoch = j.epoch, !.todo = j.todo \ {p}, !.p = p]
      OBVIOUS
    <3>3. run' = [run EXCEPT ![r] = w]
      BY <1>0, <1>3, <1>5, <2>4, <3>1, <3>2 DEF NextProposal
    <3>4. w \in PowerRecords
      BY <3>2 DEF PowerRecords, PowerPlaces
    <3>5. w.pc = "summary" /\ w.epoch = j.epoch /\ w.p = p
          /\ w.drep = i.drep /\ w.spo = i.spo /\ w.inactive = i.inactive
      BY <3>2 DEF PowerRecords
    <3>7. i.drep = None /\ i.spo = None /\ i.inactive = None
      BY <1>3 DEF Idle
    <3>6. PartsOf(w)
      BY <1>1, <3>1, <3>5, <3>7 DEF PartsOf
    <3> QED BY <2>1, <1>1, <2>2, <3>3, <3>4, <3>6, PowerRunOf
  <2> QED BY <2>3, <2>4
<1>6. CASE Summary(r)
  <2>1. UNCHANGED <<epoch, written, cache, process>> /\ j.pc = "summary"
    BY <1>0, <1>6 DEF Summary
  <2>2. CASE run' = [run EXCEPT ![r].pc = "parts", ![r].summary = epoch]
    <3>1. PICK w : w = [j EXCEPT !.pc = "parts", !.summary = epoch]
      OBVIOUS
    <3>2. run' = [run EXCEPT ![r] = w]
      BY <1>0, <2>2, <3>1 DEF PowerInv, PowerTyped
    <3>3. w \in PowerRecords
      <4>1. PICK e \in Int \cup {None} : e = epoch
        BY <1>1
      <4>2. [j EXCEPT !.pc = "parts", !.summary = e] \in PowerRecords
        BY DEF PowerRecords, PowerPlaces
      <4> QED BY <3>1, <4>1, <4>2
    <3>4. /\ w.pc = "parts" /\ w.epoch = j.epoch /\ w.p = j.p /\ w.summary = epoch
          /\ w.drep = j.drep /\ w.spo = j.spo /\ w.inactive = j.inactive
      BY <3>1 DEF PowerRecords
    <3>5. j.drep = None /\ j.spo = None /\ j.inactive = None
      BY <1>1, <2>1 DEF PartsOf
    <3>6. PartsOf(w)
      BY <1>1, <2>1, <3>4, <3>5 DEF PartsOf, PowerRecords
    <3> QED BY <1>1, <2>1, <3>2, <3>3, <3>6, PowerRunOf
  <2>3. CASE run' = [run EXCEPT ![r].pc = "next"]
    <3>1. PICK w : w = [j EXCEPT !.pc = "next"]
      OBVIOUS
    <3>2. run' = [run EXCEPT ![r] = w]
      BY <1>0, <2>3, <3>1 DEF PowerInv, PowerTyped
    <3>3. w \in PowerRecords /\ w.pc = "next" /\ w.epoch = j.epoch
      BY <3>1 DEF PowerRecords, PowerPlaces
    <3>4. PartsOf(w)
      BY <1>1, <3>3 DEF PartsOf
    <3> QED BY <1>1, <2>1, <3>2, <3>3, <3>4, PowerRunOf
  <2> QED BY <1>6, <2>2, <2>3 DEF Summary
<1> QED
  BY <1>4, <1>5, <1>6

(* A total arrives, is kept, or failed. *)
LEMMA PowerTotals ==
    ASSUME PowerInv, NEW r \in PowerRuns, DrepTotal(r) \/ SpoTotal(r)
    PROVE  PowerInv'
<1>0. PICK j \in PowerRecords : j = run[r]
  BY DEF PowerInv, PowerTyped
<1>1. PICK c \in [drep : SUBSET Int, spo : SUBSET Int, inactive : SUBSET KeptPowers] : c = cache
  BY DEF PowerInv, PowerTyped
<1>2. PartsOf(j) /\ epoch \in Nat /\ process \subseteq KeptPowers /\ j.pc = "parts"
  BY <1>0 DEF PowerInv, PowerTyped, DrepTotal, SpoTotal, Total
<1>3. UNCHANGED <<epoch, written, process>> /\ j.p \in Proposals /\ j.epoch \in Nat
  BY <1>2 DEF DrepTotal, SpoTotal, Total, PartsOf, PowerRecords
<1>4. CASE DrepTotal(r)
  <2>1. PICK e \in Int : e = DrepEpoch(j.p, j.epoch)
    BY <1>3, WaysOf
  <2>2. PICK answer \in {e, Failed} :
          /\ run' = [run EXCEPT ![r]["drep"] = answer]
          /\ cache' = IF r = "bulk" /\ answer # Failed
                      THEN [cache EXCEPT !["drep"] = @ \cup {e}] ELSE cache
    BY <1>0, <1>4, <2>1 DEF DrepTotal, Total
  <2>3. PICK w : w = [j EXCEPT !.drep = answer]
    OBVIOUS
  <2>4. run' = [run EXCEPT ![r] = w]
    BY <1>0, <2>2, <2>3 DEF PowerInv, PowerTyped
  <2>5. w \in PowerRecords
    BY <2>1, <2>2, <2>3 DEF PowerRecords
  <2>6. /\ w.pc = "parts" /\ w.epoch = j.epoch /\ w.p = j.p /\ w.summary = j.summary
        /\ w.drep = answer /\ w.spo = j.spo /\ w.inactive = j.inactive
    BY <1>2, <2>3 DEF PowerRecords
  <2>7. PartsOf(w)
    BY <1>2, <2>1, <2>2, <2>6 DEF PartsOf
  <2>8. cache' \in [drep : SUBSET Int, spo : SUBSET Int, inactive : SUBSET KeptPowers]
    BY <1>1, <2>1, <2>2
  <2> QED BY <1>2, <1>3, <2>4, <2>5, <2>7, <2>8, PowerRunOf
<1>5. CASE SpoTotal(r)
  <2>1. PICK e \in Int : e = SpoEpoch(j.p, j.epoch)
    BY <1>3, WaysOf
  <2>2. PICK answer \in {e, Failed} :
          /\ run' = [run EXCEPT ![r]["spo"] = answer]
          /\ cache' = IF r = "bulk" /\ answer # Failed
                      THEN [cache EXCEPT !["spo"] = @ \cup {e}] ELSE cache
    BY <1>0, <1>5, <2>1 DEF SpoTotal, Total
  <2>3. PICK w : w = [j EXCEPT !.spo = answer]
    OBVIOUS
  <2>4. run' = [run EXCEPT ![r] = w]
    BY <1>0, <2>2, <2>3 DEF PowerInv, PowerTyped
  <2>5. w \in PowerRecords
    BY <2>1, <2>2, <2>3 DEF PowerRecords
  <2>6. /\ w.pc = "parts" /\ w.epoch = j.epoch /\ w.p = j.p /\ w.summary = j.summary
        /\ w.drep = j.drep /\ w.spo = answer /\ w.inactive = j.inactive
    BY <1>2, <2>3 DEF PowerRecords
  <2>7. PartsOf(w)
    BY <1>2, <2>1, <2>2, <2>6 DEF PartsOf
  <2>8. cache' \in [drep : SUBSET Int, spo : SUBSET Int, inactive : SUBSET KeptPowers]
    BY <1>1, <2>1, <2>2
  <2> QED BY <1>2, <1>3, <2>4, <2>5, <2>7, <2>8, PowerRunOf
<1> QED
  BY <1>4, <1>5

(* The inactive power: whatever is kept under a key was computed its way. *)
LEMMA PowerInactive ==
    ASSUME PowerInv, NEW r \in PowerRuns, Inactive(r)
    PROVE  PowerInv'
<1>0. PICK j \in PowerRecords : j = run[r]
  BY DEF PowerInv, PowerTyped
<1>1. PICK c \in [drep : SUBSET Int, spo : SUBSET Int, inactive : SUBSET KeptPowers] : c = cache
  BY DEF PowerInv, PowerTyped
<1>2. PartsOf(j) /\ epoch \in Nat /\ process \subseteq KeptPowers /\ j.pc = "parts"
  BY <1>0 DEF PowerInv, PowerTyped, Inactive
<1>3. UNCHANGED <<epoch, written>> /\ j.p \in Proposals /\ j.epoch \in Nat
  BY <1>2 DEF Inactive, PartsOf, PowerRecords
<1>4. PICK key \in Ways : key = InactiveKey(j.p, j.epoch)
  BY <1>3, WaysOf
<1>5. [epoch |-> DrepEpoch(j.p, j.epoch),
       mode |-> IF Completed(j.p, j.epoch) THEN "completed" ELSE "active"] = key
  BY <1>4 DEF InactiveKey
<1>6. [key : {key}, made : {key}] \subseteq KeptPowers
  BY DEF KeptPowers
<1>7. {x \in Kept(r, "inactive") : x.key = key} \subseteq KeptPowers
  BY <1>1 DEF Kept
<1>8. PICK x \in KeptPowers :
        /\ x.key = key
        /\ run' = [run EXCEPT ![r].inactive = x]
        /\ cache' = IF r = "bulk" THEN [cache EXCEPT !.inactive = @ \cup {x}] ELSE cache
        /\ process' \subseteq process \cup {x}
  <2>1. PICK x :
          /\ \/ x \in {y \in Kept(r, "inactive") : y.key = key}
             \/ x \in {y \in process : y.key = key}
             \/ x \in [key : {key}, made : {key}]
          /\ run' = [run EXCEPT ![r].inactive = x]
          /\ cache' = IF r = "bulk" THEN [cache EXCEPT !.inactive = @ \cup {x}] ELSE cache
          /\ process' \subseteq process \cup {x}
    BY <1>0, <1>4, <1>5 DEF Inactive
  <2>2. x \in KeptPowers /\ x.key = key
    BY <1>2, <1>6, <1>7, <2>1
  <2> QED BY <2>1, <2>2
<1>9. x.made = key
  BY <1>8 DEF KeptPowers
<1>10. PICK w : w = [j EXCEPT !.inactive = x]
  OBVIOUS
<1>11. run' = [run EXCEPT ![r] = w]
  BY <1>0, <1>8, <1>10 DEF PowerInv, PowerTyped
<1>12. w \in PowerRecords
  BY <1>8, <1>10 DEF PowerRecords
<1>13. /\ w.pc = "parts" /\ w.epoch = j.epoch /\ w.p = j.p /\ w.summary = j.summary
       /\ w.drep = j.drep /\ w.spo = j.spo /\ w.inactive = x
  BY <1>2, <1>10 DEF PowerRecords
<1>14. PartsOf(w)
  BY <1>2, <1>4, <1>9, <1>13 DEF PartsOf
<1>15. cache' \in [drep : SUBSET Int, spo : SUBSET Int, inactive : SUBSET KeptPowers]
  BY <1>1, <1>8
<1>16. process' \subseteq KeptPowers
  BY <1>2, <1>8
<1> QED BY <1>3, <1>11, <1>12, <1>14, <1>15, <1>16, PowerRunOf

(* What is written is what the run has put together. *)
LEMMA PowerWritten ==
    ASSUME PowerInv, NEW r \in PowerRuns, Write(r)
    PROVE  PowerInv'
<1>0. PICK j \in PowerRecords : j = run[r]
  BY DEF PowerInv, PowerTyped
<1>1. PartsOf(j) /\ epoch \in Nat /\ j.pc = "parts" /\ UNCHANGED <<epoch, cache, process>>
  BY <1>0 DEF PowerInv, PowerTyped, Write
<1>2. PICK w : w = [j EXCEPT !.pc = "next"]
  OBVIOUS
<1>3. run' = [run EXCEPT ![r] = w]
  BY <1>0, <1>2 DEF PowerInv, PowerTyped, Write
<1>4. w \in PowerRecords /\ w.pc = "next" /\ w.epoch = j.epoch
  BY <1>2 DEF PowerRecords, PowerPlaces
<1>5. PartsOf(w)
  BY <1>1, <1>4 DEF PartsOf
<1>6. PowerTyped'
  BY <1>1, <1>3, <1>4 DEF PowerInv, PowerTyped
<1>7. ASSUME NEW s \in PowerRuns PROVE PartsOf(run[s])'
  <2>1. run'[s] \in {w, run[s]}
    BY <1>3 DEF PowerInv, PowerTyped
  <2> QED BY <1>1, <1>5, <2>1 DEF PowerInv, PartsOf
<1>8. RowsWhole'
  <2>1. CASE written' = written
    BY <1>1, <2>1 DEF PowerInv, RowsWhole
  <2>2. CASE written' # written
    <3>1. /\ written' = [p |-> j.p, at |-> j.epoch, summary |-> j.summary, drep |-> j.drep,
                         spo |-> j.spo, inactive |-> j.inactive]
          /\ None \notin {j.drep, j.spo, j.inactive} /\ Failed \notin {j.drep, j.spo}
      BY <1>0, <2>2 DEF Write, Complete
    <3>2. /\ j.drep = DrepEpoch(j.p, j.epoch) /\ j.spo = SpoEpoch(j.p, j.epoch)
          /\ j.inactive.made = InactiveKey(j.p, j.epoch) /\ j.summary \in j.epoch .. epoch
      BY <1>1, <3>1 DEF PartsOf
    <3>3. /\ written'.p = j.p /\ written'.at = j.epoch /\ written'.summary = j.summary
          /\ written'.drep = j.drep /\ written'.spo = j.spo /\ written'.inactive = j.inactive
      BY <3>1
    <3> QED BY <1>1, <3>2, <3>3 DEF RowsWhole, InactiveKey
  <2> QED BY <2>1, <2>2
<1> QED
  BY <1>6, <1>7, <1>8 DEF PowerInv

(* RowsWhole: a stored row of voting power is whole, and of the epochs and   *)
(* the way its proposal called for (proposalVotingPower.service.ts).         *)
THEOREM StoredRowsAreWhole == PowerSpec => []RowsWhole
<1>1. PowerInit => PowerInv
  <2> SUFFICES ASSUME PowerInit PROVE PowerInv
    OBVIOUS
  <2>1. Idle \in PowerRecords /\ Idle.pc = "idle" /\ Idle.epoch = 0
    BY DEF Idle, PowerRecords, PowerPlaces
  <2>2. PowerTyped
    BY <2>1 DEF PowerInit, PowerTyped, NoCache
  <2>3. ASSUME NEW r \in PowerRuns PROVE PartsOf(run[r])
    BY <2>1 DEF PowerInit, PartsOf
  <2> QED BY <2>2, <2>3 DEF PowerInit, PowerInv, RowsWhole
<1>2. PowerInv /\ [PowerNext]_powerVars => PowerInv'
  <2> SUFFICES ASSUME PowerInv, [PowerNext]_powerVars PROVE PowerInv'
    OBVIOUS
  <2>1. ASSUME UNCHANGED <<written, run>>, epoch' \in Nat, epoch' >= epoch,
               UNCHANGED cache, process' \subseteq KeptPowers
        PROVE  PowerInv'
    <3>1. PowerTyped'
      BY <2>1 DEF PowerInv, PowerTyped
    <3>2. ASSUME NEW r \in PowerRuns PROVE PartsOf(run[r])'
      <4>1. PICK j \in PowerRecords : j = run[r]
        BY DEF PowerInv, PowerTyped
      <4>2. PartsOf(j) /\ epoch \in Nat
        BY <4>1 DEF PowerInv, PowerTyped
      <4>3. j.epoch \in Nat
        BY DEF PowerRecords
      <4>4. PartsOf(j)'
        BY <2>1, <4>2, <4>3 DEF PartsOf, DrepEpoch, SpoEpoch, InactiveKey, Completed
      <4> QED BY <2>1, <4>1, <4>4
    <3>3. RowsWhole'
      BY <2>1 DEF PowerInv, PowerTyped, RowsWhole, DrepEpoch, SpoEpoch, Completed
    <3> QED BY <3>1, <3>2, <3>3 DEF PowerInv
  <2>2. CASE Expire
    BY <2>1, <2>2 DEF Expire, PowerInv, PowerTyped
  <2>3. CASE EpochTurns
    BY <2>1, <2>3 DEF EpochTurns, PowerInv, PowerTyped
  <2>4. CASE UNCHANGED powerVars
    BY <2>1, <2>4 DEF powerVars, PowerInv, PowerTyped
  <2> QED BY <2>2, <2>3, <2>4, PowerBegins, PowerTotals, PowerInactive, PowerWritten DEF PowerNext
<1>3. PowerInv => RowsWhole
  BY DEF PowerInv
<1> QED
  BY <1>1, <1>2, <1>3, PTL DEF PowerSpec

-------------------------------------------------------------------------------
(* The power of inactive DReps: votes are cast while their action lives, and *)
(* what is stored was on the chain.                                          *)
ActivityInv ==
    /\ today \in Nat
    /\ votes \subseteq [drep : Dreps \ Special, action : Actions, epoch : Nat]
    /\ updates \subseteq [drep : Dreps \ Special, epoch : Nat]
    /\ storedUpdates \subseteq updates
    /\ \A v \in votes : Submitted[v.action] <= v.epoch /\ v.epoch <= Expiration[v.action]

(* A vote within the window is on an action that lived in it. *)
LEMMA VotersAreSeen ==
    ASSUME ActivityInv, storedVotes = votes, NEW ref \in Nat, NEW v \in votes, Within(v.epoch, ref)
    PROVE  v.drep \in Voted(ref)
<1>1. /\ v.action \in Actions /\ v.epoch \in Nat
      /\ Submitted[v.action] <= v.epoch /\ v.epoch <= Expiration[v.action]
  BY DEF ActivityInv
<1>2. Submitted[v.action] \in Nat /\ Expiration[v.action] \in Nat /\ ACTIVITY_WINDOW \in Nat
  BY <1>1, InactiveAssumption
<1>3. AliveAround(v.action, ref)
  BY <1>1, <1>2 DEF AliveAround, Within
<1> QED
  BY <1>3 DEF Voted

(* ActiveNeverCounted: with the votes ingested, a DRep that was active is    *)
(* not counted among the inactive (inactiveDrepPower.service.ts), except for *)
(* what a lookup in Koios dates an epoch too early.                          *)
THEOREM ActiveAreNeverCounted == InactiveSpec => []ActiveNeverCounted
<1>1. InactiveInit => ActivityInv
  BY DEF InactiveInit, ActivityInv
<1>2. ActivityInv /\ [InactiveNext]_drepVars => ActivityInv'
  <2> SUFFICES ASSUME ActivityInv, [InactiveNext]_drepVars PROVE ActivityInv'
    OBVIOUS
  <2>1. CASE NextEpoch \/ IngestVotes \/ UNCHANGED drepVars
    BY <2>1 DEF ActivityInv, NextEpoch, IngestVotes, drepVars
  <2>2. ASSUME NEW d \in Dreps \ Special, Update(d) \/ SyncLifecycle(d) PROVE ActivityInv'
    BY <2>2 DEF ActivityInv, Update, SyncLifecycle
  <2>3. ASSUME NEW d \in Dreps \ Special, NEW a \in Actions, VoteOn(d, a) PROVE ActivityInv'
    BY <2>3 DEF ActivityInv, VoteOn
  <2> QED BY <2>1, <2>2, <2>3 DEF InactiveNext
<1>3. ActivityInv => ActiveNeverCounted
  <2> SUFFICES ASSUME ActivityInv, storedVotes = votes, NEW ref \in 0 .. today,
                      NEW d \in TrulyActive(ref),
                      \/ VotedWithin(d, ref)
                      \/ Certificates(d, ref) \subseteq storedUpdates
                      \/ /\ LookedUpOnly(d)
                         /\ \E u \in Certificates(d, ref) : u.epoch > ref - ACTIVITY_WINDOW
               PROVE  d \notin CountedInactive(ref, {})
    BY DEF ActiveNeverCounted
  <2>1. ref \in Nat /\ d \in Dreps \ Special
    BY DEF ActivityInv, TrulyActive
  <2>2. CASE VotedWithin(d, ref)
    BY <2>1, <2>2, VotersAreSeen DEF CountedInactive, VotedWithin
  <2>3. CASE ~VotedWithin(d, ref) /\ Certificates(d, ref) \subseteq storedUpdates
    <3>1. PICK u \in Certificates(d, ref) : u \in storedUpdates
      BY <2>3 DEF TrulyActive
    <3> QED BY <3>1 DEF CountedInactive, Certified, Certificates
  <2>4. ASSUME LookedUpOnly(d), NEW u \in Certificates(d, ref), u.epoch > ref - ACTIVITY_WINDOW
        PROVE  d \notin CountedInactive(ref, {})
    <3>1. u \in updates /\ u.drep = d /\ u.epoch \in Nat /\ ACTIVITY_WINDOW \in Nat
      BY InactiveAssumption DEF Certificates, ActivityInv
    <3>2. Within(LookedUpEpoch(u), ref)
      BY <2>1, <2>4, <3>1 DEF Certificates, Within, LookedUpEpoch
    <3>3. d \in Voted(ref) \/ d \in Missing(ref)
      BY <2>1, <2>4 DEF LookedUpOnly, Missing
    <3> QED BY <3>1, <3>2, <3>3 DEF CountedInactive, Certified
  <2> QED BY <2>2, <2>3, <2>4
<1> QED
  BY <1>1, <1>2, <1>3, PTL DEF InactiveSpec
===============================================================================
