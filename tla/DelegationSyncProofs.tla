---------------------------- MODULE DelegationSyncProofs ----------------------------
(***************************************************************************)
(* What a run of the delegation sync may do, for any stake addresses,      *)
(* DReps, shards and bounds: the log tells of all that the table holds,    *)
(* but for known gaps, and a row is given up only for who went away while  *)
(* the run read, or was in no answer.                                      *)
(*                                                                         *)
(* The inductive invariant has four parts.  Typed; Shape, which ties the   *)
(* plan of a run to what it saw and every known address to a history;      *)
(* Justified, which follows who stayed with a DRep from the request that   *)
(* is out, over the answer, to what the run concludes; and Logged, in      *)
(* which a row is told of by the log or by a change that its run has       *)
(* still to write, or is one of the gaps.                                  *)
(***************************************************************************)
EXTENDS DelegationSync, FiniteSetTheorems, SequenceTheorems, WellFoundedInduction, TLAPS


-------------------------------------------------------------------------------
(* The types that the arguments need. *)
Delegates == Dreps \cup {None}
RunRecords ==
    [full : BOOLEAN, epoch : Nat, left : SUBSET Dreps, target : SUBSET Dreps,
     failed : SUBSET Dreps, candidates : [Stakes -> SUBSET Dreps], undelegated : SUBSET Stakes,
     rows : Nat, seen : [Stakes -> Delegates \cup {Unseen}], reads : SUBSET Stakes, job : BOOLEAN,
     latest : [Stakes -> Delegates], creates : SUBSET Stakes, updates : Seq(Stakes),
     clears : SUBSET Stakes, changes : Seq(Changes),
     checkpoint : [epoch : Nat, creates : BOOLEAN, updates : Nat, changes : Nat]]
CheckpointRecords == [epoch : Nat, creates : BOOLEAN, updates : Nat, changes : Nat]
Typed ==
    /\ past \in [Stakes -> Seq(Dreps)]
    /\ chain \in [Stakes -> Delegates]
    /\ epoch \in Nat \ {0}
    /\ known \subseteq Stakes
    /\ table \in [Stakes -> Delegates \cup {Absent}]
    /\ row \in CheckpointRecords /\ legacy \in CheckpointRecords
    /\ run \in RunRecords
    /\ listed \subseteq Dreps

(* What is kept of no run. *)
LEMMA NoRunTyped == NoRun \in RunRecords /\ NoCheckpoint \in CheckpointRecords
<1>1. NoCheckpoint \in CheckpointRecords
  BY DEF NoCheckpoint, Fresh, CheckpointRecords
<1>2. <<>> \in Seq(Stakes) /\ <<>> \in Seq(Changes)
  OBVIOUS
<1> QED
  BY <1>1, <1>2 DEF NoRun, RunRecords, CheckpointRecords, Delegates

(* The counts of a scan are numbers. *)
LEMMA CountsAreNumbers ==
    /\ \A S \in SUBSET Stakes : IsFiniteSet(S) /\ Cardinality(S) \in Nat
<1> SUFFICES ASSUME NEW S \in SUBSET Stakes PROVE IsFiniteSet(S) /\ Cardinality(S) \in Nat
  OBVIOUS
<1>1. IsFiniteSet(S)
  BY ParametersAssumption, FS_Subset
<1> QED
  BY <1>1, FS_CardinalityType


(* The order in which a set is written: each element has its place. *)
LEMMA OrderOfSet ==
    ASSUME NEW S, IsFiniteSet(S), NEW f \in SetToSeqs(S)
    PROVE  /\ f \in Seq(S) /\ Len(f) = Cardinality(S) /\ DOMAIN f = 1..Len(f)
           /\ \A x \in S : \E i \in 1..Len(f) : f[i] = x
<1>1. PICK n \in Nat : n = Cardinality(S)
  BY FS_CardinalityType
<1>2. f \in [1..n -> S] /\ \A i, j \in 1..n : i # j => f[i] # f[j]
  BY <1>1 DEF SetToSeqs
<1>3. IsFiniteSet(1..n) /\ Cardinality(1..n) = n
  BY FS_Interval
<1>4. f \in Injection(1..n, S)
  BY <1>2 DEF Injection, IsInjective
<1>5. f \in Surjection(1..n, S)
  BY <1>1, <1>3, <1>4, FS_Injection
<1>6. \A x \in S : \E i \in 1..n : f[i] = x
  BY <1>5 DEF Surjection
<1>7. f \in Seq(S) /\ Len(f) = n
  BY <1>2
<1> QED
  BY <1>1, <1>2, <1>6, <1>7

(* Every set of numbers has a least element. *)
LEMMA LeastNat == ASSUME NEW T \in SUBSET Nat, T # {} PROVE \E x \in T : \A y \in T : x <= y
<1>1. PICK R : R = {ss \in Nat \X Nat : ss[1] < ss[2]}
  OBVIOUS
<1>2. IsWellFoundedOn(R, Nat)
  BY <1>1, NatLessThanWellFounded DEF OpToRel
<1>3. PICK x \in T : \A y \in T : ~ (<<y, x>> \in R)
  BY <1>2, WFMin
<1>4. \A y \in T : ~(y < x)
  BY <1>1, <1>3
<1> QED BY <1>4

(* Min is one of the numbers. *)
LEMMA MinIs == ASSUME NEW T \in SUBSET Nat, T # {} PROVE Min(T) \in T
<1>1. \E x \in T : \A y \in T : x <= y
  BY LeastNat
<1> QED BY <1>1 DEF Min

(* The history of a stake address has a change to its last DRep. *)
LEMMA LastChange ==
    ASSUME NEW s, NEW p \in Seq(Dreps), past[s] = p, p # <<>>
    PROVE  /\ \E c \in History(s) : c.stake = s /\ c.to = Last(p)
           /\ Change(s, None, p[1]) \in History(s)
<1>1. PICK n \in Nat \ {0} : n = Len(p) /\ DOMAIN p = 1..n
  OBVIOUS
<1>2. Change(s, None, p[1]) \in History(s)
  <2>1. 1 \in {j \in DOMAIN p : j = 1 \/ p[j] # p[j - 1]}
    BY <1>1
  <2> QED BY <2>1 DEF History
<1>3. DEFINE T == {m \in 1..n : \A k \in m..n : p[k] = p[n]}
<1>4. n \in T
  BY <1>1
<1>5. T \in SUBSET Nat
  OBVIOUS
<1>6. PICK m \in T : \A y \in T : m <= y
  BY <1>4, <1>5, LeastNat
<1>7. m = 1 \/ p[m] # p[m - 1]
  <2> SUFFICES ASSUME m # 1, p[m] = p[m - 1] PROVE FALSE
    OBVIOUS
  <2>1. m \in 1..n /\ m - 1 \in 1..n /\ \A k \in m..n : p[k] = p[n]
    BY <1>1, <1>6
  <2>2. p[m - 1] = p[n]
    BY <2>1
  <2>3. \A k \in (m - 1)..n : k = m - 1 \/ k \in m..n
    BY <2>1
  <2>4. m - 1 \in T
    BY <2>1, <2>2, <2>3
  <2> QED BY <1>6, <2>1, <2>4
<1>8. m \in {j \in DOMAIN p : j = 1 \/ p[j] # p[j - 1]} /\ p[m] = p[n]
  BY <1>1, <1>6, <1>7
<1>9. Change(s, IF m = 1 THEN None ELSE p[m - 1], p[m]) \in History(s)
  BY <1>8 DEF History
<1>10. Last(p) = p[m]
  BY <1>1, <1>8 DEF Last
<1> QED
  BY <1>2, <1>9, <1>10 DEF Change

(* What is logged of the rows that a run writes. *)
LEMMA ChangesOfRun ==
    ASSUME Typed
    PROVE  /\ MovedChanges \subseteq Changes /\ ClearedChanges \subseteq Changes
           /\ IsFiniteSet(MovedChanges) /\ IsFiniteSet(ClearedChanges)
<1>0. /\ table \in [Stakes -> Delegates \cup {Absent}]
      /\ run.seen \in [Stakes -> Delegates \cup {Unseen}]
  BY DEF Typed, RunRecords
<1>1. ASSUME NEW s \in Moved
      PROVE  Change(s, MovedFrom(s), run.seen[s]) \in Changes
  <2>1. s \in Stakes /\ run.seen[s] \in Dreps
    BY DEF Moved, ToCreate, Stale, Tracked
  <2>2. MovedFrom(s) \in Delegates
    BY <1>0, <2>1 DEF MovedFrom, Delegates
  <2> QED BY <2>1, <2>2 DEF Change, Changes, Delegates
<1>2. ASSUME NEW s \in Cleared
      PROVE  Change(s, table[s], None) \in Changes
  BY DEF Cleared, Active, Change, Changes
<1>3. IsFiniteSet(Moved) /\ IsFiniteSet(Cleared)
  <2>1. Moved \in SUBSET Stakes /\ Cleared \in SUBSET Stakes
    BY DEF Moved, ToCreate, Stale, Tracked, Cleared, Active
  <2> QED BY <2>1, CountsAreNumbers
<1>4. IsFiniteSet(MovedChanges)
  <2>1. PICK f : f = [s \in Moved |-> Change(s, MovedFrom(s), run.seen[s])]
    OBVIOUS
  <2>2. f \in Surjection(Moved, MovedChanges)
    BY <2>1 DEF Surjection, MovedChanges
  <2> QED BY <1>3, <2>2, FS_Surjection
<1>5. IsFiniteSet(ClearedChanges)
  <2>1. PICK f : f = [s \in Cleared |-> Change(s, table[s], None)]
    OBVIOUS
  <2>2. f \in Surjection(Cleared, ClearedChanges)
    BY <2>1 DEF Surjection, ClearedChanges
  <2> QED BY <1>3, <2>2, FS_Surjection
<1> QED
  BY <1>1, <1>2, <1>4, <1>5 DEF MovedChanges, ClearedChanges

(* The decision: what a run has still to write. *)
LEMMA DecisionIs ==
    ASSUME Typed, NEW restless \in SUBSET Unchanged, Decide(restless)
    PROVE  \E j \in RunRecords :
              /\ run' = j /\ j.seen = run.seen /\ j.creates = ToCreate
              /\ j.clears \subseteq Cleared \cup Reconciled
              /\ \A i \in 1..Len(j.updates) : j.updates[i] \in Stale \cup restless
              /\ \A s \in Moved : \E i \in 1..Len(j.changes) :
                    j.changes[i] = Change(s, MovedFrom(s), run.seen[s])
              /\ \A s \in Cleared : \E i \in 1..Len(j.changes) :
                    j.changes[i] = Change(s, table[s], None)
              /\ untold' = untold \cup Pairs(Skipped(j.changes))
              /\ j.checkpoint = TakenUp /\ j.reads = run.reads
              /\ j.candidates = run.candidates /\ j.undelegated = run.undelegated
<1>0. PICK j \in RunRecords : j = run
  BY DEF Typed
<1>1. PICK n \in RunRecords : n = NoRun
  BY NoRunTyped
<1>2. PICK updates \in SetToSeqs(Stale \cup restless), changed \in SetToSeqs(MovedChanges),
           cleared \in SetToSeqs(ClearedChanges) :
        /\ run' = [run EXCEPT
                     !.full = FALSE, !.failed = {}, !.rows = 0, !.latest = NoRun.latest,
                     !.creates = ToCreate, !.updates = updates,
                     !.clears = IF Blocked(Cleared \cup Reconciled) THEN {} ELSE Cleared \cup Reconciled,
                     !.changes = changed \o cleared,
                     !.checkpoint = TakenUp]
        /\ untold' = untold \cup Pairs(Skipped(changed \o cleared))
  BY Zenon DEF Decide
<1>3. Stale \cup restless \in SUBSET Stakes /\ ToCreate \in SUBSET Stakes
      /\ Cleared \cup Reconciled \in SUBSET Stakes
  BY DEF Stale, Unchanged, ToCreate, Tracked, Cleared, Reconciled, Active
<1>4. updates \in Seq(Stakes) /\ \A i \in 1..Len(updates) : updates[i] \in Stale \cup restless
  <2>1. IsFiniteSet(Stale \cup restless)
    BY <1>3, CountsAreNumbers
  <2>2. updates \in Seq(Stale \cup restless)
    BY <2>1, OrderOfSet
  <2> QED BY <1>3, <2>2
<1>5. /\ changed \in Seq(Changes) /\ cleared \in Seq(Changes)
      /\ \A x \in MovedChanges : \E i \in 1..Len(changed) : changed[i] = x
      /\ \A x \in ClearedChanges : \E i \in 1..Len(cleared) : cleared[i] = x
  <2>1. /\ changed \in Seq(MovedChanges) /\ cleared \in Seq(ClearedChanges)
        /\ \A x \in MovedChanges : \E i \in 1..Len(changed) : changed[i] = x
        /\ \A x \in ClearedChanges : \E i \in 1..Len(cleared) : cleared[i] = x
    BY ChangesOfRun, OrderOfSet
  <2> QED BY <2>1, ChangesOfRun
<1>6. PICK all \in Seq(Changes) : all = changed \o cleared
  BY <1>5, ConcatProperties
<1>7. \A s \in Moved : \E i \in 1..Len(all) : all[i] = Change(s, MovedFrom(s), run.seen[s])
  <2> SUFFICES ASSUME NEW s \in Moved
               PROVE  \E i \in 1..Len(all) : all[i] = Change(s, MovedFrom(s), run.seen[s])
    OBVIOUS
  <2>1. Change(s, MovedFrom(s), run.seen[s]) \in MovedChanges
    BY DEF MovedChanges
  <2>2. PICK i \in 1..Len(changed) : changed[i] = Change(s, MovedFrom(s), run.seen[s])
    BY <1>5, <2>1
  <2>3. i \in 1..Len(all) /\ all[i] = changed[i]
    BY <1>5, <1>6, ConcatProperties
  <2> QED BY <2>2, <2>3
<1>a. \A s \in Cleared : \E i \in 1..Len(all) : all[i] = Change(s, table[s], None)
  <2> SUFFICES ASSUME NEW s \in Cleared
               PROVE  \E i \in 1..Len(all) : all[i] = Change(s, table[s], None)
    OBVIOUS
  <2>1. Change(s, table[s], None) \in ClearedChanges
    BY DEF ClearedChanges
  <2>2. PICK i \in 1..Len(cleared) : cleared[i] = Change(s, table[s], None)
    BY <1>5, <2>1
  <2>3. /\ Len(all) = Len(changed) + Len(cleared) /\ Len(changed) \in Nat /\ Len(cleared) \in Nat
        /\ \A k \in 1..(Len(changed) + Len(cleared)) :
             all[k] = IF k <= Len(changed) THEN changed[k] ELSE cleared[k - Len(changed)]
    BY <1>5, <1>6, ConcatProperties
  <2>4. Len(changed) + i \in 1..Len(all) /\ all[Len(changed) + i] = cleared[i]
    BY <2>3
  <2> QED BY <2>2, <2>4
<1>8. PICK c \in CheckpointRecords : c = TakenUp
  <2>1. j.epoch \in Nat
    BY DEF RunRecords
  <2>2. Fresh(j.epoch) \in CheckpointRecords
    BY <2>1 DEF Fresh, CheckpointRecords
  <2> QED BY <1>0, <2>2 DEF TakenUp, Loaded, Typed
<1>9. PICK C \in SUBSET Stakes : C = IF Blocked(Cleared \cup Reconciled) THEN {} ELSE Cleared \cup Reconciled
  BY <1>3
<1>11. PICK w : w = [j EXCEPT !.full = FALSE, !.failed = {}, !.rows = 0, !.latest = n.latest,
                              !.creates = ToCreate, !.updates = updates, !.clears = C,
                              !.changes = all, !.checkpoint = c]
  OBVIOUS
<1>12. run' = w /\ untold' = untold \cup Pairs(Skipped(all))
  BY <1>0, <1>1, <1>2, <1>6, <1>8, <1>9, <1>11, Zenon
<1>13. w \in RunRecords
  <2>1. FALSE \in BOOLEAN /\ {} \in SUBSET Dreps /\ 0 \in Nat /\ n.latest \in [Stakes -> Delegates]
        /\ c \in [epoch : Nat, creates : BOOLEAN, updates : Nat, changes : Nat]
    BY DEF RunRecords, CheckpointRecords
  <2> QED BY <1>3, <1>4, <1>11, <2>1 DEF RunRecords
<1>14. /\ w.seen = run.seen /\ w.creates = ToCreate /\ w.clears = C /\ w.updates = updates
       /\ w.changes = all /\ w.checkpoint = c /\ w.reads = run.reads
       /\ w.candidates = run.candidates /\ w.undelegated = run.undelegated
  BY <1>0, <1>11 DEF RunRecords
<1> QED
  BY <1>4, <1>7, <1>a, <1>8, <1>9, <1>12, <1>13, <1>14

(* What the steps of a run do to it.  It begins with the DReps to ask. *)
LEMMA BeginIs ==
    ASSUME Typed, Begin
    PROVE  \E j \in RunRecords :
              /\ run' = j /\ j.epoch = epoch /\ j.left = j.target /\ j.failed = {}
              /\ j.full => j.target = listed
              /\ \A s \in Stakes : j.candidates[s] \subseteq {chain[s]}
              /\ \A s \in Batch : s \in Stakes /\ chain[s] \in Dreps => j.candidates[s] = {chain[s]}
              /\ j.undelegated \subseteq known /\ \A s \in j.undelegated : chain[s] = None
              /\ j.reads = {} /\ j.creates = {} /\ j.updates = <<>> /\ j.clears = {}
              /\ j.changes = <<>> /\ j.checkpoint = NoCheckpoint
              /\ \A s \in Stakes : j.latest[s] = None
<1>1. PICK n \in RunRecords : n = NoRun
  BY NoRunTyped
<1>a. PICK full \in BOOLEAN : full = FullDue
  <2>1. FullDue \in BOOLEAN
    BY DEF FullDue
  <2> QED BY <2>1
<1>2. PICK T \in SUBSET Dreps : T = {d \in listed : FullDue \/ ShardOf(d) = shard}
  BY DEF Typed
<1>3. PICK c \in [Stakes -> SUBSET Dreps] :
        c = [s \in Stakes |-> {chain[s]} \cap (IF s \in Batch THEN Dreps ELSE {})]
  <2>1. [s \in Stakes |-> {chain[s]} \cap (IF s \in Batch THEN Dreps ELSE {})]
          \in [Stakes -> SUBSET Dreps]
    OBVIOUS
  <2> QED BY <2>1
<1>4. PICK u \in SUBSET Stakes : u = {s \in Batch : chain[s] = None} /\ u \subseteq known
  BY DEF Typed, Batch, Remaining
<1>5. run' = [n EXCEPT !.full = full, !.epoch = epoch, !.target = T, !.left = T,
                       !.candidates = c, !.undelegated = u]
  BY <1>1, <1>a, <1>2, <1>3, <1>4 DEF Begin
<1>6. PICK e \in Nat : e = epoch
  BY DEF Typed
<1>7. PICK j : j = [n EXCEPT !.full = full, !.epoch = e, !.target = T, !.left = T,
                             !.candidates = c, !.undelegated = u]
  OBVIOUS
<1>8. j \in RunRecords
  BY <1>7 DEF RunRecords
<1>9. /\ j.full = full /\ j.epoch = e /\ j.target = T /\ j.left = T /\ j.candidates = c
      /\ j.undelegated = u /\ j.failed = n.failed /\ j.reads = n.reads /\ j.creates = n.creates
      /\ j.updates = n.updates /\ j.clears = n.clears /\ j.changes = n.changes
      /\ j.checkpoint = n.checkpoint /\ j.latest = n.latest
  BY <1>7 DEF RunRecords
<1>10. /\ n.failed = {} /\ n.reads = {} /\ n.creates = {} /\ n.updates = <<>> /\ n.clears = {}
       /\ n.changes = <<>> /\ n.checkpoint = NoCheckpoint /\ n.latest = [s \in Stakes |-> None]
  BY <1>1 DEF NoRun
<1>11. run' = j
  BY <1>5, <1>6, <1>7
<1>12. /\ \A s \in Stakes : c[s] \subseteq {chain[s]}
       /\ \A s \in Batch : s \in Stakes /\ chain[s] \in Dreps => c[s] = {chain[s]}
  BY <1>3
<1>13. u \subseteq known /\ \A s \in u : chain[s] = None
  BY <1>4
<1>14. \A s \in Stakes : n.latest[s] = None
  BY <1>10
<1>15. full => T = listed
  BY <1>a, <1>2
<1> QED
  BY <1>6, <1>8, <1>9, <1>10, <1>11, <1>12, <1>13, <1>14, <1>15

(* A DRep answers. *)
LEMMA ScanIs ==
    ASSUME Typed, NEW d \in Dreps, Scan(d)
    PROVE  \E j \in RunRecords :
              /\ run' = j /\ j.left = run.left \ {d}
              /\ \A s \in Stakes : j.candidates[s] =
                    IF chain[s] = d THEN run.candidates[s] \cup {d} ELSE run.candidates[s]
              /\ j.full = run.full /\ j.epoch = run.epoch /\ j.target = run.target
              /\ j.failed = run.failed /\ j.undelegated = run.undelegated /\ j.reads = run.reads
              /\ j.creates = run.creates /\ j.updates = run.updates /\ j.clears = run.clears
              /\ j.changes = run.changes /\ j.checkpoint = run.checkpoint /\ j.latest = run.latest
              /\ j.seen = run.seen
<1>0. PICK j \in RunRecords : j = run
  BY DEF Typed
<1>1. PICK m \in Nat : m = j.rows + Cardinality(Delegators(d))
  <2>1. Delegators(d) \in SUBSET Stakes
    BY DEF Delegators
  <2>2. Cardinality(Delegators(d)) \in Nat /\ j.rows \in Nat
    BY <2>1, CountsAreNumbers DEF RunRecords
  <2> QED BY <2>2
<1>2. PICK c \in [Stakes -> SUBSET Dreps] :
        c = [s \in Stakes |-> IF chain[s] = d THEN j.candidates[s] \cup {d} ELSE j.candidates[s]]
  <2>1. [s \in Stakes |-> IF chain[s] = d THEN j.candidates[s] \cup {d} ELSE j.candidates[s]]
          \in [Stakes -> SUBSET Dreps]
    BY DEF RunRecords
  <2> QED BY <2>1
<1>3. PICK w : w = [j EXCEPT !.left = j.left \ {d}, !.rows = m, !.candidates = c]
  OBVIOUS
<1>4. run' = w
  BY <1>0, <1>1, <1>2, <1>3 DEF Scan
<1>5. w \in RunRecords
  BY <1>3 DEF RunRecords
<1>6. /\ w.left = j.left \ {d} /\ w.candidates = c
      /\ w.full = j.full /\ w.epoch = j.epoch /\ w.target = j.target
      /\ w.failed = j.failed /\ w.undelegated = j.undelegated /\ w.reads = j.reads
      /\ w.creates = j.creates /\ w.updates = j.updates /\ w.clears = j.clears
      /\ w.changes = j.changes /\ w.checkpoint = j.checkpoint /\ w.latest = j.latest
      /\ w.seen = j.seen
  BY <1>3 DEF RunRecords
<1>7. \A s \in Stakes : c[s] =
        IF chain[s] = d THEN run.candidates[s] \cup {d} ELSE run.candidates[s]
  BY <1>0, <1>2
<1> QED
  BY <1>0, <1>4, <1>5, <1>6, <1>7

(* A request for a DRep's delegators fails. *)
LEMMA ScanFailsIs ==
    ASSUME Typed, NEW d \in Dreps, ScanFails(d)
    PROVE  \E j \in RunRecords :
              /\ run' = j /\ j.left = run.left \ {d} /\ j.failed = run.failed \cup {d}
              /\ j.candidates = run.candidates
              /\ j.full = run.full /\ j.epoch = run.epoch /\ j.target = run.target
              /\ j.undelegated = run.undelegated /\ j.reads = run.reads
              /\ j.creates = run.creates /\ j.updates = run.updates /\ j.clears = run.clears
              /\ j.changes = run.changes /\ j.checkpoint = run.checkpoint /\ j.latest = run.latest
              /\ j.seen = run.seen
<1>0. PICK j \in RunRecords : j = run
  BY DEF Typed
<1>1. PICK w : w = [j EXCEPT !.left = j.left \ {d}, !.failed = j.failed \cup {d}]
  OBVIOUS
<1>2. run' = w
  BY <1>0, <1>1 DEF ScanFails
<1>3. w \in RunRecords
  BY <1>1 DEF RunRecords
<1>4. /\ w.left = j.left \ {d} /\ w.candidates = j.candidates
      /\ w.full = j.full /\ w.epoch = j.epoch /\ w.target = j.target
      /\ w.failed = j.failed \cup {d} /\ w.undelegated = j.undelegated /\ w.reads = j.reads
      /\ w.creates = j.creates /\ w.updates = j.updates /\ w.clears = j.clears
      /\ w.changes = j.changes /\ w.checkpoint = j.checkpoint /\ w.latest = j.latest
      /\ w.seen = j.seen
  BY <1>1 DEF RunRecords
<1> QED
  BY <1>0, <1>2, <1>3, <1>4

(* The answers are resolved, and the new stake addresses known. *)
LEMMA ResolveIs ==
    ASSUME Typed, Resolve, ~FailsClosed
    PROVE  \E j \in RunRecords :
              /\ run' = j
              /\ \A s \in Stakes : \E history \in BOOLEAN : j.seen[s] \in Winners(s, history)
              /\ known' = known \cup {s \in Stakes : j.seen[s] # Unseen}
              /\ j.reads \subseteq {s \in Stakes : j.seen[s] # Unseen}
              /\ missed \subseteq missed' /\ known' \ known \subseteq j.reads \cup missed'
              /\ \A s \in Stakes : j.candidates[s] = {}
              /\ j.undelegated = {}
              /\ j.full = run.full /\ j.epoch = run.epoch /\ j.failed = run.failed
              /\ j.creates = run.creates /\ j.updates = run.updates /\ j.clears = run.clears
              /\ j.changes = run.changes /\ j.checkpoint = run.checkpoint /\ j.latest = run.latest
<1>0. PICK j \in RunRecords : j = run
  BY DEF Typed
<1>1. PICK n \in RunRecords : n = NoRun /\ \A s \in Stakes : n.candidates[s] = {}
  BY NoRunTyped DEF NoRun
<1>2. PICK history \in BOOLEAN, seen \in [Stakes -> Dreps \cup {None, Unseen}] :
        /\ \A s \in Stakes : seen[s] \in Winners(s, history)
        /\ known' = known \cup {s \in Stakes : seen[s] # Unseen}
        /\ missed' = missed \cup (({s \in Stakes : seen[s] # Unseen} \ known)
                                     \ Reads({s \in Stakes : seen[s] # Unseen}))
        /\ run' = [run EXCEPT !.seen = seen, !.reads = Reads({s \in Stakes : seen[s] # Unseen}),
                              !.job = (First({s \in Stakes : seen[s] # Unseen})
                                         \/ Resumes({s \in Stakes : seen[s] # Unseen}))
                                       /\ {s \in Stakes : seen[s] # Unseen} # {},
                              !.candidates = NoRun.candidates,
                              !.undelegated = {}, !.target = {}]
  BY Zenon DEF Resolve
<1>3. seen \in [Stakes -> Delegates \cup {Unseen}]
  BY DEF Delegates
<1>4. PICK F \in SUBSET Stakes : F = {s \in Stakes : seen[s] # Unseen}
  OBVIOUS
<1>a. PICK R \in SUBSET F : R = Reads(F)
  BY DEF Reads
<1>b. PICK b \in BOOLEAN : b = ((First(F) \/ Resumes(F)) /\ F # {})
  OBVIOUS
<1>5. PICK w : w = [j EXCEPT !.seen = seen, !.reads = R, !.job = b, !.candidates = n.candidates,
                             !.undelegated = {}, !.target = {}]
  OBVIOUS
<1>6. run' = w
  BY <1>0, <1>1, <1>2, <1>4, <1>a, <1>b, <1>5
<1>7. w \in RunRecords
  BY <1>3, <1>5 DEF RunRecords
<1>8. /\ w.seen = seen /\ w.reads = R /\ w.candidates = n.candidates /\ w.undelegated = {}
      /\ w.full = j.full /\ w.epoch = j.epoch /\ w.failed = j.failed
      /\ w.creates = j.creates /\ w.updates = j.updates /\ w.clears = j.clears
      /\ w.changes = j.changes /\ w.checkpoint = j.checkpoint /\ w.latest = j.latest
  BY <1>5 DEF RunRecords
<1>9. missed \subseteq missed' /\ known' \ known \subseteq R \cup missed'
  BY <1>2, <1>4, <1>a
<1> QED
  BY <1>0, <1>1, <1>2, <1>4, <1>6, <1>7, <1>8, <1>9

(* The history of a new stake address is logged. *)
LEMMA BackfillIs ==
    ASSUME Typed, Backfill, \A s \in run.reads : past[s] # <<>>
    PROVE  \E j \in RunRecords, s \in run.reads :
              /\ run' = j /\ j.reads = run.reads \ {s} /\ Tells(History(s)) /\ missed' = missed \ {s}
              /\ j.latest = [run.latest EXCEPT ![s] = Last(past[s])]
              /\ j.candidates = run.candidates /\ j.undelegated = run.undelegated
              /\ j.full = run.full /\ j.epoch = run.epoch /\ j.failed = run.failed
              /\ j.creates = run.creates /\ j.updates = run.updates /\ j.clears = run.clears
              /\ j.changes = run.changes /\ j.checkpoint = run.checkpoint
              /\ j.seen = run.seen
<1>0. PICK j \in RunRecords : j = run
  BY DEF Typed
<1>1. PICK s \in j.reads : s = Min(j.reads)
  <2>1. j.reads \in SUBSET Nat /\ j.reads # {}
    BY <1>0, ParametersAssumption DEF Backfill, RunRecords
  <2> QED BY <2>1, MinIs
<1>2. s \in Stakes /\ Last(past[s]) \in Dreps
  <2>1. s \in Stakes /\ past[s] \in Seq(Dreps) /\ past[s] # <<>>
    BY <1>0 DEF Typed, RunRecords
  <2>2. Len(past[s]) \in 1..Len(past[s])
    BY <2>1
  <2> QED BY <2>1, <2>2 DEF Last
<1>3. PICK l \in [Stakes -> Delegates] : l = [j.latest EXCEPT ![s] = Last(past[s])]
  <2>1. [j.latest EXCEPT ![s] = Last(past[s])] \in [Stakes -> Delegates]
    BY <1>2 DEF RunRecords, Delegates
  <2> QED BY <2>1
<1>4. PICK w : w = [j EXCEPT !.reads = j.reads \ {s}, !.latest = l]
  OBVIOUS
<1>5. run' = w
  <2>1. run' = [j EXCEPT !.reads = j.reads \ {s}, !.latest[s] = Last(past[s])]
    BY <1>0, <1>1 DEF Backfill
  <2>2. [j EXCEPT !.latest[s] = Last(past[s])] = [j EXCEPT !.latest = l]
    BY <1>3 DEF RunRecords
  <2> QED BY <1>3, <1>4, <2>1 DEF RunRecords
<1>6. w \in RunRecords
  BY <1>4 DEF RunRecords
<1>7. /\ w.reads = j.reads \ {s} /\ w.latest = l
      /\ w.candidates = j.candidates /\ w.undelegated = j.undelegated
      /\ w.full = j.full /\ w.epoch = j.epoch /\ w.failed = j.failed
      /\ w.creates = j.creates /\ w.updates = j.updates /\ w.clears = j.clears
      /\ w.changes = j.changes /\ w.checkpoint = j.checkpoint /\ w.seen = j.seen
  BY <1>4 DEF RunRecords
<1>8. Tells(History(s)) /\ missed' = missed \ {s}
  BY <1>0, <1>1 DEF Backfill
<1> QED
  BY <1>0, <1>3, <1>5, <1>6, <1>7, <1>8

(* The first backfill is completed. *)
LEMMA CompletesIs ==
    ASSUME Typed, BackfillCompletes
    PROVE  \E j \in RunRecords :
              /\ run' = j /\ j.reads = run.reads /\ j.latest = run.latest
              /\ j.candidates = run.candidates /\ j.undelegated = run.undelegated
              /\ j.full = run.full /\ j.epoch = run.epoch /\ j.failed = run.failed
              /\ j.creates = run.creates /\ j.updates = run.updates /\ j.clears = run.clears
              /\ j.changes = run.changes /\ j.checkpoint = run.checkpoint
              /\ j.seen = run.seen
<1>0. PICK j \in RunRecords : j = run
  BY DEF Typed
<1>1. PICK w : w = [j EXCEPT !.job = FALSE]
  OBVIOUS
<1>2. run' = w
  BY <1>0, <1>1 DEF BackfillCompletes
<1>3. w \in RunRecords
  BY <1>1 DEF RunRecords
<1>4. /\ w.reads = j.reads /\ w.latest = j.latest
      /\ w.candidates = j.candidates /\ w.undelegated = j.undelegated
      /\ w.full = j.full /\ w.epoch = j.epoch /\ w.failed = j.failed
      /\ w.creates = j.creates /\ w.updates = j.updates /\ w.clears = j.clears
      /\ w.changes = j.changes /\ w.checkpoint = j.checkpoint /\ w.seen = j.seen
  BY <1>1 DEF RunRecords
<1> QED
  BY <1>0, <1>2, <1>3, <1>4

(* A run that writes goes on. *)
GoesOn(j) ==
    /\ j \in RunRecords /\ run' = j
    /\ j.creates = run.creates /\ j.updates = run.updates /\ j.changes = run.changes
    /\ j.seen = run.seen /\ j.reads = run.reads /\ j.latest = run.latest
    /\ j.candidates = run.candidates /\ j.undelegated = run.undelegated

(* It goes on with less to clear or another checkpoint. *)
LEMMA WritesAre ==
    ASSUME Typed,
           Create \/ Update \/ UpdateRow \/ UpdateLegacy \/ (\E s \in Stakes : Clear(s))
             \/ LogChange \/ ForgetRow
    PROVE  \E j : /\ GoesOn(j)
                  /\ j.clears \subseteq run.clears
                  /\ j.checkpoint.changes =
                       IF LogChange THEN run.checkpoint.changes + 1 ELSE run.checkpoint.changes
<1>0. PICK j \in RunRecords : j = run
  BY DEF Typed
<1>1. PICK c \in CheckpointRecords : c = j.checkpoint
  BY DEF RunRecords, CheckpointRecords
<1>2. ASSUME NEW d \in CheckpointRecords, run' = [j EXCEPT !.checkpoint = d]
      PROVE  /\ GoesOn(run') /\ run'.clears = run.clears /\ run'.checkpoint = d
  BY <1>0, <1>2 DEF GoesOn, RunRecords, CheckpointRecords
<1>3. ASSUME run' = run
      PROVE  GoesOn(run') /\ run'.clears = run.clears /\ run'.checkpoint = run.checkpoint
  BY <1>0, <1>3 DEF GoesOn
<1>4. CASE LogChange
  <2>0. PICK n \in Nat : n = c.changes + 1
    BY DEF CheckpointRecords
  <2>1. PICK d \in CheckpointRecords : d = [c EXCEPT !.changes = n]
    BY DEF CheckpointRecords
  <2>2. run' = [j EXCEPT !.checkpoint = d]
    BY <1>0, <1>1, <1>4, <2>0, <2>1 DEF LogChange
  <2>3. d.changes = c.changes + 1
    BY <2>0, <2>1 DEF CheckpointRecords
  <2> QED BY <1>0, <1>1, <1>2, <1>4, <2>2, <2>3
<1>5. CASE Create /\ ~LogChange
  <2>1. PICK d \in CheckpointRecords : d = [c EXCEPT !.creates = TRUE]
    BY DEF CheckpointRecords
  <2>2. run' = [j EXCEPT !.checkpoint = d] \/ run' = run
    BY <1>0, <1>1, <1>5, <2>1 DEF Create
  <2>3. d.changes = c.changes
    BY <2>1 DEF CheckpointRecords
  <2> QED BY <1>0, <1>1, <1>2, <1>3, <1>5, <2>2, <2>3
<1>6. CASE UpdateLegacy /\ ~LogChange
  <2>0. PICK n \in Nat : n = c.updates + 1
    BY DEF CheckpointRecords
  <2>1. PICK d \in CheckpointRecords : d = [c EXCEPT !.updates = n]
    BY DEF CheckpointRecords
  <2>2. run' = [j EXCEPT !.checkpoint = d]
    BY <1>0, <1>1, <1>6, <2>0, <2>1 DEF UpdateLegacy, Updated
  <2>3. d.changes = c.changes
    BY <2>1 DEF CheckpointRecords
  <2> QED BY <1>0, <1>1, <1>2, <1>6, <2>2, <2>3
<1>7. CASE (Update \/ UpdateRow \/ ForgetRow) /\ ~LogChange
  <2>1. run' = run
    BY <1>7 DEF Update, UpdateRow, ForgetRow
  <2> QED BY <1>3, <1>7, <2>1
<1>8. CASE (\E s \in Stakes : Clear(s)) /\ ~LogChange
  <2>1. PICK s \in Stakes : run' = [j EXCEPT !.clears = j.clears \ {s}]
    BY <1>0, <1>8 DEF Clear
  <2>2. GoesOn(run') /\ run'.clears = j.clears \ {s} /\ run'.checkpoint = j.checkpoint
    BY <1>0, <2>1 DEF GoesOn, RunRecords
  <2> QED BY <1>0, <1>8, <2>2
<1> QED
  BY <1>4, <1>5, <1>6, <1>7, <1>8

-------------------------------------------------------------------------------
(* The inductive invariant. *)
Before == {"idle", "scan", "backfill"}
Gone == moved \cup bare

(* Who is known, or was seen to delegate, has a history; a run plans       *)
(* nothing before it has decided, and then only to write what it saw.      *)
Shape ==
    /\ \A s \in Stakes : chain[s] \in Dreps \/ run.candidates[s] # {} \/ s \in known
                            => past[s] # <<>>
    /\ run.undelegated \subseteq known
    /\ run.reads \subseteq known
    /\ pc # "backfill" => run.reads = {}
    /\ \A s \in run.creates : run.seen[s] \in Dreps
    /\ \A i \in 1..Len(run.updates) : run.seen[run.updates[i]] \in Dreps
    /\ pc \in Before => run.creates = {} /\ run.updates = <<>> /\ run.clears = {} /\ run.changes = <<>>
    /\ pc \in {"scan", "backfill"} => run.epoch # 0

(* Of who was to be in an answer, and went nowhere, the answers show the   *)
(* DRep, or the request for it is out or has failed.                       *)
Justified ==
    /\ run.clears \subseteq Gone
    /\ Reading => \A s \in Stakes \ Gone : chain[s] \in Dreps
    /\ pc = "scan" =>
         \A s \in Stakes \ Gone :
            /\ run.candidates[s] \subseteq {chain[s]} /\ s \notin run.undelegated
            /\ run.full => chain[s] \in run.target \cup run.candidates[s]
            /\ chain[s] \in run.target
                 => chain[s] \in run.left \/ chain[s] \in run.failed \/ chain[s] \in run.candidates[s]
    /\ pc = "backfill" =>
         \A s \in Stakes \ Gone :
            /\ run.seen[s] # None
            /\ run.full /\ run.failed = {} => run.seen[s] # Unseen

(* The log tells of a change, or the run has still to write it, or it is   *)
(* a gap.                                                                  *)
Settled(s, d) ==
    \/ Told(s, d)
    \/ <<s, d>> \in untold
    \/ \E i \in 1..Len(run.changes) :
          /\ i > run.checkpoint.changes /\ run.changes[i].stake = s /\ run.changes[i].to = d

Logged ==
    /\ ~Writing => run.checkpoint.changes >= Len(run.changes)
    /\ \A s \in Stakes : table[s] # Absent => Settled(s, table[s])
    /\ \A s \in run.creates : Settled(s, run.seen[s])
    /\ \A i \in 1..Len(run.updates) : Settled(run.updates[i], run.seen[run.updates[i]])
    /\ \A s \in run.clears : run.seen[s] = Unseen \/ Settled(s, None)
    /\ pc \in {"scan", "backfill"} =>
          \A s \in Stakes : run.latest[s] \in Dreps => Told(s, run.latest[s])
    /\ \A s \in known \ (run.reads \cup missed) : Change(s, None, past[s][1]) \in log

DInv == Typed /\ Shape /\ Justified /\ Logged

(* Entries of the log stay, and gaps are closed only by an entry. *)
LEMMA TellsKeeps ==
    ASSUME NEW entries, Tells(entries)
    PROVE  /\ \A s, d : Told(s, d) => Told(s, d)'
           /\ \A s, d : Told(s, d) \/ <<s, d>> \in untold => Told(s, d)' \/ <<s, d>> \in untold'
           /\ \A c \in entries : Told(c.stake, c.to)'
           /\ log \subseteq log' /\ entries \subseteq log'
<1>1. log' = log \cup entries /\ untold' = untold \ Pairs(entries)
  BY DEF Tells
<1>2. \A s, d : Told(s, d) => Told(s, d)'
  BY <1>1 DEF Told
<1>3. \A c \in entries : Told(c.stake, c.to)'
  BY <1>1 DEF Told
<1>4. ASSUME NEW s, NEW d, <<s, d>> \in untold, <<s, d>> \notin untold' PROVE Told(s, d)'
  <2>1. PICK c \in entries : <<s, d>> = <<c.stake, c.to>>
    BY <1>1, <1>4 DEF Pairs
  <2>2. s = c.stake /\ d = c.to
    BY <2>1
  <2> QED BY <1>3, <2>2
<1> QED
  BY <1>1, <1>2, <1>3, <1>4

(* While nothing is planned, a row is told of, or is a gap. *)
LEMMA NothingPending ==
    ASSUME DInv, ~Writing
    PROVE  \A s, d : Settled(s, d) => Told(s, d) \/ <<s, d>> \in untold
<1>1. run.checkpoint.changes >= Len(run.changes)
  BY DEF DInv, Logged
<1>2. run.checkpoint.changes \in Nat /\ Len(run.changes) \in Nat
  BY DEF DInv, Typed, RunRecords
<1>3. \A i \in 1..Len(run.changes) : ~(i > run.checkpoint.changes)
  BY <1>1, <1>2
<1> QED BY <1>3 DEF Settled

-------------------------------------------------------------------------------
(* A run begins in the invariant. *)
LEMMA BeginKeeps == ASSUME DInv, Begin PROVE DInv'
<1>0. Typed /\ Shape /\ Justified /\ Logged
  BY DEF DInv
<1>1. PICK j \in RunRecords :
        /\ run' = j /\ j.epoch = epoch /\ j.left = j.target /\ j.failed = {}
        /\ j.full => j.target = listed
        /\ \A s \in Stakes : j.candidates[s] \subseteq {chain[s]}
        /\ \A s \in Batch : s \in Stakes /\ chain[s] \in Dreps => j.candidates[s] = {chain[s]}
        /\ j.undelegated \subseteq known /\ \A s \in j.undelegated : chain[s] = None
        /\ j.reads = {} /\ j.creates = {} /\ j.updates = <<>> /\ j.clears = {}
        /\ j.changes = <<>> /\ j.checkpoint = NoCheckpoint
        /\ \A s \in Stakes : j.latest[s] = None
  BY <1>0, BeginIs
<1>2. /\ pc = "idle" /\ pc' = "scan"
      /\ row' = (IF row = NoCheckpoint THEN legacy ELSE row)
      /\ bare' = Unasked
      /\ UNCHANGED <<past, chain, epoch, known, table, log, legacy, listed, untold, missed>>
  BY DEF Begin, remote
<1>3. Typed'
  BY <1>0, <1>1, <1>2 DEF Typed
<1>4. Shape'
  <2>1. \A s \in Stakes : j.candidates[s] # {} => chain[s] \in Dreps
    BY <1>1 DEF RunRecords
  <2>2. \A s \in Stakes : chain[s] \in Dreps \/ j.candidates[s] # {} \/ s \in known
                             => past[s] # <<>>
    BY <1>0, <2>1 DEF Shape
  <2>3. Len(j.updates) = 0 /\ j.epoch # 0
    BY <1>0, <1>1 DEF Typed
  <2> QED BY <1>1, <1>2, <2>2, <2>3 DEF Shape, Before
<1>5. Justified'
  <2>1. ASSUME NEW s \in Stakes \ Gone'
        PROVE  chain[s] \in Dreps /\ (chain[s] \in listed \/ s \in Batch)
    <3>1. chain[s] \in listed \/ (chain[s] # None /\ s \in Batch)
      BY <1>2 DEF Gone, Unasked
    <3> QED BY <1>0, <3>1 DEF Typed, Delegates
  <2>2. \A s \in Stakes \ Gone' : s \notin j.undelegated
    BY <1>1, <2>1, ParametersAssumption
  <2>3. \A s \in Stakes \ Gone' : j.full => chain[s] \in j.target \cup j.candidates[s]
    BY <1>1, <2>1
  <2> QED BY <1>1, <1>2, <2>1, <2>2, <2>3 DEF Justified
<1>6. Logged'
  <2>1. \A s, d : Told(s, d) \/ <<s, d>> \in untold => Settled(s, d)'
    BY <1>2 DEF Settled, Told
  <2>2. run.reads = {} /\ ~Writing
    BY <1>0, <1>2 DEF Shape, Writing
  <2>3. \A s \in Stakes : table'[s] # Absent => Settled(s, table[s])'
    BY <1>0, <1>2, <2>1, <2>2, NothingPending DEF Logged
  <2>4. None \notin Dreps /\ Len(j.updates) = 0 /\ Len(j.changes) = 0 /\ j.checkpoint.changes = 0
    BY <1>1, ParametersAssumption DEF NoCheckpoint, Fresh
  <2>5. \A s \in known' \ (j.reads \cup missed') : Change(s, None, past'[s][1]) \in log'
    BY <1>0, <1>1, <1>2, <2>2 DEF Logged
  <2> QED BY <1>1, <1>2, <2>3, <2>4, <2>5 DEF Logged
<1> QED
  BY <1>3, <1>4, <1>5, <1>6 DEF DInv

(* So it does when a DRep answers, or fails to. *)
LEMMA ScanKeeps == ASSUME DInv, NEW d \in Dreps, Scan(d) \/ ScanFails(d) PROVE DInv'
<1>0. Typed /\ Shape /\ Justified /\ Logged
  BY DEF DInv
<1>1. PICK j \in RunRecords :
        /\ run' = j /\ j.left = run.left \ {d}
        /\ \A s \in Stakes :
             \/ j.candidates[s] = run.candidates[s] /\ j.failed = run.failed \cup {d}
             \/ j.candidates[s] = run.candidates[s] /\ j.failed = run.failed /\ chain[s] # d
             \/ j.candidates[s] = run.candidates[s] \cup {d} /\ j.failed = run.failed /\ chain[s] = d
        /\ j.full = run.full /\ j.epoch = run.epoch /\ j.target = run.target
        /\ j.undelegated = run.undelegated /\ j.reads = run.reads
        /\ j.creates = run.creates /\ j.updates = run.updates /\ j.clears = run.clears
        /\ j.changes = run.changes /\ j.checkpoint = run.checkpoint /\ j.latest = run.latest
        /\ j.seen = run.seen
  <2>1. CASE Scan(d)
    <3>1. PICK j \in RunRecords :
              /\ run' = j /\ j.left = run.left \ {d}
              /\ \A s \in Stakes : j.candidates[s] =
                    IF chain[s] = d THEN run.candidates[s] \cup {d} ELSE run.candidates[s]
              /\ j.full = run.full /\ j.epoch = run.epoch /\ j.target = run.target
              /\ j.failed = run.failed /\ j.undelegated = run.undelegated /\ j.reads = run.reads
              /\ j.creates = run.creates /\ j.updates = run.updates /\ j.clears = run.clears
              /\ j.changes = run.changes /\ j.checkpoint = run.checkpoint /\ j.latest = run.latest
              /\ j.seen = run.seen
      BY <1>0, <2>1, ScanIs
    <3> QED BY <3>1
  <2>2. CASE ScanFails(d)
    BY <1>0, <2>2, ScanFailsIs
  <2> QED BY <2>1, <2>2
<1>2. /\ pc = "scan" /\ pc' = "scan"
      /\ UNCHANGED <<past, chain, epoch, known, table, log, row, legacy, listed, moved, bare, untold, missed>>
  BY DEF Scan, ScanFails, remote, stored, progress, ghosts
<1>3. Typed'
  BY <1>0, <1>1, <1>2 DEF Typed
<1>4. Shape'
  <2>1. \A s \in Stakes : j.candidates[s] # {} => run.candidates[s] # {} \/ chain[s] \in Dreps
    BY <1>1
  <2>2. \A s \in Stakes : chain[s] \in Dreps \/ j.candidates[s] # {} \/ s \in known
                             => past[s] # <<>>
    BY <1>0, <2>1 DEF Shape
  <2> QED BY <1>0, <1>1, <1>2, <2>2 DEF Shape
<1>5. Justified'
  <2>1. ASSUME NEW s \in Stakes \ Gone
        PROVE  /\ j.candidates[s] \subseteq {chain[s]} /\ s \notin j.undelegated
               /\ j.full => chain[s] \in j.target \cup j.candidates[s]
               /\ chain[s] \in j.target
                    => chain[s] \in j.left \/ chain[s] \in j.failed \/ chain[s] \in j.candidates[s]
    <3>1. /\ run.candidates[s] \subseteq {chain[s]} /\ s \notin run.undelegated
          /\ run.full => chain[s] \in run.target \cup run.candidates[s]
          /\ chain[s] \in run.target
               => chain[s] \in run.left \/ chain[s] \in run.failed \/ chain[s] \in run.candidates[s]
      BY <1>0, <1>2 DEF Justified
    <3> QED BY <1>1, <3>1
  <2>2. Gone' = Gone /\ Reading' = Reading
    BY <1>2 DEF Gone, Reading
  <2> QED BY <1>0, <1>1, <1>2, <2>1, <2>2 DEF Justified
<1>6. Logged'
  <2>1. \A s, e : Settled(s, e)' = Settled(s, e) /\ Told(s, e)' = Told(s, e)
    BY <1>1, <1>2 DEF Settled, Told
  <2>2. Writing' = Writing
    BY <1>2 DEF Writing
  <2> QED BY <1>0, <1>1, <1>2, <2>1, <2>2 DEF Logged
<1> QED
  BY <1>3, <1>4, <1>5, <1>6 DEF DInv

(* It is kept when a run resolves its answers. *)
LEMMA ResolveKeeps == ASSUME DInv, Resolve, ~FailsClosed PROVE DInv'
<1>0. Typed /\ Shape /\ Justified /\ Logged
  BY DEF DInv
<1>1. PICK j \in RunRecords :
        /\ run' = j
        /\ \A s \in Stakes : \E history \in BOOLEAN : j.seen[s] \in Winners(s, history)
        /\ known' = known \cup {s \in Stakes : j.seen[s] # Unseen}
        /\ j.reads \subseteq {s \in Stakes : j.seen[s] # Unseen}
        /\ missed \subseteq missed' /\ known' \ known \subseteq j.reads \cup missed'
        /\ \A s \in Stakes : j.candidates[s] = {}
        /\ j.undelegated = {}
        /\ j.full = run.full /\ j.epoch = run.epoch /\ j.failed = run.failed
        /\ j.creates = run.creates /\ j.updates = run.updates /\ j.clears = run.clears
        /\ j.changes = run.changes /\ j.checkpoint = run.checkpoint /\ j.latest = run.latest
  BY <1>0, ResolveIs
<1>2. /\ pc = "scan" /\ run.left = {} /\ pc' = "backfill"
      /\ UNCHANGED <<past, chain, epoch, table, log, row, legacy, listed, moved, bare, untold>>
  BY DEF Resolve, remote
<1>3. Typed'
  BY <1>0, <1>1, <1>2 DEF Typed
<1>4. \A s \in Stakes : j.seen[s] # Unseen => run.candidates[s] # {} \/ s \in known
  <2> SUFFICES ASSUME NEW s \in Stakes, j.seen[s] # Unseen, run.candidates[s] = {}
               PROVE  s \in known
    OBVIOUS
  <2>1. j.seen[s] \in {IF s \in run.undelegated THEN None ELSE Unseen}
    BY <1>1 DEF Winners
  <2> QED BY <1>0, <2>1 DEF Shape
<1>5. Shape'
  <2>1. \A s \in Stakes : s \in known' => past[s] # <<>>
    BY <1>0, <1>1, <1>4 DEF Shape
  <2>2. run.reads = {}
    BY <1>0, <1>2 DEF Shape
  <2>3. run.creates = {} /\ run.updates = <<>> /\ run.clears = {} /\ run.changes = <<>>
    BY <1>0, <1>2 DEF Shape, Before
  <2>4. Len(j.updates) = 0
    BY <1>1, <2>3
  <2>5. \A s \in Stakes : chain[s] \in Dreps \/ j.candidates[s] # {} \/ s \in known'
                             => past[s] # <<>>
    BY <1>0, <1>1, <2>1 DEF Shape
  <2> QED BY <1>0, <1>1, <1>2, <2>3, <2>4, <2>5 DEF Shape
<1>6. Justified'
  <2>1. ASSUME NEW s \in Stakes \ Gone
        PROVE  /\ j.seen[s] # None
               /\ j.full /\ j.failed = {} => j.seen[s] # Unseen
    <3>1. /\ run.candidates[s] \subseteq {chain[s]} /\ s \notin run.undelegated
          /\ chain[s] \in run.target
               => chain[s] \in run.left \/ chain[s] \in run.failed \/ chain[s] \in run.candidates[s]
          /\ chain[s] \in Dreps /\ (run.full => chain[s] \in run.target \cup run.candidates[s])
      BY <1>0, <1>2 DEF Justified, Reading
    <3>2. PICK history \in BOOLEAN : j.seen[s] \in Winners(s, history)
      BY <1>1
    <3>3. None \notin Dreps /\ Unseen \notin Dreps /\ None # Unseen
      BY ParametersAssumption DEF None, Unseen
    <3>4. CASE run.candidates[s] = {}
      <4>1. j.seen[s] = Unseen
        BY <3>1, <3>2, <3>4 DEF Winners
      <4>2. ~(j.full /\ j.failed = {})
        BY <1>1, <1>2, <3>1, <3>4
      <4> QED BY <3>3, <4>1, <4>2
    <3>5. CASE run.candidates[s] # {}
      <4>1. j.seen[s] \in run.candidates[s]
        BY <3>2, <3>5 DEF Winners
      <4>2. j.seen[s] \in Dreps
        BY <3>1, <4>1
      <4> QED BY <3>3, <4>2
    <3> QED BY <3>4, <3>5
  <2>2. Gone' = Gone /\ Reading' /\ Reading
    BY <1>2 DEF Gone, Reading
  <2> QED BY <1>0, <1>1, <1>2, <2>1, <2>2 DEF Justified
<1>7. Logged'
  <2>1. \A s, e : Settled(s, e)' = Settled(s, e) /\ Told(s, e)' = Told(s, e)
    BY <1>1, <1>2 DEF Settled, Told
  <2>2. run.creates = {} /\ run.updates = <<>> /\ run.clears = {} /\ run.reads = {}
    BY <1>0, <1>2 DEF Shape, Before
  <2>3. Len(j.updates) = 0 /\ j.creates = {} /\ j.clears = {} /\ ~Writing
    BY <1>1, <1>2, <2>2 DEF Writing
  <2>4. known' \ (j.reads \cup missed') \subseteq known \ (run.reads \cup missed)
    BY <1>1, <2>2
  <2>5. \A s \in known' \ (j.reads \cup missed') : Change(s, None, past[s][1]) \in log
    BY <1>0, <2>4 DEF Logged
  <2>6. /\ run.checkpoint.changes >= Len(run.changes)
        /\ \A s \in Stakes : table[s] # Absent => Settled(s, table[s])
        /\ \A s \in Stakes : run.latest[s] \in Dreps => Told(s, run.latest[s])
    BY <1>0, <1>2, <2>3 DEF Logged
  <2> QED BY <1>1, <1>2, <2>1, <2>3, <2>5, <2>6 DEF Logged
<1> QED
  BY <1>3, <1>5, <1>6, <1>7 DEF DInv

(* It is kept when the history of a new stake address is logged. *)
LEMMA BackfillKeeps == ASSUME DInv, Backfill PROVE DInv'
<1>0. Typed /\ Shape /\ Justified /\ Logged
  BY DEF DInv
<1>a. \A s \in run.reads : s \in Stakes /\ past[s] # <<>> /\ past[s] \in Seq(Dreps)
  BY <1>0 DEF Shape, Typed
<1>1. PICK j \in RunRecords, s \in run.reads :
        /\ run' = j /\ j.reads = run.reads \ {s} /\ Tells(History(s)) /\ missed' = missed \ {s}
        /\ j.latest = [run.latest EXCEPT ![s] = Last(past[s])]
        /\ j.candidates = run.candidates /\ j.undelegated = run.undelegated
        /\ j.full = run.full /\ j.epoch = run.epoch /\ j.failed = run.failed
        /\ j.creates = run.creates /\ j.updates = run.updates /\ j.clears = run.clears
        /\ j.changes = run.changes /\ j.checkpoint = run.checkpoint
        /\ j.seen = run.seen
  BY <1>0, <1>a, BackfillIs
<1>2. /\ pc = "backfill" /\ pc' = "backfill"
      /\ UNCHANGED <<past, chain, epoch, known, table, row, legacy, listed, moved, bare>>
  BY DEF Backfill, remote
<1>3. Typed'
  BY <1>0, <1>1, <1>2 DEF Typed
<1>4. Shape'
  BY <1>0, <1>1, <1>2 DEF Shape
<1>5. Justified'
  BY <1>0, <1>1, <1>2 DEF Justified, Gone, Reading
<1>6. Logged'
  <2>1. /\ \A t, e : Settled(t, e) => Settled(t, e)'
        /\ \A t, e : Told(t, e) => Told(t, e)'
        /\ log \subseteq log'
    BY <1>1, <1>2, TellsKeeps DEF Settled
  <2>2. \A e : e = Last(past[s]) => Told(s, e)'
    <3>1. PICK c \in History(s) : c.stake = s /\ c.to = Last(past[s])
      BY <1>a, LastChange
    <3> QED BY <1>1, <3>1, TellsKeeps
  <2>7. Change(s, None, past[s][1]) \in log'
    <3>1. Change(s, None, past[s][1]) \in History(s)
      BY <1>a, LastChange
    <3> QED BY <1>1, <3>1, TellsKeeps
  <2>3. \A t \in Stakes : j.latest[t] = IF t = s THEN Last(past[s]) ELSE run.latest[t]
    BY <1>0, <1>1 DEF Typed, RunRecords
  <2>4. \A t \in Stakes : j.latest[t] \in Dreps => Told(t, j.latest[t])'
    BY <1>0, <1>2, <2>1, <2>2, <2>3 DEF Logged
  <2>5. \A t \in known \ (j.reads \cup missed') : Change(t, None, past[t][1]) \in log'
    BY <1>0, <1>1, <2>1, <2>7 DEF Logged
  <2>6. /\ run.checkpoint.changes >= Len(run.changes)
        /\ \A t \in Stakes : table[t] # Absent => Settled(t, table[t])
        /\ \A t \in run.creates : Settled(t, run.seen[t])
        /\ \A i \in 1..Len(run.updates) : Settled(run.updates[i], run.seen[run.updates[i]])
        /\ \A t \in run.clears : run.seen[t] = Unseen \/ Settled(t, None)
    BY <1>0, <1>2 DEF Logged, Writing
  <2> QED BY <1>1, <1>2, <2>1, <2>4, <2>5, <2>6 DEF Logged
<1> QED
  BY <1>3, <1>4, <1>5, <1>6 DEF DInv

(* It is kept when the first backfill is completed. *)
LEMMA CompletesKeeps == ASSUME DInv, BackfillCompletes PROVE DInv'
<1>0. Typed /\ Shape /\ Justified /\ Logged
  BY DEF DInv
<1>1. PICK j \in RunRecords :
        /\ run' = j /\ j.reads = run.reads /\ j.latest = run.latest
        /\ j.candidates = run.candidates /\ j.undelegated = run.undelegated
        /\ j.full = run.full /\ j.epoch = run.epoch /\ j.failed = run.failed
        /\ j.creates = run.creates /\ j.updates = run.updates /\ j.clears = run.clears
        /\ j.changes = run.changes /\ j.checkpoint = run.checkpoint
        /\ j.seen = run.seen
  BY <1>0, CompletesIs
<1>2. /\ pc = "backfill" /\ pc' = "backfill"
      /\ UNCHANGED <<past, chain, epoch, known, table, log, row, legacy, listed, moved, bare, untold, missed>>
  BY DEF BackfillCompletes, remote, ghosts
<1>3. Typed'
  BY <1>0, <1>1, <1>2 DEF Typed
<1>4. Shape'
  BY <1>0, <1>1, <1>2 DEF Shape
<1>5. Justified'
  BY <1>0, <1>1, <1>2 DEF Justified, Gone, Reading
<1>6. Logged'
  <2>1. \A s, e : Settled(s, e)' = Settled(s, e) /\ Told(s, e)' = Told(s, e)
    BY <1>1, <1>2 DEF Settled, Told
  <2> QED BY <1>0, <1>1, <1>2, <2>1 DEF Logged, Writing
<1> QED
  BY <1>3, <1>4, <1>5, <1>6 DEF DInv

(* It is kept when a run decides what to write. *)
LEMMA DecideKeeps ==
    ASSUME DInv, NEW restless \in SUBSET Unchanged, Decide(restless) PROVE DInv'
<1>0. Typed /\ Shape /\ Justified /\ Logged
  BY DEF DInv
<1>1. PICK j \in RunRecords :
        /\ run' = j /\ j.seen = run.seen /\ j.creates = ToCreate
        /\ j.clears \subseteq Cleared \cup Reconciled
        /\ \A i \in 1..Len(j.updates) : j.updates[i] \in Stale \cup restless
        /\ \A s \in Moved : \E i \in 1..Len(j.changes) :
              j.changes[i] = Change(s, MovedFrom(s), run.seen[s])
        /\ \A s \in Cleared : \E i \in 1..Len(j.changes) :
              j.changes[i] = Change(s, table[s], None)
        /\ untold' = untold \cup Pairs(Skipped(j.changes))
        /\ j.checkpoint = TakenUp /\ j.reads = run.reads
        /\ j.candidates = run.candidates /\ j.undelegated = run.undelegated
  BY <1>0, DecisionIs
<1>2. /\ pc = "backfill" /\ pc' = "creates" /\ run.reads = {} /\ row' = TakenUp
      /\ moved' = moved \cap (Cleared \cup Reconciled)
      /\ bare' = bare \cap (Cleared \cup Reconciled)
      /\ listed' = listed \cup {run.seen[s] : s \in ToCreate \cup Stale}
      /\ UNCHANGED <<past, chain, epoch, known, table, log, legacy, missed>>
  BY DEF Decide, remote
<1>3. Typed'
  <2>1. j.checkpoint \in CheckpointRecords
    BY DEF RunRecords, CheckpointRecords
  <2>2. listed' \subseteq Dreps
    BY <1>0, <1>2 DEF Typed, ToCreate, Stale, Tracked
  <2> QED BY <1>0, <1>1, <1>2, <2>1, <2>2 DEF Typed
<1>4. Shape'
  <2>1. \A s \in ToCreate \cup Stale \cup restless : run.seen[s] \in Dreps
    BY DEF ToCreate, Stale, Unchanged, Tracked
  <2>2. \A s \in j.creates : j.seen[s] \in Dreps
    BY <1>1, <2>1
  <2>3. \A i \in 1..Len(j.updates) : j.seen[j.updates[i]] \in Dreps
    BY <1>1, <2>1
  <2> QED BY <1>0, <1>1, <1>2, <2>2, <2>3 DEF Shape, Before
<1>5. Justified'
  <2>1. Cleared \cup Reconciled \subseteq Gone
    <3>1. ASSUME NEW s \in Cleared \cup Reconciled, s \notin Gone PROVE FALSE
      <4>1. s \in Stakes \ Gone /\ (run.seen[s] = None \/ run.seen[s] = Unseen)
            /\ (run.seen[s] = Unseen => run.full /\ run.failed = {})
        BY <3>1, ParametersAssumption DEF Cleared, Reconciled, Active, None, Unseen
      <4> QED BY <1>0, <1>2, <4>1 DEF Justified
    <3> QED BY <3>1
  <2>2. j.clears \subseteq Gone'
    BY <1>1, <1>2, <2>1 DEF Gone
  <2> QED BY <1>1, <1>2, <2>2 DEF Justified, Reading
<1>6. Logged'
  <2>1. \A s, e : Told(s, e) \/ <<s, e>> \in untold => Settled(s, e)'
    BY <1>1, <1>2 DEF Settled, Told
  <2>2. ASSUME NEW s, NEW e, NEW i \in 1..Len(j.changes),
               j.changes[i].stake = s, j.changes[i].to = e
        PROVE  Settled(s, e)'
    <3>1. CASE i > j.checkpoint.changes
      BY <1>1, <2>2, <3>1 DEF Settled
    <3>2. CASE ~(i > j.checkpoint.changes)
      <4>1. j.checkpoint.changes \in Nat /\ i \in DOMAIN j.changes
        BY DEF RunRecords
      <4>2. i \in 1..TakenUp.changes
        BY <1>1, <3>2, <4>1
      <4>3. j.changes[i] \in Skipped(j.changes)
        BY <4>1, <4>2 DEF Skipped
      <4>4. <<j.changes[i].stake, j.changes[i].to>> \in Pairs(Skipped(j.changes))
        BY <4>3 DEF Pairs
      <4>5. <<s, e>> \in untold'
        BY <1>1, <2>2, <4>4
      <4> QED BY <4>5 DEF Settled
    <3> QED BY <3>1, <3>2
  <2>3. ~Writing /\ Writing'
    BY <1>2 DEF Writing
  <2>4. ASSUME NEW s \in Stakes, NEW e, e = table[s], e # Absent PROVE Settled(s, e)'
    <3>1. Settled(s, e)
      BY <1>0, <2>4 DEF Logged
    <3>2. Told(s, e) \/ <<s, e>> \in untold
      BY <2>3, <3>1, NothingPending
    <3> QED BY <2>1, <3>2
  <2>5. \A s \in Stakes : (table[s] # Absent => Settled(s, table[s]))'
    BY <1>2, <2>4
  <2>6. ASSUME NEW s \in ToCreate \cup Stale \cup restless, NEW e, e = run.seen[s]
        PROVE  Settled(s, e)'
    <3>1. CASE s \in Moved
      <4>1. PICK i \in 1..Len(j.changes) : j.changes[i] = Change(s, MovedFrom(s), run.seen[s])
        BY <1>1, <3>1
      <4>2. j.changes[i].stake = s /\ j.changes[i].to = e
        BY <2>6, <4>1 DEF Change
      <4> QED BY <2>2, <4>2
    <3>2. CASE s \notin Moved
      <4>1. CASE s \in ToCreate \cup Stale
        <5>1. run.latest[s] = run.seen[s] /\ run.seen[s] \in Dreps /\ s \in Stakes
          BY <3>2, <4>1 DEF Moved, ToCreate, Stale, Tracked
        <5>2. Told(s, run.seen[s])
          BY <1>0, <1>2, <5>1 DEF Logged
        <5> QED BY <2>1, <2>6, <5>2
      <4>2. CASE s \in restless
        <5>1. s \in Stakes /\ e = table[s] /\ e # Absent
          BY <2>6, <4>2, ParametersAssumption DEF Unchanged, Tracked
        <5> QED BY <2>4, <5>1
      <4> QED BY <4>1, <4>2
    <3> QED BY <3>1, <3>2
  <2>7. \A s \in j.creates : Settled(s, j.seen[s])'
    BY <1>1, <2>6
  <2>8. \A i \in 1..Len(j.updates) : Settled(j.updates[i], j.seen[j.updates[i]])'
    BY <1>1, <2>6
  <2>9. ASSUME NEW s \in j.clears PROVE j.seen[s] = Unseen \/ Settled(s, None)'
    <3>1. CASE s \in Reconciled
      BY <1>1, <3>1 DEF Reconciled
    <3>2. CASE s \in Cleared
      <4>1. PICK i \in 1..Len(j.changes) : j.changes[i] = Change(s, table[s], None)
        BY <1>1, <3>2
      <4>2. j.changes[i].stake = s /\ j.changes[i].to = None
        BY <4>1 DEF Change
      <4> QED BY <2>2, <4>2
    <3> QED BY <1>1, <3>1, <3>2
  <2>10. \A s \in known \ (j.reads \cup missed) : Change(s, None, past[s][1]) \in log
    BY <1>0, <1>1 DEF Logged
  <2> QED BY <1>1, <1>2, <2>3, <2>4, <2>7, <2>8, <2>9, <2>10 DEF Logged
<1> QED
  BY <1>3, <1>4, <1>5, <1>6 DEF DInv

(* Once all is written, the run ends; or it fails, or is stopped, before. *)
LEMMA EndKeeps ==
    ASSUME DInv, Ends, UNCHANGED <<past, chain, epoch, known, table, log, listed>>,
           row' = row, legacy' \in {legacy, NoCheckpoint},
           \/ pc \in {"scan", "forget"} /\ UNCHANGED <<untold, missed>>
           \/ /\ untold' = untold \cup Pairs({c \in Pending : table[c.stake] = c.to})
              /\ missed' = missed \cup run.reads
    PROVE  DInv'
<1>0. Typed /\ Shape /\ Justified /\ Logged
  BY DEF DInv
<1>1. PICK j \in RunRecords :
        /\ run' = j /\ pc' = "idle" /\ moved' = {} /\ bare' = {}
        /\ j.reads = {} /\ j.undelegated = {} /\ j.creates = {} /\ j.updates = <<>>
        /\ j.clears = {} /\ j.changes = <<>> /\ j.candidates = [s \in Stakes |-> {}]
        /\ j.checkpoint.changes = 0
  BY NoRunTyped DEF Ends, NoRun, NoCheckpoint, Fresh
<1>2. Len(j.updates) = 0 /\ Len(j.changes) = 0
  BY <1>1
<1>3. Typed'
  <2>1. row' \in CheckpointRecords /\ legacy' \in CheckpointRecords
    BY <1>0, NoRunTyped DEF Typed
  <2> QED BY <1>0, <1>1, <2>1 DEF Typed
<1>4. Shape'
  <2>1. \A s \in Stakes : chain[s] \in Dreps \/ j.candidates[s] # {} \/ s \in known
                             => past[s] # <<>>
    BY <1>0, <1>1 DEF Shape
  <2> QED BY <1>0, <1>1, <1>2, <2>1 DEF Shape
<1>5. Justified'
  BY <1>1 DEF Justified, Reading
<1>6. Logged'
  <2>1. ASSUME NEW s \in Stakes, table[s] # Absent PROVE Settled(s, table[s])'
    <3>1. Settled(s, table[s])
      BY <1>0, <2>1 DEF Logged
    <3>2. CASE Told(s, table[s]) \/ <<s, table[s]>> \in untold
      BY <3>2 DEF Settled, Told
    <3>3. CASE ~(Told(s, table[s]) \/ <<s, table[s]>> \in untold)
      <4>1. Writing
        BY <3>1, <3>3, NothingPending
      <4>2. untold' = untold \cup Pairs({c \in Pending : table[c.stake] = c.to})
        BY <4>1 DEF Writing
      <4>3. PICK i \in 1..Len(run.changes) :
              /\ i > run.checkpoint.changes
              /\ run.changes[i].stake = s /\ run.changes[i].to = table[s]
        BY <3>1, <3>3 DEF Settled
      <4>4. i \in DOMAIN run.changes
        BY <1>0 DEF Typed, RunRecords
      <4>5. run.changes[i] \in {c \in Pending : table[c.stake] = c.to}
        BY <4>3, <4>4 DEF Pending
      <4>6. <<run.changes[i].stake, run.changes[i].to>>
              \in Pairs({c \in Pending : table[c.stake] = c.to})
        BY <4>5 DEF Pairs
      <4>7. <<s, table[s]>> \in untold'
        BY <4>2, <4>3, <4>6
      <4> QED BY <4>7 DEF Settled
    <3> QED BY <3>2, <3>3
  <2>2. \A s \in known \ missed' : Change(s, None, past[s][1]) \in log
    <3>1. known \ missed' \subseteq known \ (run.reads \cup missed)
      BY <1>0 DEF Shape
    <3> QED BY <1>0, <3>1 DEF Logged
  <2> QED BY <1>1, <1>2, <2>1, <2>2 DEF Logged
<1> QED
  BY <1>3, <1>4, <1>5, <1>6 DEF DInv

(* A run that writes: what becomes of the table, the log and the           *)
(* checkpoints.                                                             *)
LEMMA TablesAre ==
    ASSUME Typed, Shape,
           Create \/ Update \/ UpdateRow \/ UpdateLegacy \/ (\E s \in Stakes : Clear(s))
             \/ LogChange \/ ForgetRow
    PROVE  /\ row' \in CheckpointRecords /\ legacy' \in CheckpointRecords
           /\ table' \in [Stakes -> Delegates \cup {Absent}]
           /\ \A s \in Stakes :
                \/ table'[s] = table[s]
                \/ table'[s] = run.seen[s] /\ s \in run.creates
                \/ table'[s] = run.seen[s] /\ \E i \in 1..Len(run.updates) : run.updates[i] = s
                \/ /\ table'[s] = None /\ s \in run.clears
                   /\ run.seen[s] = Unseen => <<s, None>> \in untold'
           /\ log \subseteq log'
           /\ \A s, d : Told(s, d) \/ <<s, d>> \in untold => Told(s, d)' \/ <<s, d>> \in untold'
           /\ LogChange => /\ run.checkpoint.changes + 1 \in 1..Len(run.changes)
                           /\ run.changes[run.checkpoint.changes + 1] \in log'
           /\ pc \notin Before /\ pc' \notin Before
           /\ UNCHANGED <<past, chain, epoch, known, listed, moved, bare, missed>>
           /\ ~Writing' => run.checkpoint.changes >= Len(run.changes) /\ ~LogChange
<1>0. PICK j \in RunRecords : j = run
  BY DEF Typed
<1>1. PICK c \in CheckpointRecords : c = j.checkpoint
  BY DEF RunRecords, CheckpointRecords
<1>2. PICK t \in [Stakes -> Delegates \cup {Absent}] : t = table
  BY DEF Typed
<1>3. row \in CheckpointRecords /\ legacy \in CheckpointRecords
  BY DEF Typed
<1>4. CASE Create
  <2>1. PICK d \in CheckpointRecords : d = [c EXCEPT !.creates = TRUE]
    BY DEF CheckpointRecords
  <2>2. \/ /\ row' = d /\ legacy' = d
           /\ table' = [s \in Stakes |-> IF s \in run.creates THEN run.seen[s] ELSE table[s]]
        \/ UNCHANGED <<table, row, legacy>>
    BY <1>0, <1>1, <1>4, <2>1 DEF Create
  <2>3. /\ pc = "creates" /\ pc' = "apply" /\ log' = log
        /\ UNCHANGED <<past, chain, epoch, known, listed, moved, bare, untold, missed>>
    BY <1>4 DEF Create, remote, progress, ghosts
  <2>4. \A s \in run.creates : run.seen[s] \in Delegates \cup {Absent}
    BY DEF Shape, Delegates
  <2>5. table' \in [Stakes -> Delegates \cup {Absent}]
    BY <1>2, <2>2, <2>4
  <2>6. \A s \in Stakes : \/ table'[s] = table[s]
                          \/ table'[s] = run.seen[s] /\ s \in run.creates
    BY <2>2
  <2>7. ~LogChange
    BY <2>3 DEF LogChange
  <2> QED BY <1>3, <2>1, <2>2, <2>3, <2>5, <2>6, <2>7 DEF Before, Writing, Told
<1>5. CASE Update
  <2>1. PICK i \in 1..Len(run.updates) : i = run.checkpoint.updates + 1
    <3>1. run.checkpoint.updates \in Nat /\ Len(run.updates) \in Nat
      BY <1>0 DEF RunRecords
    <3> QED BY <1>5, <3>1 DEF Update, UpdatesOver
  <2>2. PICK s \in Stakes : s = run.updates[i] /\ run.seen[s] \in Dreps
    BY <1>0, <2>1 DEF RunRecords, Shape
  <2>3. table' = [t EXCEPT ![s] = run.seen[s]]
    BY <1>2, <1>5, <2>1, <2>2 DEF Update
  <2>4. /\ pc = "apply" /\ pc' = "updateRow" /\ log' = log
        /\ UNCHANGED <<past, chain, epoch, known, listed, moved, bare, untold, missed, row, legacy>>
    BY <1>5 DEF Update, remote, progress, ghosts
  <2>5. table' \in [Stakes -> Delegates \cup {Absent}]
    BY <2>2, <2>3 DEF Delegates
  <2>6. \A u \in Stakes : \/ table'[u] = table[u]
                          \/ table'[u] = run.seen[u] /\ u = s
    <3>1. \A u \in Stakes : table'[u] = IF u = s THEN run.seen[s] ELSE t[u]
      BY <2>3
    <3> QED BY <1>2, <3>1
  <2>7. ~LogChange
    BY <1>5 DEF LogChange, Update
  <2> QED BY <1>3, <2>1, <2>2, <2>4, <2>5, <2>6, <2>7 DEF Before, Writing, Told
<1>6. CASE UpdateRow \/ UpdateLegacy
  <2>0. PICK n \in Nat : n = c.updates + 1
    BY DEF CheckpointRecords
  <2>1. PICK d \in CheckpointRecords : d = [c EXCEPT !.updates = n]
    BY DEF CheckpointRecords
  <2>2. Updated = d
    BY <1>0, <1>1, <2>0, <2>1 DEF Updated
  <2>3. /\ pc \in {"updateRow", "updateLegacy"} /\ pc' \in {"updateLegacy", "apply"}
        /\ (row' = d \/ row' = row) /\ (legacy' = d \/ legacy' = legacy)
        /\ UNCHANGED <<past, chain, epoch, known, listed, table, log, moved, bare, untold, missed>>
    BY <1>6, <2>2 DEF UpdateRow, UpdateLegacy, remote, progress, ghosts
  <2>4. ~LogChange
    BY <2>3 DEF LogChange
  <2> QED BY <1>2, <1>3, <2>1, <2>3, <2>4 DEF Before, Writing, Told
<1>7. CASE \E s \in Stakes : Clear(s)
  <2>1. PICK s \in Stakes : Clear(s)
    BY <1>7
  <2>2. table' = [t EXCEPT ![s] = IF t[s] = Absent THEN t[s] ELSE None] /\ s \in run.clears
    BY <1>2, <2>1 DEF Clear
  <2>3. /\ pc = "apply" /\ pc' = "apply" /\ log' = log
        /\ UNCHANGED <<past, chain, epoch, known, listed, moved, bare, missed, row, legacy>>
        /\ untold' = (IF run.seen[s] = Unseen THEN untold \cup {<<s, None>>} ELSE untold)
    BY <2>1 DEF Clear, remote, progress, ghosts
  <2>4. table' \in [Stakes -> Delegates \cup {Absent}]
    BY <2>2 DEF Delegates
  <2>5. \A u \in Stakes : \/ table'[u] = table[u]
                          \/ /\ table'[u] = None /\ u \in run.clears
                             /\ run.seen[u] = Unseen => <<u, None>> \in untold'
    <3>1. PICK e : e = IF t[s] = Absent THEN t[s] ELSE None
      OBVIOUS
    <3>2. \A u \in Stakes : table'[u] = IF u = s THEN e ELSE t[u]
      BY <2>2, <3>1
    <3> QED BY <1>2, <2>2, <2>3, <3>1, <3>2
  <2>6. ~LogChange
    BY <2>1 DEF LogChange, Clear
  <2> QED BY <1>3, <2>3, <2>4, <2>5, <2>6 DEF Before, Writing, Told
<1>8. CASE LogChange
  <2>0. PICK n \in Nat : n = c.changes + 1
    BY DEF CheckpointRecords
  <2>1. PICK d \in CheckpointRecords : d = [c EXCEPT !.changes = n]
    BY DEF CheckpointRecords
  <2>6. d.changes = n
    BY <2>1 DEF CheckpointRecords
  <2>2. row' = d /\ legacy' = d /\ Tells({run.changes[d.changes]})
    BY <1>0, <1>1, <1>8, <2>0, <2>1, <2>6 DEF LogChange
  <2>3. /\ pc = "apply" /\ pc' = "apply"
        /\ UNCHANGED <<past, chain, epoch, known, listed, table, moved, bare, missed>>
    BY <1>8 DEF LogChange, remote, progress, ghosts
  <2>4. run.checkpoint.changes + 1 \in 1..Len(run.changes)
    <3>1. run.checkpoint.changes \in Nat /\ Len(run.changes) \in Nat
      BY <1>0 DEF RunRecords
    <3> QED BY <1>8, <3>1 DEF LogChange, ChangesOver
  <2>5. /\ run.changes[run.checkpoint.changes + 1] \in log' /\ log \subseteq log'
        /\ \A s, e : Told(s, e) \/ <<s, e>> \in untold => Told(s, e)' \/ <<s, e>> \in untold'
    BY <1>0, <1>1, <2>0, <2>2, <2>6, TellsKeeps
  <2> QED BY <1>2, <2>1, <2>2, <2>3, <2>4, <2>5 DEF Before, Writing
<1>9. CASE ForgetRow
  <2>1. /\ pc = "apply" /\ pc' = "forget" /\ row' = NoCheckpoint /\ ChangesOver
        /\ UNCHANGED <<past, chain, epoch, known, listed, table, log, legacy, moved, bare, untold, missed>>
    BY <1>9 DEF ForgetRow, remote, progress, ghosts
  <2>2. ~LogChange
    BY <2>1 DEF LogChange
  <2> QED BY <1>2, <1>3, <2>1, <2>2, NoRunTyped DEF Before, Writing, Told, ChangesOver
<1> QED
  BY <1>4, <1>5, <1>6, <1>7, <1>8, <1>9

(* The invariant is kept when a run writes. *)
LEMMA WritesKeep ==
    ASSUME DInv,
           Create \/ Update \/ UpdateRow \/ UpdateLegacy \/ (\E s \in Stakes : Clear(s))
             \/ LogChange \/ ForgetRow
    PROVE  DInv'
<1>0. Typed /\ Shape /\ Justified /\ Logged
  BY DEF DInv
<1>1. PICK j \in RunRecords :
        /\ run' = j
        /\ j.creates = run.creates /\ j.updates = run.updates /\ j.changes = run.changes
        /\ j.seen = run.seen /\ j.reads = run.reads /\ j.latest = run.latest
        /\ j.candidates = run.candidates /\ j.undelegated = run.undelegated
        /\ j.clears \subseteq run.clears
        /\ j.checkpoint.changes =
             IF LogChange THEN run.checkpoint.changes + 1 ELSE run.checkpoint.changes
  <2>1. PICK i : /\ GoesOn(i)
                 /\ i.clears \subseteq run.clears
                 /\ i.checkpoint.changes =
                      IF LogChange THEN run.checkpoint.changes + 1 ELSE run.checkpoint.changes
    BY <1>0, WritesAre
  <2> QED BY <2>1 DEF GoesOn
<1>2. /\ row' \in CheckpointRecords /\ legacy' \in CheckpointRecords
      /\ table' \in [Stakes -> Delegates \cup {Absent}]
      /\ \A s \in Stakes :
           \/ table'[s] = table[s]
           \/ table'[s] = run.seen[s] /\ s \in run.creates
           \/ table'[s] = run.seen[s] /\ \E i \in 1..Len(run.updates) : run.updates[i] = s
           \/ /\ table'[s] = None /\ s \in run.clears
              /\ run.seen[s] = Unseen => <<s, None>> \in untold'
      /\ log \subseteq log'
      /\ \A s, d : Told(s, d) \/ <<s, d>> \in untold => Told(s, d)' \/ <<s, d>> \in untold'
      /\ LogChange => /\ run.checkpoint.changes + 1 \in 1..Len(run.changes)
                      /\ run.changes[run.checkpoint.changes + 1] \in log'
      /\ pc \notin Before /\ pc' \notin Before
      /\ UNCHANGED <<past, chain, epoch, known, listed, moved, bare, missed>>
      /\ ~Writing' => run.checkpoint.changes >= Len(run.changes) /\ ~LogChange
  BY <1>0, TablesAre
<1>3. Typed'
  BY <1>0, <1>1, <1>2 DEF Typed
<1>4. Shape'
  BY <1>0, <1>1, <1>2 DEF Shape, Before
<1>5. Justified'
  BY <1>0, <1>1, <1>2 DEF Justified, Gone, Reading, Before
<1>6. Logged'
  <2>1. ASSUME NEW s, NEW d, Settled(s, d) PROVE Settled(s, d)'
    <3>1. Told(s, d) \/ <<s, d>> \in untold => Settled(s, d)'
      BY <1>2 DEF Settled
    <3>2. ASSUME NEW i \in 1..Len(run.changes), i > run.checkpoint.changes,
                 run.changes[i].stake = s, run.changes[i].to = d
          PROVE  Settled(s, d)'
      <4>1. CASE i > j.checkpoint.changes
        BY <1>1, <3>2, <4>1 DEF Settled
      <4>2. CASE ~(i > j.checkpoint.changes)
        <5>1. run.checkpoint.changes \in Nat
          BY <1>0 DEF Typed, RunRecords
        <5>2. LogChange /\ i = run.checkpoint.changes + 1
          BY <1>1, <3>2, <4>2, <5>1
        <5> QED BY <1>2, <3>2, <5>2 DEF Settled, Told
      <4> QED BY <4>1, <4>2
    <3> QED BY <2>1, <3>1, <3>2 DEF Settled
  <2>2. ASSUME NEW s \in Stakes, NEW e, e = table'[s], e # Absent PROVE Settled(s, e)'
    <3>1. CASE table'[s] = table[s]
      <4>1. Settled(s, e)
        BY <1>0, <2>2, <3>1 DEF Logged
      <4> QED BY <2>1, <4>1
    <3>2. CASE /\ table'[s] = run.seen[s]
               /\ s \in run.creates \/ \E i \in 1..Len(run.updates) : run.updates[i] = s
      <4>1. Settled(s, e)
        BY <1>0, <2>2, <3>2 DEF Logged
      <4> QED BY <2>1, <4>1
    <3>3. CASE /\ table'[s] = None /\ s \in run.clears
               /\ run.seen[s] = Unseen => <<s, None>> \in untold'
      <4>1. CASE run.seen[s] = Unseen
        BY <2>2, <3>3, <4>1 DEF Settled
      <4>2. CASE run.seen[s] # Unseen
        <5>1. Settled(s, e)
          BY <1>0, <2>2, <3>3, <4>2 DEF Logged
        <5> QED BY <2>1, <5>1
      <4> QED BY <4>1, <4>2
    <3> QED BY <1>2, <3>1, <3>2, <3>3
  <2>3. \A s \in Stakes : (table[s] # Absent => Settled(s, table[s]))'
    BY <2>2
  <2>4. \A s \in j.creates : Settled(s, j.seen[s])'
    BY <1>0, <1>1, <2>1 DEF Logged
  <2>5. \A i \in 1..Len(j.updates) : Settled(j.updates[i], j.seen[j.updates[i]])'
    BY <1>0, <1>1, <2>1 DEF Logged
  <2>6. \A s \in j.clears : j.seen[s] = Unseen \/ Settled(s, None)'
    BY <1>0, <1>1, <2>1 DEF Logged
  <2>7. \A s \in known \ (j.reads \cup missed) : Change(s, None, past[s][1]) \in log'
    BY <1>0, <1>1, <1>2 DEF Logged
  <2>8. ~Writing' => j.checkpoint.changes >= Len(j.changes)
    BY <1>1, <1>2
  <2> QED BY <1>1, <1>2, <2>3, <2>4, <2>5, <2>6, <2>7, <2>8 DEF Logged, Before
<1> QED
  BY <1>3, <1>4, <1>5, <1>6 DEF DInv

(* Delegations change while a run reads, or does not. *)
LEMMA MoveKeeps ==
    ASSUME DInv, NEW s \in Stakes, NEW d \in Dreps \cup {None}, Move(s, d)
    PROVE  DInv'
<1>0. Typed /\ Shape /\ Justified /\ Logged
  BY DEF DInv
<1>1. /\ chain' = [chain EXCEPT ![s] = d]
      /\ past' = [past EXCEPT ![s] = IF d = None THEN @ ELSE Append(@, d)]
      /\ moved' = (IF Reading THEN moved \cup {s} ELSE moved)
      /\ UNCHANGED <<epoch, known, table, log, row, legacy, listed, pc, run, bare, untold, missed>>
  BY DEF Move, stored, progress
<1>2. PICK p \in Seq(Dreps) : p = past[s]
  BY <1>0 DEF Typed
<1>3. PICK q \in Seq(Dreps) : /\ q = IF d = None THEN p ELSE Append(p, d)
                              /\ (d # None \/ p # <<>> => q # <<>>)
                              /\ (p # <<>> => q[1] = p[1])
  <2>1. CASE d = None
    BY <2>1
  <2>2. CASE d # None
    <3>0. PICK e \in Dreps : e = d
      BY <2>2
    <3>1. Append(p, e) \in Seq(Dreps) /\ Len(Append(p, e)) = Len(p) + 1
          /\ \A i \in 1..Len(p) : Append(p, e)[i] = p[i]
      OBVIOUS
    <3>2. Append(p, e) # <<>>
      <4>1. Len(p) \in Nat /\ Len(<<>>) = 0
        OBVIOUS
      <4>2. Len(Append(p, e)) # 0
        BY <3>1, <4>1
      <4> QED BY <4>1, <4>2
    <3>3. p # <<>> => 1 \in 1..Len(p)
      OBVIOUS
    <3> QED BY <2>2, <3>0, <3>1, <3>2, <3>3
  <2> QED BY <2>1, <2>2
<1>4. past' = [past EXCEPT ![s] = q]
  BY <1>1, <1>2, <1>3
<1>5. \A t \in Stakes : /\ past'[t] = IF t = s THEN q ELSE past[t]
                        /\ chain'[t] = IF t = s THEN d ELSE chain[t]
  BY <1>0, <1>1, <1>4 DEF Typed
<1>6. Typed'
  BY <1>0, <1>1, <1>4 DEF Typed, Delegates
<1>7. Shape'
  <2>1. \A t \in Stakes : chain'[t] \in Dreps \/ run.candidates[t] # {} \/ t \in known
                             => past'[t] # <<>>
    BY <1>0, <1>2, <1>3, <1>5, ParametersAssumption DEF Shape
  <2> QED BY <1>0, <1>1, <2>1 DEF Shape
<1>8. Justified'
  <2>1. Gone \subseteq Gone' /\ (Reading => s \in Gone') /\ Reading' = Reading
    BY <1>1 DEF Gone, Reading
  <2>2. \A t \in Stakes \ Gone' : Reading => chain'[t] = chain[t] /\ t \in Stakes \ Gone
    BY <1>5, <2>1
  <2>3. pc = "scan" \/ pc = "backfill" => Reading
    BY DEF Reading
  <2> QED BY <1>0, <1>1, <2>1, <2>2, <2>3 DEF Justified
<1>9. Logged'
  <2>1. \A t, e : Settled(t, e)' = Settled(t, e) /\ Told(t, e)' = Told(t, e)
    BY <1>1 DEF Settled, Told
  <2>2. \A t \in known : past'[t][1] = past[t][1]
    BY <1>0, <1>2, <1>3, <1>5 DEF Shape, Typed
  <2>3. \A t \in known \ (run.reads \cup missed) : Change(t, None, past'[t][1]) \in log
    BY <1>0, <2>2 DEF Logged
  <2> QED BY <1>0, <1>1, <2>1, <2>3 DEF Logged, Writing
<1> QED
  BY <1>6, <1>7, <1>8, <1>9 DEF DInv

(* Nothing that matters to it happens. *)
LEMMA StaysKeep ==
    ASSUME DInv, epoch' \in Nat \ {0}, listed' \subseteq Dreps,
           UNCHANGED <<past, chain, known, table, log, row, legacy, pc, run, ghosts>>
    PROVE  DInv'
<1>0. UNCHANGED <<moved, bare, untold, missed>>
  BY DEF ghosts
<1>1. \A t, e : Settled(t, e)' = Settled(t, e) /\ Told(t, e)' = Told(t, e)
  BY <1>0 DEF Settled, Told
<1>2. Typed'
  BY DEF DInv, Typed
<1>3. Shape'
  BY DEF DInv, Shape
<1>4. Justified'
  BY <1>0 DEF DInv, Justified, Gone, Reading
<1>5. Logged'
  BY <1>0, <1>1 DEF DInv, Logged, Writing
<1> QED
  BY <1>2, <1>3, <1>4, <1>5 DEF DInv

(* The invariant holds of the beginning. *)
LEMMA DInvInit == Init => DInv
<1> SUFFICES ASSUME Init PROVE DInv
  OBVIOUS
<1>1. PICK j \in RunRecords :
        /\ run = j
        /\ j.reads = {} /\ j.undelegated = {} /\ j.creates = {} /\ j.updates = <<>>
        /\ j.clears = {} /\ j.changes = <<>> /\ j.candidates = [s \in Stakes |-> {}]
        /\ j.checkpoint.changes = 0
  BY NoRunTyped DEF Init, NoRun, NoCheckpoint, Fresh
<1>2. Len(j.updates) = 0 /\ Len(j.changes) = 0
  BY <1>1
<1>3. /\ chain \in [Stakes -> Delegates]
      /\ past = [s \in Stakes |-> IF chain[s] = None THEN <<>> ELSE <<chain[s]>>]
      /\ epoch = 1 /\ known = {} /\ table = [s \in Stakes |-> Absent]
      /\ row = NoCheckpoint /\ legacy = NoCheckpoint /\ pc = "idle" /\ listed \subseteq Dreps
  BY ParametersAssumption DEF Init, Delegates
<1>4. \A s \in Stakes : past[s] \in Seq(Dreps) /\ (chain[s] # None => past[s] # <<>>)
  <2> SUFFICES ASSUME NEW s \in Stakes
               PROVE  past[s] \in Seq(Dreps) /\ (chain[s] # None => past[s] # <<>>)
    OBVIOUS
  <2>1. CASE chain[s] = None
    <3>1. past[s] = <<>>
      BY <1>3, <2>1
    <3> QED BY <2>1, <3>1
  <2>2. CASE chain[s] # None
    <3>1. PICK e \in Dreps : e = chain[s]
      BY <1>3, <2>2 DEF Delegates
    <3>2. past[s] = <<e>>
      BY <1>3, <2>2, <3>1
    <3>3. <<e>> \in Seq(Dreps) /\ <<e>> # <<>>
      OBVIOUS
    <3> QED BY <3>2, <3>3
  <2> QED BY <2>1, <2>2
<1>5. Typed
  <2>1. past \in [Stakes -> Seq(Dreps)]
    BY <1>3, <1>4
  <2> QED BY <1>1, <1>3, <2>1, NoRunTyped DEF Typed
<1>6. Shape
  BY <1>1, <1>2, <1>3, <1>4, ParametersAssumption DEF Shape
<1>7. Justified
  BY <1>1, <1>3 DEF Justified, Reading
<1>8. Logged
  <2>1. \A s \in Stakes : table[s] = Absent
    BY <1>3
  <2> QED BY <1>1, <1>2, <1>3, <2>1 DEF Logged
<1> QED
  BY <1>5, <1>6, <1>7, <1>8 DEF DInv

(* Every step keeps it. *)
LEMMA DInvNext == DInv /\ [Next]_vars => DInv'
<1> SUFFICES ASSUME DInv, [Next]_vars PROVE DInv'
  OBVIOUS
<1>0. epoch \in Nat \ {0} /\ listed \subseteq Dreps
  BY DEF DInv, Typed
<1>1. CASE Begin
  BY <1>1, BeginKeeps
<1>2. CASE \E d \in Dreps : Scan(d) \/ ScanFails(d)
  BY <1>2, ScanKeeps
<1>3. CASE Resolve
  <2>1. CASE FailsClosed
    <3>1. /\ Ends /\ pc = "scan"
          /\ UNCHANGED <<past, chain, epoch, known, table, log, row, legacy, listed, untold, missed>>
      BY <1>3, <2>1 DEF Resolve, remote
    <3> QED BY <3>1, EndKeeps
  <2> QED BY <1>3, <2>1, ResolveKeeps
<1>4. CASE Backfill
  BY <1>4, BackfillKeeps
<1>a. CASE BackfillCompletes
  BY <1>a, CompletesKeeps
<1>5. CASE \E restless \in SUBSET Unchanged : Decide(restless)
  BY <1>5, DecideKeeps
<1>6. CASE Create \/ Update \/ UpdateRow \/ UpdateLegacy \/ (\E s \in Stakes : Clear(s))
             \/ LogChange \/ ForgetRow
  BY <1>6, WritesKeep
<1>7. CASE ForgetLegacy
  <2>1. /\ Ends /\ pc = "forget" /\ legacy' = NoCheckpoint
        /\ UNCHANGED <<past, chain, epoch, known, table, log, row, listed, untold, missed>>
    BY <1>7 DEF ForgetLegacy, remote, progress
  <2> QED BY <2>1, EndKeeps
<1>8. CASE Stop
  <2>1. /\ Ends
        /\ untold' = untold \cup Pairs({c \in Pending : table[c.stake] = c.to})
        /\ missed' = missed \cup run.reads
        /\ UNCHANGED <<past, chain, epoch, known, table, log, row, legacy, listed>>
    BY <1>8 DEF Stop, remote
  <2> QED BY <2>1, EndKeeps
<1>9. CASE NewEpoch
  <2>1. /\ epoch' = epoch + 1
        /\ UNCHANGED <<past, chain, known, table, log, row, legacy, listed, pc, run, ghosts>>
    BY <1>9 DEF NewEpoch, stored, progress
  <2> QED BY <1>0, <2>1, StaysKeep
<1>b. CASE Inventory
  <2>1. /\ listed' \subseteq Dreps
        /\ UNCHANGED <<past, chain, epoch, known, table, log, row, legacy, pc, run, ghosts>>
    BY <1>0, <1>b DEF Inventory, remote
  <2> QED BY <1>0, <2>1, StaysKeep
<1>10. CASE \E s \in Stakes, d \in Dreps \cup {None} : Move(s, d)
  BY <1>10, MoveKeeps
<1>11. CASE UNCHANGED vars
  <2>1. UNCHANGED <<epoch, past, chain, known, table, log, row, legacy, listed, pc, run, ghosts>>
    BY <1>11 DEF vars, remote, stored, progress
  <2> QED BY <1>0, <2>1, StaysKeep
<1> QED
  BY <1>1, <1>2, <1>3, <1>4, <1>5, <1>6, <1>7, <1>8, <1>9, <1>10, <1>11, <1>a, <1>b DEF Next, RunStep

(* What the invariant says between two phases 3. *)
LEMMA CompleteThen == DInv => LogComplete
<1> SUFFICES ASSUME DInv, ~Writing
             PROVE  EveryRowLogged /\ HistoryLogged
  BY DEF LogComplete
<1>1. EveryRowLogged
  BY NothingPending DEF DInv, Logged, EveryRowLogged
<1>2. HistoryLogged
  BY DEF DInv, Logged, HistoryLogged
<1> QED
  BY <1>1, <1>2

(* What it says of a step: a row is given up only for who was gone. *)
LEMMA JustifiedThen ==
    ASSUME DInv, [Next]_vars
    PROVE  [\A s \in Stakes : table[s] \in Dreps /\ table'[s] = None
                                 => s \in moved \cup bare]_vars
<1> SUFFICES ASSUME NEW s \in Stakes, table[s] \in Dreps, table'[s] = None
             PROVE  s \in moved \cup bare
  OBVIOUS
<1>0. Typed /\ Shape /\ Justified
  BY DEF DInv
<1>1. table'[s] # table[s] /\ None \notin Dreps
  BY ParametersAssumption
<1>2. CASE Create \/ Update \/ UpdateRow \/ UpdateLegacy \/ (\E t \in Stakes : Clear(t))
             \/ LogChange \/ ForgetRow
  <2>1. \/ table'[s] = table[s]
        \/ table'[s] = run.seen[s] /\ s \in run.creates
        \/ table'[s] = run.seen[s] /\ \E i \in 1..Len(run.updates) : run.updates[i] = s
        \/ table'[s] = None /\ s \in run.clears
    BY <1>0, <1>2, TablesAre, Zenon
  <2>2. s \in run.clears
    BY <1>0, <1>1, <2>1 DEF Shape
  <2> QED BY <1>0, <2>2 DEF Justified, Gone
<1>3. CASE ~(Create \/ Update \/ UpdateRow \/ UpdateLegacy \/ (\E t \in Stakes : Clear(t))
               \/ LogChange \/ ForgetRow)
  <2>1. table' = table
    BY <1>3 DEF Next, RunStep, Begin, Scan, ScanFails, Resolve, Backfill, BackfillCompletes, Decide,
                ForgetLegacy, Stop, NewEpoch, Inventory, Move, vars, stored
  <2> QED BY <1>1, <2>1
<1> QED
  BY <1>2, <1>3

(* Whatever stops, the log tells to whom each row went and holds the        *)
(* history of every known stake address, except for the gaps that untold    *)
(* and missed name: clears by the reconciliation, what a stop fell between, *)
(* entries that a checkpoint makes a run skip, and histories that the       *)
(* resumed first backfill leaves out.                                       *)
THEOREM LogIsComplete == Spec => []LogComplete
<1>1. Spec => []DInv
  BY DInvInit, DInvNext, PTL DEF Spec
<1> QED
  BY <1>1, CompleteThen, PTL

(* A row is lost only of who moved while the run read, or was to be in no   *)
(* answer when it began, for delegating to nobody or to a DRep outside the  *)
(* inventory, however many requests failed.                                 *)
THEOREM ClearsAreJustified == Spec => ClearsJustified
<1>1. Spec => []DInv
  BY DInvInit, DInvNext, PTL DEF Spec
<1>2. DInv /\ [Next]_vars
        => [\A s \in Stakes : table[s] \in Dreps /\ table'[s] = None
                                 => s \in moved \cup bare]_vars
  BY JustifiedThen
<1>3. Spec => [][\A s \in Stakes : table[s] \in Dreps /\ table'[s] = None
                                      => s \in moved \cup bare]_vars
  BY <1>1, <1>2, PTL DEF Spec
<1> QED
  BY <1>3 DEF ClearsJustified

===============================================================================
