---------------------------- MODULE DelegationSync ----------------------------
(***************************************************************************)
(* One run after the other of syncDrepDelegationChanges                    *)
(* (services/ingestion/delegation-sync.service.ts), which copies to whom   *)
(* every stake address delegates from Koios to stake_delegation_state, and *)
(* keeps a log of the changes.  Delegations change while a run reads them, *)
(* requests for the delegators of a DRep fail, and a run may stop anywhere: *)
(* its process dies, or a write throws.  The next run finds what it wrote  *)
(* and the checkpoint of its phase 3.  A DRep of the chain need not be in  *)
(* the inventory, whose DReps alone are asked for their delegators.        *)
(*                                                                         *)
(* A chunk is one row.  Amounts and epochs of a delegation are left out: a *)
(* row whose amount changed is "restless", and a change that happened in   *)
(* two epochs is one entry of the log.  FORCE_DREP_DELEGATION_BACKFILL is  *)
(* not set.                                                                *)
(***************************************************************************)
EXTENDS Integers, Sequences, SequencesExt, FiniteSets, FiniteSetsExt

CONSTANTS
    Stakes,            \* stake addresses, in their order: 1..n
    Dreps,             \* the DReps of the chain
    Registered,        \* those of the inventory when the job first runs
    Rank, Shards,      \* the order of their ids; DREP_DELEGATION_SHARD_COUNT
    Week,              \* runs that fit at least between two full scans
    Window,            \* DREP_DELEGATION_ACCOUNT_INFO_MAX_STAKES_PER_RUN
    MaxFetchFailures,  \* DREP_DELEGATION_MAX_FETCH_FAILURES
    MinActive,         \* DELEGATION_CLEAR_BASELINE_MIN_ACTIVE_STAKES
    MaxEpoch, MaxMoves, MaxFails, MaxStops   \* bounds

None == "none"       \* delegates to nobody, or to a built-in option
Absent == "absent"   \* has no row
Unseen == "unseen"   \* is in no answer
Completed == -1      \* backfillCompletedAt is set

ASSUME ParametersAssumption ==
    /\ Stakes \subseteq Nat \ {0} /\ IsFiniteSet(Stakes)
    /\ IsFiniteSet(Dreps) /\ {None, Absent, Unseen} \cap Dreps = {}
    /\ Registered \subseteq Dreps /\ Rank \in [Dreps -> Nat]
    /\ {Shards, Week, Window} \subseteq Nat \ {0}
    /\ {MaxFetchFailures, MinActive, MaxEpoch, MaxMoves, MaxFails, MaxStops} \subseteq Nat

VARIABLES
    past,      \* to whom each stake address delegated, in order
    chain,     \* to whom it delegates
    epoch,
    known,     \* stake_address
    table,     \* stake_delegation_state
    log,       \* stake_delegation_change
    row,       \* phase3CheckpointJson of delegation_sync_checkpoint
    legacy,    \* backfillCursor of the job drep-delegation-phase3
    cursor,    \* accountInfoStakeCursor, 0 for none
    shard,     \* drepShardIndex
    guard,     \* the fingerprint of the clear guard's checkpoint
    listed,    \* the inventory: the table drep
    backfill,  \* backfillCursor of drep-delegation-backfill, 0 for none, or Completed
    fresh,     \* lastFullAllDrepsScanAt: runs until it is too old, 0 where it is or is none
    pc, run,   \* the run, and its local state
    moved,     \* ghost: who delegated elsewhere while the run read
    bare,      \* ghost: who was to be in no answer when it began
    untold,    \* ghost: rows that went without their entry of the log
    missed,    \* ghost: whose history went unread
    stops, fails

remote == <<past, chain, epoch>>
progress == <<cursor, shard, guard, listed, backfill, fresh>>
stored == <<known, table, log, row, legacy, progress>>
ghosts == <<moved, bare, untold, missed>>
vars == <<remote, stored, pc, run, ghosts, stops, fails>>

(* Phase3Checkpoint; of epoch 0 where there is none. *)
Checkpoints == [epoch : 0..MaxEpoch, creates : BOOLEAN, updates : Nat, changes : Nat]
Fresh(e) == [epoch |-> e, creates |-> FALSE, updates |-> 0, changes |-> 0]
NoCheckpoint == Fresh(0)

NoRun ==
    [full |-> FALSE, epoch |-> 0, left |-> {}, target |-> {}, failed |-> {},
     candidates |-> [s \in Stakes |-> {}], undelegated |-> {}, rows |-> 0,
     seen |-> [s \in Stakes |-> Unseen], reads |-> {}, job |-> FALSE,
     latest |-> [s \in Stakes |-> None],
     creates |-> {}, updates |-> <<>>, clears |-> {}, changes |-> <<>>,
     checkpoint |-> NoCheckpoint]

Changes == [stake : Stakes, from : Dreps \cup {None}, to : Dreps \cup {None}]
Change(s, from, to) == [stake |-> s, from |-> from, to |-> to]

TypeOK ==
    /\ past \in [Stakes -> Seq(Dreps)]
    /\ chain \in [Stakes -> Dreps \cup {None}]
    /\ epoch \in 1..MaxEpoch
    /\ known \subseteq Stakes
    /\ table \in [Stakes -> Dreps \cup {None, Absent}]
    /\ \A s \in Stakes \ known : table[s] = Absent
    /\ log \subseteq Changes
    /\ {row, legacy} \subseteq Checkpoints
    /\ cursor \in Stakes \cup {0}
    /\ shard \in 0..(Shards - 1)
    /\ guard = <<>> \/ guard \in Nat \X Nat \X Nat
    /\ listed \subseteq Dreps
    /\ backfill \in Stakes \cup {0, Completed}
    /\ fresh \in 0..Week
    /\ pc \in {"idle", "scan", "backfill", "creates", "apply", "updateRow", "updateLegacy", "forget"}
    /\ (pc = "idle") = (run = NoRun)
    /\ moved \subseteq Stakes /\ bare \subseteq Stakes
    /\ untold \subseteq Stakes \X (Dreps \cup {None}) /\ missed \subseteq Stakes
    /\ stops \in 0..MaxStops /\ fails \in 0..MaxFails

-------------------------------------------------------------------------------
(* The chain, as Koios shows it *)

Reading == pc \in {"scan", "backfill"}

Moves == FoldFunction(LAMBDA p, n : Len(p) + n, 0, past)

Move(s, d) ==
    /\ chain[s] # d
    /\ d # None => Moves < MaxMoves
    /\ chain' = [chain EXCEPT ![s] = d]
    /\ past' = [past EXCEPT ![s] = IF d = None THEN @ ELSE Append(@, d)]
    /\ moved' = IF Reading THEN moved \cup {s} ELSE moved
    /\ UNCHANGED <<epoch, stored, pc, run, bare, untold, missed, stops, fails>>

NewEpoch ==
    /\ epoch < MaxEpoch
    /\ epoch' = epoch + 1
    /\ UNCHANGED <<past, chain, stored, pc, run, ghosts, stops, fails>>

(* The sync of the inventory, once in an epoch, finds new DReps. *)
Inventory ==
    /\ \E new \in SUBSET (Dreps \ listed) : new # {} /\ listed' = listed \cup new
    /\ UNCHANGED <<remote, known, table, log, row, legacy, cursor, shard, guard, backfill, fresh,
                   pc, run, ghosts, stops, fails>>

(* The run ends, and what it kept in memory is gone. *)
Ends == pc' = "idle" /\ run' = NoRun /\ moved' = {} /\ bare' = {}

-------------------------------------------------------------------------------
(* Phase 1 *)

(* The next known stake addresses, and the cursor behind them. *)
Remaining == {s \in known : s > cursor}
Batch == {s \in Remaining : Cardinality({t \in Remaining : t <= s}) <= Window}
NextCursor == IF Batch = Remaining THEN 0 ELSE Max(Batch)

(* The shard of a DRep goes by its place in the sorted inventory. *)
ShardOf(d) == Cardinality({e \in listed : Rank[e] < Rank[d]}) % Shards

(* runFullAllDreps *)
FullDue == fresh = 0 \/ backfill # Completed

(* Who is in no answer unless the run sees them move. *)
Unasked == {s \in Stakes : chain[s] \notin listed /\ (chain[s] = None \/ s \notin Batch)}

(* A run starts, migrates a checkpoint of the old kind, and asks for the   *)
(* accounts of the batch, which may name any DRep.                         *)
Begin ==
    /\ pc = "idle"
    /\ pc' = "scan"
    /\ LET target == {d \in listed : FullDue \/ ShardOf(d) = shard} IN
       run' = [NoRun EXCEPT
                 !.full = FullDue, !.epoch = epoch, !.target = target, !.left = target,
                 !.candidates = [s \in Stakes |-> {chain[s]} \cap
                                                  (IF s \in Batch THEN Dreps ELSE {})],
                 !.undelegated = {s \in Batch : chain[s] = None}]
    /\ row' = IF row = NoCheckpoint THEN legacy ELSE row
    /\ cursor' = NextCursor
    /\ moved' = {} /\ bare' = Unasked
    /\ UNCHANGED <<remote, known, table, log, legacy, shard, guard, listed, backfill, fresh,
                   untold, missed, stops, fails>>

Delegators(d) == {s \in Stakes : chain[s] = d}

(* The requests for the DReps' delegators run in parallel. *)
Scan(d) ==
    /\ pc = "scan" /\ d \in run.left
    /\ run' = [run EXCEPT
                 !.left = @ \ {d},
                 !.rows = @ + Cardinality(Delegators(d)),
                 !.candidates = [s \in Stakes |-> IF chain[s] = d THEN @[s] \cup {d} ELSE @[s]]]
    /\ UNCHANGED <<remote, stored, pc, ghosts, stops, fails>>

ScanFails(d) ==
    /\ pc = "scan" /\ d \in run.left /\ fails < MaxFails
    /\ run' = [run EXCEPT !.left = @ \ {d}, !.failed = @ \cup {d}]
    /\ fails' = fails + 1
    /\ UNCHANGED <<remote, stored, pc, ghosts, stops>>

FailsClosed ==
    Cardinality(run.failed) > Min({MaxFetchFailures, Max({1, Cardinality(run.target)})})

(* The answers about one stake address.  Where they differ its history     *)
(* decides if it can be had, else the epochs and amounts they came with.   *)
Winners(s, history) ==
    IF run.candidates[s] = {} THEN {IF s \in run.undelegated THEN None ELSE Unseen}
    ELSE IF history /\ Last(past[s]) \in run.candidates[s] THEN {Last(past[s])}
    ELSE run.candidates[s]

(* Mutant: the index of the shard stays. *)
NextShardStuck == shard

Rotated == (shard + 1) % Shards
NextShard == IF ~run.full /\ run.failed = {} THEN Rotated ELSE shard

(* The date of a full scan that all DReps answered, or the next shard. *)
Advance ==
    /\ shard' = NextShard
    /\ IF run.full /\ run.failed = {} THEN fresh' = Week
       ELSE fresh' \in {n \in 0..fresh : n >= fresh - 1}

(* Whose histories phase 2 reads.  Until the first backfill is completed:  *)
(* of all addresses the run found, where it knew none of them, else, with  *)
(* a cursor, only of those it knew; in both cases behind the cursor.       *)
First(found) == backfill # Completed /\ found \cap known = {}
Resumes(found) == backfill \notin {0, Completed} /\ found \cap known # {}
Reads(found) ==
    IF First(found) THEN {s \in found : s > backfill}
    ELSE IF Resumes(found) THEN {s \in found \cap known : s > backfill}
    ELSE found \ known

(* All DReps have answered or failed.  Phase 2 inserts the stake addresses  *)
(* that are new.                                                            *)
Resolve ==
    /\ pc = "scan" /\ run.left = {}
    /\ Advance
    /\ IF FailsClosed
       THEN Ends /\ UNCHANGED <<known, missed>>
       ELSE \E history \in BOOLEAN : \E seen \in [Stakes -> Dreps \cup {None, Unseen}] :
               /\ \A s \in Stakes : seen[s] \in Winners(s, history)
               /\ LET found == {s \in Stakes : seen[s] # Unseen} IN
                  /\ known' = known \cup found
                  /\ missed' = missed \cup ((found \ known) \ Reads(found))
                  /\ run' = [run EXCEPT !.seen = seen, !.reads = Reads(found),
                                        !.job = (First(found) \/ Resumes(found)) /\ found # {},
                                        !.candidates = NoRun.candidates,
                                        !.undelegated = {}, !.target = {}]
               /\ pc' = "backfill" /\ UNCHANGED <<moved, bare>>
    /\ UNCHANGED <<remote, table, log, row, legacy, cursor, guard, listed, backfill, untold,
                   stops, fails>>

-------------------------------------------------------------------------------
(* Phase 2 *)

(* buildDrepChangeLogForStake: the changes of its whole history. *)
History(s) ==
    {Change(s, IF i = 1 THEN None ELSE past[s][i - 1], past[s][i]) :
        i \in {j \in DOMAIN past[s] : j = 1 \/ past[s][j] # past[s][j - 1]}}

Pairs(entries) == {<<c.stake, c.to>> : c \in entries}
Tells(entries) == log' = log \cup entries /\ untold' = untold \ Pairs(entries)

(* The cursor of the first backfill is saved at every hundredth address.   *)
Backfill ==
    /\ pc = "backfill" /\ run.reads # {}
    /\ LET s == Min(run.reads) IN
       /\ Tells(History(s))
       /\ missed' = missed \ {s}
       /\ backfill' \in IF run.job THEN {backfill, s} ELSE {backfill}
       /\ run' = [run EXCEPT !.reads = @ \ {s}, !.latest[s] = Last(past[s])]
    /\ UNCHANGED <<remote, known, table, row, legacy, cursor, shard, guard, listed, fresh, pc,
                   moved, bare, stops, fails>>

BackfillCompletes ==
    /\ pc = "backfill" /\ run.reads = {} /\ run.job
    /\ backfill' = Completed
    /\ run' = [run EXCEPT !.job = FALSE]
    /\ UNCHANGED <<remote, known, table, log, row, legacy, cursor, shard, guard, listed, fresh, pc,
                   ghosts, stops, fails>>

-------------------------------------------------------------------------------
(* Phase 3 *)

Tracked == {s \in Stakes : run.seen[s] \in Dreps}
Active == {s \in Stakes : table[s] \in Dreps}
ToCreate == {s \in Tracked : table[s] = Absent}
Stale == {s \in Tracked : table[s] \notin {Absent, run.seen[s]}}
Unchanged == {s \in Tracked : table[s] = run.seen[s]}
Cleared == {s \in Active : run.seen[s] = None}

(* Mutant: only new rows are logged. *)
MovedNew == {s \in ToCreate : run.latest[s] # run.seen[s]}

Moved == {s \in ToCreate \cup Stale : run.latest[s] # run.seen[s]}
MovedFrom(s) == IF table[s] = Absent THEN None ELSE table[s]
MovedChanges == {Change(s, MovedFrom(s), run.seen[s]) : s \in Moved}
ClearedChanges == {Change(s, table[s], None) : s \in Cleared}

(* Mutant: the table is reconciled although some DReps did not answer. *)
ReconciledAlways == IF run.full THEN {s \in Active : run.seen[s] = Unseen} ELSE {}

(* Rows that a complete scan of all DReps did not show. *)
Reconciled ==
    IF run.full /\ run.failed = {} THEN {s \in Active : run.seen[s] = Unseen} ELSE {}

(* evaluateClearGuard, after a complete scan of all DReps. *)
Snapshot == Cardinality({s \in Stakes : run.seen[s] # Unseen})
Fingerprint(clears) == <<Cardinality(Active), Snapshot, Cardinality(clears)>>
Suspicious(clears) ==
    \/ /\ Cardinality(Active) >= MinActive
       /\ \/ 10 * Snapshot < 9 * Cardinality(Active)
          \/ 100 * Cardinality(clears) > 35 * Cardinality(Active)
          \/ Snapshot = 0
    \/ run.rows < Snapshot
Guarded(clears) == run.full /\ run.failed = {} /\ clears # {}
Blocked(clears) == Guarded(clears) /\ Suspicious(clears) /\ guard # Fingerprint(clears)

Loaded == IF row = NoCheckpoint THEN legacy ELSE row

TakenUp == IF Loaded.epoch = run.epoch THEN Loaded ELSE Fresh(run.epoch)

Skipped(changes) == {changes[i] : i \in DOMAIN changes \cap 1..TakenUp.changes}

(* The run compares its answers with the table, takes DReps it does not    *)
(* know into the inventory (those of rows are there), and takes up a       *)
(* checkpoint.  The row of the legacy copy is there from an earlier run.   *)
Decide(restless) ==
    /\ pc = "backfill" /\ run.reads = {} /\ ~run.job
    /\ LET clears == Cleared \cup Reconciled IN
       /\ moved' = moved \cap clears /\ bare' = bare \cap clears
       /\ guard' = IF ~Guarded(clears) THEN guard
                   ELSE IF Blocked(clears) THEN Fingerprint(clears) ELSE <<>>
       /\ \E updates \in SetToSeqs(Stale \cup restless),
             changed \in SetToSeqs(MovedChanges),
             cleared \in SetToSeqs(ClearedChanges) :
             /\ run' = [run EXCEPT
                          !.full = FALSE, !.failed = {}, !.rows = 0, !.latest = NoRun.latest,
                          !.creates = ToCreate, !.updates = updates,
                          !.clears = IF Blocked(clears) THEN {} ELSE clears,
                          !.changes = changed \o cleared,
                          !.checkpoint = TakenUp]
             /\ untold' = untold \cup Pairs(Skipped(changed \o cleared))
    /\ listed' = listed \cup {run.seen[s] : s \in ToCreate \cup Stale}
    /\ row' = TakenUp
    /\ pc' = "creates"
    /\ UNCHANGED <<remote, known, table, log, legacy, cursor, shard, backfill, fresh, missed,
                   stops, fails>>

(* New rows and the checkpoint, in one transaction. *)
Create ==
    /\ pc = "creates"
    /\ pc' = "apply"
    /\ IF run.creates # {} /\ ~run.checkpoint.creates
       THEN LET next == [run.checkpoint EXCEPT !.creates = TRUE] IN
            /\ table' = [s \in Stakes |-> IF s \in run.creates THEN run.seen[s] ELSE table[s]]
            /\ row' = next /\ legacy' = next
            /\ run' = [run EXCEPT !.checkpoint = next]
       ELSE UNCHANGED <<table, row, legacy, run>>
    /\ UNCHANGED <<remote, known, log, progress, ghosts, stops, fails>>

UpdatesOver == run.checkpoint.updates >= Len(run.updates)

(* The next row to update, and then the checkpoint, in two tables. *)
Update ==
    /\ pc = "apply" /\ ~UpdatesOver
    /\ LET s == run.updates[run.checkpoint.updates + 1] IN
       table' = [table EXCEPT ![s] = run.seen[s]]
    /\ pc' = "updateRow"
    /\ UNCHANGED <<remote, known, log, row, legacy, progress, run, ghosts, stops, fails>>

Updated == [run.checkpoint EXCEPT !.updates = @ + 1]

UpdateRow ==
    /\ pc = "updateRow"
    /\ row' = Updated
    /\ pc' = "updateLegacy"
    /\ UNCHANGED <<remote, known, table, log, legacy, progress, run, ghosts, stops, fails>>

UpdateLegacy ==
    /\ pc = "updateLegacy"
    /\ legacy' = Updated
    /\ run' = [run EXCEPT !.checkpoint = Updated]
    /\ pc' = "apply"
    /\ UNCHANGED <<remote, known, table, log, row, progress, ghosts, stops, fails>>

(* Rows of nobody; a chunk that is cleared leaves no checkpoint.  What is  *)
(* cleared for being in no answer has no entry in the log.                 *)
Clear(s) ==
    /\ pc = "apply" /\ UpdatesOver /\ s \in run.clears
    /\ table' = [table EXCEPT ![s] = IF @ = Absent THEN @ ELSE None]
    /\ run' = [run EXCEPT !.clears = @ \ {s}]
    /\ untold' = IF run.seen[s] = Unseen THEN untold \cup {<<s, None>>} ELSE untold
    /\ UNCHANGED <<remote, known, log, row, legacy, progress, pc, moved, bare, missed, stops, fails>>

ChangesOver == run.checkpoint.changes >= Len(run.changes)

(* The next entry of the log and the checkpoint, in one transaction. *)
LogChange ==
    /\ pc = "apply" /\ UpdatesOver /\ run.clears = {} /\ ~ChangesOver
    /\ LET next == [run.checkpoint EXCEPT !.changes = @ + 1] IN
       /\ Tells({run.changes[next.changes]})
       /\ row' = next /\ legacy' = next
       /\ run' = [run EXCEPT !.checkpoint = next]
    /\ UNCHANGED <<remote, known, table, progress, pc, moved, bare, missed, stops, fails>>

(* All is written: the two copies of the checkpoint are cleared. *)
ForgetRow ==
    /\ pc = "apply" /\ UpdatesOver /\ run.clears = {} /\ ChangesOver
    /\ row' = NoCheckpoint
    /\ pc' = "forget"
    /\ UNCHANGED <<remote, known, table, log, legacy, progress, run, ghosts, stops, fails>>

ForgetLegacy ==
    /\ pc = "forget"
    /\ legacy' = NoCheckpoint
    /\ Ends
    /\ UNCHANGED <<remote, known, table, log, row, progress, untold, missed, stops, fails>>

Pending == {run.changes[i] : i \in {j \in DOMAIN run.changes : j > run.checkpoint.changes}}

(* The process dies, or a write of the run throws; what the answers say of *)
(* the scan may be saved.  A week may pass before the next run.            *)
Stop ==
    /\ pc # "idle" /\ stops < MaxStops
    /\ Ends
    /\ stops' = stops + 1
    /\ untold' = untold \cup Pairs({c \in Pending : table[c.stake] = c.to})
    /\ missed' = missed \cup run.reads
    /\ \/ fresh' \in {0, fresh} /\ UNCHANGED shard
       \/ pc = "scan" /\ run.left = {} /\ Advance
    /\ UNCHANGED <<remote, known, table, log, row, legacy, cursor, guard, listed, backfill, fails>>

-------------------------------------------------------------------------------

Init ==
    /\ chain \in [Stakes -> Dreps \cup {None}]
    /\ past = [s \in Stakes |-> IF chain[s] = None THEN <<>> ELSE <<chain[s]>>]
    /\ epoch = 1
    /\ known = {}
    /\ table = [s \in Stakes |-> Absent]
    /\ log = {}
    /\ row = NoCheckpoint /\ legacy = NoCheckpoint
    /\ cursor = 0 /\ shard = 0 /\ guard = <<>>
    /\ listed = Registered /\ backfill = 0 /\ fresh = 0
    /\ pc = "idle" /\ run = NoRun
    /\ moved = {} /\ bare = {} /\ untold = {} /\ missed = {}
    /\ stops = 0 /\ fails = 0

RunStep ==
    \/ Begin
    \/ \E d \in Dreps : Scan(d) \/ ScanFails(d)
    \/ Resolve \/ Backfill \/ BackfillCompletes
    \/ \E restless \in SUBSET Unchanged : Decide(restless)
    \/ Create \/ Update \/ UpdateRow \/ UpdateLegacy
    \/ \E s \in Stakes : Clear(s)
    \/ LogChange \/ ForgetRow \/ ForgetLegacy

Next ==
    \/ RunStep \/ Stop \/ NewEpoch \/ Inventory
    \/ \E s \in Stakes, d \in Dreps \cup {None} : Move(s, d)

Spec == Init /\ [][Next]_vars

(* The job is scheduled every hour and a run goes on.  Nothing obliges the *)
(* chain, the inventory or the failures.                                   *)
FairSpec == Spec /\ WF_vars(RunStep)

-------------------------------------------------------------------------------
(* Properties *)

(* However many requests failed, a row is cleared only of who moved while  *)
(* the run read, or was in no answer when it began: who delegated to       *)
(* nobody, or to a DRep that the inventory did not have while its account  *)
(* was not among those asked.                                              *)
ClearsJustified ==
    [][\A s \in Stakes : table[s] \in Dreps /\ table'[s] = None
                            => s \in moved \cup bare]_vars

Writing == pc \in {"creates", "apply", "updateRow", "updateLegacy"}

Told(s, d) == \E change \in log : change.stake = s /\ change.to = d

(* Whatever stops, the log tells to whom, or to nobody, each row went,     *)
(* except for rows cleared by the reconciliation, rows that a stop left    *)
(* without their entry, and entries that a checkpoint of an earlier run    *)
(* made a later one skip.                                                  *)
EveryRowLogged ==
    \A s \in Stakes : table[s] # Absent => Told(s, table[s]) \/ <<s, table[s]>> \in untold

(* The log holds the history of every stake address that is known, from    *)
(* its first delegation, except where a run stopped before it read it, or  *)
(* found the address new while it resumed the first backfill.              *)
HistoryLogged ==
    \A s \in known \ (run.reads \cup missed) : Change(s, None, past[s][1]) \in log

(* Between two phases 3, nothing else is missing in the log. *)
LogComplete == ~Writing => EveryRowLogged /\ HistoryLogged

Shown(s) ==
    CASE chain[s] = None -> table[s] \in {None, Absent}
      [] chain[s] \in listed -> table[s] = chain[s]
      [] OTHER -> s \notin known

(* Once delegations rest and the first backfill is completed, the table    *)
(* comes to show them, of all DReps of the inventory and of all addresses  *)
(* that are known, whatever stopped or failed before: a checkpoint that    *)
(* skips rows is forgotten in the end.  (A run that stops between new      *)
(* addresses and the first saved cursor leaves that backfill open for      *)
(* good, and every later run is a full scan, whose failures may hold back  *)
(* clears for ever.)                                                       *)
Converges == <>[](backfill = Completed => \A s \in Stakes : Shown(s))
===============================================================================
