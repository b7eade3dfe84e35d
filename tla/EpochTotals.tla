------------------------------ MODULE EpochTotals ------------------------------
(* The totals of the epochs (epoch-totals.service.ts): a row for each, which *)
(* the job epoch-totals-sync refreshes for the current epoch and finishes    *)
(* for the previous one (syncEpochTotalsStep), and the job                   *)
(* missing-epochs-sync for every closed one that has none, an incomplete one *)
(* or no mark (syncMissingEpochAnalytics).  Both may run at once: a run that *)
(* a request started takes no heavy-job lane.  A row has two kinds of        *)
(* columns: what Koios has of the epoch, and the special DReps' numbers,     *)
(* which are left null while the delegation sync scans.                      *)
EXTENDS Integers, Sequences

CONSTANTS
    SelfHealingAfter,   \* EPOCH_TOTALS_SELF_HEALING_AFTER_EPOCH
    Straddles,          \* whether an epoch may end between reading and saving its own numbers
    LastEpoch, MaxFails, MaxScans,   \* bounds
    None                \* no row

VARIABLES
    current,     \* the epoch
    totals,      \* the row of each: [koios, special], columns of "null", "open" or "closed"
    synced,      \* the epochs with totalsSyncedAt
    lane,        \* isRunning of the delegation sync's heavy lane
    scanning,    \* whether a scan of the delegation sync goes on
    sync,        \* the run of each job: [pc, epoch, todo, got, existed]
    fails, scans

totalsVars == <<current, totals, synced, lane, scanning, sync, fails, scans>>

Epochs == 0 .. LastEpoch
Jobs == {"step", "missing"}
Idle == [pc |-> "idle", epoch |-> 0, todo |-> <<>>, got |-> None, existed |-> FALSE]

TotalsInit ==
    /\ current = 1 /\ totals = [e \in Epochs |-> None] /\ synced = {}
    /\ lane = FALSE /\ scanning = FALSE
    /\ sync = [j \in Jobs |-> Idle]
    /\ fails = 0 /\ scans = 0

----------------------------------------------------------------------------
shouldRequireCompleteEpochTotals(e) == e > SelfHealingAfter
isEpochTotalsResultComplete(r) == "null" \notin {r.koios, r.special}
hasIncompleteEpochTotals(e) ==
    shouldRequireCompleteEpochTotals(e) /\ totals[e] # None /\ ~isEpochTotalsResultComplete(totals[e])

(* What a run syncs: the previous epoch unless it is marked and complete,    *)
(* and always the current one ...                                            *)
StepTodo == (IF current - 1 \in synced /\ ~hasIncompleteEpochTotals(current - 1)
             THEN <<>> ELSE <<current - 1>>) \o <<current>>
(* ... or every closed epoch that calls for it.  Two go on at a time in the  *)
(* code; they touch different rows.                                          *)
(* Mutant: a marked row is taken for complete. *)
MissingTodoMarked == SelectSeq([i \in 1 .. current |-> i - 1],
    LAMBDA e : totals[e] = None \/ e \notin synced)
MissingTodo == SelectSeq([i \in 1 .. current |-> i - 1],
    LAMBDA e : totals[e] = None \/ e \notin synced \/ hasIncompleteEpochTotals(e))

Begins(j) ==
    LET todo == IF j = "step" THEN StepTodo ELSE MissingTodo IN
    /\ sync[j].pc = "idle" /\ todo # <<>>
    /\ sync' = [sync EXCEPT ![j] = [Idle EXCEPT !.pc = "fetch", !.epoch = current, !.todo = todo]]
    /\ UNCHANGED <<current, totals, synced, lane, scanning, fails, scans>>

Target(j) == Head(sync[j].todo)
(* The next epoch, or the end.                                               *)
Onward(j) ==
    LET todo == Tail(sync[j].todo) IN
    sync' = [sync EXCEPT ![j] = IF todo = <<>> THEN Idle
             ELSE [Idle EXCEPT !.pc = "fetch", !.epoch = sync[j].epoch, !.todo = todo]]
(* What throws ends the step; of the missing epochs it is the one that fails.*)
Throws(j) == IF j = "step" THEN sync' = [sync EXCEPT ![j] = Idle] ELSE Onward(j)

(* getSpecialDrepAggregatesForEpoch: null when the lane is busy, and when    *)
(* its requests fail.                                                        *)
getSpecialDrepAggregatesForEpoch(now) == IF lane THEN {"null"} ELSE {now, "null"}

(* syncEpochTotals: all requests at once, of which one may throw, or have no *)
(* row yet; then the row is looked up, and updated or created.               *)
Fetch(j) ==
    LET now == IF Target(j) < current THEN "closed" ELSE "open" IN
    /\ sync[j].pc = "fetch"
    /\ \E koios \in {now, "null"}, special \in getSpecialDrepAggregatesForEpoch(now) :
         /\ sync' = [sync EXCEPT ![j].pc = "save", ![j].got = [koios |-> koios, special |-> special],
                                 ![j].existed = totals[Target(j)] # None]
         /\ fails' = IF koios = "null" \/ (special = "null" /\ ~lane) THEN fails + 1 ELSE fails
    /\ fails' <= MaxFails
    /\ UNCHANGED <<current, totals, synced, lane, scanning, scans>>

(* A row that came to be meanwhile makes create throw.                       *)
Save(j) ==
    LET e == Target(j) IN
    /\ sync[j].pc = "save"
    /\ IF sync[j].existed \/ totals[e] = None
       THEN /\ totals' = [totals EXCEPT ![e] = sync[j].got]
            /\ sync' = [sync EXCEPT ![j].pc = "mark"]
       ELSE Throws(j) /\ UNCHANGED totals
    /\ UNCHANGED <<current, synced, lane, scanning, fails, scans>>

(* An incomplete result leaves the mark as it is; the step's current epoch   *)
(* gets none.                                                                *)
Mark(j) ==
    LET e == Target(j) IN
    /\ sync[j].pc = "mark"
    /\ synced' = IF e = sync[j].epoch
                    \/ (shouldRequireCompleteEpochTotals(e) /\ ~isEpochTotalsResultComplete(sync[j].got))
                 THEN synced ELSE synced \cup {e}
    /\ Onward(j)
    /\ UNCHANGED <<current, totals, lane, scanning, fails, scans>>

(* A request or a write throws, or the process dies.                         *)
Fault(j) ==
    /\ sync[j].pc # "idle" /\ fails < MaxFails
    /\ Throws(j) \/ sync' = [sync EXCEPT ![j] = Idle]
    /\ fails' = fails + 1
    /\ UNCHANGED <<current, totals, synced, lane, scanning, scans>>

----------------------------------------------------------------------------
(* A scan of the delegation sync marks the lane, and unmarks it at its end;  *)
(* when its process dies the mark stays until the end of the next scan: the  *)
(* reader looks at isRunning, not at expiresAt.  (Scans are rare: there is a *)
(* bound on them, which a dead scan's successor does not count to.)          *)
ScanBegins ==
    /\ ~scanning
    /\ IF lane THEN UNCHANGED scans ELSE scans < MaxScans /\ scans' = scans + 1
    /\ lane' = TRUE /\ scanning' = TRUE
    /\ UNCHANGED <<current, totals, synced, sync, fails>>
ScanEnds ==
    /\ scanning /\ lane' = FALSE /\ scanning' = FALSE
    /\ UNCHANGED <<current, totals, synced, sync, fails, scans>>
ScanDies ==
    /\ scanning /\ fails < MaxFails /\ scanning' = FALSE /\ fails' = fails + 1
    /\ UNCHANGED <<current, totals, synced, lane, sync, scans>>

EpochTurns ==
    /\ current < LastEpoch
    /\ Straddles \/ \A j \in Jobs : sync[j].pc = "save" => Target(j) < current
    /\ current' = current + 1
    /\ UNCHANGED <<totals, synced, lane, scanning, sync, fails, scans>>

TotalsStep(j) == Begins(j) \/ Fetch(j) \/ Save(j) \/ Mark(j)
TotalsNext ==
    \/ \E j \in Jobs : TotalsStep(j) \/ Fault(j)
    \/ ScanBegins \/ ScanEnds \/ ScanDies \/ EpochTurns

(* A lane left marked is scanned again.                                      *)
LaneFreed == lane /\ ScanBegins

----------------------------------------------------------------------------
(* Every closed epoch of which completeness is asked has all of its numbers, *)
(* read after it ended.  It comes to be so for good,                         *)
(* whatever part failed, whichever job wrote an incomplete row over a        *)
(* complete one, and though a scan died with the lane marked: the jobs run   *)
(* every hour and every day, and a scan is begun again, and ends.            *)
TotalsComplete ==
    \A e \in 0 .. current - 1 : shouldRequireCompleteEpochTotals(e) =>
        totals[e] = [koios |-> "closed", special |-> "closed"]
================================================================================
