---------------------------- MODULE GithubPipeline ----------------------------
(* The GitHub jobs together.  Unless "overlap" is among the troubles of a    *)
(* behaviour, a job that writes events or counts starts only when no other   *)
(* one runs; with it they run side by side, as their locks allow.            *)
EXTENDS GithubRollup

Alone == \/ "overlap" \in world.troubles
         \/ job["sync"].pc = "idle" /\ roll.pc = "idle" /\ fill.pc = "idle"

Init == TablesInit /\ SyncInit /\ RollupInit

(* Bound: a run sees at most one tick, since its lock is held for less than  *)
(* an hour; the clock may still pass an event's age limit while it runs.     *)
Tick ==
    /\ "clock" \in world.jobs /\ now < MaxDay
    /\ job["sync"].pc # "idle" => now = job["sync"].since + Window
    /\ roll.pc # "idle" => now = roll.cutoff + Window
    /\ now' = now + 1
    /\ UNCHANGED <<world, recent, history, days, credit, developers, totals, repo, counters,
                   syncVars, roll, fill>>

SyncRun == ((Alone /\ Start("sync")) \/ SyncStep \/ CrashOf("sync")) /\ UNCHANGED <<roll, fill>>
SnapshotRun ==
    (Start("snapshot") \/ BatchStep("snapshot") \/ CrashOf("snapshot")) /\ UNCHANGED <<roll, fill>>
RollRun == (Alone /\ RollRead) \/ RollStep \/ CrashOfRoll
FillRun == (Alone /\ FillStart) \/ FillStep \/ CrashOfFill

Next == Tick \/ SyncRun \/ SnapshotRun \/ RollRun \/ FillRun \/ \E r \in Repos : Discover(r)

(* The roll-up is a cron job with a lock of its own: it runs again and again *)
(* (where runs are kept apart, it gets its turn again and again), and each   *)
(* run goes on.                                                              *)
Fairness == /\ SF_vars(Alone /\ RollRead) /\ WF_vars(RollStep)
            /\ WF_vars(SyncStep /\ UNCHANGED <<roll, fill>>) /\ WF_vars(FillStep)

Spec == Init /\ [][Next]_vars /\ Fairness

Without(troubles) == world.troubles \cap troubles = {}

(* What has been stored once is never lost from the daily history: it is     *)
(* still a row of activity_recent, or the history has counted it, releases   *)
(* excepted.  However often the roll-up stops between adding to the history  *)
(* and deleting, or one of its writes fails.                                 *)
NothingLost == Without({"overlap"}) =>
    \A e \in seen : e \in recent \/ history[e] > 0 \/ ~InHistory(e)

(* And it is counted once, when no run stops half way, no write is repeated  *)
(* and no backfill counts days that the roll-up counts as well.              *)
CountedOnce ==
    (Without({"overlap", "write", "crash"}) /\ "backfill" \notin world.jobs /\ roll.pc = "idle") =>
        \A e \in Events : history[e] = IF e \in seen \ recent /\ InHistory(e) THEN 1 ELSE 0

(* What is stored is kept, and counted once.                                 *)
PipelineInv ==
    /\ TablesTypeOK
    /\ seen \subseteq Events /\ recent \subseteq seen
    /\ NothingLost /\ CountedOnce

(* Under the same conditions every commit or pull request that was stored    *)
(* weighs the same in the developers' totals, before and after it is rolled  *)
(* up: the sync counts it once, and as a recent row or by the roll-up it is  *)
(* counted once more.                                                        *)
EqualWeights ==
    (Without({"overlap", "write", "crash"}) /\ "backfill" \notin world.jobs
     /\ roll.pc = "idle" /\ job["sync"].pc = "idle") =>
        \A e \in seen : ForDeveloper(e) => credit[e] + (IF e \in recent THEN 1 ELSE 0) = 2

(* A repository is deactivated only after Threshold answers that it does not *)
(* exist, to sync and snapshot in total (the code never clears that count)   *)
(* or to the backfill since it last succeeded, or after TransientThreshold   *)
(* transient failures of the backfill in a row; unless a count was written   *)
(* twice.                                                                    *)
DeactivationEarned == [][
    Without({"write"}) => \A r \in Repos : repo[r].active /\ ~repo'[r].active =>
        \/ strikes[r].sync >= Threshold \/ strikes[r].fill >= Threshold
        \/ strikes[r].streak >= TransientThreshold]_vars

(* Activity that is too old leaves activity_recent at last, whatever stops   *)
(* or fails in between.                                                      *)
OldEventsLeave == \A e \in Events : e \in recent /\ DateOf[e] < now - Window ~> e \notin recent
===============================================================================
