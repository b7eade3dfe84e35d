------------------------------ MODULE GithubSync ------------------------------
(* The jobs that ask GitHub for batches of repositories: the activity sync,  *)
(* which stores events and counts them for their authors, and the daily      *)
(* snapshot.  A batch is asked for again without the repositories GitHub     *)
(* cannot resolve; a batch that throws counts all its repositories as        *)
(* failed, also those it has counted before.  The order in which the code    *)
(* takes repositories within a tier is left open.                            *)
EXTENDS GithubTables

CONSTANTS
    BatchSize,
    Threshold    \* unresolvedRepoDisableThreshold

ASSUME SyncAssumption == BatchSize \in Nat \ {0} /\ Threshold \in Nat \ {0}

VARIABLES
    job,         \* ["sync" | "snapshot" -> the state of its run]
    faults,      \* how many faults can still happen
    seen,        \* history: the events that have ever been stored
    strikes      \* history: the answers that count against a repository

syncVars == <<job, faults, seen, strikes>>
Batchers == {"sync", "snapshot"}

NoRun == [pc |-> "idle", tier |-> "active", since |-> 0, todo |-> {}, batch |-> {},
          left |-> {}, gone |-> {}, data |-> [r \in {} |-> {}], at |-> Nobody,
          stored |-> {}, authors |-> {}, total |-> 0, success |-> 0, failed |-> 0]

SyncInit ==
    /\ faults \in Nat
    /\ job = [j \in Batchers |-> NoRun]
    /\ seen = {}
    /\ strikes = [r \in Repos |-> [sync |-> 0, fill |-> 0, streak |-> 0]]

Trouble(t) == t \in world.troubles /\ faults > 0 /\ faults' = faults - 1
Written(w) == IF w = Clean THEN UNCHANGED faults ELSE w \in Writes /\ Trouble("write")

Goto(j, run) == job' = [job EXCEPT ![j] = run]

(* syncRepos, snapshotAllRepos: the window and the repositories are fixed    *)
(* when the run begins; in fail-fast mode all of them have failed.           *)
Since == now - Window

Candidates(j, t) == {r \in Repos : repo[r].active /\ (j = "sync" => repo[r].tier = t)}
Begin(j, t) ==
    LET mine == Candidates(j, t)
        run  == [NoRun EXCEPT !.tier = t, !.since = IF j = "sync" THEN Since ELSE 0,
                              !.total = Cardinality(mine)]
    IN \/ /\ Goto(j, [run EXCEPT !.todo = mine, !.pc = IF mine = {} THEN "done" ELSE "batch"])
          /\ UNCHANGED faults
       \/ /\ mine # {} /\ Trouble("failfast")
          /\ Goto(j, [run EXCEPT !.failed = run.total, !.pc = "done"])

Start(j) ==
    /\ j \in world.jobs /\ job[j].pc = "idle"
    /\ Begin(j, "active")
    /\ UNCHANGED <<tables, seen, strikes>>

NextBatch(j) ==
    /\ job[j].pc = "batch"
    /\ \E b \in SUBSET job[j].todo :
         /\ b # {} /\ (Cardinality(b) = BatchSize \/ b = job[j].todo) /\ Cardinality(b) <= BatchSize
         /\ Goto(j, [job[j] EXCEPT !.pc = "fetch", !.batch = b, !.left = b, !.todo = @ \ b,
                                   !.stored = {}, !.authors = {}])
    /\ UNCHANGED <<tables, faults, seen, strikes>>

(* What follows a batch, and what follows one that throws.                   *)
Ended(run)  == [run EXCEPT !.pc = IF run.todo = {} THEN "done" ELSE "batch", !.left = {},
                           !.gone = {}, !.data = NoRun.data, !.at = Nobody, !.batch = {},
                           !.stored = {}, !.authors = {}]
(* Mutant: an error of a whole batch is only logged. *)
ThrownUncounted(run) == Ended(run)
Thrown(run) == Ended([run EXCEPT !.failed = @ + Cardinality(run.batch)])

(* The names an error of GitHub says it cannot resolve.                      *)
Unresolvable(run) == SUBSET run.left \ {{}}

(* GitHub answers, for all or, rarely, for some of the repositories; it      *)
(* cannot resolve some; or the request fails after its retries.              *)
Fetch(j) ==
    /\ job[j].pc = "fetch"
    /\ \/ \E D \in SUBSET job[j].left :
            /\ IF D = job[j].left THEN UNCHANGED faults ELSE Trouble("fetch")
            /\ Goto(j, [job[j] EXCEPT
                  !.pc = "repo", !.left = D,
                  !.failed = @ + Cardinality(job[j].left \ D),
                  !.data = [r \in D |-> IF j = "sync" THEN Visible(r, job[j].since) ELSE {}]])
       \/ \E gone \in Unresolvable(job[j]) :
            /\ "unresolved" \in world.troubles
            /\ Goto(j, [job[j] EXCEPT !.pc = "gone", !.gone = gone])
            /\ UNCHANGED faults
       \/ Trouble("fetch") /\ Goto(j, Thrown(job[j]))
    /\ UNCHANGED <<tables, seen, strikes>>

(* fetchBatchDataWithUnresolvedHandling goes on with the next repository it  *)
(* could not resolve, asks again for the rest, or has none left.             *)
Forgotten(run, r) ==
    LET rest == [run EXCEPT !.gone = @ \ {r}, !.left = @ \ {r}, !.at = Nobody, !.pc = "gone"]
    IN IF rest.gone # {} THEN rest
       ELSE IF rest.left = {} THEN Ended(rest) ELSE [rest EXCEPT !.pc = "fetch"]

(* markRepoUnresolved counts the answer in the shared cursor; when the count *)
(* reaches the threshold the repository is deactivated.                      *)
MarkUnresolved(j) ==
    /\ job[j].pc = "gone"
    /\ \E r \in job[j].gone, w \in Writes :
         LET n == Capped(counters["activityUnresolved"][r] + w.times) IN
         /\ Written(w)
         /\ counters' = [counters EXCEPT !["activityUnresolved"][r] = n]
         /\ strikes' = [strikes EXCEPT ![r].sync = Capped(@ + 1)]
         /\ LET run == [job[j] EXCEPT !.failed = @ + 1] IN
            Goto(j, IF ~w.ok THEN Thrown(job[j])
                    ELSE IF n < Threshold THEN Forgotten(run, r)
                    ELSE [run EXCEPT !.pc = "disable", !.at = r])
    /\ UNCHANGED <<now, recent, history, days, credit, developers, totals, repo, world, seen>>

Disable(j) ==
    /\ job[j].pc = "disable"
    /\ \E w \in Writes :
         /\ Written(w)
         /\ repo' = [repo EXCEPT ![job[j].at].active = @ /\ w.times = 0]
         /\ Goto(j, IF w.ok THEN Forgotten(job[j], job[j].at) ELSE Thrown(job[j]))
    /\ UNCHANGED <<now, recent, history, days, credit, developers, totals, counters,
                   world, seen, strikes>>

(* The repositories of a batch one by one.  A failure within one is counted  *)
(* and the next one is taken.                                                *)
RepoFailed(run) == [run EXCEPT !.failed = @ + 1, !.pc = "repo", !.at = Nobody]
NextRepo(j) ==
    /\ job[j].pc = "repo" /\ job[j].left # {}
    /\ \E r \in job[j].left :
         LET run == [job[j] EXCEPT !.left = @ \ {r}, !.at = r] IN
         \/ Goto(j, [run EXCEPT !.pc = IF j = "sync" THEN "insert" ELSE "meta"]) /\ UNCHANGED faults
         \/ Trouble("failfast") /\ Goto(j, RepoFailed(run))
    /\ UNCHANGED <<tables, seen, strikes>>

(* insertRecentEventsReturningInserted: ON CONFLICT DO NOTHING, and only the *)
(* rows a statement itself inserted are reported for the statistics.  When   *)
(* an answer is lost, the repeated statement, or the row by row fallback,    *)
(* finds the rows there and reports none; the fallback can fail half way.    *)
(* Mutant: all events of the answer are reported. *)
ReportedAll(run) == run.data[run.at]
Reported(run) == run.data[run.at] \ recent

Insert ==
    /\ job["sync"].pc = "insert"
    /\ LET run == job["sync"]
           new == run.data[run.at] \ recent
           onward(reported) == [run EXCEPT !.pc = "meta", !.stored = @ \cup reported,
                                           !.authors = @ \cup Authors(run.data[run.at])] IN
       \/ recent' = recent \cup new /\ Goto("sync", onward(Reported(run))) /\ UNCHANGED faults
       \/ recent' = recent \cup new /\ Goto("sync", onward({})) /\ Trouble("write")
       \/ \E some \in SUBSET new :
            recent' = recent \cup some /\ Goto("sync", RepoFailed(run)) /\ Trouble("write")
    /\ seen' = seen \cup recent'
    /\ UNCHANGED <<now, history, days, credit, developers, totals, repo, counters,
                   world, strikes>>

(* The daily snapshot and the repository's metadata: the sync writes the     *)
(* date of the latest event it has seen, if any.                             *)
Meta(j) ==
    /\ job[j].pc = "meta"
    /\ LET run == job[j]
           dates == {DateOf[e] : e \in run.data[run.at]} IN
       \E w \in Writes :
         /\ Written(w)
         /\ repo' = IF w.times = 0 \/ dates = {} THEN repo
                    ELSE [repo EXCEPT ![run.at].last = Max(dates)]
         /\ Goto(j, IF w.ok THEN [run EXCEPT !.success = @ + 1, !.pc = "repo", !.at = Nobody]
                    ELSE RepoFailed(run))
    /\ UNCHANGED <<now, recent, history, days, credit, developers, totals, counters,
                   world, seen, strikes>>

(* The authors of the repositories whose events were stored; the batch of a  *)
(* snapshot is done.                                                         *)
UpsertDevelopers(j) ==
    /\ job[j].pc = "repo" /\ job[j].left = {}
    /\ IF j = "snapshot" THEN Goto(j, Ended(job[j])) /\ UNCHANGED <<developers, faults>>
       ELSE \E w \in Writes :
              /\ Written(w) /\ (job[j].authors = {} => w = Clean)
              /\ developers' = IF w.times = 0 THEN developers ELSE developers \cup job[j].authors
              /\ Goto(j, IF w.ok THEN [job[j] EXCEPT !.pc = "stats"] ELSE Thrown(job[j]))
    /\ UNCHANGED <<now, recent, history, days, credit, totals, repo, counters,
                   world, seen, strikes>>

(* updateDeveloperRepoStats adds what was inserted to what is there: the     *)
(* write is not idempotent.                                                  *)
UpdateStats ==
    /\ job["sync"].pc = "stats"
    /\ \E w \in Writes :
         /\ Written(w) /\ (Authors(job["sync"].stored) = {} => w = Clean)
         /\ credit' = Credited(job["sync"].stored, w.times)
         /\ Goto("sync", IF w.ok THEN Ended(job["sync"]) ELSE Thrown(job["sync"]))
    /\ UNCHANGED <<now, recent, history, days, developers, totals, repo, counters,
                   world, seen, strikes>>

(* The cron job goes on with the moderate tier at 4, the dormant one on      *)
(* Sundays at 5, and the re-tiering at 6; the trigger takes all tiers.       *)
Rank(t) == CASE t = "active" -> 1 [] t = "moderate" -> 2 [] t = "dormant" -> 3
NextTier ==
    /\ job["sync"].pc = "done"
    /\ \E t \in Tiers : Rank(t) > Rank(job["sync"].tier) /\ Begin("sync", t)
    /\ UNCHANGED <<tables, seen, strikes>>

Retier ==
    /\ job["sync"].pc \in {"done", "tier2", "tier3"}
    /\ LET k == CASE job["sync"].pc = "done" -> 1 [] job["sync"].pc = "tier2" -> 2
                  [] OTHER -> 3
           pcs == <<"tier2", "tier3", "idle">> IN
       \E w \in Writes :
         /\ Written(w)
         /\ repo' = IF w.times = 0 THEN repo ELSE Retiered(k)
         /\ Goto("sync", IF w.ok /\ k < 3 THEN [job["sync"] EXCEPT !.pc = pcs[k]] ELSE NoRun)
    /\ UNCHANGED <<now, recent, history, days, credit, developers, totals, counters,
                   world, seen, strikes>>

End(j) ==
    /\ job[j].pc = "done"
    /\ Goto(j, NoRun)
    /\ UNCHANGED <<tables, faults, seen, strikes>>

CrashOf(j) ==
    /\ job[j].pc # "idle"
    /\ Trouble("crash") /\ Goto(j, NoRun)
    /\ UNCHANGED <<tables, seen, strikes>>

BatchStep(j) == \/ NextBatch(j) \/ Fetch(j) \/ MarkUnresolved(j) \/ Disable(j) \/ NextRepo(j)
                \/ Meta(j) \/ UpsertDevelopers(j) \/ End(j)
SyncStep == BatchStep("sync") \/ Insert \/ UpdateStats \/ NextTier \/ Retier

(* Every repository of a run is counted as done or as failed: a batch that   *)
(* throws, an answer without data, and an unresolved repository included;    *)
(* each once, as long as no batch throws after it has counted.               *)
EveryRepoAccounted == \A j \in Batchers : job[j].pc = "done" =>
    /\ job[j].success + job[j].failed >= job[j].total
    /\ world.troubles \cap {"write", "fetch"} = {} =>
         job[j].success + job[j].failed = job[j].total
===============================================================================
