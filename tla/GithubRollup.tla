----------------------------- MODULE GithubRollup -----------------------------
(* The jobs that write the daily history, beside the sync: the roll-up of    *)
(* old events (aggregateRecentToHistorical) and the backfill of five years   *)
(* of a repository (backfillRepositories); and the weekly discovery.  Each   *)
(* has its own lock, so that they run at the same time: the roll-up and the  *)
(* sync of the moderate tier are both due at four o'clock.                   *)
EXTENDS GithubSync

CONSTANT TransientThreshold    \* backfillTransientFailureThreshold

ASSUME RollupAssumption == TransientThreshold \in Nat \ {0}

VARIABLES
    roll,        \* the run of the roll-up: [pc, cutoff, old]
    fill         \* the run of the backfill: [pc, todo, at, found, authors, why]

vars == <<tables, syncVars, roll, fill>>

NoRoll == [pc |-> "idle", cutoff |-> 0, old |-> {}]
NoFill == [pc |-> "idle", todo |-> {}, at |-> Nobody, found |-> {}, authors |-> {},
           why |-> "none"]

RollupInit == roll = NoRoll /\ fill = NoFill

----------------------------------------------------------------------------
(* The roll-up: what is older than the cutoff is read, added to the history, *)
(* added to what the developers' rows count, and deleted by the cutoff.      *)
(* Mutant: of the old events only those of the last day are looked for.      *)
OldYesterday(cutoff) == {e \in recent : DateOf[e] = cutoff - 1}
Old(cutoff)          == {e \in recent : DateOf[e] < cutoff}

RollRead ==
    /\ "rollup" \in world.jobs /\ roll.pc = "idle"
    /\ LET cutoff == now - Window IN
       /\ Old(cutoff) # {}
       /\ roll' = [pc |-> "history", cutoff |-> cutoff, old |-> Old(cutoff)]
    /\ UNCHANGED <<tables, syncVars, fill>>

(* INSERT ... ON CONFLICT DO UPDATE adds the counts of the buckets.          *)
RollHistory ==
    /\ roll.pc = "history"
    /\ \E w \in Writes :
         /\ Written(w)
         /\ history' = Plus(history, {e \in roll.old : InHistory(e)}, w.times)
         /\ days' = IF w.times = 0 THEN days ELSE days \cup Buckets(roll.old)
         /\ roll' = IF w.ok THEN [roll EXCEPT !.pc = "credit"] ELSE NoRoll
    /\ UNCHANGED <<now, recent, credit, developers, totals, repo, counters,
                   job, world, seen, strikes, fill>>

RollCredit ==
    /\ roll.pc = "credit"
    /\ \E w \in Writes :
         /\ Written(w) /\ (Authors(roll.old) = {} => w = Clean)
         /\ credit' = Credited(roll.old, w.times)
         /\ roll' = IF w.ok THEN [roll EXCEPT !.pc = "delete"] ELSE NoRoll
    /\ UNCHANGED <<now, recent, history, days, developers, totals, repo, counters,
                   job, world, seen, strikes, fill>>

(* Mutant: the deletion takes a cutoff of its own.                           *)
KeptLate(cutoff) == {e \in recent : DateOf[e] >= now - Window}
Kept(cutoff)     == {e \in recent : DateOf[e] >= cutoff}

RollDelete ==
    /\ roll.pc = "delete"
    /\ \E w \in Writes :
         /\ Written(w)
         /\ recent' = IF w.times = 0 THEN recent ELSE Kept(roll.cutoff)
         /\ roll' = IF w.ok THEN [roll EXCEPT !.pc = "totals"] ELSE NoRoll
    /\ UNCHANGED <<now, history, days, credit, developers, totals, repo, counters,
                   job, world, seen, strikes, fill>>

(* recomputeDeveloperStats; only this job writes the totals.                 *)
Recompute ==
    /\ roll.pc = "totals"
    /\ \E w \in Writes :
         /\ Written(w)
         /\ totals' = IF w.times = 0 THEN totals
                      ELSE [d \in Devs |-> IF d \in developers THEN Total(d) ELSE totals[d]]
    /\ roll' = NoRoll
    /\ UNCHANGED <<now, recent, history, days, credit, developers, repo, counters,
                   job, world, seen, strikes, fill>>

----------------------------------------------------------------------------
(* The backfill takes active repositories that have not been filled, most    *)
(* stars first (left open), and may stop early for the rate limit.           *)
FillStart ==
    /\ "backfill" \in world.jobs /\ fill.pc = "idle"
    /\ \E todo \in SUBSET {r \in Repos : repo[r].active /\ ~repo[r].filled} :
         todo # {} /\ fill' = [NoFill EXCEPT !.pc = "next", !.todo = todo]
    /\ UNCHANGED <<tables, syncVars, roll>>

FillNext ==
    /\ fill.pc = "next"
    /\ \/ fill' = NoFill
       \/ \E r \in fill.todo :
            fill' = [fill EXCEPT !.pc = "fetch", !.todo = @ \ {r}, !.at = r]
    /\ UNCHANGED <<tables, syncVars, roll>>

FillFails(why) == [fill EXCEPT !.pc = "failed", !.why = why, !.found = {}, !.authors = {}]

(* The four paginations: everything GitHub has of the repository by now.     *)
Commits(r)      == {e \in Visible(r, 0) : KindOf[e] = "commit"}
PullRequests(r) == {e \in Visible(r, 0) : KindOf[e] \in {"pr_opened", "pr_merged", "pr_closed"}}
Issues(r)       == {e \in Visible(r, 0) : KindOf[e] \in {"issue_opened", "issue_closed"}}
Releases(r)     == {e \in Visible(r, 0) : KindOf[e] = "release"}

FillFetch ==
    /\ fill.pc = "fetch"
    /\ \/ /\ fill' = [fill EXCEPT !.pc = "history",
               !.found = UNION {Commits(fill.at), PullRequests(fill.at), Issues(fill.at),
                                Releases(fill.at)}]
          /\ UNCHANGED faults
       \/ /\ "unresolved" \in world.troubles /\ fill' = FillFails("unresolved")
          /\ UNCHANGED faults
       \/ \E why \in {"transient", "other"} : Trouble("fetch") /\ fill' = FillFails(why)
    /\ UNCHANGED <<tables, job, seen, strikes, roll>>

(* A failing write is told from a failing request by its message only: one   *)
(* that timed out counts as a transient failure of GitHub.                   *)
FillWrite(w, next) ==
    /\ Written(w)
    /\ IF w.ok THEN fill' = next
       ELSE \E why \in {"transient", "other"} : fill' = FillFails(why)

(* createMany with skipDuplicates: a day that has a row keeps its counts.    *)
(* The backfill also counts releases, and a pull request once for its author *)
(* (when it was opened).                                                     *)
Tracked(e) == ForDeveloper(e) /\ KindOf[e] # "pr_merged"

FillHistory ==
    /\ fill.pc = "history"
    /\ LET new == {e \in fill.found : <<fill.at, DateOf[e]>> \notin days}
           next == [fill EXCEPT !.pc = "credit",
                                !.authors = Authors({e \in fill.found : Tracked(e)})] IN
       \E w \in Writes :
         /\ (fill.found = {} => w = Clean) /\ FillWrite(w, next)
         /\ IF w.times = 0 THEN UNCHANGED <<history, days>>
            ELSE history' = Plus(history, new, 1) /\ days' = days \cup Buckets(new)
    /\ UNCHANGED <<now, recent, credit, developers, totals, repo, counters,
                   job, world, seen, strikes, roll>>

(* Author by author: the developer, then the count, which is overwritten.    *)
FillCredit ==
    /\ fill.pc = "credit" /\ fill.authors # {}
    /\ \E d \in fill.authors, w \in Writes :
         /\ FillWrite(w, [fill EXCEPT !.authors = @ \ {d}])
         /\ developers' \in {developers \cup {d}} \cup (IF w.times = 0 THEN {developers} ELSE {})
         /\ credit' = IF w.times = 0 THEN credit
              ELSE [e \in Events |-> IF AuthorOf[e] = d /\ RepoOf[e] = fill.at
                                     THEN IF e \in fill.found /\ Tracked(e) THEN 1 ELSE 0
                                     ELSE credit[e]]
    /\ UNCHANGED <<now, recent, history, days, totals, repo, counters,
                   job, world, seen, strikes, roll>>

(* backfilledAt, and then both counters of the backfill are cleared.         *)
FillMark ==
    /\ fill.pc = "credit" /\ fill.authors = {}
    /\ \E w \in Writes :
         /\ FillWrite(w, [fill EXCEPT !.pc = "clear"])
         /\ repo' = IF w.times = 0 THEN repo ELSE [repo EXCEPT ![fill.at].filled = TRUE]
    /\ UNCHANGED <<now, recent, history, days, credit, developers, totals, counters,
                   job, world, seen, strikes, roll>>

Cleared(kinds, r) ==
    [k \in CounterKinds |-> IF k \in kinds THEN [counters[k] EXCEPT ![r] = 0] ELSE counters[k]]

FillClear ==
    /\ fill.pc = "clear"
    /\ \E w \in Writes :
         /\ FillWrite(w, [NoFill EXCEPT !.pc = "next", !.todo = fill.todo])
         /\ counters' = IF w.times = 0 THEN counters
                        ELSE Cleared({"backfillTransient", "backfillUnresolved"}, fill.at)
    /\ strikes' = [strikes EXCEPT ![fill.at].fill = 0, ![fill.at].streak = 0]
    /\ UNCHANGED <<now, recent, history, days, credit, developers, totals, repo,
                   job, world, seen, roll>>

(* handleBackfillRepoFailure: any failure but a transient one clears the     *)
(* transient count; an unresolved or transient one is counted, and at its    *)
(* threshold deactivates the repository.  A write that fails here ends the   *)
(* run.                                                                      *)
(* Mutant: only a success clears the count of transient failures. *)
AfterKept(why, r) == counters
After(why, r) == IF why = "transient" THEN counters ELSE Cleared({"backfillTransient"}, r)

FillFailed ==
    /\ fill.pc = "failed"
    /\ LET r == fill.at
           base == After(fill.why, r)
           kind == IF fill.why = "transient" THEN "backfillTransient" ELSE "backfillUnresolved"
           limit == IF fill.why = "transient" THEN TransientThreshold ELSE Threshold
           onward == [NoFill EXCEPT !.pc = "next", !.todo = fill.todo] IN
       \E w \in Writes :
         LET n == Capped(base[kind][r] + w.times) IN
         /\ Written(w)
         /\ IF fill.why = "other"
            THEN /\ counters' = IF w.times = 0 THEN counters ELSE base
                 /\ fill' = IF w.ok THEN onward ELSE NoFill
            ELSE /\ counters' \in {[base EXCEPT ![kind][r] = n]}
                                  \cup (IF w.times = 0 THEN {counters} ELSE {})
                 /\ fill' = IF ~w.ok THEN NoFill
                            ELSE IF n >= limit THEN [fill EXCEPT !.pc = "disable"] ELSE onward
         /\ strikes' = [strikes EXCEPT
              ![r].fill = IF fill.why = "unresolved" THEN Capped(@ + 1) ELSE @,
              ![r].streak = IF fill.why = "transient" THEN Capped(@ + 1) ELSE 0]
    /\ UNCHANGED <<now, recent, history, days, credit, developers, totals, repo,
                   job, world, seen, roll>>

FillDisable ==
    /\ fill.pc = "disable"
    /\ \E w \in Writes :
         /\ Written(w)
         /\ repo' = [repo EXCEPT ![fill.at].active = @ /\ w.times = 0]
         /\ fill' = IF w.ok THEN [NoFill EXCEPT !.pc = "next", !.todo = fill.todo] ELSE NoFill
    /\ UNCHANGED <<now, recent, history, days, credit, developers, totals, counters,
                   job, world, seen, strikes, roll>>

----------------------------------------------------------------------------
(* discoverRepositories, for one repository it has found: a known one is     *)
(* made active again, whatever deactivated it and whatever is counted, and   *)
(* its last activity becomes the time of its last push; an unknown one (not  *)
(* active, in the default tier) is created.                                  *)
Discover(r) ==
    /\ "discovery" \in world.jobs
    /\ \E pushed \in Never .. now :
         repo' = [repo EXCEPT ![r].active = TRUE, ![r].last = pushed]
    /\ repo' # repo
    /\ UNCHANGED <<world, now, recent, history, days, credit, developers, totals, counters,
                   syncVars, roll, fill>>

CrashOfRoll == roll.pc # "idle" /\ Trouble("crash") /\ roll' = NoRoll
               /\ UNCHANGED <<tables, job, seen, strikes, fill>>
CrashOfFill == fill.pc # "idle" /\ Trouble("crash") /\ fill' = NoFill
               /\ UNCHANGED <<tables, job, seen, strikes, roll>>

RollStep == RollHistory \/ RollCredit \/ RollDelete \/ Recompute
FillStep == \/ FillNext \/ FillFetch \/ FillHistory \/ FillCredit \/ FillMark \/ FillClear
            \/ FillFailed \/ FillDisable
===============================================================================
