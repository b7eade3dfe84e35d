----------------------------- MODULE GithubTables -----------------------------
(* The tables of the GitHub pipeline and what its jobs do to them.  Activity *)
(* of the last Window ticks lies event by event in activity_recent; the      *)
(* roll-up adds what is older to the daily rows of activity_historical.  The *)
(* commits and pull requests of a developer in a repository are counted in   *)
(* developer_repo_activity.                                                  *)
(* A tick of the clock is a moment that matters to the window: an event, or  *)
(* an event getting too old.  A counter is kept as the bag of the events it  *)
(* counted, so that one can say which event is missing or is there twice.    *)
EXTENDS Integers, FiniteSets, FiniteSetsExt

CONSTANTS
    Repos, Devs, Events,
    RepoOf,      \* Events -> Repos
    KindOf,      \* Events -> Kinds, the eventType
    AuthorOf,    \* Events -> Devs \cup {Nobody}: a commit may have no user
    DateOf,      \* Events -> 0 .. MaxDay
    Nobody,
    Window,      \* RECENT_WINDOW_DAYS, in ticks
    Dormant,     \* the 90 days of the tiers, in ticks
    MaxDay,      \* bound: the last tick
    MaxCount     \* bound: how often a counter counts an event

Kinds == {"commit", "pr_opened", "pr_merged", "pr_closed",
          "issue_opened", "issue_closed", "release"}
Tiers == {"active", "moderate", "dormant"}
Never == -1      \* lastActivityAt is null

ASSUME TablesAssumption ==
    /\ RepoOf \in [Events -> Repos]
    /\ KindOf \in [Events -> Kinds]
    /\ AuthorOf \in [Events -> Devs \cup {Nobody}]
    /\ Nobody \notin Devs
    /\ MaxDay \in Nat
    /\ DateOf \in [Events -> 0 .. MaxDay]
    /\ Window \in Nat \ {0}
    /\ Dormant \in Nat
    /\ MaxCount \in Nat /\ MaxCount >= 2
    /\ IsFiniteSet(Repos) /\ IsFiniteSet(Events)

VARIABLES
    world,       \* [jobs, troubles, events]: what can happen in this behaviour
    now,
    recent,      \* the rows of activity_recent
    history,     \* [Events -> Nat]: what the rows of activity_historical count
    days,        \* the keys <<repo, day>> of the rows of activity_historical
    credit,      \* [Events -> Nat]: what developer_repo_activity counts
    developers,  \* the rows of github_developer
    totals,      \* [Devs -> Nat]: totalCommits + totalPRs of github_developer
    repo,        \* [Repos -> [tier, active, last, filled]]: github_repository
    counters     \* [CounterKinds -> [Repos -> Nat]]: repoHealthCounters

tables == <<world, now, recent, history, days, credit, developers, totals, repo, counters>>

CounterKinds == {"activityUnresolved", "backfillTransient", "backfillUnresolved"}

Visible(r, since) == {e \in world.events : RepoOf[e] = r /\ DateOf[e] \in since .. now}

(* A release opens its day's bucket and is counted in none of its columns.   *)
InHistory(e) == KindOf[e] # "release"

(* Commits, and pull requests when they are opened and when they are merged, *)
(* count for their author.                                                   *)
ForDeveloper(e) == AuthorOf[e] # Nobody /\ KindOf[e] \in {"commit", "pr_opened", "pr_merged"}

Buckets(E) == {<<RepoOf[e], DateOf[e]>> : e \in E}
Authors(E) == {AuthorOf[e] : e \in E} \ {Nobody}

Capped(n) == IF n > MaxCount THEN MaxCount ELSE n
Plus(bag, E, times) == [e \in Events |-> IF e \in E THEN Capped(bag[e] + times) ELSE bag[e]]

(* INSERT ... INNER JOIN github_developer: an unknown author's events are    *)
(* not counted.                                                              *)
Credited(E, times) ==
    Plus(credit, {e \in E : ForDeveloper(e) /\ AuthorOf[e] \in developers}, times)

(* A write: how often it was applied and whether the caller hears of it.     *)
(* withDbWrite runs a write again whose answer was lost.                     *)
Clean == [times |-> 1, ok |-> TRUE]
Writes == {Clean,
           [times |-> 2, ok |-> TRUE],      \* the answer was lost, the retry went through
           [times |-> 0, ok |-> FALSE],
           [times |-> 1, ok |-> FALSE]}     \* applied, and every answer was lost

(* The repository row of a new discovery: syncTier has the default "active". *)
NewRepo == [tier |-> "active", active |-> TRUE, last |-> Never, filled |-> FALSE]
Unknown == [NewRepo EXCEPT !.active = FALSE]

TablesInit ==
    /\ world.events \subseteq Events
    /\ now = 0
    /\ recent = {}
    /\ history = [e \in Events |-> 0]
    /\ days = {}
    /\ credit = [e \in Events |-> 0]
    /\ developers = {}
    /\ totals = [d \in Devs |-> 0]
    /\ repo \in [Repos -> {NewRepo, Unknown}]
    /\ counters = [k \in CounterKinds |-> [r \in Repos |-> 0]]

TablesTypeOK ==
    /\ now \in 0 .. MaxDay
    /\ recent \subseteq Events
    /\ history \in [Events -> 0 .. MaxCount]
    /\ days \subseteq Repos \X (0 .. MaxDay)
    /\ credit \in [Events -> 0 .. MaxCount]
    /\ developers \subseteq Devs
    /\ totals \in [Devs -> Nat]
    /\ repo \in [Repos -> [tier : Tiers, active : BOOLEAN, last : Never .. MaxDay,
                           filled : BOOLEAN]]
    /\ counters \in [CounterKinds -> [Repos -> 0 .. MaxCount]]

(* recomputeDeveloperStats: what developer_repo_activity counts (the entries *)
(* of a bag), and one for every row of activity_recent.                      *)
Total(d) ==
    LET mine == {e \in Events : AuthorOf[e] = d /\ ForDeveloper(e)} IN
    Cardinality({x \in mine \X (1 .. MaxCount) : x[2] <= credit[x[1]]})
        + Cardinality(mine \cap recent)

(* The three updates of reTierRepos, in their order.  An active repository   *)
(* whose last activity is older than Dormant is in none of them, and one     *)
(* without activity is in the last two.                                      *)
Fresh(row) == row.last # Never /\ row.last >= now - Window
Cold(row)  == row.last = Never \/ row.last < now - Dormant
TierUpdates == <<
    [when |-> {r \in Repos : repo[r].active /\ repo[r].tier # "active" /\ Fresh(repo[r])},
     tier |-> "active"],
    [when |-> {r \in Repos : repo[r].active /\ repo[r].tier = "active" /\ ~Fresh(repo[r])
                             /\ (repo[r].last = Never \/ repo[r].last >= now - Dormant)},
     tier |-> "moderate"],
    [when |-> {r \in Repos : repo[r].active /\ repo[r].tier = "moderate" /\ Cold(repo[r])},
     tier |-> "dormant"] >>

Retiered(k) == [r \in Repos |-> IF r \in TierUpdates[k].when
                                THEN [repo[r] EXCEPT !.tier = TierUpdates[k].tier]
                                ELSE repo[r]]
===============================================================================
