------------------------------- MODULE MCGithub -------------------------------
(* A commit, a merged pull request and a release of one developer with the   *)
(* sync, the roll-up and the backfill; and repositories without activity     *)
(* with everything that counts against a repository.  And two calls of a     *)
(* process with its pulls and publications, and two transactions on the row. *)
EXTENDS GithubPipeline, GithubClient, TLC

CONSTANTS r1, r2, dev, e1, e2, e3, proc, c1, c2, x1, x2

MCRepoOf   == (e1 :> r1) @@ (e2 :> r1) @@ (e3 :> r1)
MCKindOf   == (e1 :> "commit") @@ (e2 :> "pr_merged") @@ (e3 :> "release")
MCAuthorOf == (e1 :> dev) @@ (e2 :> dev) @@ (e3 :> dev)
MCDateOf   == (e1 :> 0) @@ (e2 :> 1) @@ (e3 :> 0)
MCHome     == (c1 :> proc) @@ (c2 :> proc)

World(jobs, troubles, n, events, known) ==
    /\ world = [jobs |-> jobs, troubles |-> troubles, events |-> events]
    /\ faults = n
    /\ repo = [r \in Repos |-> IF r \in known THEN NewRepo ELSE Unknown]

Worlds ==
    \/ World({"clock", "sync", "rollup"}, {}, 0, Events, {r1})
    \/ World({"clock", "sync", "rollup"}, {"write", "crash"}, 1, Events, {r1})
    \/ World({"clock", "sync", "rollup"}, {"fetch", "failfast"}, 1, Events, {r1})
    \/ World({"clock", "sync", "rollup", "backfill"}, {"write", "crash"}, 1, {e1, e2}, {r1})
    \/ World({"clock", "sync", "rollup"}, {"overlap"}, 0, Events, {r1})
    \/ World({"sync"}, {"unresolved", "fetch"}, 1, {}, {r1, r2})
    \/ World({"sync", "snapshot"}, {"unresolved"}, 0, {}, {r1})
    \/ World({"backfill", "discovery"}, {"unresolved", "fetch"}, 3, {}, {r1})
    \/ World({"cursor"}, {}, 0, {}, {})
    \/ World({"calls"}, {}, 0, {}, {})

Cursor == world.jobs = {"cursor"}
CallsOnly == world.jobs = {"calls"}

MCInit == Worlds /\ Init /\ ClientInit
MCNext ==
    \/ ~Cursor /\ ~CallsOnly /\ Next /\ UNCHANGED allVars
    \/ /\ \/ Cursor /\ (\E x \in Writers : CursorNext(x))
          \/ /\ CallsOnly
             /\ \/ CursorStep(x1)
                \/ \E c \in Calls : Ask(c) \/ CallStep(c)
                \/ \E q \in Processes : PullEnds(q) \/ IntervalEnds(q)
             /\ change'[x2] = change[x2]
          \/ MomentPasses /\ (Cursor \/ CallsOnly)
       /\ UNCHANGED vars
(* The fairness of the modules, for the world that is at work. *)
MCSpec == /\ MCInit /\ [][MCNext]_<<vars, allVars>> /\ Fairness /\ StepsGoOn
          /\ WF_allVars((Cursor \/ CallsOnly) /\ MomentPasses)
===============================================================================
