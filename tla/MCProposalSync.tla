---------------------------- MODULE MCProposalSync ----------------------------
(* The cron job and runs that reads or requests start, in its process and   *)
(* in another: all kinds of runs in both, or some kinds in one process.  And *)
(* the ingestion of one proposal's votes, one more than a page: it shares   *)
(* no state with the rest, and a behaviour works one of the two.             *)
EXTENDS ProposalSync, VoteIngestion

CONSTANTS cron, r1, r2, a, b

TwoProcesses == [w \in Workers |-> IF w = r2 THEN b ELSE a]

VARIABLE setting

mcvars == <<vars, world, setting, ingestVars>>

World(here, there, info, outcomes, ballots, faults) ==
    [kinds |-> [w \in Workers |-> IF w = r1 THEN here ELSE IF w = r2 THEN there ELSE {}],
     info |-> info, outcomes |-> outcomes, ballots |-> ballots, faults |-> faults]

Any == {"ratified", "expired", "dropped"}

(* All kinds of runs, for one course of the proposal, and no failures; but   *)
(* in the other process no request to ingest the proposal, which shares no   *)
(* more with the first one than a sync of the details does.  One process: no *)
(* run of details, or nothing else but the overview, for an info action.     *)
MCWorlds ==
    {World({"overview", "details", "single"}, {"overview", "details"}, FALSE, {"ratified"}, 0, 0),
     World({"overview", "single"}, {}, FALSE, Any, 2, 1),
     World({"overview"}, {}, TRUE, Any, 2, 1)}

MCInit == /\ world \in MCWorlds /\ Init /\ IngestInit
          /\ setting \in {"proposal", "votes"}
          /\ setting = "votes" => world.info
MCNext == /\ \/ setting = "proposal" /\ Next /\ UNCHANGED ingestVars
             \/ setting = "votes" /\ IngestNext /\ UNCHANGED <<vars, world>>
          /\ UNCHANGED setting

MCFairSpec ==
    /\ MCInit /\ [][MCNext]_mcvars
    /\ WF_vars(setting = "proposal" /\ BeginBulk)
    /\ \A w \in Workers : WF_vars(setting = "proposal" /\ Step(w))
    /\ WF_ingestVars(setting = "votes" /\ (BeginIngest \/ RunStep))

(* The cron job alone, and nothing fails.                                    *)
CronOnly ==
    /\ world = World({}, {}, FALSE, Any, 1, 0)
    /\ Init /\ IngestInit /\ setting = "proposal"
    /\ [][MCNext]_mcvars
    /\ WF_vars(BeginBulk) /\ WF_vars(Step(cron))

(* The database comes to agree with the chain, and stays so, except that a  *)
(* proposal whose ratification was synced may stay ratified; and once no    *)
(* block brings votes, all votes come to be in it.                          *)
DatabaseConverges ==
    /\ <>[](setting = "proposal" => SettledOnce)
    /\ <>[](Ids(onchain) \subseteq stored)
===============================================================================
