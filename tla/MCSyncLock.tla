------------------------------ MODULE MCSyncLock ------------------------------
(* The job locks, and what jobs write under them.  A behaviour works one of   *)
(* four settings; what the others are about rests:                            *)
(*   "strict"    two heavy cron jobs of one container, and a trigger of the  *)
(*               first one in another, with STRICT_SYNC_LOCK_ENABLED;        *)
(*   "loose"     the same without it, and a sync that a read started instead *)
(*               of the trigger;                                             *)
(*   "power"     the stored voting power of two proposals;                   *)
(*   "inactive"  the power of inactive DReps.                                *)
EXTENDS SyncLock, VotingPower, InactivePower, TLC

CONSTANTS a1, a2, m1, j1, j2, c1, c2, p1, p2, drep, option

MCJobOf == [r \in Runs |-> IF r = a2 THEN j2 ELSE j1]
MCInstanceOf == [r \in Runs |-> IF r = m1 THEN c2 ELSE c1]
MCTtl == [r \in Runs |-> IF r = m1 THEN 1 ELSE 2]

Loose == INSTANCE SyncLock WITH Strict <- FALSE, ReadRuns <- {m1}

(* Two proposals, of which the first one is also read. *)
MCExpires == p1 :> 2 @@ p2 :> 3

(* A DRep, one of the predefined options, and actions of which the second is *)
(* submitted when the first is over                                          *)
MCSubmitted == [first |-> 0, second |-> 2]
MCExpiration == [first |-> 1, second |-> 4]

-------------------------------------------------------------------------------
VARIABLE setting

mcvars == <<vars, setting, powerVars, drepVars>>

MCInit ==
    /\ setting \in {"strict", "loose", "power", "inactive"}
    /\ Init /\ PowerInit /\ InactiveInit

(* Of the two totals, which have nothing in common, that of the DReps comes  *)
(* first.                                                                    *)
MCNext ==
    /\ \/ /\ \/ setting = "strict" /\ Next
             \/ setting = "loose" /\ Loose!Next
          /\ UNCHANGED <<powerVars, drepVars>>
       \/ /\ setting = "power" /\ PowerNext /\ run'["read"].todo \subseteq {p1}
          /\ \A r \in PowerRuns : run'[r].spo # None => run'[r].drep # None
          /\ UNCHANGED <<vars, drepVars>>
       \/ /\ setting = "inactive" /\ InactiveNext
          /\ UNCHANGED <<vars, powerVars>>
    /\ UNCHANGED setting

MCSpec == MCInit /\ [][MCNext]_mcvars
===============================================================================
