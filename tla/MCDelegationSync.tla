--------------------------- MODULE MCDelegationSync ---------------------------
(* Two stake addresses and two DReps, of which the inventory has one: runs   *)
(* that stop, and an epoch that ends ("stopping"), or requests that fail and *)
(* an inventory that grows of itself ("failing").  And the totals of three   *)
(* epochs ("totals"), which the scans of the delegation sync keep from being *)
(* complete: of those only the lane matters there (nobody delegates), and a  *)
(* behaviour works one of the three.                                         *)
EXTENDS DelegationSync

CONSTANTS a, b, NoRow

InOrder == [d \in {a, b} |-> IF d = a THEN 0 ELSE 1]

VARIABLES setting, current, totals, synced, lane, scanning, sync, errors, scans

Stopping == INSTANCE DelegationSync WITH MaxFails <- 0
Failing == INSTANCE DelegationSync WITH MaxStops <- 0, MaxEpoch <- 1

StoppingNext == \/ Stopping!RunStep \/ Stopping!Stop \/ Stopping!NewEpoch
                \/ \E s \in Stakes, d \in Dreps \cup {None} : Stopping!Move(s, d)

Totals == INSTANCE EpochTotals WITH
    SelfHealingAfter <- -1, Straddles <- FALSE, LastEpoch <- 2,
    MaxFails <- 1, MaxScans <- 1, None <- NoRow, fails <- errors

totalsVars == <<current, totals, synced, lane, scanning, sync, errors, scans>>
mcvars == <<vars, setting, totalsVars>>

MCInit == /\ Init /\ Totals!TotalsInit /\ setting \in {"stopping", "failing", "totals"}
          /\ setting = "totals" => \A s \in Stakes : chain[s] = None
MCNext == /\ \/ setting = "stopping" /\ StoppingNext /\ UNCHANGED totalsVars
             \/ setting = "failing" /\ Failing!Next /\ UNCHANGED totalsVars
             \/ setting = "totals" /\ Totals!TotalsNext /\ UNCHANGED vars
          /\ UNCHANGED setting

MCFairSpec ==
    /\ MCInit /\ [][MCNext]_mcvars
    /\ WF_vars(setting = "stopping" /\ Stopping!RunStep)
    /\ WF_vars(setting = "failing" /\ Failing!RunStep)
    /\ \A j \in Totals!Jobs : WF_totalsVars(setting = "totals" /\ Totals!TotalsStep(j))
    /\ WF_totalsVars(setting = "totals" /\ (Totals!LaneFreed \/ Totals!ScanEnds))

(* The totals of every closed epoch come to be complete, and stay so.        *)
TotalsConverge == <>[](setting = "totals" => Totals!TotalsComplete)
===============================================================================
