------------------------------ MODULE VotingPower ------------------------------
(* The update of a proposal's stored voting power                            *)
(* (proposalVotingPower.service.ts): one summary from Koios, two totals and  *)
(* the inactive power of the epochs the proposal calls for, and then one     *)
(* write of all fourteen columns.  Two runs go on at a time: the job's bulk  *)
(* run, which keeps what it fetched for its later proposals, and a sync on   *)
(* read, which does not; the inactive power is also cached by the process.   *)
(* A number is modelled by where it comes from.                              *)
EXTENDS Integers, FiniteSets

CONSTANTS
    Proposals,
    Expires,       \* the epoch in which a proposal expires
    PowerRuns,          \* {"bulk", "read"}
    LastEpoch,     \* bound
    None,          \* no value
    Failed         \* the answer that failed

ASSUME PowerAssumption == Expires \in [Proposals -> Nat]

VARIABLES
    epoch,         \* the epoch of the chain
    written,       \* the row that was written last, or None
    run,           \* [pc, epoch, todo, p, summary, drep, spo, inactive]
    cache,         \* what the bulk run keeps: [drep, spo, inactive], sets
    process        \* the process cache of the inactive power: a set

powerVars == <<epoch, written, run, cache, process>>

Epochs == 0 .. LastEpoch

(* resolveVotingPowerEpochs: at its expiration a proposal is completed, and  *)
(* its numbers are those of that epoch, not of the present.  (A ratified     *)
(* proposal's totals are of its ratification: left out.)                     *)
Completed(p, e) == Expires[p] <= e
DrepEpoch(p, e) == IF Completed(p, e) THEN Expires[p] ELSE e
SpoEpoch(p, e)  == DrepEpoch(p, e) - 1
(* Mutant: one key for both ways of computing it. *)
InactiveKeyPlain(p, e) == [epoch |-> DrepEpoch(p, e), mode |-> "any"]
InactiveKey(p, e) == [epoch |-> DrepEpoch(p, e),
                      mode |-> IF Completed(p, e) THEN "completed" ELSE "active"]

Idle == [pc |-> "idle", epoch |-> 0, todo |-> {}, p |-> None, summary |-> None,
         drep |-> None, spo |-> None, inactive |-> None]
NoCache == [drep |-> {}, spo |-> {}, inactive |-> {}]

PowerInit ==
    /\ epoch = 1 /\ written = None
    /\ run = [r \in PowerRuns |-> Idle] /\ cache = NoCache /\ process = {}

----------------------------------------------------------------------------
(* The bulk run takes every proposal, with the epoch it has read once; a     *)
(* sync on read takes one.                                                   *)
StartPower(r) ==
    /\ run[r].pc = "idle"
    /\ \E todo \in (IF r = "bulk" THEN {Proposals} ELSE {{p} : p \in Proposals}) :
         run' = [run EXCEPT ![r] = [Idle EXCEPT !.pc = "next", !.epoch = epoch, !.todo = todo]]
    /\ UNCHANGED <<epoch, written, cache, process>>

NextProposal(r) ==
    LET j == run[r] IN
    /\ j.pc = "next"
    /\ run' = [run EXCEPT ![r] =
         IF j.todo = {} THEN Idle
         ELSE LET p == CHOOSE p \in j.todo : TRUE IN
              [Idle EXCEPT !.pc = "summary", !.epoch = j.epoch, !.todo = j.todo \ {p}, !.p = p]]
    /\ cache' = IF r = "bulk" /\ j.todo = {} THEN NoCache ELSE cache
    /\ UNCHANGED <<epoch, written, process>>

(* Koios is degraded, the summary is late, failed, or there is none: the row *)
(* is left as it is.                                                         *)
Summary(r) ==
    /\ run[r].pc = "summary"
    /\ \/ run' = [run EXCEPT ![r].pc = "parts", ![r].summary = epoch]
       \/ run' = [run EXCEPT ![r].pc = "next"]
    /\ UNCHANGED <<epoch, written, cache, process>>

(* A total: kept by the run, or else from EpochTotals, or else from Koios,   *)
(* which may fail.  Only an answer is kept.                                  *)
Total(r, kind, e, kept) ==
    /\ run[r].pc = "parts" /\ run[r][kind] = None
    /\ \E answer \in (IF e \in kept THEN {e} ELSE {e, Failed}) :
         /\ run' = [run EXCEPT ![r][kind] = answer]
         /\ cache' = IF r = "bulk" /\ answer # Failed
                     THEN [cache EXCEPT ![kind] = @ \cup {e}] ELSE cache
    /\ UNCHANGED <<epoch, written, process>>

Kept(r, kind) == IF r = "bulk" THEN cache[kind] ELSE {}
DrepTotal(r) == Total(r, "drep", DrepEpoch(run[r].p, run[r].epoch), Kept(r, "drep"))
SpoTotal(r)  == Total(r, "spo",  SpoEpoch(run[r].p, run[r].epoch),  Kept(r, "spo"))

(* The inactive power: kept by the run, or by the process, or computed.  A   *)
(* failure is answered as 0, and kept and written like any other number, so  *)
(* the model does not tell it apart.  A value remembers how it was computed. *)
Inactive(r) ==
    LET p == run[r].p
        key == InactiveKey(p, run[r].epoch)
        made == [epoch |-> DrepEpoch(p, run[r].epoch),
                 mode |-> IF Completed(p, run[r].epoch) THEN "completed" ELSE "active"]
        near == {c \in Kept(r, "inactive") : c.key = key}
        far  == {c \in process : c.key = key} IN
    /\ run[r].pc = "parts" /\ run[r].inactive = None
    /\ \E c \in (IF near # {} THEN near ELSE IF far # {} THEN far
                 ELSE [key : {key}, made : {made}]) :
         /\ run' = [run EXCEPT ![r].inactive = c]
         /\ cache' = IF r = "bulk" THEN [cache EXCEPT !.inactive = @ \cup {c}] ELSE cache
         /\ process' = IF near = {} THEN {x \in process : x.key # key} \cup {c} ELSE process
    /\ UNCHANGED <<epoch, written>>

(* Promise.all.  With a total missing nothing is written; unchanged numbers  *)
(* are not written; and the write may fail.                                  *)
Complete(j) == {j.drep, j.spo} \cap {Failed} = {}

Write(r) ==
    LET j == run[r] IN
    /\ j.pc = "parts" /\ None \notin {j.drep, j.spo, j.inactive}
    /\ written' \in {written} \cup
         (IF Complete(j)
          THEN {[p |-> j.p, at |-> j.epoch, summary |-> j.summary, drep |-> j.drep,
                 spo |-> j.spo, inactive |-> j.inactive]}
          ELSE {})
    /\ run' = [run EXCEPT ![r].pc = "next"]
    /\ UNCHANGED <<epoch, cache, process>>

(* Beside them: the process cache expires, and the epoch turns.              *)
Expire == \E c \in process : process' = process \ {c} /\ UNCHANGED <<epoch, written, run, cache>>
EpochTurns == epoch < LastEpoch /\ epoch' = epoch + 1 /\ UNCHANGED <<written, run, cache, process>>
PowerNext ==
    \/ \E r \in PowerRuns : \/ StartPower(r) \/ NextProposal(r) \/ Summary(r)
                       \/ DrepTotal(r) \/ SpoTotal(r) \/ Inactive(r) \/ Write(r)
    \/ Expire \/ EpochTurns

PowerSpec == PowerInit /\ [][PowerNext]_powerVars

----------------------------------------------------------------------------
(* A stored row is whole: its totals are answers, of the epochs its proposal *)
(* called for when the run began, its inactive power was computed for that   *)
(* epoch in that proposal's way, and its summary is not older than the run.  *)
(* No failed or late part, and nothing kept from another proposal, another   *)
(* run or another epoch, gets into it.                                       *)
RowsWhole == written # None =>
    /\ written.drep = DrepEpoch(written.p, written.at)
    /\ written.spo = SpoEpoch(written.p, written.at)
    /\ written.inactive.made.epoch = DrepEpoch(written.p, written.at)
    /\ written.inactive.made.mode =
          IF Completed(written.p, written.at) THEN "completed" ELSE "active"
    /\ written.summary \in written.at .. epoch
================================================================================
