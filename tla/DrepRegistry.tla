----------------------------- MODULE DrepRegistry -----------------------------
(* What is synced of the DReps once per epoch, each by a job of its own that  *)
(* marks the previous epoch when it is done (epoch-analytics.service.ts):     *)
(*   "inventory"  the rows of DReps that are new (syncAllDrepsInventory), and *)
(*                then a snapshot row of every DRep (snapshotDrepEpoch);      *)
(*   "info"       what Koios says of every DRep (syncAllDrepsInfo);           *)
(*   "lifecycle"  their certificates (syncDrepLifecycleEvents).               *)
(* Requests and writes fail, and a run stops anywhere.                        *)
EXTENDS Integers

CONSTANTS
    Registrable,                    \* DReps
    LastRegistryEpoch, MaxFaults,   \* bounds
    None                            \* no row

ASSUME RegistryAssumption == LastRegistryEpoch \in Int /\ None \notin {"bare", "filled"}

VARIABLES
    epochNo,     \* the epoch
    certs,       \* certificates on the chain: [drep, epoch]; the first registers it
    info,        \* the rows of Drep: None, or whether Koios' info is in: "bare", "filled"
    snapshots,   \* the rows of DrepEpochSnapshot: [drep, epoch]
    events,      \* the rows of DrepLifecycleEvent
    marks,       \* the epochs with each mark of EpochAnalyticsSync
    worker,      \* the run of each job: [pc, epoch, ids, failed, fetched, snapshot]
    faults

registryVars == <<epochNo, certs, info, snapshots, events, marks, worker, faults>>

Kinds == {"inventory", "info", "lifecycle"}
Marks == {"drepsSyncedAt", "drepSnapshotSyncedAt", "drepInfoSyncedAt", "drepLifecycleSyncedAt"}
Free == [pc |-> "idle", epoch |-> 0, ids |-> {}, failed |-> {}, fetched |-> FALSE, snapshot |-> FALSE]
Listed == {c.drep : c \in certs}
Stored == {d \in Registrable : info[d] # None}

RegistryInit ==
    /\ epochNo = 1 /\ certs = {} /\ info = [d \in Registrable |-> None]
    /\ snapshots = {} /\ events = {} /\ marks = [k \in Marks |-> {}]
    /\ worker = [k \in Kinds |-> Free] /\ faults = 0

Goes(k, w) == worker' = [worker EXCEPT ![k] = w]
To(k, pc) == Goes(k, [worker[k] EXCEPT !.pc = pc])
Marked(k, mark) == marks' = [marks EXCEPT ![mark] = @ \cup {worker[k].epoch}]

----------------------------------------------------------------------------
(* Each step: the epoch before Koios' current one, unless it has the marks.  *)
BeginStep(k, first) ==
    /\ worker[k].pc = "idle"
    /\ Goes(k, [Free EXCEPT !.pc = first, !.epoch = epochNo - 1,
                            !.snapshot = (epochNo - 1 \notin marks["drepSnapshotSyncedAt"])])
    /\ UNCHANGED <<epochNo, certs, info, snapshots, events, marks, faults>>
BeginInventory ==
    \/ epochNo - 1 \notin marks["drepsSyncedAt"] /\ BeginStep("inventory", "list")
    \/ /\ epochNo - 1 \in marks["drepsSyncedAt"] /\ epochNo - 1 \notin marks["drepSnapshotSyncedAt"]
       /\ BeginStep("inventory", "read")
BeginInfo == epochNo - 1 \notin marks["drepInfoSyncedAt"] /\ BeginStep("info", "read")
BeginLifecycle == epochNo - 1 \notin marks["drepLifecycleSyncedAt"] /\ BeginStep("lifecycle", "list")

(* /drep_list, of every DRep that ever registered                            *)
ListDreps(k) ==
    /\ k \in {"inventory", "lifecycle"} /\ worker[k].pc = "list"
    /\ Goes(k, [worker[k] EXCEPT !.pc = "each", !.ids = Listed])
    /\ UNCHANGED <<epochNo, certs, info, snapshots, events, marks, faults>>

(* The DReps the table lacks are created, without any info ...               *)
CreateMissing ==
    /\ worker["inventory"].pc = "each"
    /\ LET missing == worker["inventory"].ids \ Stored IN
       /\ info' = [d \in Registrable |-> IF d \in missing THEN "bare" ELSE info[d]]
       /\ Goes("inventory", [worker["inventory"] EXCEPT !.pc = "lookup", !.ids = missing])
    /\ UNCHANGED <<epochNo, certs, snapshots, events, marks, faults>>

(* ... and getDrepInfoBatch asks Koios for those it does not find in the     *)
(* table, of which there are none.                                           *)
LookUpInfo ==
    LET unknown == worker["inventory"].ids \ Stored IN
    /\ worker["inventory"].pc = "lookup"
    /\ \E answered \in SUBSET unknown :
         info' = [d \in Registrable |-> IF d \in answered THEN "filled" ELSE info[d]]
    /\ Marked("inventory", "drepsSyncedAt")
    /\ To("inventory", IF worker["inventory"].snapshot THEN "read" ELSE "idle")
    /\ UNCHANGED <<epochNo, certs, snapshots, events, faults>>

(* snapshotDrepEpoch and syncAllDrepsInfo go through the table, in chunks;   *)
(* a DRep stands for a chunk.  syncDrepLifecycleEvents goes through the list.*)
ReadTable(k) ==
    /\ k \in {"inventory", "info"} /\ worker[k].pc = "read"
    /\ Goes(k, [worker[k] EXCEPT !.pc = "rows", !.ids = Stored])
    /\ UNCHANGED <<epochNo, certs, info, snapshots, events, marks, faults>>

Done(k, d) == Goes(k, [worker[k] EXCEPT !.ids = @ \ {d}])
SnapshotRow(d) ==
    /\ worker["inventory"].pc = "rows" /\ d \in worker["inventory"].ids /\ Done("inventory", d)
    /\ snapshots' = snapshots \cup {[drep |-> d, epoch |-> worker["inventory"].epoch]}
    /\ UNCHANGED <<epochNo, certs, info, events, marks, faults>>
InfoRow(d) ==
    /\ worker["info"].pc = "rows" /\ d \in worker["info"].ids /\ Done("info", d)
    /\ \/ info' = [info EXCEPT ![d] = "filled"] /\ UNCHANGED faults
       \/ faults < MaxFaults /\ faults' = faults + 1 /\ UNCHANGED info
    /\ UNCHANGED <<epochNo, certs, snapshots, events, marks>>
(* All certificates of a DRep: the request fails, or the insert, or neither. *)
LifecycleOf(d) ==
    LET updates == {c \in certs : c.drep = d}
        rest == [worker["lifecycle"] EXCEPT !.ids = @ \ {d}] IN
    /\ worker["lifecycle"].pc = "each" /\ d \in worker["lifecycle"].ids
    /\ \/ /\ events' = events \cup updates /\ UNCHANGED faults
          /\ Goes("lifecycle", [rest EXCEPT !.fetched = @ \/ updates # {}])
       \/ /\ faults < MaxFaults /\ faults' = faults + 1 /\ UNCHANGED events
          /\ \E fetched \in {FALSE, updates # {}} :
               Goes("lifecycle", [rest EXCEPT !.failed = @ \cup {d}, !.fetched = @ \/ fetched])
    /\ UNCHANGED <<epochNo, certs, info, snapshots, marks>>

(* The marks.  A snapshot is marked when every chunk was written, the info   *)
(* whatever failed, the lifecycle when something was fetched and nothing     *)
(* failed.                                                                   *)
MarkSnapshot ==
    /\ worker["inventory"].pc = "rows" /\ worker["inventory"].ids = {}
    /\ Marked("inventory", "drepSnapshotSyncedAt") /\ To("inventory", "idle")
    /\ UNCHANGED <<epochNo, certs, info, snapshots, events, faults>>
MarkInfo ==
    /\ worker["info"].pc = "rows" /\ worker["info"].ids = {}
    /\ Marked("info", "drepInfoSyncedAt") /\ To("info", "idle")
    /\ UNCHANGED <<epochNo, certs, info, snapshots, events, faults>>
(* Mutant: some success is enough. *)
LifecycleMeaningfulSome == worker["lifecycle"].fetched
LifecycleMeaningful == worker["lifecycle"].fetched /\ worker["lifecycle"].failed = {}
MarkLifecycle ==
    /\ worker["lifecycle"].pc = "each" /\ worker["lifecycle"].ids = {}
    /\ IF LifecycleMeaningful THEN Marked("lifecycle", "drepLifecycleSyncedAt") ELSE UNCHANGED marks
    /\ To("lifecycle", "idle")
    /\ UNCHANGED <<epochNo, certs, info, snapshots, events, faults>>

(* A request or a write throws, or the process stops; what is marked stays.  *)
StepDies(k) ==
    /\ worker[k].pc # "idle" /\ faults < MaxFaults
    /\ Goes(k, Free) /\ faults' = faults + 1
    /\ UNCHANGED <<epochNo, certs, info, snapshots, events, marks>>

----------------------------------------------------------------------------
(* The chain; and ensureDrepsExist and the ingestion of votes, which create  *)
(* a row of a DRep they meet.                                                *)
Certify(d) ==
    /\ certs' = certs \cup {[drep |-> d, epoch |-> epochNo]} /\ certs' # certs
    /\ UNCHANGED <<epochNo, info, snapshots, events, marks, worker, faults>>
EnsureDrep(d) ==
    /\ d \in Listed \ Stored /\ info' = [info EXCEPT ![d] = "bare"]
    /\ UNCHANGED <<epochNo, certs, snapshots, events, marks, worker, faults>>
RegistryEpochTurns ==
    /\ epochNo < LastRegistryEpoch /\ epochNo' = epochNo + 1
    /\ UNCHANGED <<certs, info, snapshots, events, marks, worker, faults>>

RegistryNext ==
    \/ BeginInventory \/ BeginInfo \/ BeginLifecycle
    \/ CreateMissing \/ LookUpInfo \/ MarkSnapshot \/ MarkInfo \/ MarkLifecycle \/ RegistryEpochTurns
    \/ \E k \in Kinds : ListDreps(k) \/ ReadTable(k) \/ StepDies(k)
    \/ \E d \in Registrable :
          SnapshotRow(d) \/ InfoRow(d) \/ LifecycleOf(d) \/ Certify(d) \/ EnsureDrep(d)

RegistrySpec == RegistryInit /\ [][RegistryNext]_registryVars

----------------------------------------------------------------------------
(* A mark is earned: every DRep that registered by the end of the epoch has  *)
(* a row, and one in its snapshot, and every certificate up to then is       *)
(* stored, whichever run wrote it, and wherever others stopped.  (The info's *)
(* mark says nothing of the kind.)                                           *)
EpochMarksEarned ==
    /\ \A e \in marks["drepsSyncedAt"] : \A c \in certs : c.epoch <= e => c.drep \in Stored
    /\ \A e \in marks["drepSnapshotSyncedAt"] : \A c \in certs :
          c.epoch <= e => [drep |-> c.drep, epoch |-> e] \in snapshots
    /\ \A e \in marks["drepLifecycleSyncedAt"] : \A c \in certs : c.epoch <= e => c \in events
================================================================================
