------------------------------ MODULE VoterPower ------------------------------
(* The voting power of DReps and pools (voterPowerSync.service.ts): one list  *)
(* of the epoch from Koios, a request for each voter that is not in it, and   *)
(* one statement per chunk of changed rows.  Beside it rows come to be: the   *)
(* inventory creates DReps with power 0, and the ingestion of votes creates   *)
(* a voter it does not find with the power of the epoch                       *)
(* (voterIngestion.service.ts), which the process keeps.                      *)
EXTENDS Integers, FiniteSets

CONSTANTS
    VotingDreps, VotingPools,
    Stake,               \* Stake[v][e]: the power of v in epoch e; 0 has no row in Koios
    Late,                \* whether Koios may have an epoch's powers some time after its start
    LastVotingEpoch,     \* bound
    NoRow                \* no row

Voters == VotingDreps \cup VotingPools

ASSUME VoterAssumption ==
    /\ LastVotingEpoch \in Nat /\ Late \in BOOLEAN
    /\ Stake \in [Voters -> [0 .. LastVotingEpoch -> Nat]]

VARIABLES
    at,          \* the epoch
    ready,       \* the epochs of which Koios has the powers
    power,       \* the row of each voter: [amount, of], `of' the epoch the amount is of
    bulk,        \* the run: [pc, epoch, role, old, got, empty]
    known,       \* the cache of the ingestion: [voter, epoch, amount]
    ensuring     \* what it is about to create: [voter, amount, of], or NoRow

voterVars == <<at, ready, power, bulk, known, ensuring>>

Resting == [pc |-> "idle", epoch |-> 0, role |-> {}, old |-> <<>>, got |-> <<>>, empty |-> {}]
Never == -1          \* the "epoch" of the power a row of the inventory has

VoterInit ==
    /\ at = 0 /\ ready = {0} /\ power = [v \in Voters |-> NoRow]
    /\ bulk = Resting /\ known = {} /\ ensuring = NoRow

Reported(v, e) == e \in ready /\ Stake[v][e] > 0

----------------------------------------------------------------------------
(* syncAllVoterVotingPower: the DReps and then the pools that are in the     *)
(* table, for the epoch read at the start.                                   *)
ReadVoters(role) == [v \in {w \in role : power[w] # NoRow} |-> power[v].amount]

SyncBegins ==
    /\ bulk.pc = "idle"
    /\ bulk' = [Resting EXCEPT !.pc = "bulk", !.epoch = at, !.role = VotingDreps,
                               !.old = ReadVoters(VotingDreps)]
    /\ UNCHANGED <<at, ready, power, known, ensuring>>

(* The end of a role, well or not: a failed role does not keep the other.    *)
RoleEnds == bulk' =
    IF bulk.role = VotingDreps
    THEN [Resting EXCEPT !.pc = "bulk", !.epoch = bulk.epoch, !.role = VotingPools,
                         !.old = ReadVoters(VotingPools)]
    ELSE Resting

(* The list of the epoch, in which rows may be missing (KoiosPaging).        *)
BulkFetch ==
    /\ bulk.pc = "bulk"
    /\ \/ \E listed \in SUBSET {v \in bulk.role : Reported(v, bulk.epoch)} :
             bulk' = [bulk EXCEPT !.pc = "confirm", !.got = [v \in listed |-> Stake[v][bulk.epoch]]]
       \/ RoleEnds
    /\ UNCHANGED <<at, ready, power, known, ensuring>>

(* A voter that is not listed is asked for: a row, no row, or no answer.     *)
(* Mutant: what is not listed is empty. *)
ConfirmedUnasked(answers) == [bulk EXCEPT !.pc = "update",
    !.empty = {v \in DOMAIN bulk.old : v \notin DOMAIN bulk.got}]
Confirmed(answers) ==
    LET found == {v \in answers : Reported(v, bulk.epoch)} IN
    [bulk EXCEPT !.pc = "update",
        !.got = [v \in DOMAIN bulk.got \cup found |-> Stake[v][bulk.epoch]],
        !.empty = answers \ found]
ConfirmMissing ==
    /\ bulk.pc = "confirm"
    /\ \E answers \in SUBSET (DOMAIN bulk.old \ DOMAIN bulk.got) : bulk' = Confirmed(answers)
    /\ UNCHANGED <<at, ready, power, known, ensuring>>

(* The rows whose power is another than the one read, a chunk at a time; a   *)
(* statement that fails ends the role.                                       *)
NextAmount(v) == IF v \in DOMAIN bulk.got THEN bulk.got[v] ELSE 0
RowsToUpdate ==
    {v \in DOMAIN bulk.old : (v \in DOMAIN bulk.got \/ v \in bulk.empty) /\ NextAmount(v) # bulk.old[v]}
UpdateChunk ==
    /\ bulk.pc = "update"
    /\ \/ /\ \E v \in RowsToUpdate :
                /\ power' = IF power[v].amount = NextAmount(v) THEN power
                            ELSE [power EXCEPT ![v] = [amount |-> NextAmount(v), of |-> bulk.epoch]]
                /\ bulk' = [bulk EXCEPT !.old[v] = NextAmount(v)]
       \/ RoleEnds /\ UNCHANGED power
    /\ UNCHANGED <<at, ready, known, ensuring>>

SyncStops ==
    /\ bulk.pc # "idle" /\ bulk' = Resting
    /\ UNCHANGED <<at, ready, power, known, ensuring>>

----------------------------------------------------------------------------
(* syncAllDrepsInventory, ensureDrepsExist                                   *)
CreateWithZero(v) ==
    /\ v \in VotingDreps /\ power[v] = NoRow
    /\ power' = [power EXCEPT ![v] = [amount |-> 0, of |-> Never]]
    /\ UNCHANGED <<at, ready, bulk, known, ensuring>>

(* ensureDrepExists, ensureSpoExists: up to the power.  A DRep is looked up  *)
(* before, a pool is not.                                                    *)
AskPower(v) ==
    /\ ensuring = NoRow /\ v \in VotingDreps => power[v] = NoRow
    /\ LET fresh == [voter |-> v, epoch |-> at,
                     amount |-> IF Reported(v, at) THEN Stake[v][at] ELSE 0] IN
       \E k \in (IF \E x \in known : x.voter = v /\ x.epoch = at
                 THEN {x \in known : x.voter = v /\ x.epoch = at} ELSE {fresh}) :
         /\ known' = known \cup {k}
         /\ ensuring' = [voter |-> v, amount |-> k.amount, of |-> k.epoch]
    /\ UNCHANGED <<at, ready, power, bulk>>

(* The rest of them: the row is created, unless there is one by now.         *)
EnsuredRow(old) == IF old = NoRow THEN [amount |-> ensuring.amount, of |-> ensuring.of] ELSE old
Ensure ==
    /\ ensuring # NoRow
    /\ power' = [power EXCEPT ![ensuring.voter] = EnsuredRow(@)] /\ ensuring' = NoRow
    /\ UNCHANGED <<at, ready, bulk, known>>

(* A request or the write fails; clearVoterKoiosCaches; and the chain.       *)
EnsureFails == ensuring # NoRow /\ ensuring' = NoRow /\ UNCHANGED <<at, ready, power, bulk, known>>
ClearCaches == known # {} /\ known' = {} /\ UNCHANGED <<at, ready, power, bulk, ensuring>>
VotingEpochTurns ==
    /\ at < LastVotingEpoch /\ at' = at + 1
    /\ \/ ready' = ready \cup {at + 1}
       \/ Late /\ ready' = ready
    /\ UNCHANGED <<power, bulk, known, ensuring>>
HistoryComes == ready' = 0 .. at /\ ready' # ready /\ UNCHANGED <<at, power, bulk, known, ensuring>>

VoterNext ==
    \/ SyncBegins \/ BulkFetch \/ ConfirmMissing \/ UpdateChunk \/ SyncStops
    \/ \E v \in Voters : CreateWithZero(v) \/ AskPower(v)
    \/ Ensure \/ EnsureFails \/ ClearCaches \/ VotingEpochTurns
    \/ Late /\ HistoryComes

VoterSpec == VoterInit /\ [][VoterNext]_voterVars

----------------------------------------------------------------------------
(* A stored power is not replaced by that of an earlier epoch, whichever     *)
(* process kept it, unless by a run that began before the epoch ended; and   *)
(* it becomes zero only for a voter that had none in an epoch: not for one   *)
(* that a list left out, or whose request failed.                            *)
PowerKept == [][
    \A v \in Voters : power[v] # NoRow =>
        /\ power'[v].of >= power[v].of \/ (bulk.pc = "update" /\ power'[v].of = bulk.epoch)
        /\ power'[v].amount = 0 /\ power[v].amount > 0 => Stake[v][power'[v].of] = 0
    ]_voterVars
================================================================================
