---------------------------- MODULE SharedCooldown ----------------------------
(***************************************************************************)
(* How containers tell each other that Koios asked them to slow down: each *)
(* keeps its cooldowns in module variables (services/koios.ts), publishes  *)
(* them into one row of the database, which takes the maximum, and pulls   *)
(* that row from time to time (services/koios/sharedCoordination.ts).      *)
(*                                                                         *)
(* A cooldown is the moment until which it lasts.  The two throttles are   *)
(* flags: the last pull, or the last publication, was a moment ago.        *)
(***************************************************************************)
EXTENDS Naturals, FiniteSets

CONSTANTS
    Containers,
    Kinds,      \* of cooldown: backoff, pressure, timeout
    MaxMoment,  \* bound: the last moment a cooldown may last until
    MaxFaults   \* bound: restarts and failed database calls

Moments == 0..MaxMoment
Snapshots == [Kinds -> Moments]

ASSUME BoundsAssumption == MaxMoment \in Nat /\ MaxFaults \in Nat
ASSUME ContainersAssumption == IsFiniteSet(Containers)

VARIABLES
    until,         \* the cooldowns each container knows of
    row,           \* the row of koios-shared-coordination
    pull,          \* the pull a container has in flight, if it has one
    snapshot,      \* what it read
    pulled,        \* its last pull was less than KOIOS_SHARED_PULL_INTERVAL_MS ago
    lastPublished, \* lastKoiosSharedPublishSnapshot
    published,     \* its last publication was less than a second ago
    merges,        \* publications under way: [by |-> container, of |-> snapshot]
    lost,          \* a publication of this container never reached the row
    faults

vars == <<until, row, pull, snapshot, pulled, lastPublished, published, merges, lost, faults>>
pulling == <<pull, snapshot, pulled>>
publishing == <<lastPublished, published, merges>>

TypeOK ==
    /\ until \in [Containers -> Snapshots]
    /\ row \in Snapshots
    /\ pull \in [Containers -> {"none", "asked", "answered"}]
    /\ snapshot \in [Containers -> Snapshots]
    /\ pulled \in [Containers -> BOOLEAN]
    /\ lastPublished \in [Containers -> Snapshots]
    /\ published \in [Containers -> BOOLEAN]
    /\ merges \subseteq [by : Containers, of : Snapshots]
    /\ lost \in [Containers -> BOOLEAN]
    /\ faults \in 0..MaxFaults

Never == [k \in Kinds |-> 0]
Later(s, t) == [k \in Kinds |-> IF s[k] >= t[k] THEN s[k] ELSE t[k]]
Covers(s, t) == \A k \in Kinds : s[k] >= t[k]

Init ==
    /\ until = [c \in Containers |-> Never]
    /\ row = Never
    /\ pull = [c \in Containers |-> "none"]
    /\ snapshot = [c \in Containers |-> Never]
    /\ pulled = [c \in Containers |-> FALSE]
    /\ lastPublished = [c \in Containers |-> Never]
    /\ published = [c \in Containers |-> FALSE]
    /\ merges = {}
    /\ lost = [c \in Containers |-> FALSE]
    /\ faults = 0

Fault == faults < MaxFaults /\ faults' = faults + 1

-------------------------------------------------------------------------------
(* Publishing *)

(* Mutant: the throttle does not compare what was published. *)
PublishThrottled(c, s) ==
    IF published[c]
    THEN UNCHANGED publishing
    ELSE /\ lastPublished' = [lastPublished EXCEPT ![c] = s]
         /\ published' = [published EXCEPT ![c] = TRUE]
         /\ merges' = merges \cup {[by |-> c, of |-> s]}

(* publishKoiosSharedCooldown, which does not wait for the merge. *)
Publish(c, s) ==
    IF s = lastPublished[c] /\ published[c]
    THEN UNCHANGED publishing
    ELSE /\ lastPublished' = [lastPublished EXCEPT ![c] = s]
         /\ published' = [published EXCEPT ![c] = TRUE]
         /\ merges' = merges \cup {[by |-> c, of |-> s]}

(* A 429, or one error too many: the cooldown lasts until that moment, if  *)
(* it did not last longer.                                                 *)
Signal(c, k, moment) ==
    /\ until' = [until EXCEPT ![c][k] = IF @ >= moment THEN @ ELSE moment]
    /\ Publish(c, until'[c])
    /\ UNCHANGED <<row, pulling, lost, faults>>

(* Mutant: the row takes the snapshot of the container. *)
MergeOverwrites(m) ==
    /\ row' = m.of
    /\ merges' = merges \ {m}
    /\ UNCHANGED <<until, pulling, lastPublished, published, lost, faults>>

(* mergeKoiosSharedCooldown: the row is locked between its read and write. *)
Merge(m) ==
    /\ row' = Later(row, m.of)
    /\ merges' = merges \ {m}
    /\ UNCHANGED <<until, pulling, lastPublished, published, lost, faults>>

(* The commit is not acknowledged: withDbWrite runs the merge again. *)
MergeUnacknowledged(m) ==
    /\ Fault
    /\ row' = Later(row, m.of)
    /\ UNCHANGED <<until, pulling, publishing, lost>>

(* It fails for good, and nobody tries again. *)
MergeFails(m) ==
    /\ Fault
    /\ merges' = merges \ {m}
    /\ lost' = [lost EXCEPT ![m.by] = TRUE]
    /\ UNCHANGED <<until, row, pulling, lastPublished, published>>

-------------------------------------------------------------------------------
(* Pulling *)

(* pullKoiosSharedCooldown; a caller that finds a pull in flight joins it. *)
StartPull(c) ==
    /\ ~pulled[c] /\ pull[c] = "none"
    /\ pull' = [pull EXCEPT ![c] = "asked"]
    /\ UNCHANGED <<until, row, snapshot, pulled, publishing, lost, faults>>

(* getKoiosSharedCooldownSnapshot. *)
Read(c) ==
    /\ pull[c] = "asked"
    /\ pull' = [pull EXCEPT ![c] = "answered"]
    /\ snapshot' = [snapshot EXCEPT ![c] = row]
    /\ UNCHANGED <<until, row, pulled, publishing, lost, faults>>

Apply(c) ==
    /\ pull[c] = "answered"
    /\ until' = [until EXCEPT ![c] = Later(@, snapshot[c])]
    /\ pull' = [pull EXCEPT ![c] = "none"]
    /\ snapshot' = [snapshot EXCEPT ![c] = Never]
    /\ pulled' = [pulled EXCEPT ![c] = TRUE]
    /\ UNCHANGED <<row, publishing, lost, faults>>

(* Mutant: a pull that fails stays in flight for whoever comes next. *)
PullFailsInFlight(c) ==
    /\ pull[c] = "asked" /\ Fault
    /\ pulled' = [pulled EXCEPT ![c] = TRUE]
    /\ pull' = [pull EXCEPT ![c] = "failed"]
    /\ UNCHANGED <<until, row, snapshot, publishing, lost>>

PullFails(c) ==
    /\ pull[c] = "asked" /\ Fault
    /\ pulled' = [pulled EXCEPT ![c] = TRUE]
    /\ pull' = [pull EXCEPT ![c] = "none"]
    /\ UNCHANGED <<until, row, snapshot, publishing, lost>>

-------------------------------------------------------------------------------
(* Time and restarts *)

PullIntervalOver(c) ==
    /\ pulled[c]
    /\ pulled' = [pulled EXCEPT ![c] = FALSE]
    /\ UNCHANGED <<until, row, pull, snapshot, publishing, lost, faults>>

PublishIntervalOver(c) ==
    /\ published[c]
    /\ published' = [published EXCEPT ![c] = FALSE]
    /\ UNCHANGED <<until, row, pulling, lastPublished, merges, lost, faults>>

(* The module variables are gone, and what the container had under way.    *)
Restart(c) ==
    /\ Fault
    /\ until' = [until EXCEPT ![c] = Never]
    /\ pull' = [pull EXCEPT ![c] = "none"]
    /\ snapshot' = [snapshot EXCEPT ![c] = Never]
    /\ pulled' = [pulled EXCEPT ![c] = FALSE]
    /\ lastPublished' = [lastPublished EXCEPT ![c] = Never]
    /\ published' = [published EXCEPT ![c] = FALSE]
    /\ merges' = {m \in merges : m.by # c}
    /\ UNCHANGED <<row, lost>>

Next ==
    \/ \E c \in Containers, k \in Kinds, moment \in Moments \ {0} : Signal(c, k, moment)
    \/ \E m \in merges : Merge(m) \/ MergeUnacknowledged(m) \/ MergeFails(m)
    \/ \E c \in Containers :
          \/ StartPull(c) \/ Read(c) \/ Apply(c) \/ PullFails(c)
          \/ PullIntervalOver(c) \/ PublishIntervalOver(c) \/ Restart(c)

Spec == Init /\ [][Next]_vars

(* Database calls return, requests go on coming (each pulls), time passes. *)
FairSpec ==
    /\ Spec
    /\ \A m \in [by : Containers, of : Snapshots] : WF_vars(m \in merges /\ Merge(m))
    /\ \A c \in Containers :
          /\ WF_vars(StartPull(c)) /\ WF_vars(Read(c)) /\ WF_vars(Apply(c))
          /\ WF_vars(PullIntervalOver(c))

-------------------------------------------------------------------------------
(* Properties *)

(* The row holds only cooldowns that some container was told of, and every *)
(* cooldown a container knows of is in the row, or on its way there, or    *)
(* one of its publications was lost: neither throttle swallows one.        *)
NothingUnpublished ==
    \A c \in Containers, k \in Kinds :
        \/ row[k] >= until[c][k]
        \/ \E m \in merges : m.by = c /\ m.of[k] >= until[c][k]
        \/ lost[c]

(* Merges that cross, and one that is run again, never shorten a cooldown  *)
(* in the row.  Neither a late pull nor a new signal shortens the cooldown  *)
(* a container is in; only its restart forgets it.                         *)
NeverShortened ==
    [][/\ Covers(row', row)
       /\ \A c \in Containers : Covers(until'[c], until[c]) \/ Restart(c)]_vars

(* Every container learns of every cooldown, unless the container that was *)
(* told of it lost a publication or restarted.                             *)
EveryoneLearns ==
    \A c \in Containers, k \in Kinds, moment \in Moments \ {0} : \A d \in Containers \ {c} :
        until[c][k] >= moment ~> until[d][k] >= moment \/ lost[c] \/ until[c][k] < moment
===============================================================================
