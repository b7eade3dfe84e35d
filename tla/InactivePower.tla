----------------------------- MODULE InactivePower -----------------------------
(* Which DReps' power is counted as inactive                                 *)
(* (inactiveDrepPower.service.ts): for a completed proposal from the votes   *)
(* and certificates around the reference epoch.  (For an active one it asks  *)
(* Koios who is inactive now, which is not modelled.)                        *)
EXTENDS Integers, FiniteSets

CONSTANTS
    Dreps,
    Special,           \* the two predefined options
    Actions,           \* governance actions, with
    Submitted,         \* the epoch each was submitted in and
    Expiration,        \* the epoch each expires in
    ACTIVITY_WINDOW,   \* 20 epochs
    LastEpochOfDreps   \* bound

ASSUME InactiveAssumption ==
    /\ {Submitted, Expiration} \subseteq [Actions -> Nat]
    /\ ACTIVITY_WINDOW \in Nat

VARIABLES
    today,             \* the epoch
    votes,             \* [drep, action, epoch]: votes on the chain
    updates,           \* [drep, epoch]: certificates on the chain
    storedVotes,       \* votes that are ingested
    storedUpdates      \* rows of DrepLifecycleEvent

drepVars == <<today, votes, updates, storedVotes, storedUpdates>>

InactiveInit == /\ today = 0 /\ votes = {} /\ updates = {}
                /\ storedVotes = {} /\ storedUpdates = {}

VoteOn(d, a) ==
    /\ Submitted[a] <= today /\ today <= Expiration[a]
    /\ votes' = votes \cup {[drep |-> d, action |-> a, epoch |-> today]}
    /\ votes' # votes
    /\ UNCHANGED <<today, updates, storedVotes, storedUpdates>>

Update(d) ==
    /\ updates' = updates \cup {[drep |-> d, epoch |-> today]}
    /\ updates' # updates
    /\ UNCHANGED <<today, votes, storedVotes, storedUpdates>>

IngestVotes == storedVotes' = votes /\ storedVotes' # storedVotes
               /\ UNCHANGED <<today, votes, updates, storedUpdates>>
(* The lifecycle sync takes DReps one by one.                                *)
SyncLifecycle(d) ==
    /\ storedUpdates' = storedUpdates \cup {u \in updates : u.drep = d}
    /\ storedUpdates' # storedUpdates
    /\ UNCHANGED <<today, votes, updates, storedVotes>>

NextEpoch == today < LastEpochOfDreps /\ today' = today + 1
             /\ UNCHANGED <<votes, updates, storedVotes, storedUpdates>>

InactiveNext ==
    \/ NextEpoch \/ IngestVotes
    \/ \E d \in Dreps \ Special : Update(d) \/ SyncLifecycle(d) \/ \E a \in Actions : VoteOn(d, a)

InactiveSpec == InactiveInit /\ [][InactiveNext]_drepVars

----------------------------------------------------------------------------
Within(e, ref) == ref - ACTIVITY_WINDOW <= e /\ e <= ref

(* The votes that count: on actions whose life meets the window, whenever    *)
(* the vote itself was cast.                                                 *)
(* Mutant: only actions submitted within the window. *)
AliveSubmitted(a, ref) == Within(Submitted[a], ref)
AliveAround(a, ref) ==
    \/ Within(Submitted[a], ref)
    \/ Expiration[a] >= ref - ACTIVITY_WINDOW /\ Submitted[a] <= ref
Voted(ref) == {v.drep : v \in {x \in storedVotes : AliveAround(x.action, ref)}}

(* blockTimeToEpoch: it takes the first second of epoch 209 for that of 208. *)
LookedUpEpoch(u) == u.epoch - 1

(* Certificates: from the lifecycle rows, and only for DReps without any row *)
(* from Koios, where a lookup may fail and dates the certificate itself.     *)
Missing(ref) == {d \in Dreps \ Special : d \notin Voted(ref) /\ \A u \in storedUpdates : u.drep # d}
Certified(ref, failing) ==
    {u.drep : u \in {x \in storedUpdates : Within(x.epoch, ref)}}
    \cup {u.drep : u \in {x \in updates : /\ x.drep \in Missing(ref) \ failing
                                       /\ Within(LookedUpEpoch(x), ref)}}

(* Every DRep with power that is not special and not seen active.            *)
CountedInactive(ref, failing) ==
    {d \in Dreps \ Special : d \notin Voted(ref) /\ d \notin Certified(ref, failing)}

----------------------------------------------------------------------------
(* The ledger's rule: a DRep is active for ACTIVITY_WINDOW epochs after its  *)
(* last vote or certificate.                                                 *)
VotedWithin(d, ref) == \E v \in votes : v.drep = d /\ Within(v.epoch, ref)
Certificates(d, ref) == {u \in updates : u.drep = d /\ Within(u.epoch, ref)}
TrulyActive(ref) ==
    {d \in Dreps \ Special : VotedWithin(d, ref) \/ Certificates(d, ref) # {}}

LookedUpOnly(d) == \A u \in storedUpdates : u.drep # d

(* With the votes ingested, a DRep that was active is not counted among the  *)
(* inactive: if it voted, on whatever action and however late; if it has a   *)
(* certificate, provided those of the window are synced, or none is yet and  *)
(* the one that Koios answers with is not of the window's oldest epoch.      *)
ActiveNeverCounted ==
    storedVotes = votes =>
        \A ref \in 0 .. today : \A d \in TrulyActive(ref) :
            (\/ VotedWithin(d, ref)
             \/ Certificates(d, ref) \subseteq storedUpdates
             \/ /\ LookedUpOnly(d)
                /\ \E u \in Certificates(d, ref) : u.epoch > ref - ACTIVITY_WINDOW) =>
            d \notin CountedInactive(ref, {})
================================================================================
