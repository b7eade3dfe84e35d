------------------------------ MODULE SyncOnRead ------------------------------
(***************************************************************************)
(* The admission of sync-on-read: which reads of the API start a sync in   *)
(* the background.  Each process remembers, per key of a proposal, that a  *)
(* sync is in flight and when the last one was started; the processes      *)
(* share a guard per key, a lock in the database.  A proposal has the key  *)
(* of its id and, while it is unknown, that of the name it was read by     *)
(* (the hash of its transaction).  What a sync does to a proposal is       *)
(* ProposalSync's matter: here it makes it known, or fails.                *)
(*                                                                         *)
(* Times are ages: of an entry since it was stamped, of a request since it *)
(* took its time stamp (which it does before anything it awaits).  Ages    *)
(* stop at Old, where no comparison of the code tells them apart.  The     *)
(* locks are SyncLock's while their leases outlast the work; a crash       *)
(* leaves them held until they expire.                                     *)
(***************************************************************************)
EXTENDS Integers, FiniteSets

CONSTANTS
    Proposals, Processes, Slots,  \* a process handles |Slots| reads at once
    Cooldown,                     \* PROPOSAL_SYNC_COOLDOWN_MS
    Multiplier,                   \* SYNC_ON_READ_PRESSURE_COOLDOWN_MULTIPLIER
    MaxTracked,                   \* MAX_TRACKED_PROPOSAL_SYNC_KEYS
    Names,                        \* how proposals are read: "id", "tx"
    Overviews,                    \* the processes whose overview is read
    MaxLag,                       \* bound: how long the checks take at most
    Crashes                       \* whether processes may crash

ASSUME ParametersAssumption ==
    /\ {Cooldown, Multiplier, MaxTracked} \subseteq Nat \ {0} /\ MaxLag \in Nat
    /\ Names \subseteq {"id", "tx"} /\ Overviews \subseteq Processes
    /\ Crashes \in BOOLEAN
    /\ "overview" \notin Slots
    /\ Processes \cap {"free", "cron", "dead", "expired"} = {}

VARIABLES
    known,      \* the proposals in the database
    guard,      \* the proposal guards: sync_status rows, by key
    cron,       \* the proposal sync lock: another row
    pressure,   \* the processes for which Koios is degraded
    alias,      \* proposalIdentifierAliases: the proposals whose hash is known
    busy,       \* proposalSyncsInProgress
    times,      \* proposalSyncTimes
    req,        \* the requests
    over,       \* the sync of the overview in each process
    since       \* the age of the last start under a key, unless evicted

shared == <<known, guard, cron>>
memory == <<alias, busy, times>>
vars == <<shared, pressure, memory, req, over, since>>

-------------------------------------------------------------------------------
(* Keys and times *)

Requests == Processes \X Slots
Keys == Proposals \X {"id", "tx"}
Canonical(q) == <<q, "id">>

Old == Cooldown * Multiplier + MaxLag
Ages == 0..Old
Older(age) == IF age = Old THEN Old ELSE age + 1

(* A Map in the order of insertion: of each key its age and the keys that    *)
(* were in it before.                                                        *)
Entries == [age : Ages, before : SUBSET Keys]
AgeOf(m, k) == IF k \in DOMAIN m THEN m[k].age ELSE Old

(* The entries younger than a limit at a now that lies lag back; of these    *)
(* the newest, as many as the map may have.                                  *)
Pruned(m, lag, limit) ==
    LET young == {k \in DOMAIN m : m[k].age - lag < limit}
        newest == {k \in young : Cardinality({j \in young : k \in m[j].before}) < MaxTracked}
    IN  [k \in newest |-> [age |-> m[k].age, before |-> m[k].before \cap newest]]

(* Mutant: the entries are dropped a moment too early. *)
PruneEarly(m, lag) == Pruned(m, lag, Cooldown - 1)

(* pruneProposalSyncCooldowns(now) *)
Prune(m, lag) == Pruned(m, lag, Cooldown)

(* proposalSyncTimes.set(k, now): an entry keeps its place. *)
Stamp(m, k, lag) ==
    [j \in DOMAIN m \cup {k} |->
        [age |-> IF j = k THEN lag ELSE m[j].age,
         before |-> IF j \in DOMAIN m THEN m[j].before ELSE DOMAIN m]]

(* getProposalSyncCooldownMs *)
CooldownOf(p) == IF p \in pressure THEN Cooldown * Multiplier ELSE Cooldown

-------------------------------------------------------------------------------
(* States *)

Nobody == <<"nobody">>
Dead == <<"dead">>
OverviewOf(p) == <<p, "overview">>
Owners == Requests \cup {OverviewOf(p) : p \in Processes}

Idle == [pc |-> "idle", key |-> <<>>, read |-> <<>>, lag |-> 0, seen |-> FALSE]
Reading == {"resolve", "check"}
Working == {"guard", "sync", "discover", "canonical", "ingest"}

OverIdle == [pc |-> "idle", age |-> Old, lag |-> 0, todo |-> {}]

TypeOK ==
    /\ known \subseteq Proposals
    /\ guard \in [Keys -> Owners \cup {Nobody, Dead}]
    /\ cron \in Processes \cup {"free", "cron", "dead", "expired"}
    /\ pressure \subseteq Processes
    /\ alias \in [Processes -> SUBSET Proposals]
    /\ busy \in [Processes -> SUBSET Keys]
    /\ \A p \in Processes :
          /\ DOMAIN times[p] \subseteq Keys /\ Cardinality(DOMAIN times[p]) <= MaxTracked
          /\ \A k \in DOMAIN times[p] : times[p][k] \in Entries
    /\ \A r \in Requests :
          /\ req[r].pc \in {"idle"} \cup Reading \cup Working
          /\ req[r].key \in Keys \cup {<<>>} /\ req[r].read \in Keys \cup {<<>>}
          /\ req[r].lag \in 0..MaxLag /\ req[r].seen \in BOOLEAN
    /\ over \in [Processes -> [pc : {"idle", "check", "lock", "list", "next", "ingest"},
                               age : Ages, lag : 0..MaxLag, todo : SUBSET Proposals]]
    /\ since \in [Processes -> [Keys -> Ages]]

Init ==
    /\ known \in SUBSET Proposals
    /\ guard = [k \in Keys |-> Nobody] /\ cron = "free"
    /\ pressure = {}
    /\ alias = [p \in Processes |-> {}]
    /\ busy = [p \in Processes |-> {}]
    /\ times = [p \in Processes |-> <<>>]
    /\ req = [r \in Requests |-> Idle]
    /\ over = [p \in Processes |-> OverIdle]
    /\ since = [p \in Processes |-> [k \in Keys |-> Old]]

-------------------------------------------------------------------------------
(* A read of a proposal *)

(* syncProposalDetailsOnRead, up to the first await *)
Read(r) == \E q \in Proposals, n \in Names :
    /\ req[r].pc = "idle"
    /\ req' = [req EXCEPT ![r] = [Idle EXCEPT !.pc = "resolve", !.read = <<q, n>>]]
    /\ UNCHANGED <<shared, pressure, memory, over, since>>

(* resolveProposalSyncTarget: the key under which the read is admitted *)
KeyOf(p, read) ==
    IF read[2] = "id" \/ read[1] \in known \cup alias[p] THEN Canonical(read[1]) ELSE read

(* Neither in flight nor in its cooldown, by the time stamp of the request. *)
Admitted(p, k, lag) ==
    /\ k \notin busy[p]
    /\ AgeOf(Prune(times[p], lag), k) - lag >= CooldownOf(p)

(* maybeStartProposalSync after its first await: the slot is reserved before *)
(* the next one.                                                             *)
Resolve(r) ==
    LET p == r[1]
        k == KeyOf(p, req[r].read)
        lag == req[r].lag
    IN  /\ req[r].pc = "resolve"
        /\ times' = [times EXCEPT ![p] = Prune(@, lag)]
        /\ IF Admitted(p, k, lag)
           THEN /\ busy' = [busy EXCEPT ![p] = @ \cup {k}]
                /\ req' = [req EXCEPT ![r] = [@ EXCEPT !.pc = "check", !.key = k,
                                !.seen = req[r].read[1] \in known]]
           ELSE /\ req' = [req EXCEPT ![r] = Idle]
                /\ UNCHANGED busy
        /\ UNCHANGED <<shared, pressure, alias, over, since>>

(* The finally of every way out of a sync. *)
Ended(r) ==
    /\ busy' = [busy EXCEPT ![r[1]] = @ \ {req[r].key}]
    /\ req' = [req EXCEPT ![r] = Idle]

Skipped(r) == Ended(r)

(* getSyncOnReadSkipReason: the job lock is read (expired or not), then the  *)
(* pressure.                                                                 *)
Skips(p) == cron # "free" \/ p \in pressure

Skip(r) ==
    /\ req[r].pc = "check" /\ Skips(r[1])
    /\ Skipped(r)
    /\ UNCHANGED <<shared, pressure, alias, times, over, since>>

(* Evicted keys start anew. *)
SinceAfter(r, kept) ==
    LET ages == since[r[1]] IN
    [k \in Keys |-> IF k = req[r].key THEN req[r].lag
                    ELSE IF k \in DOMAIN times[r[1]] \ DOMAIN kept /\ ages[k] < Cooldown
                         THEN Old ELSE ages[k]]

Start(r) ==
    LET p == r[1]
        kept == Prune(Stamp(times[p], req[r].key, req[r].lag), req[r].lag)
    IN  /\ req[r].pc = "check" /\ ~Skips(p)
        /\ times' = [times EXCEPT ![p] = kept]
        /\ since' = [since EXCEPT ![p] = SinceAfter(r, kept)]
        /\ req' = [req EXCEPT ![r] = [@ EXCEPT !.pc = "guard"]]
        /\ UNCHANGED <<shared, pressure, alias, busy, over>>

-------------------------------------------------------------------------------
(* The sync itself, under the guard of the key and that of the proposal *)

(* tryAcquireProposalGuard of the request's key: a sync that finds it held   *)
(* is given up.                                                              *)
Guard(r) ==
    LET k == req[r].key
    IN  /\ req[r].pc = "guard"
        /\ IF guard[k] = Nobody
           THEN /\ guard' = [guard EXCEPT ![k] = r]
                /\ req' = [req EXCEPT ![r].pc = IF req[r].seen THEN "sync" ELSE "discover"]
                /\ UNCHANGED busy
           ELSE Ended(r) /\ UNCHANGED guard
        /\ UNCHANGED <<known, cron, pressure, alias, times, over, since>>

(* releaseJobLock does not ask who holds the lock. *)
Freed(k) == guard' = [guard EXCEPT ![k] = Nobody]

(* A known proposal is synced again, or the sync fails, or nothing changed. *)
Resync(r) ==
    /\ req[r].pc = "sync"
    /\ Freed(req[r].key) /\ Ended(r)
    /\ UNCHANGED <<known, cron, pressure, alias, times, over, since>>

(* tryIngestNewProposal: the list of Koios tells the proposal's id. *)
Discover(r) ==
    /\ req[r].pc = "discover"
    /\ alias' = [alias EXCEPT ![r[1]] = @ \cup {req[r].read[1]}]
    /\ req' = [req EXCEPT ![r].pc =
                  IF req[r].key = Canonical(req[r].read[1]) THEN "ingest" ELSE "canonical"]
    /\ UNCHANGED <<shared, pressure, busy, times, over, since>>

(* The list fails, or does not have the proposal. *)
DiscoverFails(r) ==
    /\ req[r].pc = "discover"
    /\ Freed(req[r].key) /\ Ended(r)
    /\ UNCHANGED <<known, cron, pressure, alias, times, over, since>>

(* Mutant: the guard of the discovered proposal is not taken. *)
CanonicalUnguarded(r) ==
    /\ req[r].pc = "canonical"
    /\ req' = [req EXCEPT ![r].pc = "ingest"]
    /\ UNCHANGED <<shared, pressure, memory, over, since>>

CanonicalGuard(r) ==
    LET k == Canonical(req[r].read[1])
    IN  /\ req[r].pc = "canonical"
        /\ IF guard[k] = Nobody
           THEN /\ guard' = [guard EXCEPT ![k] = r]
                /\ req' = [req EXCEPT ![r].pc = "ingest"]
                /\ UNCHANGED busy
           ELSE Freed(req[r].key) /\ Ended(r)
        /\ UNCHANGED <<known, cron, pressure, alias, times, over, since>>

(* Both guards are released, the inner one first. *)
Released(r) ==
    guard' = [guard EXCEPT ![Canonical(req[r].read[1])] = Nobody, ![req[r].key] = Nobody]

Ingest(r) == \E success \in BOOLEAN :
    /\ req[r].pc = "ingest"
    /\ known' = IF success THEN known \cup {req[r].read[1]} ELSE known
    /\ Released(r) /\ Ended(r)
    /\ UNCHANGED <<cron, pressure, alias, times, over, since>>

Details(r) ==
    \/ Resolve(r) \/ Skip(r) \/ Start(r) \/ Guard(r) \/ Resync(r)
    \/ Discover(r) \/ DiscoverFails(r) \/ CanonicalGuard(r) \/ Ingest(r)

-------------------------------------------------------------------------------
(* A read of the overview *)

(* maybeStartOverviewSync, up to its await *)
OverviewRead(p) ==
    /\ p \in Overviews /\ over[p].pc = "idle" /\ over[p].age >= Cooldown
    /\ over' = [over EXCEPT ![p].pc = "check", ![p].lag = 0]
    /\ UNCHANGED <<shared, pressure, memory, req, since>>

OverviewCheck(p) ==
    /\ over[p].pc = "check"
    /\ over' = IF Skips(p) THEN [over EXCEPT ![p].pc = "idle"]
                ELSE [over EXCEPT ![p].pc = "lock", ![p].age = over[p].lag]
    /\ UNCHANGED <<shared, pressure, memory, req, since>>

(* doOverviewSync: it holds the lock of the cron job. *)
OverviewLock(p) ==
    /\ over[p].pc = "lock"
    /\ IF cron \in {"free", "expired"}
       THEN cron' = p /\ over' = [over EXCEPT ![p].pc = "list"]
       ELSE over' = [over EXCEPT ![p].pc = "idle"] /\ UNCHANGED cron
    /\ UNCHANGED <<known, guard, pressure, memory, req, since>>

(* The unknown proposals of the list; none when nothing is new or it fails. *)
OverviewList(p) == \E new \in {{}, Proposals \ known} :
    /\ over[p].pc = "list"
    /\ over' = [over EXCEPT ![p].pc = "next", ![p].todo = new]
    /\ UNCHANGED <<shared, pressure, memory, req, since>>

OverviewGuard(p) == \E q \in over[p].todo :
    /\ over[p].pc = "next"
    /\ over[p].todo # {}
    /\ IF guard[Canonical(q)] = Nobody
       THEN /\ guard' = [guard EXCEPT ![Canonical(q)] = OverviewOf(p)]
            /\ over' = [over EXCEPT ![p].pc = "ingest"]
       ELSE /\ over' = [over EXCEPT ![p].todo = @ \ {q}]
            /\ UNCHANGED guard
    /\ UNCHANGED <<known, cron, pressure, memory, req, since>>

OverviewIngest(p) == \E success \in BOOLEAN, q \in over[p].todo :
    /\ over[p].pc = "ingest" /\ guard[Canonical(q)] = OverviewOf(p)
    /\ known' = IF success THEN known \cup {q} ELSE known
    /\ Freed(Canonical(q))
    /\ over' = [over EXCEPT ![p].pc = "next", ![p].todo = @ \ {q}]
    /\ UNCHANGED <<cron, pressure, memory, req, since>>

OverviewDone(p) ==
    /\ over[p].pc = "next" /\ over[p].todo = {}
    /\ cron' = "free"
    /\ over' = [over EXCEPT ![p].pc = "idle"]
    /\ UNCHANGED <<known, guard, pressure, memory, req, since>>

Overview(p) ==
    \/ OverviewCheck(p) \/ OverviewLock(p) \/ OverviewList(p)
    \/ OverviewGuard(p) \/ OverviewIngest(p) \/ OverviewDone(p)

-------------------------------------------------------------------------------
(* The surroundings *)

CronBegins ==
    /\ cron \in {"free", "expired"} /\ cron' = "cron"
    /\ UNCHANGED <<known, guard, pressure, memory, req, over, since>>

CronEnds ==
    /\ cron = "cron" /\ cron' \in {"free"} \cup (IF Crashes THEN {"dead"} ELSE {})
    /\ UNCHANGED <<known, guard, pressure, memory, req, over, since>>

(* The lease of a lock whose holder is gone runs out.  The row of a guard is *)
(* then free to take; that of the job still says it is running.              *)
LeaseEnds ==
    /\ \/ /\ cron = "dead" /\ cron' = "expired" /\ UNCHANGED guard
       \/ /\ \E k \in Keys : guard[k] = Dead /\ guard' = [guard EXCEPT ![k] = Nobody]
          /\ UNCHANGED cron
    /\ UNCHANGED <<known, pressure, memory, req, over, since>>

(* getKoiosPressureState of a process changes. *)
Pressure(p) ==
    /\ pressure' = (pressure \ {p}) \cup ({p} \ pressure)
    /\ UNCHANGED <<shared, memory, req, over, since>>

(* A process dies: of a deployment, or of a rejection nobody handles, as when *)
(* the lock cannot be read before the sync is started.                        *)
Crash(p) ==
    /\ Crashes
    /\ guard' = [k \in Keys |-> IF guard[k] # Dead /\ guard[k][1] = p THEN Dead ELSE guard[k]]
    /\ cron' = IF cron = p THEN "dead" ELSE cron
    /\ pressure' = pressure \ {p}
    /\ alias' = [alias EXCEPT ![p] = {}]
    /\ busy' = [busy EXCEPT ![p] = {}]
    /\ times' = [times EXCEPT ![p] = <<>>]
    /\ req' = [r \in Requests |-> IF r[1] = p THEN Idle ELSE req[r]]
    /\ over' = [over EXCEPT ![p] = OverIdle]
    /\ since' = [since EXCEPT ![p] = [k \in Keys |-> Old]]
    /\ UNCHANGED known

Tick ==
    /\ \A r \in Requests : req[r].pc \in Reading => req[r].lag < MaxLag
    /\ \A p \in Processes : over[p].pc = "check" => over[p].lag < MaxLag
    /\ times' = [p \in Processes |->
                    [k \in DOMAIN times[p] |-> [times[p][k] EXCEPT !.age = Older(@)]]]
    /\ req' = [r \in Requests |-> IF req[r].pc \in Reading THEN [req[r] EXCEPT !.lag = @ + 1]
                                  ELSE req[r]]
    /\ over' = [p \in Processes |->
                   [over[p] EXCEPT !.age = Older(@),
                                   !.lag = IF over[p].pc = "check" THEN @ + 1 ELSE 0]]
    /\ since' = [p \in Processes |-> [k \in Keys |-> Older(since[p][k])]]
    /\ UNCHANGED <<shared, pressure, alias, busy>>

Next ==
    \/ \E r \in Requests : Read(r) \/ Details(r)
    \/ \E p \in Processes : OverviewRead(p) \/ Overview(p) \/ Pressure(p) \/ Crash(p)
    \/ CronBegins \/ CronEnds \/ LeaseEnds \/ Tick

Spec == Init /\ [][Next]_vars

-------------------------------------------------------------------------------
(* Properties *)

(* A key is in flight exactly while one request of the process is past its   *)
(* admission: reads that come while another is checked do not both start,    *)
(* and every way out frees the key (proposalSyncsInProgress).                *)
OneOwner == \A p \in Processes :
    /\ busy[p] = {req[r].key : r \in {s \in Requests : s[1] = p /\ req[s].pc \in {"check"} \cup Working}}
    /\ \A r, s \in Requests :
          r # s /\ r[1] = p /\ s[1] = p /\ req[r].pc \in {"check"} \cup Working
             /\ req[s].pc \in {"check"} \cup Working => req[r].key # req[s].key

(* A lock that is held belongs to a sync under way that will free it: no way *)
(* out of withProposalGuard, nested or not, or of doOverviewSync keeps one.  *)
LocksOwned ==
    /\ \A k \in Keys, r \in Requests : guard[k] = r =>
          \/ req[r].pc \in Working \ {"guard"} /\ k = req[r].key
          \/ req[r].pc = "ingest" /\ k = Canonical(req[r].read[1])
    /\ \A p \in Processes :
          /\ cron = p => over[p].pc \in {"list", "next", "ingest"}
          /\ Cardinality({k \in Keys : guard[k] = OverviewOf(p)}) =
                IF over[p].pc = "ingest" THEN 1 ELSE 0

(* What is marked as in flight or locked belongs to a sync at work.          *)
Inv == TypeOK /\ OneOwner /\ LocksOwned

(* A new proposal is ingested by one sync at a time, in whatever process and *)
(* by whatever name it was read, or by the overview (withProposalGuard).     *)
OneIngest == \A q \in Proposals :
    LET ingesting == {r \in Requests : req[r].pc = "ingest" /\ req[r].read[1] = q}
                        \cup {OverviewOf(p) : p \in {o \in Processes :
                                 over[o].pc = "ingest" /\ guard[Canonical(q)] = OverviewOf(o)}}
    IN  Cardinality(ingesting) <= 1

(* What is marked as in flight or locked belongs to a sync at work, and a    *)
(* new proposal is ingested by one sync at a time.                           *)
SyncsOwned == Inv /\ OneIngest

(* Two starts under one key are a cooldown apart, from the time stamp of the *)
(* first to the start of the second, though requests prune the map by time   *)
(* stamps that are late (pruneProposalSyncCooldowns, an evicted key aside).  *)
Spaced == \A r \in Requests : req[r].pc = "check" /\ req'[r].pc = "guard"
                => since[r[1]][req[r].key] >= Cooldown
TimesSpaced == [][Spaced]_vars
===============================================================================
