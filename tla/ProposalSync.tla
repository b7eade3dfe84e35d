------------------------------ MODULE ProposalSync ------------------------------
(***************************************************************************)
(* How a governance proposal and its votes get from Koios to the database: *)
(* the cron job (syncAllProposals), the two kinds of sync-on-read, and the *)
(* request to ingest one proposal all end in ingestProposalData, which     *)
(* writes the proposal with the status it had before, then its votes, and  *)
(* leaves the new status to finalizeProposalStatusAfterVoteSync.           *)
(*                                                                         *)
(* One proposal.  Its votes are numbered in the order they are cast; that  *)
(* a streaming run gets all votes of its beginning is VoteIngestion's      *)
(* matter.  The locks are those of SyncLock while their leases hold; the   *)
(* admission of sync-on-read (cooldowns, load) only delays it.             *)
(***************************************************************************)
EXTENDS Integers, FiniteSets, FiniteSetsExt

CONSTANTS
    Workers,      \* places for the runs that may be under way at once
    Processes,    \* the server's processes
    Home,         \* Home[w]: the process of the runs at place w
    Bulk,         \* the place of the cron job
    MaxEpoch, MaxRuns   \* bounds

ASSUME ParametersAssumption ==
    /\ Home \in [Workers -> Processes] /\ Bulk \in Workers
    /\ {MaxEpoch, MaxRuns} \subseteq Nat

VARIABLES
    world,              \* what does not change
    epoch, row, cast,   \* the chain: its epoch, the proposal, its votes
    status, votes,      \* the database: the proposal's status, its votes
    cache,              \* interactiveProposalListCache of each process
    inFlight,           \* proposalIngestionInFlight of each process
    job,                \* what each worker is doing
    runs, fails

chain == <<epoch, row, cast>>
db == <<status, votes>>
vars == <<chain, db, cache, inFlight, job, runs, fails>>

(* The kinds of runs at each place but the cron job's; whether the proposal *)
(* is an info action, and what may become of it; how many votes there are  *)
(* and how often something fails.                                          *)
Worlds ==
    [kinds : [Workers -> SUBSET {"overview", "details", "single"}],
     info : BOOLEAN, outcomes : SUBSET {"ratified", "expired", "dropped"},
     ballots : Nat, faults : Nat]

-------------------------------------------------------------------------------
(* Statuses *)

Epochs == 0..MaxEpoch        \* 0: not known (null)

(* The proposal in the list of Koios, or none: not proposed, not cached. *)
Absent == [ratified |-> 0, enacted |-> 0, dropped |-> 0, expired |-> 0, listed |-> FALSE]
Open == [Absent EXCEPT !.listed = TRUE]
Rows == [{"ratified", "enacted", "dropped", "expired"} -> Epochs]

Statuses == {"none", "ACTIVE", "RATIFIED", "ENACTED", "DROPPED", "EXPIRED", "CLOSED"}

Past(e, now) == e # 0 /\ e <= now

(* deriveProposalStatus *)
Derive(r, now) ==
    IF Past(r.enacted, now) THEN "ENACTED"
    ELSE IF Past(r.ratified, now) THEN "RATIFIED"
    ELSE IF Past(r.dropped, now) /\ (r.expired = 0 \/ r.dropped < r.expired)
         THEN IF world.info THEN "CLOSED" ELSE "DROPPED"
    ELSE IF Past(r.expired, now) THEN IF world.info THEN "CLOSED" ELSE "EXPIRED"
    ELSE "ACTIVE"

(* isProposalStatusRetryable *)
Retryable(s) == s \in {"none", "ACTIVE"}

(* resolveDeferredProposalStatus: what is written now.  Mutant: a new       *)
(* proposal is closed.                                                     *)
WrittenAtOnce(known) == IF known = "none" THEN "CLOSED" ELSE known

WrittenNow(known) == IF known = "none" THEN "ACTIVE" ELSE known

-------------------------------------------------------------------------------
(* The chain *)

Propose ==
    /\ ~row.listed
    /\ row' = Open
    /\ UNCHANGED <<epoch, cast, db, cache, inFlight, job, runs, fails>>

Decided == \E field \in {"ratified", "dropped", "expired"} : row[field] # 0

Vote ==
    /\ row.listed /\ ~Decided /\ cast < world.ballots
    /\ cast' = cast + 1
    /\ UNCHANGED <<epoch, row, db, cache, inFlight, job, runs, fails>>

(* At the boundary of an epoch a proposal may be decided; a ratified one is *)
(* then enacted, an expired one dropped, an epoch later.                   *)
NewEpoch ==
    /\ epoch < MaxEpoch
    /\ epoch' = epoch + 1
    /\ row' \in IF ~row.listed THEN {row}
                ELSE IF ~Decided
                THEN {row} \cup {[row EXCEPT ![outcome] = epoch'] : outcome \in world.outcomes}
                ELSE IF row.ratified # 0 /\ row.enacted = 0
                THEN {[row EXCEPT !.enacted = epoch']}
                ELSE IF row.expired # 0 /\ row.dropped = 0
                THEN {[row EXCEPT !.dropped = epoch']} ELSE {row}
    /\ UNCHANGED <<cast, db, cache, inFlight, job, runs, fails>>

-------------------------------------------------------------------------------
(* Runs *)

(* A run: its step, the row of its list, the votes fetched before (or -1),  *)
(* the status it read first, what it wrote and what it intends to, and how *)
(* the ingestion went.                                                     *)
Idle == [kind |-> "none", at |-> "idle", row |-> Absent, prefetched |-> -1,
         known |-> "none", wrote |-> "none", intends |-> "none", ok |-> TRUE]

Set(w, j) == job' = [job EXCEPT ![w] = j]
Go(w, at) == Set(w, [job[w] EXCEPT !.at = at])
Ends(w) == Set(w, Idle)

(* Mutant: the sync of the overview does not take the lock. *)
LockedBulk == \E w \in Workers : job[w].kind = "bulk"

(* The lock proposal-sync, and the guard of the proposal. *)
Locked == \E w \in Workers : job[w].kind \in {"bulk", "overview"}
Guarded ==
    \E w \in Workers :
        \/ job[w].kind = "details" /\ job[w].at # "guard"
        \/ job[w].kind = "overview" /\ job[w].at \in {"ingest", "join", "read", "upsert", "votes", "power"}

BeginBulk ==
    /\ job[Bulk] = Idle /\ ~Locked
    /\ Set(Bulk, [Idle EXCEPT !.kind = "bulk", !.at = "list", !.known = status])
    /\ UNCHANGED <<chain, db, cache, inFlight, runs, fails>>

(* A read, or a request to ingest the proposal. *)
Begin(w, kind) ==
    /\ w # Bulk /\ job[w] = Idle /\ runs < MaxRuns
    /\ runs' = runs + 1
    /\ kind = "overview" => ~Locked
    /\ kind = "details" => Retryable(status)
    /\ Set(w, [Idle EXCEPT !.kind = kind, !.known = status,
                           !.at = IF kind = "details" THEN "guard" ELSE "list"])
    /\ UNCHANGED <<chain, db, cache, inFlight, fails>>

(* withProposalGuard; a run that finds it taken ends. *)
Guard(w) ==
    /\ job[w].at = "guard"
    /\ IF Guarded THEN Ends(w)
       ELSE Go(w, IF job[w].kind = "overview" THEN "ingest"
                  ELSE IF job[w].known = "none" THEN "list" ELSE "prefetch")
    /\ UNCHANGED <<chain, db, cache, inFlight, runs, fails>>

(* The votes and the voting power of Koios, compared with the database. *)
Prefetch(w) ==
    /\ job[w].at = "prefetch"
    /\ \/ Set(w, [job[w] EXCEPT !.at = "list", !.prefetched = cast])
       \/ votes = cast /\ Ends(w)
    /\ UNCHANGED <<chain, db, cache, inFlight, runs, fails>>

Cached(w) == job[w].kind \in {"overview", "details"}
Listed(w) == IF Cached(w) /\ cache[Home[w]].listed THEN cache[Home[w]] ELSE row

(* The list of proposals arrives.  Syncs of reads share one for a while. *)
List(w) ==
    /\ job[w].at = "list"
    /\ cache' = IF Cached(w) THEN [cache EXCEPT ![Home[w]] = Listed(w)] ELSE cache
    /\ LET wanted == CASE job[w].kind = "bulk" -> Retryable(job[w].known)
                       [] job[w].kind = "overview" -> status = "none"
                       [] OTHER -> TRUE
       IN IF Listed(w).listed /\ wanted
          THEN Set(w, [job[w] EXCEPT !.row = Listed(w),
                          !.at = IF job[w].kind = "overview" THEN "guard" ELSE "ingest"])
          ELSE Ends(w)
    /\ UNCHANGED <<chain, db, inFlight, runs, fails>>

CacheExpires(p) ==
    /\ cache[p].listed
    /\ cache' = [cache EXCEPT ![p] = Absent]
    /\ UNCHANGED <<chain, db, inFlight, job, runs, fails>>

-------------------------------------------------------------------------------
(* ingestProposalData *)

Flight(w) == inFlight[Home[w]]

(* At most one ingestion of the proposal in a process: others join it. *)
Ingest(w) ==
    /\ job[w].at = "ingest"
    /\ IF Flight(w) = {} THEN /\ inFlight' = [inFlight EXCEPT ![Home[w]] = {w}]
                              /\ Go(w, "read")
                         ELSE Go(w, "join") /\ UNCHANGED inFlight
    /\ UNCHANGED <<chain, db, cache, runs, fails>>

Read(w) ==
    /\ job[w].at = "read"
    /\ Set(w, [job[w] EXCEPT !.at = "upsert", !.wrote = WrittenNow(status),
                             !.intends = Derive(job[w].row, epoch)])
    /\ UNCHANGED <<chain, db, cache, inFlight, runs, fails>>

Upsert(w) ==
    /\ job[w].at = "upsert"
    /\ status' = job[w].wrote
    /\ Go(w, "votes")
    /\ UNCHANGED <<chain, votes, cache, inFlight, runs, fails>>

(* The votes that a run gets: those it has, or all there are. *)
Fetched(w) == IF job[w].prefetched # -1 THEN job[w].prefetched ELSE cast

Votes(w) ==
    /\ job[w].at = "votes"
    /\ votes' = Max({votes, Fetched(w)})
    /\ Go(w, "power")
    /\ UNCHANGED <<chain, status, cache, inFlight, runs, fails>>

(* Some votes are not written; the voting power is tried nevertheless. *)
VotesFail(w) ==
    /\ job[w].at = "votes" /\ fails < world.faults
    /\ fails' = fails + 1
    /\ votes' \in votes .. Max({votes, Fetched(w)})
    /\ Set(w, [job[w] EXCEPT !.at = "power", !.ok = FALSE])
    /\ UNCHANGED <<chain, status, cache, inFlight, runs>>

(* The ingestion of w is over: it, and those who joined it, get its result. *)
Joined(w) == {w} \cup {v \in Workers : job[v].at = "join" /\ Home[v] = Home[w]}
Delivers(w, ok) ==
    /\ job' = [v \in Workers |->
                  IF v \notin Joined(w) THEN job[v]
                  ELSE IF ~ok \/ job[w].intends = job[w].wrote THEN Idle
                  ELSE [job[v] EXCEPT !.at = "finalize", !.wrote = job[w].wrote,
                                      !.intends = job[w].intends]]
    /\ inFlight' = [inFlight EXCEPT ![Home[w]] = {}]

Power(w) ==
    /\ job[w].at = "power"
    /\ Delivers(w, job[w].ok)
    /\ UNCHANGED <<chain, db, cache, runs, fails>>

(* The voting power fails, or a read or the upsert throws. *)
IngestFails(w) ==
    /\ job[w].at \in {"read", "upsert", "power"} /\ fails < world.faults
    /\ fails' = fails + 1
    /\ Delivers(w, FALSE)
    /\ UNCHANGED <<chain, db, cache, runs>>

(* finalizeProposalStatusAfterVoteSync *)
Finalize(w) ==
    /\ job[w].at = "finalize"
    /\ status' = job[w].intends
    /\ Ends(w)
    /\ UNCHANGED <<chain, votes, cache, inFlight, runs, fails>>

(* A process stops; the locks of its runs lapse. *)
Stop(p) ==
    /\ fails < world.faults /\ \E w \in Workers : Home[w] = p /\ job[w] # Idle
    /\ fails' = fails + 1
    /\ job' = [w \in Workers |-> IF Home[w] = p THEN Idle ELSE job[w]]
    /\ inFlight' = [inFlight EXCEPT ![p] = {}]
    /\ cache' = [cache EXCEPT ![p] = Absent]
    /\ UNCHANGED <<chain, db, runs>>

-------------------------------------------------------------------------------

Init ==
    /\ world \in Worlds
    /\ epoch = 1 /\ row = Absent /\ cast = 0
    /\ status = "none" /\ votes = 0
    /\ cache = [p \in Processes |-> Absent]
    /\ inFlight = [p \in Processes |-> {}]
    /\ job = [w \in Workers |-> Idle]
    /\ runs = 0 /\ fails = 0

Step(w) ==
    \/ Guard(w) \/ Prefetch(w) \/ List(w)
    \/ Ingest(w) \/ Read(w) \/ Upsert(w) \/ Votes(w) \/ Power(w)
    \/ Finalize(w)

Next ==
    /\ \/ Propose \/ Vote \/ NewEpoch
       \/ BeginBulk
       \/ \E w \in Workers : \/ \E kind \in world.kinds[w] : Begin(w, kind)
                            \/ Step(w) \/ VotesFail(w) \/ IngestFails(w)
       \/ \E p \in Processes : CacheExpires(p) \/ Stop(p)
    /\ UNCHANGED world

Spec == Init /\ [][Next]_<<vars, world>>

(* The cron job starts again and again, and runs go on. *)
FairSpec ==
    /\ Spec /\ WF_vars(BeginBulk)
    /\ \A w \in Workers : WF_vars(Step(w))

-------------------------------------------------------------------------------
(* Properties *)

Rank(s) ==
    CASE s = "none" -> 0 [] s = "ACTIVE" -> 1 [] s = "RATIFIED" -> 2 [] OTHER -> 3

TypeOK ==
    /\ epoch \in Epochs /\ cast \in 0..world.ballots /\ votes \in 0..cast
    /\ status \in Statuses
    /\ \A p \in Processes :
          /\ inFlight[p] \subseteq {w \in Workers : Home[w] = p}
          /\ inFlight[p] = {w \in Workers : /\ Home[w] = p
                                           /\ job[w].at \in {"read", "upsert", "votes", "power"}}
          /\ Cardinality(inFlight[p]) <= 1
    /\ \A w \in Workers : job[w].at = "join" => Flight(w) # {}
    /\ Cardinality({w \in Workers : job[w].kind \in {"bulk", "overview"}}) <= 1

(* The database never says of a proposal what was not so on the chain: its  *)
(* status is no later than that of the chain.                              *)
NeverAhead == Rank(status) <= IF row.listed THEN Rank(Derive(row, epoch)) ELSE 0

(* A decided proposal, which no run syncs again, has all its votes.        *)
FinalHasVotes == ~Retryable(status) => votes = cast

(* The database never says of a proposal what was not so on the chain; and *)
(* without runs of details, which fetch the votes before the list, a       *)
(* decided proposal has all its votes.                                     *)
StatusTrue ==
    /\ NeverAhead
    /\ (\A w \in Workers : "details" \notin world.kinds[w]) => FinalHasVotes

(* What is written before the votes are does not change the status of a    *)
(* proposal: only finalizing does.                                         *)
KeepsStatus == status # "none" /\ status' # status => \E w \in Workers : job[w].at = "finalize"

(* It is so where all runs take the lock of the bulk syncs.                *)
IngestKeepsStatusLocked ==
    [][(\A w \in Workers : world.kinds[w] \subseteq {"overview"}) => KeepsStatus]_vars

(* The database comes to agree with the chain, and stays so. *)
Settled == row.listed => status = Derive(row, epoch)
Converges == <>[]Settled

(* The same, but a proposal whose ratification was synced may stay so.     *)
SettledOnce == Settled \/ (status = "RATIFIED" /\ Derive(row, epoch) = "ENACTED")
===============================================================================
