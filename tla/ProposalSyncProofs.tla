---------------------------- MODULE ProposalSyncProofs ----------------------------
(***************************************************************************)
(* What the runs that sync a proposal may do to its status, for any places *)
(* and processes, kinds of runs, courses of the proposal and failures; and *)
(* what the ingestion of its votes leaves out, for any blocks and forks.   *)
(*                                                                         *)
(* The inductive invariant says that every row a run or a cache holds is   *)
(* an earlier state of the chain's row, so that no status derived from it  *)
(* is ahead; that a status which stays is only written where the votes are *)
(* all there; and that one run holds the lock, which keeps the status that *)
(* it read till it writes it back.                                         *)
(*                                                                         *)
(* The one of the ingestion says where in the list of votes a vote stands  *)
(* that is still to be written: where the run, or one that goes on from    *)
(* its checkpoint, will read it.                                           *)
(***************************************************************************)
EXTENDS ProposalSync, VoteIngestion, FiniteSetTheorems, TLAPS


-------------------------------------------------------------------------------
(* The types that the arguments need. *)
RowRecords == [ratified : Nat, enacted : Nat, dropped : Nat, expired : Nat, listed : BOOLEAN]
RunKinds == {"none", "bulk", "overview", "details", "single"}
Places == {"idle", "guard", "prefetch", "list", "ingest", "join", "read", "upsert", "votes",
           "power", "finalize"}
Jobs == [kind : RunKinds, at : Places, row : RowRecords, prefetched : Int, known : Statuses,
         wrote : Statuses, intends : Statuses, ok : BOOLEAN]
Typed ==
    /\ world \in Worlds
    /\ epoch \in Nat /\ row \in RowRecords /\ cast \in Nat
    /\ status \in Statuses /\ votes \in 0..cast
    /\ cache \in [Processes -> RowRecords]
    /\ job \in [Workers -> Jobs]

(* The course of a proposal: enacted once ratified, and either ratified or *)
(* out of time.                                                            *)
OneCourse ==
    /\ ~row.listed => row = Absent
    /\ row.enacted # 0 => row.ratified # 0
    /\ row.ratified # 0 => row.dropped = 0 /\ row.expired = 0
    /\ row.ratified <= epoch /\ row.enacted <= epoch /\ row.dropped <= epoch /\ row.expired <= epoch

(* A row that was listed before: the chain says the same, or more. *)
Before(r) ==
    /\ r.ratified \in {0, row.ratified} /\ r.enacted \in {0, row.enacted}
    /\ r.dropped \in {0, row.dropped} /\ r.expired \in {0, row.expired}
    /\ r.listed => row.listed

(* The rank of what is derived from a row, of a proposal of any kind. *)
RankOf(r, e) ==
    IF Past(r.enacted, e) THEN 3
    ELSE IF Past(r.ratified, e) THEN 2
    ELSE IF (Past(r.dropped, e) /\ (r.expired = 0 \/ r.dropped < r.expired)) \/ Past(r.expired, e)
         THEN 3 ELSE 1
ChainRank == IF row.listed THEN RankOf(row, epoch) ELSE 0

NoDetails == \A w \in Workers : "details" \notin world.kinds[w]
OnlyLocked == \A w \in Workers : world.kinds[w] \subseteq {"overview"}
Final == Decided /\ votes = cast

(* A run has a row of before, and neither wrote nor intends what is ahead   *)
(* of the chain; without runs of details it is about to write a final       *)
(* status only where the votes are all there.                              *)
JobOK(j, w) ==
    /\ Before(j.row)
    /\ Rank(j.wrote) <= ChainRank /\ Rank(j.intends) <= ChainRank
    /\ j.at \in {"ingest", "join", "read", "upsert", "votes", "power", "finalize"} => j.row.listed
    /\ j.at = "guard" /\ j.kind = "overview" => j.row.listed
    /\ j.kind \in {"none", "bulk"} \cup world.kinds[w]
    /\ j.kind = "none" => j.at = "idle"
    /\ j.at = "guard" => j.kind \in {"overview", "details"}
    /\ j.at = "prefetch" => j.kind = "details"
    /\ j.prefetched # -1 => j.prefetched \in 0..cast
    /\ NoDetails =>
         /\ j.prefetched = -1
         /\ ~Retryable(j.wrote) => Final
         /\ ~Retryable(j.intends) => Decided
         /\ ~Retryable(j.intends) /\ (j.at = "finalize" \/ (j.at = "power" /\ j.ok)) => Final

StatusOK ==
    /\ Rank(status) <= ChainRank
    /\ NoDetails /\ ~Retryable(status) => Final

(* One run at a time holds the lock; and where all take it, no other       *)
(* changes the status between the read of it and the upsert.               *)
Alone ==
    \A v, w \in Workers :
        job[v].kind \in {"bulk", "overview"} /\ job[w].kind \in {"bulk", "overview"} => v = w
Undisturbed ==
    OnlyLocked => \A w \in Workers : job[w].at = "upsert" => job[w].wrote = WrittenNow(status)

PInv ==
    /\ Typed /\ OneCourse /\ StatusOK
    /\ \A p \in Processes : Before(cache[p])
    /\ \A w \in Workers : JobOK(job[w], w)
    /\ Alone /\ Undisturbed

(* Ranks are numbers, and a new proposal has the least. *)
LEMMA RankIs ==
    /\ \A s \in Statuses : Rank(s) \in 0..3
    /\ Rank("none") = 0 /\ Rank("ACTIVE") = 1 /\ Rank("RATIFIED") = 2
    /\ \A s \in {"ENACTED", "DROPPED", "EXPIRED", "CLOSED"} : Rank(s) = 3
<1>1. Rank("none") = 0 /\ Rank("ACTIVE") = 1 /\ Rank("RATIFIED") = 2
  BY DEF Rank
<1>2. /\ Rank("ENACTED") = 3 /\ Rank("DROPPED") = 3 /\ Rank("EXPIRED") = 3
      /\ Rank("CLOSED") = 3
  BY DEF Rank
<1> QED
  BY <1>1, <1>2 DEF Statuses

(* What is derived from a row: never that there is none. *)
LEMMA DeriveIs ==
    ASSUME NEW r \in RowRecords, NEW e \in Nat
    PROVE  /\ Derive(r, e) \in Statuses \ {"none"}
           /\ Rank(Derive(r, e)) = RankOf(r, e) /\ RankOf(r, e) \in 1..3
           /\ ~Retryable(Derive(r, e)) => \/ r.ratified # 0 \/ r.enacted # 0
                                          \/ r.dropped # 0 \/ r.expired # 0
<1>1. CASE Past(r.enacted, e)
  <2>1. Derive(r, e) = "ENACTED" /\ RankOf(r, e) = 3 /\ r.enacted # 0
    BY <1>1 DEF Derive, RankOf, Past
  <2> QED BY <2>1, RankIs DEF Statuses
<1>2. CASE ~Past(r.enacted, e) /\ Past(r.ratified, e)
  <2>1. Derive(r, e) = "RATIFIED" /\ RankOf(r, e) = 2 /\ r.ratified # 0
    BY <1>2 DEF Derive, RankOf, Past
  <2> QED BY <2>1, RankIs DEF Statuses
<1>3. CASE /\ ~Past(r.enacted, e) /\ ~Past(r.ratified, e)
           /\ \/ Past(r.dropped, e) /\ (r.expired = 0 \/ r.dropped < r.expired)
              \/ Past(r.expired, e)
  <2>1. Derive(r, e) \in {"DROPPED", "EXPIRED", "CLOSED"} /\ RankOf(r, e) = 3
        /\ (r.dropped # 0 \/ r.expired # 0)
    BY <1>3 DEF Derive, RankOf, Past
  <2> QED BY <2>1, RankIs DEF Statuses
<1>4. CASE /\ ~Past(r.enacted, e) /\ ~Past(r.ratified, e)
           /\ ~(Past(r.dropped, e) /\ (r.expired = 0 \/ r.dropped < r.expired))
           /\ ~Past(r.expired, e)
  <2>1. Derive(r, e) = "ACTIVE" /\ RankOf(r, e) = 1
    BY <1>4 DEF Derive, RankOf
  <2> QED BY <2>1, RankIs DEF Statuses, Retryable
<1> QED
  BY <1>1, <1>2, <1>3, <1>4

(* An earlier row has no greater rank. *)
LEMMA RankGrows ==
    ASSUME NEW r \in RowRecords, NEW q \in RowRecords, NEW d \in Nat, NEW e \in Nat, d <= e,
           r.ratified \in {0, q.ratified}, r.enacted \in {0, q.enacted},
           r.dropped \in {0, q.dropped}, r.expired \in {0, q.expired},
           q.enacted # 0 => q.ratified # 0,
           q.ratified # 0 => q.dropped = 0 /\ q.expired = 0,
           q.dropped <= e, q.expired <= e
    PROVE  RankOf(r, d) <= RankOf(q, e)
<1>1. /\ q.ratified \in Nat /\ q.enacted \in Nat /\ q.dropped \in Nat /\ q.expired \in Nat
      /\ r.ratified \in Nat /\ r.enacted \in Nat /\ r.dropped \in Nat /\ r.expired \in Nat
  BY DEF RowRecords
<1>2. CASE Past(r.enacted, d)
  BY <1>1, <1>2 DEF RankOf, Past
<1>3. CASE ~Past(r.enacted, d) /\ Past(r.ratified, d)
  BY <1>1, <1>3 DEF RankOf, Past
<1>4. CASE ~Past(r.enacted, d) /\ ~Past(r.ratified, d)
  BY <1>1, <1>4 DEF RankOf, Past
<1> QED
  BY <1>2, <1>3, <1>4

(* What a run derives is not ahead of the chain. *)
LEMMA DerivedBehind ==
    ASSUME Typed, OneCourse, NEW r \in RowRecords, Before(r), r.listed
    PROVE  /\ Derive(r, epoch) \in Statuses \ {"none"}
           /\ Rank(Derive(r, epoch)) <= ChainRank /\ ChainRank \in 1..3
           /\ ~Retryable(Derive(r, epoch)) => Decided
<1>1. RankOf(r, epoch) <= RankOf(row, epoch)
  BY RankGrows DEF Typed, OneCourse, Before
<1>2. ChainRank = RankOf(row, epoch) /\ RankOf(row, epoch) \in 1..3
  BY DeriveIs DEF Typed, Before, ChainRank
<1>3. ASSUME ~Retryable(Derive(r, epoch)) PROVE Decided
  <2>1. r.ratified # 0 \/ r.enacted # 0 \/ r.dropped # 0 \/ r.expired # 0
    BY <1>3, DeriveIs DEF Typed
  <2>2. row.ratified # 0 \/ row.dropped # 0 \/ row.expired # 0
    BY <2>1 DEF OneCourse, Before
  <2> QED BY <2>2 DEF Decided
<1> QED
  BY <1>1, <1>2, <1>3, DeriveIs DEF Typed

(* Chain, epoch and votes move on: what is known stays behind, what is      *)
(* final stays final.                                                      *)
Later ==
    /\ world' = world /\ cast' \in Nat /\ cast <= cast'
    /\ \A r : Before(r) => Before(r)'
    /\ ChainRank \in 0..3 /\ ChainRank' \in 0..3 /\ ChainRank <= ChainRank'
    /\ Decided => Decided'
    /\ Final => Final'

(* A run stays right while the chain moves on. *)
LEMMA LaterKeeps ==
    ASSUME Typed, Later, NEW w \in Workers, NEW j \in Jobs, JobOK(j, w)
    PROVE  JobOK(j, w)'
<1>1. Rank(j.wrote) \in 0..3 /\ Rank(j.intends) \in 0..3
  BY RankIs DEF Jobs
<1>2. NoDetails' = NoDetails
  BY DEF NoDetails, Later
<1>3. Rank(j.wrote) <= ChainRank' /\ Rank(j.intends) <= ChainRank'
  BY <1>1 DEF JobOK, Later
<1>4. j.prefetched # -1 => j.prefetched \in 0..cast'
  BY DEF JobOK, Later, Typed, Jobs
<1> QED
  BY <1>2, <1>3, <1>4 DEF JobOK, Later

(* If the chain does not change and the votes are no fewer, that is so. *)
LEMMA SameChain ==
    ASSUME Typed, OneCourse, UNCHANGED <<world, epoch, row, cast>>, votes' \in votes..cast
    PROVE  Later /\ OneCourse'
<1>1. votes \in Nat /\ cast \in Nat /\ votes <= cast
  BY DEF Typed
<1>2. ChainRank \in 0..3 /\ ChainRank' = ChainRank
  BY DeriveIs DEF ChainRank, RankOf, Typed
<1>3. Decided' = Decided
  BY DEF Decided
<1>4. Final => Final'
  BY <1>1, <1>3 DEF Final
<1>5. \A r : Before(r) => Before(r)'
  BY DEF Before
<1>6. OneCourse'
  BY DEF OneCourse
<1> QED
  BY <1>1, <1>2, <1>3, <1>4, <1>5, <1>6 DEF Later

(* A step in which one run goes on, and may write. *)
LEMMA OneJob ==
    ASSUME PInv, NEW w \in Workers, NEW j \in Jobs, job' = [job EXCEPT ![w] = j],
           UNCHANGED <<world, epoch, row, cast>>, votes' \in votes..cast,
           cache' \in [Processes -> RowRecords], \A p \in Processes : Before(cache'[p]),
           status' \in Statuses, Rank(status') <= ChainRank,
           NoDetails /\ ~Retryable(status') => Final',
           status' = status \/ job[w].at # "idle",
           JobOK(j, w)',
           j.kind \in {"none", job[w].kind} \/ ~Locked \/ j.kind \in {"details", "single"},
           OnlyLocked /\ j.at = "upsert" => j.wrote = WrittenNow(status')
    PROVE  PInv'
<1>0. /\ Typed /\ OneCourse /\ Alone /\ Undisturbed
      /\ \A v \in Workers : JobOK(job[v], v)
  BY DEF PInv
<1>1. Later /\ OneCourse'
  BY <1>0, SameChain
<1>2. \A v \in Workers : job'[v] = IF v = w THEN j ELSE job[v]
  BY <1>0 DEF Typed
<1>3. Typed'
  <2>1. votes' \in 0..cast
    BY <1>0 DEF Typed
  <2>2. job' \in [Workers -> Jobs]
    BY <1>0 DEF Typed
  <2> QED BY <1>0, <2>1, <2>2 DEF Typed
<1>4. ASSUME NEW v \in Workers, NEW i, i = job'[v] PROVE JobOK(i, v)'
  <2>1. CASE v = w
    BY <1>2, <1>4, <2>1
  <2>2. CASE v # w
    <3>1. i = job[v]
      BY <1>2, <1>4, <2>2
    <3>2. i \in Jobs /\ JobOK(i, v)
      BY <1>0, <3>1 DEF Typed
    <3> QED BY <1>0, <1>1, <3>2, LaterKeeps
  <2> QED BY <2>1, <2>2
<1>5. StatusOK'
  <2>1. Rank(status') <= ChainRank'
    <3>1. Rank(status') \in 0..3
      BY RankIs
    <3> QED BY <1>1, <3>1 DEF Later
  <2>2. NoDetails' = NoDetails
    BY DEF NoDetails
  <2> QED BY <2>1, <2>2 DEF StatusOK
<1>6. \A r : (\E p \in Processes : r = cache'[p]) => Before(r)'
  BY <1>1 DEF Later
<1>7. Alone'
  <2>1. ASSUME NEW u \in Workers, NEW v \in Workers, job'[u].kind \in {"bulk", "overview"},
               job'[v].kind \in {"bulk", "overview"}, u # v, u = w
        PROVE  FALSE
    <3>1. j.kind \in {"bulk", "overview"} /\ job[v].kind \in {"bulk", "overview"}
      BY <1>2, <2>1
    <3>2. Locked
      BY <3>1 DEF Locked
    <3>3. job[w].kind \in {"bulk", "overview"}
      BY <3>1, <3>2
    <3> QED BY <1>0, <2>1, <3>1, <3>3 DEF Alone
  <2>2. ASSUME NEW u \in Workers, NEW v \in Workers, job'[u].kind \in {"bulk", "overview"},
               job'[v].kind \in {"bulk", "overview"}, u # v
        PROVE  FALSE
    <3>1. CASE u = w
      BY <2>1, <2>2, <3>1
    <3>2. CASE v = w
      BY <2>1, <2>2, <3>2
    <3>3. CASE u # w /\ v # w
      BY <1>0, <1>2, <2>2, <3>3 DEF Alone
    <3> QED BY <3>1, <3>2, <3>3
  <2> QED BY <2>2 DEF Alone
<1>8. Undisturbed'
  <2> SUFFICES ASSUME OnlyLocked, NEW v \in Workers, job'[v].at = "upsert"
               PROVE  job'[v].wrote = WrittenNow(status')
    BY DEF Undisturbed, OnlyLocked, WrittenNow
  <2>1. CASE v = w
    BY <1>2, <2>1
  <2>2. CASE v # w
    <3>1. job'[v] = job[v]
      BY <1>2, <2>2
    <3>2. job[v].wrote = WrittenNow(status)
      BY <1>0, <3>1 DEF Undisturbed
    <3>3. CASE status' = status
      BY <3>1, <3>2, <3>3
    <3>4. CASE job[w].at # "idle"
      <4>1. world.kinds[v] \subseteq {"overview"} /\ world.kinds[w] \subseteq {"overview"}
        BY DEF OnlyLocked
      <4>2. job[v].kind \in {"bulk", "overview"} /\ job[w].kind \in {"bulk", "overview"}
        BY <1>0, <3>1, <3>4, <4>1 DEF JobOK
      <4> QED BY <1>0, <2>2, <4>2 DEF Alone
    <3> QED BY <3>3, <3>4
  <2> QED BY <2>1, <2>2
<1>9. (\A v \in Workers : JobOK(job[v], v))'
  BY <1>4
<1>10. (\A p \in Processes : Before(cache[p]))'
  BY <1>6
<1> QED
  BY <1>1, <1>3, <1>5, <1>7, <1>8, <1>9, <1>10 DEF PInv

(* What is kept of no row and of no run. *)
LEMMA IdleIs ==
    /\ Absent \in RowRecords /\ Idle \in Jobs
    /\ Idle.kind = "none" /\ Idle.at = "idle" /\ Idle.row = Absent /\ Idle.prefetched = -1
    /\ Idle.wrote = "none" /\ Idle.intends = "none"
<1>1. Absent \in RowRecords
  BY DEF Absent, RowRecords
<1>2. Idle \in Jobs
  BY <1>1 DEF Idle, Jobs, RunKinds, Places, Statuses
<1> QED
  BY <1>1, <1>2 DEF Idle

(* No row is earlier than any. *)
LEMMA AbsentBefore == ASSUME Typed PROVE Before(Absent)
  BY DEF Typed, Absent, Before, RowRecords

(* A run of no work, or at its beginning. *)
LEMMA FreshJob ==
    ASSUME Typed, NEW w \in Workers, NEW j \in Jobs,
           j.row = Absent, j.prefetched = -1, j.wrote = "none", j.intends = "none",
           \/ j.kind = "none" /\ j.at = "idle"
           \/ j.kind \in {"bulk"} \cup world.kinds[w] /\ j.at = "list"
           \/ j.kind = "details" /\ j.at = "guard" /\ j.kind \in world.kinds[w]
    PROVE  JobOK(j, w)
<1>1. ChainRank \in 0..3
  BY DeriveIs DEF ChainRank, RankOf, Typed
<1>2. Before(j.row)
  BY AbsentBefore
<1>3. Rank(j.wrote) = 0 /\ Rank(j.intends) = 0 /\ Retryable(j.wrote) /\ Retryable(j.intends)
  BY RankIs DEF Retryable
<1>4. Rank(j.wrote) <= ChainRank /\ Rank(j.intends) <= ChainRank
  BY <1>1, <1>3
<1>5. j.kind \in {"none", "bulk"} \cup world.kinds[w] /\ j.at \in {"idle", "list", "guard"}
  OBVIOUS
<1>6. j.at # "prefetch" /\ (j.kind = "none" => j.at = "idle")
  BY DEF Typed, Worlds
<1>7. j.at = "guard" => j.kind = "details"
  OBVIOUS
<1> QED
  BY <1>2, <1>3, <1>4, <1>5, <1>6, <1>7 DEF JobOK

(* The same run at another place. *)
LEMMA MovedJob ==
    ASSUME Typed, NEW w \in Workers, NEW i \in Jobs, JobOK(i, w), NEW j \in Jobs,
           j.row = i.row /\ j.kind = i.kind /\ j.prefetched = i.prefetched,
           j.wrote = i.wrote /\ j.intends = i.intends,
           i.at # "idle", j.at \notin {"guard", "finalize", "power"},
           j.at = "prefetch" => i.at = "prefetch" \/ i.kind = "details",
           j.at \in {"ingest", "join", "read", "upsert", "votes"} => i.row.listed
    PROVE  JobOK(j, w)
  BY DEF JobOK

(* A step in which one run goes on, and writes nothing. *)
LEMMA OneJobReads ==
    ASSUME PInv, NEW w \in Workers, NEW j \in Jobs, job' = [job EXCEPT ![w] = j],
           UNCHANGED <<world, epoch, row, cast, status, votes>>,
           cache' \in [Processes -> RowRecords], \A p \in Processes : Before(cache'[p]),
           JobOK(j, w),
           j.kind \in {"none", job[w].kind} \/ ~Locked \/ j.kind \in {"details", "single"},
           OnlyLocked /\ j.at = "upsert" => j.wrote = WrittenNow(status)
    PROVE  PInv'
<1>1. Typed /\ OneCourse /\ StatusOK
  BY DEF PInv
<1>2. votes' \in votes..cast
  BY <1>1 DEF Typed
<1>3. Later
  BY <1>1, <1>2, SameChain
<1>4. JobOK(j, w)'
  BY <1>1, <1>3, LaterKeeps
<1>5. /\ status' \in Statuses /\ Rank(status') <= ChainRank
      /\ NoDetails /\ ~Retryable(status') => Final'
  <2>1. Final' = Final
    BY DEF Final, Decided
  <2> QED BY <1>1, <2>1 DEF StatusOK, Typed
<1> QED
  BY <1>2, <1>4, <1>5, OneJob

(* What the invariant says of a run at a place. *)
LEMMA JobOf ==
    ASSUME PInv, NEW w \in Workers
    PROVE  \E i \in Jobs : i = job[w] /\ JobOK(i, w)
BY DEF PInv, Typed

(* A run that begins knows nothing yet. *)
LEMMA BeginsKeep ==
    ASSUME PInv, BeginBulk \/ \E w \in Workers : \E kind \in world.kinds[w] : Begin(w, kind),
           world' = world
    PROVE  PInv'
<1>0. Typed
  BY DEF PInv
<1>1. ASSUME NEW w \in Workers, NEW kind \in {"bulk"} \cup world.kinds[w],
             NEW at \in {"guard", "list"}, at = "guard" => kind = "details",
             at = "guard" => kind \in world.kinds[w],
             kind \in {"bulk", "overview"} => ~Locked,
             Set(w, [Idle EXCEPT !.kind = kind, !.known = status, !.at = at]),
             UNCHANGED <<world, epoch, row, cast, status, votes, cache>>
      PROVE  PInv'
  <2>1. PICK n \in Jobs : n = Idle
    BY IdleIs
  <2>2. kind \in RunKinds /\ kind # "none"
    BY <1>0 DEF Typed, Worlds, RunKinds
  <2>3. PICK j : j = [n EXCEPT !.kind = kind, !.known = status, !.at = at]
    OBVIOUS
  <2>4. j \in Jobs
    BY <1>0, <2>2, <2>3 DEF Jobs, Typed, Places
  <2>5. /\ j.kind = kind /\ j.at = at /\ j.row = Absent /\ j.prefetched = -1
        /\ j.wrote = "none" /\ j.intends = "none"
    BY <2>1, <2>3, IdleIs DEF Jobs
  <2>6. JobOK(j, w)
    BY <1>0, <1>1, <2>4, <2>5, FreshJob
  <2>7. job' = [job EXCEPT ![w] = j]
    BY <1>1, <2>1, <2>3 DEF Set
  <2>8. kind \in {"bulk", "overview", "details", "single"}
    BY <1>1, <2>2 DEF RunKinds
  <2> QED BY <1>0, <1>1, <2>4, <2>5, <2>6, <2>7, <2>8, OneJobReads DEF PInv, Typed
<1>2. CASE BeginBulk
  <2>1. /\ ~Locked /\ UNCHANGED <<epoch, row, cast, status, votes, cache>>
        /\ Set(Bulk, [Idle EXCEPT !.kind = "bulk", !.at = "list", !.known = status])
    BY <1>2 DEF BeginBulk, chain, db
  <2>2. [Idle EXCEPT !.kind = "bulk", !.at = "list", !.known = status]
          = [Idle EXCEPT !.kind = "bulk", !.known = status, !.at = "list"]
    BY IdleIs DEF Jobs
  <2> QED BY <1>1, <2>1, <2>2, ParametersAssumption
<1>3. ASSUME NEW w \in Workers, NEW kind \in world.kinds[w], Begin(w, kind) PROVE PInv'
  <2>1. PICK at \in {"guard", "list"} : at = IF kind = "details" THEN "guard" ELSE "list"
    OBVIOUS
  <2>2. /\ UNCHANGED <<epoch, row, cast, status, votes, cache>>
        /\ kind = "overview" => ~Locked
        /\ Set(w, [Idle EXCEPT !.kind = kind, !.known = status, !.at = at])
    BY <1>3, <2>1 DEF Begin, chain, db
  <2>3. kind # "bulk"
    BY <1>0 DEF Typed, Worlds
  <2> QED BY <1>1, <2>1, <2>2, <2>3
<1> QED
  BY <1>2, <1>3

(* A run goes to another place, and nothing else of it changes. *)
LEMMA GoKeeps ==
    ASSUME PInv, NEW w \in Workers, NEW at \in Places, Go(w, at),
           UNCHANGED <<world, epoch, row, cast, status, votes, cache>>,
           job[w].at # "idle", at \notin {"guard", "finalize", "power", "upsert"},
           at = "prefetch" => job[w].kind = "details",
           at \in {"ingest", "join", "read", "votes"} => job[w].row.listed
    PROVE  PInv'
<1>0. Typed
  BY DEF PInv
<1>1. PICK i \in Jobs : i = job[w] /\ JobOK(i, w)
  BY JobOf
<1>2. PICK j : j = [i EXCEPT !.at = at]
  OBVIOUS
<1>3. j \in Jobs
  BY <1>2 DEF Jobs
<1>4. /\ j.row = i.row /\ j.kind = i.kind /\ j.prefetched = i.prefetched
      /\ j.wrote = i.wrote /\ j.intends = i.intends /\ j.at = at
  BY <1>2 DEF Jobs
<1>5. JobOK(j, w)
  BY <1>0, <1>1, <1>3, <1>4, MovedJob
<1>6. job' = [job EXCEPT ![w] = j]
  BY <1>1, <1>2 DEF Go, Set
<1> QED
  BY <1>0, <1>1, <1>3, <1>4, <1>5, <1>6, OneJobReads DEF PInv, Typed

(* A run ends. *)
LEMMA EndKeeps ==
    ASSUME PInv, NEW w \in Workers, Ends(w),
           UNCHANGED <<world, epoch, row, cast, status, votes>>,
           cache' \in [Processes -> RowRecords], \A p \in Processes : Before(cache'[p])
    PROVE  PInv'
<1>0. Typed
  BY DEF PInv
<1>1. JobOK(Idle, w)
  BY <1>0, IdleIs, FreshJob
<1>2. job' = [job EXCEPT ![w] = Idle]
  BY DEF Ends, Set
<1> QED
  BY <1>1, <1>2, IdleIs, OneJobReads

(* A run at its guard goes on or ends. *)
LEMMA GuardKeeps ==
    ASSUME PInv, NEW w \in Workers, Guard(w), world' = world PROVE PInv'
<1>0. Typed
  BY DEF PInv
<1>1. PICK i \in Jobs : i = job[w] /\ JobOK(i, w)
  BY JobOf
<1>2. job[w].at = "guard" /\ UNCHANGED <<epoch, row, cast, status, votes, cache>>
  BY DEF Guard, chain, db
<1>3. CASE Ends(w)
  BY <1>0, <1>2, <1>3, EndKeeps DEF PInv, Typed
<1>4. CASE ~Ends(w)
  <2>1. PICK at : /\ at = (IF job[w].kind = "overview" THEN "ingest"
                           ELSE IF job[w].known = "none" THEN "list" ELSE "prefetch")
                  /\ Go(w, at)
    BY <1>4 DEF Guard
  <2>2. at \in {"ingest", "list", "prefetch"} /\ (at = "prefetch" => job[w].kind = "details")
        /\ (at = "ingest" => job[w].row.listed)
    BY <1>1, <1>2, <2>1 DEF JobOK
  <2> QED BY <1>2, <2>1, <2>2, GoKeeps DEF Places
<1> QED
  BY <1>3, <1>4

(* The votes fetched before the list are no more than there are. *)
LEMMA PrefetchKeeps ==
    ASSUME PInv, NEW w \in Workers, Prefetch(w), world' = world PROVE PInv'
<1>0. Typed
  BY DEF PInv
<1>1. PICK i \in Jobs : i = job[w] /\ JobOK(i, w)
  BY JobOf
<1>2. job[w].at = "prefetch" /\ UNCHANGED <<epoch, row, cast, status, votes, cache>>
  BY DEF Prefetch, chain, db
<1>3. CASE Ends(w)
  BY <1>0, <1>2, <1>3, EndKeeps DEF PInv, Typed
<1>4. CASE Set(w, [job[w] EXCEPT !.at = "list", !.prefetched = cast])
  <2>0. PICK n \in Int : n = cast
    BY <1>0 DEF Typed
  <2>1. PICK j : j = [i EXCEPT !.at = "list", !.prefetched = n]
    OBVIOUS
  <2>2. j \in Jobs
    BY <2>1 DEF Jobs, Places
  <2>3. /\ j.row = i.row /\ j.kind = i.kind /\ j.at = "list"
        /\ j.wrote = i.wrote /\ j.intends = i.intends
    BY <2>1 DEF Jobs
  <2>4. ~NoDetails
    BY <1>1, <1>2 DEF JobOK, NoDetails
  <2>7. j.prefetched \in 0..cast
    BY <1>0, <2>0, <2>1 DEF Jobs, Typed
  <2>5. JobOK(j, w)
    BY <1>1, <1>2, <2>3, <2>4, <2>7 DEF JobOK
  <2>6. job' = [job EXCEPT ![w] = j]
    BY <1>1, <1>4, <2>0, <2>1 DEF Set
  <2> QED BY <1>0, <1>1, <1>2, <2>2, <2>3, <2>5, <2>6, OneJobReads DEF PInv, Typed
<1> QED
  BY <1>3, <1>4 DEF Prefetch

(* The list is that of Koios or a cached one, both of before. *)
LEMMA ListKeeps ==
    ASSUME PInv, NEW w \in Workers, List(w), world' = world PROVE PInv'
<1>0. Typed /\ \A p \in Processes : Before(cache[p])
  BY DEF PInv
<1>1. PICK i \in Jobs : i = job[w] /\ JobOK(i, w)
  BY JobOf
<1>2. PICK h \in Processes : h = Home[w]
  BY ParametersAssumption
<1>3. PICK r \in RowRecords : r = Listed(w) /\ Before(r)
  <2>1. Before(row)
    BY DEF Before
  <2> QED BY <1>0, <1>2, <2>1 DEF Listed, Typed
<1>4. job[w].at = "list" /\ UNCHANGED <<epoch, row, cast, status, votes>>
  BY DEF List, chain, db
<1>5. cache' \in [Processes -> RowRecords] /\ \A p \in Processes : Before(cache'[p])
  <2>1. cache' = cache \/ cache' = [cache EXCEPT ![h] = r]
    BY <1>2, <1>3 DEF List
  <2>2. CASE cache' = cache
    BY <1>0, <2>2 DEF Typed
  <2>3. CASE cache' = [cache EXCEPT ![h] = r]
    <3>1. \A p \in Processes : cache'[p] = IF p = h THEN r ELSE cache[p]
      BY <1>0, <2>3 DEF Typed
    <3> QED BY <1>0, <1>3, <2>3, <3>1 DEF Typed
  <2> QED BY <2>1, <2>2, <2>3
<1>6. CASE Ends(w)
  BY <1>4, <1>5, <1>6, EndKeeps
<1>7. CASE ~Ends(w)
  <2>1. PICK at \in {"guard", "ingest"} :
          /\ at = "guard" => i.kind = "overview"
          /\ r.listed /\ Set(w, [job[w] EXCEPT !.row = r, !.at = at])
    BY <1>1, <1>3, <1>7 DEF List
  <2>2. PICK j : j = [i EXCEPT !.row = r, !.at = at]
    OBVIOUS
  <2>3. j \in Jobs
    BY <2>2 DEF Jobs, Places
  <2>4. /\ j.row = r /\ j.kind = i.kind /\ j.prefetched = i.prefetched
        /\ j.wrote = i.wrote /\ j.intends = i.intends /\ j.at = at
    BY <2>2 DEF Jobs
  <2>5. JobOK(j, w)
    BY <1>1, <1>3, <1>4, <2>1, <2>4 DEF JobOK
  <2>6. job' = [job EXCEPT ![w] = j]
    BY <1>1, <2>1, <2>2 DEF Set
  <2> QED BY <1>1, <1>4, <1>5, <2>1, <2>3, <2>4, <2>5, <2>6, OneJobReads
<1> QED
  BY <1>6, <1>7

(* A run that ingests or joins keeps what it holds. *)
LEMMA IngestKeeps ==
    ASSUME PInv, NEW w \in Workers, Ingest(w), world' = world PROVE PInv'
<1>1. PICK i \in Jobs : i = job[w] /\ JobOK(i, w)
  BY JobOf
<1>2. job[w].at = "ingest" /\ UNCHANGED <<epoch, row, cast, status, votes, cache>>
  BY DEF Ingest, chain, db
<1>3. job[w].row.listed
  BY <1>1, <1>2 DEF JobOK
<1>4. Go(w, "read") \/ Go(w, "join")
  BY DEF Ingest
<1>5. CASE Go(w, "read")
  BY <1>2, <1>3, <1>5, GoKeeps DEF Places
<1>6. CASE Go(w, "join")
  BY <1>2, <1>3, <1>6, GoKeeps DEF Places
<1> QED
  BY <1>4, <1>5, <1>6

(* What is written at once is what was there, or ACTIVE. *)
LEMMA WrittenIs ==
    ASSUME PInv, ChainRank \in 1..3
    PROVE  /\ WrittenNow(status) \in Statuses /\ Rank(WrittenNow(status)) <= ChainRank
           /\ NoDetails /\ ~Retryable(WrittenNow(status)) => Final
<1>1. Typed /\ StatusOK
  BY DEF PInv
<1>2. CASE status = "none"
  <2>1. WrittenNow(status) = "ACTIVE"
    BY <1>2 DEF WrittenNow
  <2> QED BY <2>1, RankIs DEF Statuses, Retryable
<1>3. CASE status # "none"
  <2>1. WrittenNow(status) = status
    BY <1>3 DEF WrittenNow
  <2> QED BY <1>1, <2>1 DEF Typed, StatusOK
<1> QED
  BY <1>2, <1>3

(* The status that is read, or ACTIVE, is not ahead; nor is the derived one. *)
LEMMA ReadKeeps ==
    ASSUME PInv, NEW w \in Workers, Read(w), world' = world PROVE PInv'
<1>0. Typed /\ OneCourse
  BY DEF PInv
<1>1. PICK i \in Jobs : i = job[w] /\ JobOK(i, w)
  BY JobOf
<1>2. /\ job[w].at = "read" /\ UNCHANGED <<epoch, row, cast, status, votes, cache>>
      /\ Set(w, [job[w] EXCEPT !.at = "upsert", !.wrote = WrittenNow(status),
                               !.intends = Derive(job[w].row, epoch)])
  BY DEF Read, chain, db
<1>3. i.row \in RowRecords /\ Before(i.row) /\ i.row.listed
  BY <1>1, <1>2 DEF JobOK, Jobs
<1>4. PICK n \in Statuses : /\ n = Derive(i.row, epoch) /\ Rank(n) <= ChainRank
                            /\ ChainRank \in 1..3 /\ (~Retryable(n) => Decided)
  BY <1>0, <1>3, DerivedBehind
<1>5. PICK o \in Statuses : /\ o = WrittenNow(status) /\ Rank(o) <= ChainRank
                            /\ NoDetails /\ ~Retryable(o) => Final
  BY <1>4, WrittenIs
<1>6. PICK j : j = [i EXCEPT !.at = "upsert", !.wrote = o, !.intends = n]
  OBVIOUS
<1>7. j \in Jobs
  BY <1>6 DEF Jobs, Places
<1>8. /\ j.row = i.row /\ j.kind = i.kind /\ j.prefetched = i.prefetched
      /\ j.wrote = o /\ j.intends = n /\ j.at = "upsert"
  BY <1>6 DEF Jobs
<1>9. JobOK(j, w)
  BY <1>1, <1>2, <1>3, <1>4, <1>5, <1>8 DEF JobOK
<1>10. job' = [job EXCEPT ![w] = j]
  BY <1>1, <1>2, <1>4, <1>5, <1>6 DEF Set
<1> QED
  BY <1>0, <1>1, <1>2, <1>5, <1>7, <1>8, <1>9, <1>10, OneJobReads DEF PInv, Typed

(* The upsert writes what the run read, the last write what it intends. *)
LEMMA WritesKeep ==
    ASSUME PInv, NEW w \in Workers, Upsert(w) \/ Finalize(w), world' = world PROVE PInv'
<1>0. Typed /\ OneCourse /\ \A p \in Processes : Before(cache[p])
  BY DEF PInv
<1>1. PICK i \in Jobs : i = job[w] /\ JobOK(i, w)
  BY JobOf
<1>2. votes' = votes /\ UNCHANGED <<epoch, row, cast, cache>> /\ job[w].at # "idle"
  BY DEF Upsert, Finalize, chain
<1>3. votes' \in votes..cast
  BY <1>0, <1>2 DEF Typed
<1>4. Later
  BY <1>0, <1>2, <1>3, SameChain
<1>5. Final' = Final
  BY <1>2 DEF Final, Decided
<1>6. CASE Upsert(w)
  <2>1. PICK j : j = [i EXCEPT !.at = "votes"]
    OBVIOUS
  <2>2. j \in Jobs
    BY <2>1 DEF Jobs, Places
  <2>3. /\ j.row = i.row /\ j.kind = i.kind /\ j.prefetched = i.prefetched
        /\ j.wrote = i.wrote /\ j.intends = i.intends /\ j.at = "votes"
    BY <2>1 DEF Jobs
  <2>4. job[w].at = "upsert" /\ status' = i.wrote /\ job' = [job EXCEPT ![w] = j]
    BY <1>1, <1>6, <2>1 DEF Upsert, Go, Set
  <2>5. JobOK(j, w)
    BY <1>0, <1>1, <2>2, <2>3, <2>4, MovedJob DEF JobOK
  <2>6. JobOK(j, w)'
    BY <1>0, <1>4, <2>2, <2>5, LaterKeeps
  <2>7. /\ status' \in Statuses /\ Rank(status') <= ChainRank
        /\ NoDetails /\ ~Retryable(status') => Final'
    BY <1>1, <1>5, <2>4 DEF JobOK, Jobs
  <2> QED BY <1>0, <1>1, <1>2, <1>3, <2>2, <2>3, <2>4, <2>6, <2>7, OneJob DEF Typed
<1>7. CASE Finalize(w)
  <2>1. job[w].at = "finalize" /\ status' = i.intends /\ job' = [job EXCEPT ![w] = Idle]
    BY <1>1, <1>7 DEF Finalize, Ends, Set
  <2>2. JobOK(Idle, w)'
    BY <1>0, <1>4, IdleIs, FreshJob, LaterKeeps
  <2>3. /\ status' \in Statuses /\ Rank(status') <= ChainRank
        /\ NoDetails /\ ~Retryable(status') => Final'
    BY <1>1, <1>5, <2>1 DEF JobOK, Jobs
  <2> QED BY <1>0, <1>1, <1>2, <1>3, <2>1, <2>2, <2>3, IdleIs, OneJob DEF Typed
<1> QED
  BY <1>6, <1>7

(* The greater of two numbers. *)
LEMMA MaxIs ==
    ASSUME NEW m \in Nat, NEW n \in Nat
    PROVE  Max({m, n}) \in {m, n} /\ m <= Max({m, n}) /\ n <= Max({m, n})
<1>1. \E x \in {m, n} : \A y \in {m, n} : x >= y
  <2>1. CASE m >= n
    BY <2>1
  <2>2. CASE n >= m
    BY <2>2
  <2> QED BY <2>1, <2>2
<1> QED
  BY <1>1 DEF Max

(* The votes are written, all that were fetched or some. *)
LEMMA VotesKeep ==
    ASSUME PInv, NEW w \in Workers, Votes(w) \/ VotesFail(w), world' = world PROVE PInv'
<1>0. Typed /\ OneCourse /\ StatusOK /\ \A p \in Processes : Before(cache[p])
  BY DEF PInv
<1>1. PICK i \in Jobs : i = job[w] /\ JobOK(i, w)
  BY JobOf
<1>2. status' = status /\ UNCHANGED <<epoch, row, cast, cache>> /\ job[w].at = "votes"
  BY DEF Votes, VotesFail, chain
<1>3. PICK n \in Nat : n = Fetched(w) /\ n <= cast /\ (i.prefetched = -1 => n = cast)
  BY <1>0, <1>1 DEF Fetched, JobOK, Typed
<1>4. PICK m \in Nat : m = Max({votes, n}) /\ votes <= m /\ n <= m /\ m <= cast
  <2>1. votes \in Nat /\ cast \in Nat /\ votes <= cast
    BY <1>0 DEF Typed
  <2> QED BY <1>3, <2>1, MaxIs
<1>5. votes' \in votes..m
  BY <1>0, <1>3, <1>4 DEF Votes, VotesFail, Typed
<1>6. votes' \in votes..cast
  BY <1>0, <1>4, <1>5 DEF Typed
<1>7. Later
  BY <1>0, <1>2, <1>6, SameChain
<1>8. JobOK(i, w)'
  BY <1>0, <1>1, <1>7, LaterKeeps
<1>9. /\ status' \in Statuses /\ Rank(status') <= ChainRank
      /\ NoDetails /\ ~Retryable(status') => Final'
  BY <1>0, <1>2, <1>7 DEF Typed, StatusOK, Later
<1>10. PICK j \in Jobs :
         /\ job' = [job EXCEPT ![w] = j]
         /\ j.row = i.row /\ j.kind = i.kind /\ j.prefetched = i.prefetched
         /\ j.wrote = i.wrote /\ j.intends = i.intends /\ j.at = "power"
         /\ j.ok => Votes(w)
  <2>1. CASE Votes(w)
    <3>1. PICK j : j = [i EXCEPT !.at = "power"]
      OBVIOUS
    <3>2. job' = [job EXCEPT ![w] = j]
      BY <1>1, <2>1, <3>1 DEF Votes, Go, Set
    <3>3. j \in Jobs
      BY <3>1 DEF Jobs, Places
    <3>4. /\ j.row = i.row /\ j.kind = i.kind /\ j.prefetched = i.prefetched
          /\ j.wrote = i.wrote /\ j.intends = i.intends /\ j.at = "power"
      BY <3>1 DEF Jobs
    <3> QED BY <2>1, <3>2, <3>3, <3>4
  <2>2. CASE VotesFail(w)
    <3>1. PICK j : j = [i EXCEPT !.at = "power", !.ok = FALSE]
      OBVIOUS
    <3>2. job' = [job EXCEPT ![w] = j]
      BY <1>1, <2>2, <3>1 DEF VotesFail, Set
    <3>3. j \in Jobs
      BY <3>1 DEF Jobs, Places
    <3>4. /\ j.row = i.row /\ j.kind = i.kind /\ j.prefetched = i.prefetched
          /\ j.wrote = i.wrote /\ j.intends = i.intends /\ j.at = "power" /\ ~j.ok
      BY <3>1 DEF Jobs
    <3> QED BY <3>2, <3>3, <3>4
  <2> QED BY <2>1, <2>2
<1>11. Votes(w) /\ n = cast => votes' = cast
  BY <1>0, <1>3, <1>4 DEF Votes, Typed
<1>12. NoDetails' /\ ~Retryable(j.intends) /\ j.ok => Final'
  <2> SUFFICES ASSUME NoDetails', ~Retryable(j.intends), j.ok PROVE Final'
    OBVIOUS
  <2>1. i.prefetched = -1 /\ Decided'
    BY <1>8, <1>10 DEF JobOK
  <2>2. votes' = cast'
    BY <1>2, <1>3, <1>10, <1>11, <2>1
  <2> QED BY <2>1, <2>2 DEF Final
<1>13. i.row.listed
  BY <1>1, <1>2 DEF JobOK
<1>14. JobOK(j, w)'
  BY <1>8, <1>10, <1>12, <1>13, <1>1, <1>2 DEF JobOK
<1> QED
  BY <1>0, <1>1, <1>2, <1>6, <1>9, <1>10, <1>14, OneJob DEF Typed

(* A step in which runs end or come to their last write. *)
LEMMA JobsEnd ==
    ASSUME PInv, job' \in [Workers -> Jobs],
           UNCHANGED <<world, epoch, row, cast, status, votes>>,
           cache' \in [Processes -> RowRecords], \A p \in Processes : Before(cache'[p]),
           \A v \in Workers :
             \/ job'[v] = job[v] \/ job'[v] = Idle
             \/ job'[v].kind = job[v].kind /\ job'[v].at = "finalize" /\ JobOK(job'[v], v)
    PROVE  PInv'
<1>0. /\ Typed /\ OneCourse /\ StatusOK /\ Alone /\ Undisturbed
      /\ \A v \in Workers : JobOK(job[v], v)
  BY DEF PInv
<1>1. votes' \in votes..cast
  BY <1>0 DEF Typed
<1>2. Later /\ OneCourse'
  BY <1>0, <1>1, SameChain
<1>3. Typed'
  BY <1>0 DEF Typed
<1>4. StatusOK'
  <2>1. Final' = Final /\ NoDetails' = NoDetails
    BY DEF Final, Decided, NoDetails
  <2>2. Rank(status') <= ChainRank'
    <3>1. Rank(status) \in 0..3
      BY <1>0, RankIs DEF Typed
    <3> QED BY <1>0, <1>2, <3>1 DEF Later, StatusOK
  <2> QED BY <1>0, <2>1, <2>2 DEF StatusOK
<1>5. \A r : (\E p \in Processes : r = cache'[p]) => Before(r)'
  BY <1>2 DEF Later
<1>6. ASSUME NEW v \in Workers, NEW i, i = job'[v] PROVE JobOK(i, v)'
  <2>1. i \in Jobs
    BY <1>6
  <2>2. JobOK(i, v)
    <3>1. JobOK(Idle, v)
      BY <1>0, IdleIs, FreshJob
    <3> QED BY <1>0, <1>6, <3>1
  <2> QED BY <1>0, <1>2, <2>1, <2>2, LaterKeeps
<1>7. \A v \in Workers : job'[v].kind \in {"none", job[v].kind}
  BY IdleIs
<1>8. Alone'
  BY <1>0, <1>7 DEF Alone
<1>9. Undisturbed'
  <2>1. \A v \in Workers : job'[v].at = "upsert" => job'[v] = job[v]
    BY IdleIs
  <2>2. OnlyLocked' = OnlyLocked /\ WrittenNow(status') = WrittenNow(status)
    BY DEF OnlyLocked, WrittenNow
  <2> QED BY <1>0, <2>1, <2>2 DEF Undisturbed
<1>10. (\A v \in Workers : JobOK(job[v], v))'
  BY <1>6
<1>11. (\A p \in Processes : Before(cache[p]))'
  BY <1>5
<1> QED
  BY <1>2, <1>3, <1>4, <1>8, <1>9, <1>10, <1>11 DEF PInv

(* The ingestion of a run is over, for it and those who joined it. *)
LEMMA DeliversKeep ==
    ASSUME PInv, NEW w \in Workers, Power(w) \/ IngestFails(w), world' = world PROVE PInv'
<1>0. Typed /\ (\A p \in Processes : Before(cache[p])) /\ \A v \in Workers : JobOK(job[v], v)
  BY DEF PInv
<1>1. PICK i \in Jobs : i = job[w] /\ JobOK(i, w)
  BY JobOf
<1>2. UNCHANGED <<epoch, row, cast, status, votes, cache>>
  BY DEF Power, IngestFails, chain, db
<1>3. PICK ok \in BOOLEAN : Delivers(w, ok) /\ (ok => i.at = "power" /\ i.ok)
  BY <1>1 DEF Power, IngestFails, Jobs
<1>4. ASSUME NEW v \in Workers
      PROVE  /\ job'[v] \in Jobs
             /\ \/ job'[v] = job[v] \/ job'[v] = Idle
                \/ job'[v].kind = job[v].kind /\ job'[v].at = "finalize" /\ JobOK(job'[v], v)
  <2>1. CASE job'[v] = job[v] \/ job'[v] = Idle
    BY <1>0, <2>1, IdleIs DEF Typed
  <2>2. CASE ~(job'[v] = job[v] \/ job'[v] = Idle)
    <3>1. /\ job'[v] = [job[v] EXCEPT !.at = "finalize", !.wrote = job[w].wrote,
                                      !.intends = job[w].intends]
          /\ v \in Joined(w) /\ ok
      BY <1>3, <2>2 DEF Delivers
    <3>2. PICK k \in Jobs : k = job[v] /\ JobOK(k, v)
      BY JobOf
    <3>3. PICK j : j = [k EXCEPT !.at = "finalize", !.wrote = i.wrote, !.intends = i.intends]
      OBVIOUS
    <3>4. j \in Jobs
      BY <3>3 DEF Jobs, Places
    <3>5. /\ j.row = k.row /\ j.kind = k.kind /\ j.prefetched = k.prefetched
          /\ j.wrote = i.wrote /\ j.intends = i.intends /\ j.at = "finalize"
      BY <3>3 DEF Jobs
    <3>6. k.at \in {"join", "power"}
      BY <1>1, <1>3, <3>1, <3>2 DEF Joined
    <3>7. JobOK(j, v)
      BY <1>1, <1>3, <3>1, <3>2, <3>5, <3>6 DEF JobOK
    <3>8. job'[v] = j
      BY <1>1, <3>1, <3>2, <3>3
    <3> QED BY <3>2, <3>4, <3>5, <3>7, <3>8
  <2> QED BY <2>1, <2>2
<1>5. job' \in [Workers -> Jobs]
  <2>1. job' = [v \in Workers |-> job'[v]]
    BY <1>3 DEF Delivers
  <2> QED BY <1>4, <2>1
<1> QED
  BY <1>0, <1>2, <1>4, <1>5, JobsEnd DEF Typed

(* A process stops. *)
LEMMA StopKeeps ==
    ASSUME PInv, NEW p \in Processes, Stop(p), world' = world PROVE PInv'
<1>0. Typed /\ \A q \in Processes : Before(cache[q])
  BY DEF PInv
<1>1. /\ job' = [w \in Workers |-> IF Home[w] = p THEN Idle ELSE job[w]]
      /\ cache' = [cache EXCEPT ![p] = Absent]
      /\ UNCHANGED <<epoch, row, cast, status, votes>>
  BY DEF Stop, chain, db
<1>2. job' \in [Workers -> Jobs]
  BY <1>0, <1>1, IdleIs DEF Typed
<1>3. cache' \in [Processes -> RowRecords] /\ \A q \in Processes : Before(cache'[q])
  <2>1. \A q \in Processes : cache'[q] = IF q = p THEN Absent ELSE cache[q]
    BY <1>0, <1>1 DEF Typed
  <2> QED BY <1>0, <1>1, <2>1, IdleIs, AbsentBefore DEF Typed
<1> QED
  BY <1>1, <1>2, <1>3, JobsEnd

(* A cache expires, or nothing happens that the invariant is about. *)
LEMMA CacheKeeps ==
    ASSUME PInv, UNCHANGED <<world, epoch, row, cast, status, votes, job>>,
           \/ cache' = cache
           \/ \E p \in Processes : cache' = [cache EXCEPT ![p] = Absent]
    PROVE  PInv'
<1>0. Typed /\ \A q \in Processes : Before(cache[q])
  BY DEF PInv
<1>1. cache' \in [Processes -> RowRecords] /\ \A q \in Processes : Before(cache'[q])
  <2>1. CASE cache' = cache
    BY <1>0, <2>1 DEF Typed
  <2>2. ASSUME NEW p \in Processes, cache' = [cache EXCEPT ![p] = Absent]
        PROVE  cache' \in [Processes -> RowRecords] /\ \A q \in Processes : Before(cache'[q])
    <3>1. \A q \in Processes : cache'[q] = IF q = p THEN Absent ELSE cache[q]
      BY <1>0, <2>2 DEF Typed
    <3> QED BY <1>0, <2>2, <3>1, IdleIs, AbsentBefore DEF Typed
  <2> QED BY <2>1, <2>2
<1> QED
  BY <1>0, <1>1, JobsEnd DEF Typed

(* A step of the chain. *)
LEMMA ChainKeeps ==
    ASSUME PInv, Later, Typed', OneCourse', UNCHANGED <<status, votes, cache, job>>
    PROVE  PInv'
<1>0. /\ Typed /\ StatusOK /\ Alone /\ Undisturbed
      /\ \A v \in Workers : JobOK(job[v], v)
      /\ \A q \in Processes : Before(cache[q])
  BY DEF PInv
<1>1. NoDetails' = NoDetails /\ OnlyLocked' = OnlyLocked /\ WrittenNow(status') = WrittenNow(status)
  BY DEF NoDetails, OnlyLocked, Later, WrittenNow
<1>2. StatusOK'
  <2>1. Rank(status) \in 0..3
    BY <1>0, RankIs DEF Typed
  <2> QED BY <1>0, <1>1, <2>1 DEF StatusOK, Later
<1>3. Alone' /\ Undisturbed'
  BY <1>0, <1>1 DEF Alone, Undisturbed
<1>4. ASSUME NEW v \in Workers, NEW i, i = job'[v] PROVE JobOK(i, v)'
  BY <1>0, <1>4, LaterKeeps DEF Typed
<1>5. \A r : (\E p \in Processes : r = cache'[p]) => Before(r)'
  BY <1>0 DEF Later
<1>6. (\A v \in Workers : JobOK(job[v], v))'
  BY <1>4
<1>7. (\A p \in Processes : Before(cache[p]))'
  BY <1>5
<1> QED
  BY <1>2, <1>3, <1>6, <1>7 DEF PInv

(* The proposal is made, voted on, and decided, as time goes on. *)
LEMMA ProposeKeeps == ASSUME PInv, Propose, world' = world PROVE PInv'
<1>0. Typed /\ OneCourse
  BY DEF PInv
<1>1. /\ ~row.listed /\ row' = Open
      /\ UNCHANGED <<epoch, cast, status, votes, cache, job>>
  BY DEF Propose, db
<1>2. row = Absent
  BY <1>0, <1>1 DEF OneCourse
<1>3. PICK a \in RowRecords : a = Absent
  BY IdleIs
<1>4. row' = [a EXCEPT !.listed = TRUE]
  BY <1>1, <1>3 DEF Open
<1>5. /\ row' \in RowRecords /\ row'.listed
      /\ row'.ratified = 0 /\ row'.enacted = 0 /\ row'.dropped = 0 /\ row'.expired = 0
      /\ row.ratified = 0 /\ row.enacted = 0 /\ row.dropped = 0 /\ row.expired = 0
  BY <1>2, <1>3, <1>4 DEF RowRecords, Absent
<1>6. Typed'
  BY <1>0, <1>1, <1>5 DEF Typed
<1>7. OneCourse'
  BY <1>0, <1>1, <1>5 DEF OneCourse, Typed
<1>8. Later
  <2>1. ChainRank = 0 /\ ChainRank' \in 0..3
    BY <1>0, <1>1, <1>5, DeriveIs DEF ChainRank, RankOf, Typed
  <2>2. \A r : Before(r) => Before(r)'
    BY <1>1, <1>5 DEF Before
  <2>3. ~Decided
    BY <1>5 DEF Decided
  <2> QED BY <1>0, <1>1, <2>1, <2>2, <2>3 DEF Later, Final, Typed
<1> QED
  BY <1>1, <1>6, <1>7, <1>8, ChainKeeps

(* A vote is cast only while nothing is decided. *)
LEMMA VoteKeeps == ASSUME PInv, Vote, world' = world PROVE PInv'
<1>0. Typed /\ OneCourse
  BY DEF PInv
<1>1. /\ ~Decided /\ cast' = cast + 1
      /\ UNCHANGED <<epoch, row, status, votes, cache, job>>
  BY DEF Vote, db
<1>2. cast \in Nat /\ cast' \in Nat /\ cast <= cast' /\ votes \in 0..cast /\ votes \in 0..cast'
  BY <1>0, <1>1 DEF Typed
<1>3. Typed'
  BY <1>0, <1>1, <1>2 DEF Typed
<1>4. OneCourse'
  BY <1>0, <1>1 DEF OneCourse
<1>5. Later
  <2>1. ChainRank \in 0..3 /\ ChainRank' = ChainRank
    BY <1>0, <1>1, DeriveIs DEF ChainRank, RankOf, Typed
  <2>2. \A r : Before(r) => Before(r)'
    BY <1>1 DEF Before
  <2> QED BY <1>1, <1>2, <2>1, <2>2 DEF Later, Final
<1> QED
  BY <1>1, <1>3, <1>4, <1>5, ChainKeeps

(* A new epoch moves the chain on. *)
LEMMA EpochKeeps == ASSUME PInv, NewEpoch, world' = world PROVE PInv'
<1>0. Typed /\ OneCourse
  BY DEF PInv
<1>1. /\ epoch' = epoch + 1 /\ UNCHANGED <<cast, status, votes, cache, job>>
      /\ row' \in IF ~row.listed THEN {row}
                  ELSE IF ~Decided
                  THEN {row} \cup {[row EXCEPT ![outcome] = epoch'] : outcome \in world.outcomes}
                  ELSE IF row.ratified # 0 /\ row.enacted = 0
                  THEN {[row EXCEPT !.enacted = epoch']}
                  ELSE IF row.expired # 0 /\ row.dropped = 0
                  THEN {[row EXCEPT !.dropped = epoch']} ELSE {row}
  BY DEF NewEpoch, db
<1>2. PICK q \in RowRecords : q = row
  BY <1>0 DEF Typed
<1>3. PICK e \in Nat : e = epoch' /\ epoch \in Nat /\ epoch <= e /\ e # 0
  BY <1>0, <1>1 DEF Typed
<1>4. \/ row' = q
      \/ row' = [q EXCEPT !.ratified = e] /\ q.listed /\ ~Decided
      \/ row' = [q EXCEPT !.dropped = e] /\ q.listed /\ ~Decided
      \/ row' = [q EXCEPT !.expired = e] /\ q.listed /\ ~Decided
      \/ row' = [q EXCEPT !.enacted = e] /\ q.listed /\ q.ratified # 0 /\ q.enacted = 0
      \/ row' = [q EXCEPT !.dropped = e] /\ q.listed /\ q.expired # 0 /\ q.dropped = 0
  <2>1. world.outcomes \subseteq {"ratified", "dropped", "expired"}
    BY <1>0 DEF Typed, Worlds
  <2>2. ASSUME NEW outcome \in world.outcomes, row' = [q EXCEPT ![outcome] = e]
        PROVE  \/ row' = [q EXCEPT !.ratified = e]
               \/ row' = [q EXCEPT !.dropped = e]
               \/ row' = [q EXCEPT !.expired = e]
    BY <2>1, <2>2
  <2>3. CASE ~row.listed
    BY <1>1, <1>2, <2>3
  <2>4. CASE row.listed /\ ~Decided
    <3>1. row' \in {q} \cup {[q EXCEPT ![outcome] = e] : outcome \in world.outcomes}
      BY <1>1, <1>2, <1>3, <2>4
    <3> QED BY <1>2, <2>2, <2>4, <3>1
  <2>5. CASE row.listed /\ Decided
    BY <1>1, <1>2, <1>3, <2>5
  <2> QED BY <2>3, <2>4, <2>5
<1>5. ~Decided => q.ratified = 0 /\ q.dropped = 0 /\ q.expired = 0 /\ q.enacted = 0
  BY <1>0, <1>2 DEF Decided, OneCourse
<1>6. /\ row' \in RowRecords /\ row'.listed = q.listed
      /\ q.ratified \in {0, row'.ratified} /\ q.enacted \in {0, row'.enacted}
      /\ q.dropped \in {0, row'.dropped} /\ q.expired \in {0, row'.expired}
      /\ row'.ratified \in {q.ratified, e} /\ row'.enacted \in {q.enacted, e}
      /\ row'.dropped \in {q.dropped, e} /\ row'.expired \in {q.expired, e}
      /\ row'.enacted # 0 => row'.ratified # 0
      /\ row'.ratified # 0 => row'.dropped = 0 /\ row'.expired = 0
      /\ ~q.listed => row' = q
  <2>0. /\ q.enacted # 0 => q.ratified # 0
        /\ q.ratified # 0 => q.dropped = 0 /\ q.expired = 0
    BY <1>0, <1>2 DEF OneCourse
  <2>1. CASE row' = q
    BY <2>0, <2>1
  <2>2. CASE row' = [q EXCEPT !.ratified = e] /\ q.listed /\ ~Decided
    BY <1>5, <2>2 DEF RowRecords
  <2>3. CASE row' = [q EXCEPT !.dropped = e] /\ q.listed /\ ~Decided
    BY <1>5, <2>3 DEF RowRecords
  <2>4. CASE row' = [q EXCEPT !.expired = e] /\ q.listed /\ ~Decided
    BY <1>5, <2>4 DEF RowRecords
  <2>5. CASE row' = [q EXCEPT !.enacted = e] /\ q.listed /\ q.ratified # 0 /\ q.enacted = 0
    BY <2>0, <2>5 DEF RowRecords
  <2>6. CASE row' = [q EXCEPT !.dropped = e] /\ q.listed /\ q.expired # 0 /\ q.dropped = 0
    BY <2>0, <2>6 DEF RowRecords
  <2> QED BY <1>4, <2>1, <2>2, <2>3, <2>4, <2>5, <2>6
<1>7. Typed'
  BY <1>0, <1>1, <1>3, <1>6 DEF Typed
<1>8. OneCourse'
  <2>1. /\ q.ratified <= epoch /\ q.enacted <= epoch /\ q.dropped <= epoch /\ q.expired <= epoch
        /\ (~q.listed => q = Absent)
        /\ q.ratified \in Nat /\ q.enacted \in Nat /\ q.dropped \in Nat /\ q.expired \in Nat
    BY <1>0, <1>2 DEF OneCourse, RowRecords
  <2>2. /\ row'.ratified <= e /\ row'.enacted <= e /\ row'.dropped <= e /\ row'.expired <= e
    BY <1>3, <1>6, <2>1
  <2>3. ~row'.listed => row' = Absent
    BY <1>6, <2>1
  <2> QED BY <1>3, <1>6, <2>2, <2>3 DEF OneCourse
<1>9. Later
  <2>1. PICK p \in RowRecords : p = row'
    BY <1>6
  <2>2. RankOf(q, epoch) \in 1..3 /\ RankOf(p, e) \in 1..3
    BY <1>3, DeriveIs
  <2>3. RankOf(q, epoch) <= RankOf(p, e)
    <3>1. p.dropped <= e /\ p.expired <= e
      BY <1>3, <1>8, <2>1 DEF OneCourse
    <3> QED BY <1>3, <1>6, <2>1, <3>1, RankGrows
  <2>4. ChainRank' = IF p.listed THEN RankOf(p, e) ELSE 0
    BY <1>3, <2>1 DEF ChainRank, RankOf, Past
  <2>5. ChainRank = IF q.listed THEN RankOf(q, epoch) ELSE 0
    BY <1>2 DEF ChainRank
  <2>6. ChainRank \in 0..3 /\ ChainRank' \in 0..3 /\ ChainRank <= ChainRank'
    BY <1>6, <2>1, <2>2, <2>3, <2>4, <2>5
  <2>7. ASSUME NEW r, Before(r) PROVE Before(r)'
    BY <1>2, <1>6, <2>7 DEF Before
  <2>8. Decided => Decided'
    BY <1>2, <1>6 DEF Decided
  <2> QED BY <1>0, <1>1, <2>6, <2>7, <2>8 DEF Later, Final, Typed
<1> QED
  BY <1>1, <1>7, <1>8, <1>9, ChainKeeps

(* The invariant holds of the beginning. *)
LEMMA PInvInit == Init => PInv
<1> SUFFICES ASSUME Init PROVE PInv
  OBVIOUS
<1>1. /\ world \in Worlds /\ epoch = 1 /\ row = Absent /\ cast = 0 /\ status = "none" /\ votes = 0
      /\ cache = [p \in Processes |-> Absent] /\ job = [w \in Workers |-> Idle]
  BY DEF Init
<1>2. Typed
  BY <1>1, IdleIs DEF Typed, Statuses
<1>3. OneCourse
  BY <1>1 DEF OneCourse, Absent
<1>4. StatusOK
  <2>1. ChainRank = 0
    BY <1>1 DEF ChainRank, Absent
  <2> QED BY <1>1, <2>1, RankIs DEF StatusOK, Retryable
<1>5. \A p \in Processes : Before(cache[p])
  BY <1>1, <1>2, AbsentBefore
<1>6. \A w \in Workers : JobOK(job[w], w)
  <2>1. \A w \in Workers : JobOK(Idle, w)
    BY <1>2, IdleIs, FreshJob
  <2> QED BY <1>1, <2>1
<1>7. Alone /\ Undisturbed
  BY <1>1, IdleIs DEF Alone, Undisturbed
<1> QED
  BY <1>2, <1>3, <1>4, <1>5, <1>6, <1>7 DEF PInv

(* Every step keeps it. *)
LEMMA PInvNext == PInv /\ [Next]_<<vars, world>> => PInv'
<1> SUFFICES ASSUME PInv, [Next]_<<vars, world>> PROVE PInv'
  OBVIOUS
<1>1. CASE UNCHANGED <<vars, world>>
  <2>1. UNCHANGED <<world, epoch, row, cast, status, votes, job, cache>>
    BY <1>1 DEF vars, chain, db
  <2> QED BY <2>1, CacheKeeps
<1>2. CASE Next
  <2>0. world' = world
    BY <1>2 DEF Next
  <2>1. CASE Propose
    BY <2>0, <2>1, ProposeKeeps
  <2>2. CASE Vote
    BY <2>0, <2>2, VoteKeeps
  <2>3. CASE NewEpoch
    BY <2>0, <2>3, EpochKeeps
  <2>4. CASE BeginBulk \/ \E w \in Workers : \E kind \in world.kinds[w] : Begin(w, kind)
    BY <2>0, <2>4, BeginsKeep
  <2>5. ASSUME NEW w \in Workers, Step(w) PROVE PInv'
    BY <2>0, <2>5, GuardKeeps, PrefetchKeeps, ListKeeps, IngestKeeps, ReadKeeps, WritesKeep,
       VotesKeep, DeliversKeep DEF Step
  <2>6. ASSUME NEW w \in Workers, VotesFail(w) PROVE PInv'
    BY <2>0, <2>6, VotesKeep
  <2>7. ASSUME NEW w \in Workers, IngestFails(w) PROVE PInv'
    BY <2>0, <2>7, DeliversKeep
  <2>8. ASSUME NEW p \in Processes, CacheExpires(p) PROVE PInv'
    <3>1. /\ UNCHANGED <<epoch, row, cast, status, votes, job>>
          /\ cache' = [cache EXCEPT ![p] = Absent]
      BY <2>8 DEF CacheExpires, chain, db
    <3> QED BY <2>0, <3>1, CacheKeeps
  <2>9. ASSUME NEW p \in Processes, Stop(p) PROVE PInv'
    BY <2>0, <2>9, StopKeeps
  <2> QED
    BY <1>2, <2>1, <2>2, <2>3, <2>4, <2>5, <2>6, <2>7, <2>8, <2>9 DEF Next
<1> QED
  BY <1>1, <1>2

(* The invariant holds always. *)
LEMMA PInvAlways == Spec => []PInv
  BY PInvInit, PInvNext, PTL DEF Spec

(* The invariant says it of the status and the votes. *)
LEMMA TrueThen == PInv => StatusTrue
<1> SUFFICES ASSUME PInv PROVE StatusTrue
  OBVIOUS
<1>1. Typed /\ StatusOK
  BY DEF PInv
<1>2. NeverAhead
  BY <1>1, DeriveIs DEF NeverAhead, StatusOK, ChainRank, Typed
<1>3. (\A w \in Workers : "details" \notin world.kinds[w]) => FinalHasVotes
  BY <1>1 DEF StatusOK, NoDetails, Final, FinalHasVotes
<1> QED
  BY <1>2, <1>3 DEF StatusTrue

(* And of a step: where all runs take the lock only finalizing changes a    *)
(* status that there was.                                                   *)
LEMMA LockedThen ==
    ASSUME PInv, [Next]_<<vars, world>>
    PROVE  [(\A w \in Workers : world.kinds[w] \subseteq {"overview"}) => KeepsStatus]_vars
<1> SUFFICES ASSUME \A w \in Workers : world.kinds[w] \subseteq {"overview"},
                    status # "none", status' # status
             PROVE  \E w \in Workers : job[w].at = "finalize"
  BY DEF KeepsStatus
<1>1. PICK w \in Workers : Upsert(w) \/ Finalize(w)
  BY DEF Next, Propose, Vote, NewEpoch, BeginBulk, Begin, Step, Guard, Prefetch, List, Ingest,
         Read, Votes, VotesFail, Power, IngestFails, CacheExpires, Stop, vars, db
<1>2. CASE Upsert(w)
  <2>1. job[w].at = "upsert" /\ status' = job[w].wrote
    BY <1>2 DEF Upsert
  <2>2. job[w].wrote = WrittenNow(status)
    BY <2>1 DEF PInv, Undisturbed, OnlyLocked
  <2> QED BY <2>1, <2>2 DEF WrittenNow
<1>3. CASE Finalize(w)
  BY <1>3 DEF Finalize
<1> QED
  BY <1>1, <1>2, <1>3

(* A status in the database is never ahead of the chain's, and without runs *)
(* of details a decided proposal has all its votes (finalizeProposalStatus- *)
(* AfterVoteSync), whatever runs overlap, fail or stop.                     *)
THEOREM StatusesAreTrue == Spec => []StatusTrue
  BY PInvAlways, TrueThen, PTL

(* Where all runs take the lock proposal-sync, what ingestProposalData      *)
(* writes before the votes never changes the status of a proposal.          *)
THEOREM LockedIngestsKeepStatus == Spec => IngestKeepsStatusLocked
<1>1. PInv /\ [Next]_<<vars, world>>
        => [(\A w \in Workers : world.kinds[w] \subseteq {"overview"}) => KeepsStatus]_vars
  BY LockedThen
<1>2. Spec => [][(\A w \in Workers : world.kinds[w] \subseteq {"overview"}) => KeepsStatus]_vars
  BY <1>1, PInvAlways, PTL DEF Spec
<1> QED
  BY <1>2 DEF IngestKeepsStatusLocked

-------------------------------------------------------------------------------
(* The ingestion of votes.                                                   *)
(*                                                                           *)
(* A run that goes on from a checkpoint will read the vote in place i of the *)
(* list.  In pass one only the vote behind a full page can be missing still; *)
(* in pass two, a missing vote is behind the rows of the offset.             *)
WillRead(list, at, i) ==
    IF at.phase = "pass1"
    THEN \/ at.offset = 0
         \/ i = PageSize + 1 /\ at.offset >= PageSize /\ list[i].time >= at.cursor.time
    ELSE i > at.offset /\ list[i - at.offset].time >= at.min

(* It will read all that is owed, unless it is got already. *)
Behind(list, owed, at, got) ==
    \A i \in DOMAIN list : list[i].id \in owed \ got => WillRead(list, at, i)

(* What a run has written, or is about to. *)
Got == stored \cup run.left

(* In the order of Koios. *)
InOrder(rows) ==
    \A i, j \in DOMAIN rows :
        i < j => /\ rows[i].time <= rows[j].time
                 /\ rows[i].time = rows[j].time => rows[i].tx <= rows[j].tx

(* A checkpoint that is well formed: pass one begins without a cursor. *)
GoodPoint(at) ==
    /\ at \in Checkpoints
    /\ at.phase = "pass1" /\ at.offset = 0 => at.cursor = NoCursor

RunRecords ==
    [at : Checkpoints, page : Seq(Ballot), left : SUBSET (1..MaxVotes),
     seen : SUBSET (1..MaxVotes), streams : BOOLEAN]

(* The invariant: of the chain, of the run, and of what is to be read. *)
ChainOK ==
    /\ now \in 0..MaxTime /\ made \in 0..MaxVotes
    /\ onchain \in Seq(Ballot) /\ InOrder(onchain)
    /\ Len(onchain) <= made
    /\ \A i \in DOMAIN onchain : onchain[i].time <= now /\ onchain[i].id <= made
    /\ due \subseteq Ids(onchain)
RunOK ==
    /\ stored \subseteq 1..MaxVotes
    /\ pc \in {"idle", "fetch", "write", "over"}
    /\ run \in RunRecords
    /\ GoodPoint(checkpoint) /\ GoodPoint(run.at)
    /\ InOrder(run.page) /\ Len(run.page) <= IF run.streams THEN PageSize ELSE MaxVotes
    /\ pc = "idle" => run = NoRun
    /\ pc \in {"fetch", "over"} => run.streams
    /\ pc # "write" => run.left = {}
    /\ pc = "write" => run.page # <<>>
    /\ ~run.streams => run.at = Fresh
    /\ run.seen \subseteq Got
    /\ forks \in 0..MaxForks /\ failed \in 0..MaxFails /\ stops \in 0..MaxStops
VotesOK ==
    /\ Behind(onchain, due, checkpoint, stored)
    /\ run.streams => Behind(onchain, due, run.at, stored)
    /\ run.streams /\ pc = "write" =>
          /\ Behind(onchain, due, Advanced, Got)
          /\ run.at.phase = "pass2" /\ Len(run.page) < PageSize => due \subseteq Got
    /\ pc = "over" => due \subseteq stored

VInv == ChainOK /\ RunOK /\ VotesOK

(* What is owed stays where it was when others come or go behind it. *)
LEMMA BehindStays ==
    ASSUME NEW list, NEW later, NEW owed, NEW still \in SUBSET owed, NEW at, at.offset \in Nat,
           NEW got, NEW more, got \subseteq more, DOMAIN later \subseteq Nat \ {0},
           \A i \in DOMAIN later : later[i].id \in still =>
               i \in DOMAIN list /\ \A j \in 1..i : later[j] = list[j],
           Behind(list, owed, at, got)
    PROVE  Behind(later, still, at, more)
<1> SUFFICES ASSUME NEW i \in DOMAIN later, later[i].id \in still \ more
             PROVE  WillRead(later, at, i)
  BY DEF Behind
<1>1. i \in DOMAIN list /\ i \in Nat \ {0} /\ \A j \in 1..i : later[j] = list[j]
  OBVIOUS
<1>2. later[i] = list[i] /\ WillRead(list, at, i)
  BY <1>1 DEF Behind
<1>3. CASE at.phase = "pass1"
  BY <1>2, <1>3 DEF WillRead
<1>4. CASE at.phase # "pass1"
  <2>1. i > at.offset /\ list[i - at.offset].time >= at.min
    BY <1>2, <1>4 DEF WillRead
  <2>2. later[i - at.offset] = list[i - at.offset]
    BY <1>1, <2>1
  <2> QED BY <1>4, <2>1, <2>2 DEF WillRead
<1> QED
  BY <1>3, <1>4

(* The numbers of the chain. *)
LEMMA ChainNumbers ==
    ASSUME ChainOK
    PROVE  /\ Len(onchain) \in Nat /\ DOMAIN onchain = 1..Len(onchain)
           /\ \A i \in DOMAIN onchain : onchain[i] \in Ballot /\ onchain[i].time \in Nat \ {0}
                                        /\ onchain[i].tx \in Nat /\ onchain[i].id \in Nat
           /\ PageSize \in Nat \ {0} /\ Overlap \in Nat /\ MaxVotes \in Nat /\ MaxTime \in Nat
           /\ now \in Nat /\ made \in Nat
<1>1. PageSize \in Nat \ {0} /\ Overlap \in Nat /\ MaxVotes \in Nat /\ MaxTime \in Nat
  BY IngestAssumption
<1>2. Len(onchain) \in Nat /\ DOMAIN onchain = 1..Len(onchain)
      /\ \A i \in DOMAIN onchain : onchain[i] \in Ballot
  BY DEF ChainOK
<1>3. \A v \in Ballot : v.time \in Nat \ {0} /\ v.tx \in Nat /\ v.id \in Nat
  BY <1>1 DEF Ballot
<1>4. now \in Nat /\ made \in Nat
  BY <1>1 DEF ChainOK
<1> QED
  BY <1>1, <1>2, <1>3, <1>4

(* A set of numbers with all the smaller ones is counted by its largest. *)
LEMMA FirstOnes ==
    ASSUME NEW n \in Nat, NEW S \in SUBSET (1..n), \A x \in S : 1..x \subseteq S
    PROVE  Cardinality(S) \in 0..n /\ S = 1..Cardinality(S)
<1> DEFINE k == Cardinality(S)
<1>1. IsFiniteSet(S) /\ k \in Nat /\ k <= n
  <2>1. IsFiniteSet(1..n) /\ Cardinality(1..n) = n
    BY FS_Interval
  <2> QED BY <2>1, FS_Subset, FS_CardinalityType
<1>2. ASSUME NEW x \in S PROVE x \in 1..k
  <2>1. x \in 1..n /\ 1..x \subseteq S
    OBVIOUS
  <2>2. Cardinality(1..x) = x
    BY <2>1, FS_Interval
  <2>3. Cardinality(1..x) <= k
    BY <1>1, <2>1, FS_Subset
  <2> QED BY <1>1, <2>1, <2>2, <2>3
<1>3. S = 1..k
  <2>1. IsFiniteSet(1..k) /\ Cardinality(1..k) = k
    BY <1>1, FS_Interval
  <2> QED BY <1>2, <2>1, FS_Subset
<1> HIDE DEF k
<1> QED
  <2>1. k \in 0..n /\ S = 1..k
    BY <1>1, <1>3
  <2> QED BY <2>1 DEF k

(* The older votes are the first ones. *)
LEMMA OlderIs ==
    ASSUME ChainOK, NEW t \in Nat
    PROVE  /\ Older(t) \in 0..Len(onchain)
           /\ \A i \in DOMAIN onchain : onchain[i].time < t <=> i <= Older(t)
<1> DEFINE S == {i \in DOMAIN onchain : onchain[i].time < t}
<1>1. PICK n \in Nat : n = Len(onchain) /\ DOMAIN onchain = 1..n
  BY ChainNumbers
<1>2. PICK f : f = [i \in 1..n |-> onchain[i].time]
  OBVIOUS
<1>3. \A i \in 1..n : f[i] \in Nat /\ f[i] = onchain[i].time
  BY <1>1, <1>2, ChainNumbers
<1>4. \A i, j \in 1..n : i < j => f[i] <= f[j]
  BY <1>1, <1>3 DEF ChainOK, InOrder
<1>5. S = {i \in 1..n : f[i] < t}
  BY <1>1, <1>3
<1>6. \A x \in S : 1..x \subseteq S
  BY <1>3, <1>4, <1>5
<1>7. Cardinality(S) \in 0..n /\ S = 1..Cardinality(S)
  BY <1>5, <1>6, FirstOnes
<1>8. Older(t) = Cardinality(S)
  BY DEF Older
<1>9. Older(t) \in 0..n /\ \A i \in 1..n : f[i] < t <=> i <= Older(t)
  BY <1>5, <1>7, <1>8
<1> QED
  BY <1>1, <1>3, <1>9

(* The smaller of two numbers, and the larger. *)
LEMMA MinOfTwo == \A x, y \in Int : Min({x, y}) = IF x <= y THEN x ELSE y
<1> TAKE x, y \in Int
<1> DEFINE m == IF x <= y THEN x ELSE y
<1>1. m \in {x, y} /\ \A z \in {x, y} : m <= z
  OBVIOUS
<1>2. \A z \in {x, y} : (\A u \in {x, y} : z <= u) => z = m
  OBVIOUS
<1> QED
  BY <1>1, <1>2 DEF Min

LEMMA MaxOfTwo == \A x, y \in Int : Max({x, y}) = IF x <= y THEN y ELSE x
<1> TAKE x, y \in Int
<1> DEFINE m == IF x <= y THEN y ELSE x
<1>1. m \in {x, y} /\ \A z \in {x, y} : m >= z
  OBVIOUS
<1>2. \A z \in {x, y} : (\A u \in {x, y} : z >= u) => z = m
  OBVIOUS
<1> QED
  BY <1>1, <1>2 DEF Max

(* A part of a sequence. *)
LEMMA SliceIs ==
    ASSUME NEW T, NEW list \in Seq(T), NEW n \in Nat, n = Len(list), NEW b \in Nat,
           NEW e \in Nat, e <= n, NEW m \in Nat, b <= e => b + m = e, b > e => m = 0
    PROVE  /\ SubSeq(list, b + 1, e) \in Seq(T) /\ Len(SubSeq(list, b + 1, e)) = m
           /\ \A k \in 1..m : b + k \in 1..n /\ SubSeq(list, b + 1, e)[k] = list[b + k]
<1>1. b + 1 \in Nat /\ \A k \in 1..m : b + k \in 1..n
  OBVIOUS
<1>2. \A i \in 1..n : list[i] \in T
  OBVIOUS
<1>3. CASE b <= e
  <2>1. SubSeq(list, b + 1, e) \in Seq(T)
    BY <1>1, <1>2, <1>3
  <2>2. Len(SubSeq(list, b + 1, e)) = m
    BY <1>1, <1>2, <1>3
  <2>3. \A k \in 1..m : SubSeq(list, b + 1, e)[k] = list[b + k]
    BY <1>1, <1>2, <1>3
  <2> QED BY <1>1, <2>1, <2>2, <2>3
<1>4. CASE b > e
  <2>1. SubSeq(list, b + 1, e) = <<>> /\ m = 0
    BY <1>1, <1>2, <1>4
  <2> QED BY <1>1, <2>1
<1> QED
  BY <1>3, <1>4

(* The page at the offset of a run. *)
LEMMA PageIs ==
    ASSUME ChainOK, RunOK, NEW n \in Nat, n = Len(onchain), NEW q \in Nat, q = run.at.offset
    PROVE  /\ Older(MinTime) \in 0..n
           /\ \A i \in 1..n : onchain[i].time < MinTime <=> i <= Older(MinTime)
           /\ Page \in Seq(Ballot) /\ InOrder(Page)
           /\ \E m \in Nat :
                 /\ Len(Page) = m /\ m <= PageSize /\ DOMAIN Page = 1..m
                 /\ Older(MinTime) + q + m <= n \/ m = 0
                 /\ m < PageSize => Older(MinTime) + q + m >= n
                 /\ \A k \in 1..m : /\ Older(MinTime) + q + k \in 1..n
                                    /\ Page[k] = onchain[Older(MinTime) + q + k]
<1>1. PICK t \in Nat : t = MinTime
  <2>1. run.at \in Checkpoints
    BY DEF RunOK, RunRecords
  <2>2. \A at \in Checkpoints : at.cursor.time \in Nat /\ at.min \in Nat
    BY IngestAssumption DEF Checkpoints, Cursors, NoCursor
  <2> QED BY <2>1, <2>2 DEF MinTime
<1>2. PICK o \in 0..n : o = Older(MinTime) /\ \A i \in 1..n : onchain[i].time < t <=> i <= o
  BY <1>1, OlderIs, ChainNumbers
<1>3. PageSize \in Nat /\ onchain \in Seq(Ballot)
  BY IngestAssumption DEF ChainOK
<1>4. PICK b \in Nat : b = o + q
  OBVIOUS
<1>5. PICK e \in Nat : e = (IF b + PageSize <= n THEN b + PageSize ELSE n) /\ e <= n
  BY <1>3
<1>6. PICK m \in Nat : (b <= e => b + m = e) /\ (b > e => m = 0)
  <2>0. b \in Nat /\ e \in Nat
    BY <1>4, <1>5
  <2>1. CASE b <= e
    <3>1. e - b \in Nat /\ b + (e - b) = e /\ ~(b > e)
      BY <2>0, <2>1
    <3> QED BY <3>1
  <2>2. CASE b > e
    <3>1. 0 \in Nat /\ ~(b <= e)
      BY <2>0, <2>2
    <3> QED BY <3>1
  <2> QED BY <2>0, <2>1, <2>2
<1>7. m <= PageSize /\ (b + m <= n \/ m = 0) /\ (m < PageSize => b + m >= n)
  BY <1>3, <1>5, <1>6
<1>8. Page = SubSeq(onchain, b + 1, e)
  <2>1. Min({b + PageSize, n}) = e
    BY <1>3, <1>5, MinOfTwo
  <2> QED BY <1>2, <1>4, <2>1 DEF Page
<1>9. /\ Page \in Seq(Ballot) /\ Len(Page) = m
      /\ \A k \in 1..m : b + k \in 1..n /\ Page[k] = onchain[b + k]
  BY <1>3, <1>5, <1>6, <1>8, SliceIs
<1>10. DOMAIN Page = 1..m
  BY <1>9
<1>11. InOrder(Page)
  <2>1. InOrder(onchain) /\ DOMAIN onchain = 1..n
    BY <1>3 DEF ChainOK
  <2> SUFFICES ASSUME NEW i \in 1..m, NEW j \in 1..m, i < j
               PROVE  /\ Page[i].time <= Page[j].time
                      /\ Page[i].time = Page[j].time => Page[i].tx <= Page[j].tx
    BY <1>10 DEF InOrder
  <2>2. b + i \in 1..n /\ b + j \in 1..n /\ b + i < b + j
    BY <1>9
  <2> QED BY <1>9, <2>1, <2>2 DEF InOrder
<1> QED
  BY <1>1, <1>2, <1>4, <1>7, <1>9, <1>10, <1>11

(* What is owed does not get lost when more is got, or less is owed. *)
LEMMA BehindMore ==
    ASSUME NEW list, NEW owed, NEW still \in SUBSET owed, NEW at,
           NEW got, NEW more, got \subseteq more, Behind(list, owed, at, got)
    PROVE  Behind(list, still, at, more)
BY DEF Behind

(* A fresh checkpoint reads everything. *)
LEMMA FreshReads ==
    ASSUME NEW list, NEW owed, NEW got
    PROVE  /\ GoodPoint(Fresh) /\ Behind(list, owed, Fresh, got)
           /\ \A at : Behind(list, {}, at, got)
<1>1. Fresh \in Checkpoints
  BY IngestAssumption DEF Fresh, Checkpoints, Cursors, NoCursor
<1>2. Fresh.phase = "pass1" /\ Fresh.offset = 0 /\ Fresh.cursor = NoCursor
  BY DEF Fresh
<1> QED
  BY <1>1, <1>2 DEF GoodPoint, Behind, WillRead

LEMMA PointNumbers ==
    ASSUME NEW at \in Checkpoints
    PROVE  /\ at.phase \in {"pass1", "pass2"} /\ at.offset \in Nat /\ at.cursor \in Cursors
           /\ at.cursor.time \in 0..MaxTime /\ at.cursor.tx \in Nat /\ at.min \in 0..MaxTime
BY IngestAssumption DEF Checkpoints, Cursors, NoCursor

(* What Effective and Advanced are of any state and page. *)
Taken(at, page) == {i \in DOMAIN page : at.phase = "pass1" => After(page[i], at.cursor)}
Reached(at, page) ==
    [at EXCEPT
       !.offset = @ + Len(page),
       !.cursor = IF at.phase = "pass1" /\ Taken(at, page) # {}
                  THEN CursorOf(page[Max(Taken(at, page))]) ELSE @]

LEMMA AdvancedIs ==
    /\ Advanced = Reached(run.at, run.page) /\ Advanced' = Reached(run'.at, run'.page)
    /\ \A page : Effective(page) = Taken(run.at, page)
BY DEF Advanced, Effective, Reached, Taken

(* A page that is taken in pass one is taken to its end. *)
LEMMA TakenToTheEnd ==
    ASSUME NEW page \in Seq(Ballot), InOrder(page), NEW m \in Nat, m = Len(page),
           NEW at \in Checkpoints, Taken(at, page) # {}, at.phase = "pass1"
    PROVE  m \in DOMAIN page /\ Max(Taken(at, page)) = m
<1> DEFINE E == Taken(at, page)
           c == at.cursor
<1>1. PICK k \in E : TRUE
  OBVIOUS
<1>2. /\ DOMAIN page = 1..m /\ k \in 1..m /\ E \subseteq 1..m /\ After(page[k], c)
      /\ \A i \in 1..m : After(page[i], c) => i \in E
  BY <1>1 DEF Taken
<1>3. c.time \in Nat /\ c.tx \in Nat
  BY PointNumbers
<1>4. \A i \in 1..m : page[i].time \in Nat /\ page[i].tx \in Nat
  <2>1. \A i \in 1..m : page[i] \in Ballot
    BY <1>2
  <2>2. \A v \in Ballot : v.time \in Nat /\ v.tx \in Nat
    BY IngestAssumption DEF Ballot
  <2> QED BY <2>1, <2>2
<1>5. m \in 1..m /\ (k = m \/ k < m)
  BY <1>2
<1>6. k < m => /\ page[k].time <= page[m].time
               /\ page[k].time = page[m].time => page[k].tx <= page[m].tx
  BY <1>2, <1>5 DEF InOrder
<1>7. After(page[m], c)
  BY <1>2, <1>3, <1>4, <1>5, <1>6 DEF After
<1>8. m \in E /\ \A i \in E : m >= i
  BY <1>2, <1>5, <1>7
<1>9. \A x \in E : (\A y \in E : x >= y) => x = m
  BY <1>2, <1>8
<1> QED
  BY <1>2, <1>8, <1>9 DEF Max

(* A checkpoint that has moved by a page. *)
Moved(at, m, c) == [at EXCEPT !.offset = @ + m, !.cursor = c]

LEMMA MovedPoint ==
    ASSUME NEW at \in Checkpoints, NEW c \in Cursors, NEW m \in Nat
    PROVE  /\ Moved(at, m, c) \in Checkpoints
           /\ Moved(at, m, c).phase = at.phase /\ Moved(at, m, c).offset = at.offset + m
           /\ Moved(at, m, c).min = at.min /\ Moved(at, m, c).cursor = c
<1>1. at.offset + m \in Nat
  BY PointNumbers
<1> QED
  BY <1>1 DEF Checkpoints, Moved

(* The state after a page. *)
LEMMA ReachedIs ==
    ASSUME NEW at \in Checkpoints, NEW page \in Seq(Ballot), InOrder(page),
           NEW m \in Nat, m = Len(page)
    PROVE  /\ Reached(at, page) \in Checkpoints /\ Reached(at, page).phase = at.phase
           /\ Reached(at, page).offset = at.offset + m /\ Reached(at, page).min = at.min
           /\ at.phase = "pass1" /\ Taken(at, page) # {} =>
                 m \in DOMAIN page /\ Reached(at, page).cursor.time = page[m].time
           /\ Taken(at, page) = {} => Reached(at, page).cursor = at.cursor
           /\ page # <<>> => GoodPoint(Reached(at, page)) /\ Reached(at, page).offset # 0
<1> DEFINE E == Taken(at, page)
<1>1. at \in Checkpoints /\ at.offset \in Nat /\ page \in Seq(Ballot) /\ InOrder(page)
  BY PointNumbers
<1>2. CASE at.phase = "pass1" /\ E # {}
  <2>1. m \in DOMAIN page /\ Max(E) = m
    BY <1>1, <1>2, TakenToTheEnd
  <2>2. page[m] \in Ballot
    BY <1>1, <2>1
  <2>3. CursorOf(page[m]) \in Cursors /\ CursorOf(page[m]).time = page[m].time
    BY <2>2 DEF CursorOf, Cursors, Ballot
  <2>4. Reached(at, page) = Moved(at, m, CursorOf(page[m]))
    BY <1>2, <2>1 DEF Reached, Moved
  <2>5. /\ Reached(at, page) \in Checkpoints /\ Reached(at, page).phase = at.phase
        /\ Reached(at, page).offset = at.offset + m /\ Reached(at, page).min = at.min
        /\ Reached(at, page).cursor.time = page[m].time
    <3>1. /\ Moved(at, m, CursorOf(page[m])) \in Checkpoints
          /\ Moved(at, m, CursorOf(page[m])).phase = at.phase /\ Moved(at, m, CursorOf(page[m])).offset = at.offset + m
          /\ Moved(at, m, CursorOf(page[m])).min = at.min /\ Moved(at, m, CursorOf(page[m])).cursor = CursorOf(page[m])
      BY <2>3, MovedPoint
    <3> QED BY <3>1, <2>3, <2>4
  <2>6. at.offset + m # 0
    BY <1>1, <2>1
  <2> QED BY <1>2, <2>1, <2>5, <2>6 DEF GoodPoint
<1>3. CASE ~(at.phase = "pass1" /\ E # {})
  <2>1. Reached(at, page) = Moved(at, m, at.cursor) /\ at.cursor \in Cursors
    BY <1>1, <1>3, PointNumbers DEF Reached, Moved
  <2>2. /\ Reached(at, page) \in Checkpoints /\ Reached(at, page).phase = at.phase
        /\ Reached(at, page).offset = at.offset + m /\ Reached(at, page).min = at.min
        /\ Reached(at, page).cursor = at.cursor
    <3>1. /\ Moved(at, m, at.cursor) \in Checkpoints
          /\ Moved(at, m, at.cursor).phase = at.phase /\ Moved(at, m, at.cursor).offset = at.offset + m
          /\ Moved(at, m, at.cursor).min = at.min /\ Moved(at, m, at.cursor).cursor = at.cursor
      BY <2>1, MovedPoint
    <3> QED BY <3>1, <2>1
  <2>3. page # <<>> => at.offset + m # 0
    BY <1>1
  <2> QED BY <1>3, <2>2, <2>3 DEF GoodPoint
<1> QED
  BY <1>2, <1>3

(* The second pass reads all that the first leaves. *)
LEMMA PassTwoReads ==
    ASSUME ChainOK, NEW at, GoodPoint(at), at.phase = "pass1", NEW got,
           Behind(onchain, due, at, got)
    PROVE  GoodPoint(PassTwo(at)) /\ Behind(onchain, due, PassTwo(at), got)
<1>1. at \in Checkpoints /\ PassTwo(at) \in [phase : {"pass2"}, offset : {0}, cursor : Cursors, min : 0..MaxTime]
      /\ PassTwo(at).min <= at.cursor.time
  <2>1. at \in Checkpoints /\ at.cursor.time \in 0..MaxTime /\ Overlap \in Nat /\ MaxTime \in Nat
    BY PointNumbers, IngestAssumption DEF GoodPoint
  <2> DEFINE x == Max({0, at.cursor.time - Overlap})
  <2>2. x \in 0..MaxTime /\ x <= at.cursor.time
    <3>1. x = IF 0 <= at.cursor.time - Overlap THEN at.cursor.time - Overlap ELSE 0
      BY <2>1, MaxOfTwo
    <3> QED BY <2>1, <3>1
  <2> HIDE DEF x
  <2>3. PassTwo(at) = [at EXCEPT !.phase = "pass2", !.offset = 0, !.min = x]
    BY DEF PassTwo, x
  <2> QED BY <2>1, <2>2, <2>3 DEF Checkpoints
<1>2. GoodPoint(PassTwo(at))
  BY <1>1 DEF GoodPoint, Checkpoints
<1>3. ASSUME NEW i \in DOMAIN onchain, onchain[i].id \in due \ got
      PROVE  WillRead(onchain, PassTwo(at), i)
  <2>1. WillRead(onchain, at, i)
    BY <1>3 DEF Behind
  <2>2. at.cursor.time \in Nat /\ onchain[i].time \in Nat /\ i \in Nat \ {0} /\ PassTwo(at).min \in Nat
    BY <1>1, PointNumbers, ChainNumbers
  <2>3. onchain[i].time >= at.cursor.time
    BY <2>1, <2>2 DEF WillRead, GoodPoint, NoCursor
  <2>4. /\ PassTwo(at).phase = "pass2" /\ PassTwo(at).offset = 0
        /\ onchain[i].time >= PassTwo(at).min /\ i - 0 = i /\ i > 0
    BY <1>1, <2>2, <2>3
  <2> QED BY <2>4 DEF WillRead
<1> QED
  BY <1>2, <1>3 DEF Behind


(* Blocks come and forks remove some: what is owed is where it was. *)
LEMMA ChainMoves ==
    ASSUME VInv, ChainOK', due' \subseteq due, UNCHANGED <<stored, checkpoint, pc, run>>,
           forks' \in 0..MaxForks, UNCHANGED <<failed, stops>>,
           \A i \in DOMAIN onchain' : onchain'[i].id \in due' =>
               i \in DOMAIN onchain /\ \A j \in 1..i : onchain'[j] = onchain[j]
    PROVE  VInv'
<1>1. RunOK'
  BY DEF VInv, RunOK, Got
<1>2. DOMAIN onchain' \subseteq Nat \ {0}
  BY DEF ChainOK
<1>3. ASSUME NEW at \in Checkpoints, NEW got, Behind(onchain, due, at, got)
      PROVE  Behind(onchain', due', at, got)
  <2>1. at.offset \in Nat
    BY PointNumbers
  <2> QED BY <1>2, <1>3, <2>1, BehindStays
<1>4. checkpoint \in Checkpoints /\ run.at \in Checkpoints /\ Advanced \in Checkpoints
  <2>1. run.page \in Seq(Ballot) /\ run.at \in Checkpoints /\ InOrder(run.page)
    BY DEF VInv, RunOK, RunRecords
  <2>2. Len(run.page) \in Nat
    BY <2>1
  <2>3. Advanced \in Checkpoints
    BY <2>1, <2>2, AdvancedIs, ReachedIs
  <2> QED BY <2>1, <2>3 DEF VInv, RunOK, GoodPoint
<1>5. Advanced' = Advanced /\ Got' = Got
  BY DEF Advanced, Got, Effective
<1>6. VotesOK'
  BY <1>3, <1>4, <1>5 DEF VInv, VotesOK
<1> QED
  BY <1>1, <1>6 DEF VInv

(* The votes of a block. *)
LEMMA BlockVotesAre ==
    ASSUME NEW time, NEW new \in BlockVotes(time)
    PROVE  \E k \in 0..2 :
              /\ Len(new) = k /\ DOMAIN new = 1..k /\ new = [i \in 1..k |-> new[i]]
              /\ \A i \in 1..k : new[i] \in [id : {made + i}, time : {time}, tx : 1..2]
              /\ k = 2 => new[1].tx <= new[2].tx
<1> DEFINE vote(n, tx) == [id |-> made + n, time |-> time, tx |-> tx]
<1>1. new = <<>> \/ new = <<vote(1, 1)>> \/ new = <<vote(1, 1), vote(2, 1)>>
      \/ new = <<vote(1, 1), vote(2, 2)>>
  BY DEF BlockVotes
<1>2. \A n \in 1..2, tx \in 1..2 : vote(n, tx) \in [id : {made + n}, time : {time}, tx : 1..2]
                                /\ vote(n, tx).tx = tx
  OBVIOUS
<1> HIDE DEF vote
<1>3. CASE new = <<>>
  BY <1>3
<1>4. CASE new = <<vote(1, 1)>>
  BY <1>2, <1>4
<1>5. ASSUME NEW tx \in 1..2, new = <<vote(1, 1), vote(2, tx)>>
      PROVE  /\ Len(new) = 2 /\ DOMAIN new = 1..2 /\ new = [i \in 1..2 |-> new[i]]
             /\ \A i \in 1..2 : new[i] \in [id : {made + i}, time : {time}, tx : 1..2]
             /\ new[1].tx <= new[2].tx
  BY <1>2, <1>5
<1> QED
  BY <1>1, <1>3, <1>4, <1>5

LEMMA NewBlockKeeps ==
    ASSUME VInv, NewBlock PROVE VInv'
<1>1. PICK new \in BlockVotes(now + 1) :
          /\ now < MaxTime /\ now' = now + 1
          /\ made + Len(new) <= MaxVotes /\ made' = made + Len(new)
          /\ onchain' = onchain \o new
          /\ UNCHANGED <<forks, stored, checkpoint, pc, run, due, failed, stops>>
  BY DEF NewBlock
<1>2. PICK n \in Nat : n = Len(onchain) /\ DOMAIN onchain = 1..n
  BY ChainNumbers DEF VInv
<1>3. now \in Nat /\ made \in Nat /\ MaxTime \in Nat /\ MaxVotes \in Nat
  BY ChainNumbers DEF VInv
<1>4. PICK k \in 0..2 :
          /\ Len(new) = k /\ DOMAIN new = 1..k /\ new = [i \in 1..k |-> new[i]]
          /\ \A i \in 1..k : new[i] \in [id : {made + i}, time : {now + 1}, tx : 1..2]
          /\ k = 2 => new[1].tx <= new[2].tx
  BY BlockVotesAre
<1>5. /\ k \in Nat /\ new \in Seq(Ballot)
      /\ \A i \in 1..k : new[i].id = made + i /\ new[i].time = now + 1 /\ new[i].tx \in Nat
  <2>1. made + k <= MaxVotes /\ k \in Nat
    BY <1>1, <1>4
  <2>2. ASSUME NEW i \in 1..k PROVE made + i \in 1..MaxVotes /\ now + 1 \in 1..MaxTime
    BY <1>1, <1>3, <2>1
  <2>3. \A i \in 1..k : new[i] \in Ballot
    BY <1>4, <2>2 DEF Ballot
  <2>4. \A i \in 1..k : new[i].id = made + i /\ new[i].time = now + 1 /\ new[i].tx \in Nat
    BY <1>4
  <2> QED BY <1>4, <2>1, <2>3, <2>4
<1>6. onchain \in Seq(Ballot)
  BY DEF VInv, ChainOK
<1>6a. /\ now' = now + 1 /\ now < MaxTime /\ made' = made + k /\ made + k <= MaxVotes
  BY <1>1, <1>4
<1>7. /\ onchain' \in Seq(Ballot) /\ Len(onchain') = n + k /\ DOMAIN onchain' = 1..(n + k)
      /\ \A i \in 1..n : onchain'[i] = onchain[i]
      /\ \A i \in 1..k : onchain'[n + i] = new[i]
  BY <1>1, <1>2, <1>4, <1>5, <1>6
<1>8. \A i \in 1..(n + k) : i \in 1..n \/ \E j \in 1..k : i = n + j
  <2> SUFFICES ASSUME NEW i \in 1..(n + k), i \notin 1..n PROVE i - n \in 1..k /\ i = n + (i - n)
    OBVIOUS
  <2> QED BY <1>2, <1>4
<1>9. \A i \in 1..n : onchain[i].time <= now /\ onchain[i].id <= made
                      /\ onchain[i].time \in Nat /\ onchain[i].tx \in Nat /\ onchain[i].id \in Nat
  BY <1>2, ChainNumbers DEF VInv, ChainOK
<1>10. due \subseteq Ids(onchain) /\ n <= made
  BY <1>2 DEF VInv, ChainOK
<1>11. ChainOK'
  <2>1. now' \in 0..MaxTime /\ made' \in 0..MaxVotes /\ Len(onchain') <= made'
    BY <1>2, <1>3, <1>5, <1>7, <1>10, <1>6a
  <2>2. \A i \in 1..(n + k) : onchain'[i].time <= now' /\ onchain'[i].id <= made'
    <3>1. ASSUME NEW i \in 1..n PROVE onchain'[i].time <= now' /\ onchain'[i].id <= made'
      <4>1. onchain'[i] = onchain[i] /\ onchain[i].time <= now /\ onchain[i].id <= made
            /\ onchain[i].time \in Nat /\ onchain[i].id \in Nat
        BY <1>7, <1>9
      <4> QED BY <1>3, <1>5, <1>6a, <4>1
    <3>2. ASSUME NEW i \in 1..k PROVE onchain'[n + i].time <= now' /\ onchain'[n + i].id <= made'
      <4>1. onchain'[n + i].time = now + 1 /\ onchain'[n + i].id = made + i
        BY <1>5, <1>7
      <4>2. made + i <= made + k
        BY <1>3, <1>5
      <4> QED BY <1>3, <1>6a, <4>1, <4>2
    <3> QED BY <1>8, <3>1, <3>2
  <2>3. InOrder(onchain')
    <3> SUFFICES ASSUME NEW i \in 1..(n + k), NEW j \in 1..(n + k), i < j
                 PROVE  /\ onchain'[i].time <= onchain'[j].time
                        /\ onchain'[i].time = onchain'[j].time => onchain'[i].tx <= onchain'[j].tx
      BY <1>7 DEF InOrder
    <3>1. CASE j \in 1..n
      <4>1. i \in 1..n
        BY <1>2, <3>1
      <4> QED BY <1>2, <1>7, <3>1, <4>1 DEF VInv, ChainOK, InOrder
    <3>2. CASE i \in 1..n /\ j \notin 1..n
      <4>1. PICK b \in 1..k : j = n + b
        BY <1>8, <3>2
      <4>2. onchain'[j].time = now + 1 /\ onchain'[i].time <= now /\ onchain'[i].time \in Nat
        BY <1>5, <1>7, <1>9, <3>2, <4>1
      <4> QED BY <1>3, <4>2
    <3>3. CASE i \notin 1..n /\ j \notin 1..n
      <4>1. PICK a \in 1..k : i = n + a
        BY <1>8, <3>3
      <4>2. PICK b \in 1..k : j = n + b
        BY <1>8, <3>3
      <4>3. a = 1 /\ b = 2 /\ k = 2
        <5>1. a < b
          BY <4>1, <4>2
        <5> QED BY <1>5, <5>1
      <4>4. onchain'[i] = new[1] /\ onchain'[j] = new[2]
        BY <1>7, <4>1, <4>2, <4>3
      <4> QED BY <1>3, <1>4, <1>5, <4>3, <4>4
    <3>4. CASE i \notin 1..n /\ j \in 1..n
      BY <1>2, <3>4
    <3> QED BY <3>1, <3>2, <3>3, <3>4
  <2>4. due' \subseteq Ids(onchain')
    <3>1. Ids(onchain) \subseteq Ids(onchain')
      BY <1>2, <1>7 DEF Ids
    <3> QED BY <1>1, <1>10, <3>1
  <2> QED BY <1>7, <2>1, <2>2, <2>3, <2>4 DEF ChainOK
<1>12. ASSUME NEW i \in DOMAIN onchain', onchain'[i].id \in due'
       PROVE  i \in DOMAIN onchain /\ \A j \in 1..i : onchain'[j] = onchain[j]
  <2>1. onchain'[i].id \in Nat /\ onchain'[i].id <= made
    <3>1. PICK j \in 1..n : onchain'[i].id = onchain[j].id
      BY <1>1, <1>2, <1>10, <1>12 DEF Ids
    <3> QED BY <1>9, <3>1
  <2>2. i \in 1..n
    <3>1. ASSUME NEW j \in 1..k, i = n + j PROVE FALSE
      <4>1. onchain'[i].id = made + j
        BY <1>5, <1>7, <3>1
      <4> QED BY <1>3, <2>1, <4>1
    <3> QED BY <1>7, <1>8, <1>12, <3>1
  <2> QED BY <1>2, <1>7, <2>2
<1>13. forks' \in 0..MaxForks
  BY <1>1 DEF VInv, RunOK
<1> QED
  BY <1>1, <1>11, <1>12, <1>13, ChainMoves

LEMMA ForkKeeps ==
    ASSUME VInv, NEW time \in 1..MaxTime, Fork(time) PROVE VInv'
<1>1. PICK n \in Nat : n = Len(onchain) /\ DOMAIN onchain = 1..n
  BY ChainNumbers DEF VInv
<1>2. PICK m \in 0..n : m = Older(time)
  <2>1. time \in Nat
    BY ChainNumbers DEF VInv
  <2> QED BY <1>1, <2>1, OlderIs DEF VInv
<1>3. onchain \in Seq(Ballot) /\ onchain' = SubSeq(onchain, 1, m)
  BY <1>2 DEF VInv, ChainOK, Fork
<1>4. /\ onchain' \in Seq(Ballot) /\ Len(onchain') = m /\ DOMAIN onchain' = 1..m
      /\ \A i \in 1..m : i \in 1..n /\ onchain'[i] = onchain[i]
  <2>1. m \in Nat /\ m <= n
    BY <1>1, <1>2
  <2>2. /\ SubSeq(onchain, 0 + 1, m) \in Seq(Ballot) /\ Len(SubSeq(onchain, 0 + 1, m)) = m
        /\ \A k \in 1..m : 0 + k \in 1..n /\ SubSeq(onchain, 0 + 1, m)[k] = onchain[0 + k]
    BY <1>1, <1>3, <2>1, SliceIs
  <2>3. /\ onchain' \in Seq(Ballot) /\ Len(onchain') = m
        /\ \A k \in 1..m : k \in 1..n /\ onchain'[k] = onchain[k]
    BY <1>3, <2>2
  <2> QED BY <2>3
<1>5. ChainOK'
  <2>1. InOrder(onchain')
    BY <1>1, <1>4 DEF VInv, ChainOK, InOrder
  <2>2. Len(onchain') <= made' /\ made' = made /\ now' = now
    BY <1>1, <1>2, <1>4, ChainNumbers DEF VInv, ChainOK, Fork
  <2>3. due' \subseteq Ids(onchain')
    BY DEF Fork
  <2>4. \A i \in 1..m : onchain'[i].time <= now' /\ onchain'[i].id <= made'
    BY <1>1, <1>4, <2>2 DEF VInv, ChainOK
  <2> QED BY <1>4, <2>1, <2>2, <2>3, <2>4 DEF VInv, ChainOK
<1>6. \A i \in DOMAIN onchain' : i \in DOMAIN onchain /\ \A j \in 1..i : onchain'[j] = onchain[j]
  <2> SUFFICES ASSUME NEW i \in 1..m PROVE i \in 1..n /\ \A j \in 1..i : j \in 1..m
    BY <1>1, <1>4
  <2> QED BY <1>1, <1>2
<1>7. forks' \in 0..MaxForks /\ due' \subseteq due
      /\ UNCHANGED <<stored, checkpoint, pc, run, failed, stops>>
  BY IngestAssumption DEF Fork, VInv, RunOK
<1> QED
  BY <1>5, <1>6, <1>7, ChainMoves


(* What the run of a state has, in parts. *)
LEMMA RunFacts ==
    ASSUME VInv
    PROVE  /\ run.at \in Checkpoints /\ checkpoint \in Checkpoints
           /\ run.page \in Seq(Ballot) /\ run.left \subseteq 1..MaxVotes
           /\ run.seen \subseteq 1..MaxVotes /\ run.streams \in BOOLEAN
           /\ run.at.offset \in Nat /\ run.at.cursor.time \in Nat /\ run.at.min \in Nat
           /\ Len(run.page) \in Nat /\ NoRun \in RunRecords /\ InOrder(<<>>)
<1>1. run.at \in Checkpoints /\ checkpoint \in Checkpoints /\ run.page \in Seq(Ballot)
  BY DEF VInv, RunOK, RunRecords, GoodPoint
<1>2. NoRun \in RunRecords
  BY FreshReads DEF NoRun, RunRecords, GoodPoint
<1>3. InOrder(<<>>)
  BY DEF InOrder
<1> QED
  BY <1>1, <1>2, <1>3, PointNumbers DEF VInv, RunOK, RunRecords

(* A run that ends, or is ended, leaves the checkpoint. *)
LEMMA RunEnds ==
    ASSUME VInv, EndIngest, UNCHANGED <<remote, stored>>, failed' \in 0..MaxFails,
           stops' \in 0..MaxStops, GoodPoint(checkpoint'), due' \subseteq due,
           Behind(onchain, due', checkpoint', stored)
    PROVE  VInv'
<1>1. ChainOK'
  BY DEF VInv, ChainOK, remote, InOrder, Ids
<1>2. RunOK'
  <2>1. /\ run' = NoRun /\ NoRun.at = Fresh /\ NoRun.page = <<>> /\ NoRun.left = {}
        /\ NoRun.seen = {} /\ NoRun.streams = FALSE
    BY DEF EndIngest, NoRun
  <2>2. stored' \subseteq 1..MaxVotes /\ forks' \in 0..MaxForks
    BY DEF VInv, RunOK, remote
  <2>3. Len(<<>>) <= MaxVotes
    BY IngestAssumption
  <2> QED BY <2>1, <2>2, <2>3, RunFacts, FreshReads DEF RunOK, EndIngest, Got
<1>3. VotesOK'
  BY DEF VotesOK, EndIngest, NoRun, remote
<1> QED
  BY <1>1, <1>2, <1>3 DEF VInv

LEMMA EndsKeep ==
    ASSUME VInv, Complete \/ CompletePrefetched \/ Fail \/ StopIngest
    PROVE  VInv'
<1>1. /\ GoodPoint(checkpoint) /\ GoodPoint(run.at) /\ failed \in 0..MaxFails /\ stops \in 0..MaxStops
      /\ Behind(onchain, due, checkpoint, stored)
  BY DEF VInv, RunOK, VotesOK
<1>2. CASE Complete
  BY <1>1, <1>2, RunEnds, FreshReads DEF Complete
<1>3. CASE CompletePrefetched
  BY <1>1, <1>3, RunEnds DEF CompletePrefetched
<1>4. CASE Fail
  <2>1. run.at = Fresh \/ run.streams
    BY DEF VInv, RunOK
  <2>2. Behind(onchain, due', run.at, stored)
    BY <1>4, <2>1, FreshReads DEF Fail, VInv, VotesOK
  <2>3. failed' \in 0..MaxFails
    BY <1>1, <1>4, IngestAssumption DEF Fail
  <2> QED BY <1>1, <1>4, <2>2, <2>3, RunEnds DEF Fail
<1>5. CASE StopIngest
  <2>1. Behind(onchain, due', checkpoint, stored)
    BY <1>1, <1>5, FreshReads DEF StopIngest
  <2>2. stops' \in 0..MaxStops
    BY <1>1, <1>5, IngestAssumption DEF StopIngest
  <2> QED BY <1>1, <1>5, <2>1, <2>2, RunEnds DEF StopIngest
<1> QED
  BY <1>2, <1>3, <1>4, <1>5

LEMMA FailEarlyKeeps ==
    ASSUME VInv, FailEarly PROVE VInv'
<1>1. /\ pc = "idle" /\ failed' \in 0..MaxFails /\ checkpoint' = Fresh /\ due' = {}
      /\ UNCHANGED <<remote, stored, pc, run, stops>> /\ run = NoRun
  BY IngestAssumption DEF FailEarly, VInv, RunOK
<1>2. EndIngest
  BY <1>1 DEF EndIngest
<1> QED
  <2>1. stops' \in 0..MaxStops
    BY <1>1 DEF VInv, RunOK
  <2> QED BY <1>1, <1>2, <2>1, RunEnds, FreshReads

LEMMA BeginKeeps ==
    ASSUME VInv, BeginIngest PROVE VInv'
<1>1. /\ pc = "idle" /\ pc' = "fetch" /\ UNCHANGED <<remote, stored, checkpoint, failed, stops>>
      /\ due' = IF checkpoint = Fresh THEN Ids(onchain) ELSE due
  BY DEF BeginIngest
<1>2. run' = [at |-> checkpoint, page |-> <<>>, left |-> {}, seen |-> {}, streams |-> TRUE]
  BY DEF BeginIngest, NoRun
<1>3. ChainOK'
  BY <1>1 DEF VInv, ChainOK, remote, InOrder, Ids
<1>4. RunOK'
  <2>1. /\ run' \in RunRecords /\ run'.at = checkpoint /\ run'.page = <<>> /\ run'.left = {}
        /\ run'.seen = {} /\ run'.streams
    BY <1>2, RunFacts DEF RunRecords
  <2>2. Len(<<>>) <= PageSize
    BY IngestAssumption
  <2> QED BY <1>1, <2>1, <2>2, RunFacts DEF VInv, RunOK, Got, remote
<1>5. Behind(onchain, due', checkpoint, stored)
  BY <1>1, FreshReads DEF VInv, VotesOK
<1>6. VotesOK'
  BY <1>1, <1>2, <1>5 DEF VotesOK, remote
<1> QED
  BY <1>3, <1>4, <1>6 DEF VInv

LEMMA BeginPrefetchedKeeps ==
    ASSUME VInv, BeginPrefetched PROVE VInv'
<1>1. /\ pc' = "write" /\ UNCHANGED <<remote, stored, checkpoint, due, failed, stops>>
      /\ onchain # <<>>
  BY DEF BeginPrefetched
<1>2. run' = [at |-> Fresh, page |-> onchain, left |-> Ids(onchain), seen |-> {}, streams |-> FALSE]
  BY DEF BeginPrefetched, NoRun
<1>3. ChainOK'
  BY <1>1 DEF VInv, ChainOK, remote, InOrder, Ids
<1>4. RunOK'
  <2>1. onchain \in Seq(Ballot) /\ InOrder(onchain) /\ Len(onchain) <= MaxVotes
    <3>1. Len(onchain) \in Nat /\ made \in Nat /\ MaxVotes \in Nat /\ made <= MaxVotes
          /\ Len(onchain) <= made
      BY ChainNumbers DEF VInv, ChainOK
    <3> QED BY <3>1 DEF VInv, ChainOK
  <2>2. Ids(onchain) \subseteq 1..MaxVotes
    <3>1. \A i \in DOMAIN onchain : onchain[i] \in Ballot
      BY ChainNumbers DEF VInv
    <3> QED BY <3>1 DEF Ids, Ballot
  <2>3. /\ run' \in RunRecords /\ run'.at = Fresh /\ run'.page = onchain
        /\ run'.seen = {} /\ run'.streams = FALSE
    BY <1>2, <2>1, <2>2, FreshReads DEF RunRecords, GoodPoint
  <2> QED BY <1>1, <2>1, <2>3, FreshReads DEF VInv, RunOK, Got, remote
<1>5. VotesOK'
  BY <1>1, <1>2 DEF VInv, VotesOK, remote
<1> QED
  BY <1>3, <1>4, <1>5 DEF VInv


(* What a page holds of what is owed, and what is left behind it. *)
LEMMA PageReads ==
    ASSUME MaxVotes <= PageSize + 1, VInv, pc = "fetch", Page # <<>>, NEW got,
           stored \subseteq got, \A k \in Taken(run.at, Page) : Page[k].id \in got
    PROVE  /\ Behind(onchain, due, Reached(run.at, Page), got)
           /\ run.at.phase = "pass2" /\ Len(Page) < PageSize => due \subseteq got
<1> DEFINE at == run.at
           r == Reached(run.at, Page)
<1>1. /\ at \in Checkpoints /\ at.phase \in {"pass1", "pass2"} /\ at.cursor.time \in Nat
      /\ at.cursor.tx \in Nat /\ at.min \in Nat
      /\ (at.phase = "pass1" /\ at.offset = 0 => at.cursor = NoCursor)
      /\ Behind(onchain, due, at, stored)
  <2>1. at \in Checkpoints
    BY RunFacts
  <2>2. run.streams /\ GoodPoint(at)
    BY DEF VInv, RunOK
  <2> QED BY <2>1, <2>2, PointNumbers DEF GoodPoint, VInv, VotesOK
<1>2. PICK q \in Nat : q = at.offset
  BY <1>1, PointNumbers
<1>3. PICK n \in Nat : n = Len(onchain) /\ DOMAIN onchain = 1..n /\ n <= PageSize + 1
  BY ChainNumbers DEF VInv, ChainOK
<1>4. PICK o \in 0..n : o = Older(MinTime) /\ \A i \in 1..n : onchain[i].time < MinTime <=> i <= o
  BY <1>2, <1>3, PageIs DEF VInv
<1>5. PICK m \in Nat :
          /\ Len(Page) = m /\ m <= PageSize /\ DOMAIN Page = 1..m
          /\ o + q + m <= n \/ m = 0
          /\ m < PageSize => o + q + m >= n
          /\ \A k \in 1..m : o + q + k \in 1..n /\ Page[k] = onchain[o + q + k]
  <2> DEFINE P(x) == \E m \in Nat :
          /\ Len(Page) = m /\ m <= PageSize /\ DOMAIN Page = 1..m
          /\ x + q + m <= n \/ m = 0
          /\ m < PageSize => x + q + m >= n
          /\ \A k \in 1..m : x + q + k \in 1..n /\ Page[k] = onchain[x + q + k]
  <2>1. P(Older(MinTime))
    BY <1>2, <1>3, PageIs DEF VInv
  <2>2. P(o)
    <3> HIDE DEF P
    <3> QED BY <1>4, <2>1
  <2> QED BY <2>2
<1>6. Page \in Seq(Ballot) /\ InOrder(Page) /\ m # 0
  <2>1. Page \in Seq(Ballot) /\ InOrder(Page)
    BY <1>2, <1>3, PageIs DEF VInv
  <2> QED BY <1>5, <2>1
<1>7. /\ r.phase = at.phase /\ r.offset = q + m /\ r.min = at.min
      /\ at.phase = "pass1" /\ Taken(at, Page) # {} =>
            m \in DOMAIN Page /\ r.cursor.time = Page[m].time
      /\ Taken(at, Page) = {} => r.cursor = at.cursor
  BY <1>1, <1>2, <1>5, <1>6, ReachedIs
<1>8. PageSize \in Nat \ {0} /\ o \in Nat
  BY <1>3, <1>4, IngestAssumption
<1>8a. q \in Nat /\ n \in Nat /\ o \in Nat /\ m \in Nat
  BY <1>2, <1>3, <1>4, <1>5
<1>9. \A i \in 1..n : onchain[i].time \in Nat \ {0} /\ onchain[i].tx \in Nat
  BY <1>3, ChainNumbers DEF VInv
<1>10. \A i, j \in 1..n : i <= j => onchain[i].time <= onchain[j].time
  <2> SUFFICES ASSUME NEW i \in 1..n, NEW j \in 1..n, i <= j
               PROVE  onchain[i].time <= onchain[j].time
    OBVIOUS
  <2>1. i = j \/ i < j
    BY <1>3
  <2> QED BY <1>3, <1>9, <2>1 DEF VInv, ChainOK, InOrder
<1> DEFINE Missing(i) == onchain[i].id \in due \ got
<1>11. ASSUME NEW i \in 1..n, Missing(i) PROVE WillRead(onchain, at, i)
  BY <1>1, <1>3, <1>11 DEF Behind
<1>12. CASE at.phase = "pass2"
  <2>1. MinTime = at.min
    BY <1>12 DEF MinTime
  <2>2. ASSUME NEW i \in 1..n, Missing(i)
        PROVE  i > o + q + m /\ WillRead(onchain, r, i)
    <3>1. i > q /\ onchain[i - q].time >= at.min
      BY <1>2, <1>11, <1>12, <2>2 DEF WillRead
    <3>2. i - q \in 1..n /\ i - q > o
      <4>1. i - q \in 1..n
        BY <1>8a, <3>1
      <4>2. ~(onchain[i - q].time < at.min)
        BY <1>1, <1>9, <3>1, <4>1
      <4>3. ~(i - q <= o)
        BY <1>4, <2>1, <4>1, <4>2
      <4> QED BY <1>8, <4>1, <4>3
    <3>3. i > o + q + m
      <4> SUFFICES ASSUME i <= o + q + m PROVE FALSE
        BY <1>8a
      <4>1. PICK k \in 1..m : i = o + q + k
        <5>1. i - (o + q) \in 1..m /\ i = o + q + (i - (o + q))
          BY <1>8a, <3>2
        <5> QED BY <5>1
      <4>2. k \in Taken(at, Page) /\ Page[k] = onchain[i]
        BY <1>5, <1>12, <4>1 DEF Taken
      <4> QED BY <2>2, <4>2
    <3>4. /\ i > q + m /\ i - (q + m) \in 1..n /\ i - (q + m) > o
      BY <1>8a, <3>3
    <3>5. onchain[i - (q + m)].time >= at.min
      <4>1. ~(onchain[i - (q + m)].time < at.min)
        BY <1>4, <1>8, <2>1, <3>4
      <4> QED BY <1>1, <1>9, <3>4, <4>1
    <3> QED BY <1>7, <1>12, <3>3, <3>4, <3>5 DEF WillRead
  <2>3. Behind(onchain, due, r, got)
    BY <1>3, <2>2 DEF Behind
  <2>4. ASSUME m < PageSize PROVE due \subseteq got
    <3> SUFFICES ASSUME NEW d \in due, d \notin got PROVE FALSE
      OBVIOUS
    <3>1. PICK i \in 1..n : onchain[i].id = d
      BY <1>3 DEF VInv, ChainOK, Ids
    <3>2. i > o + q + m /\ o + q + m >= n
      BY <1>5, <2>2, <2>4, <3>1
    <3> QED BY <1>2, <1>3, <1>5, <1>8, <3>2
  <2> QED BY <1>5, <2>3, <2>4
<1>13. CASE at.phase = "pass1" /\ q = 0
  <2>1. at.cursor = NoCursor /\ MinTime = 0
    BY <1>1, <1>2, <1>13 DEF MinTime, NoCursor
  <2>2. o = 0
    <3> SUFFICES ASSUME o # 0 PROVE FALSE
      OBVIOUS
    <3>1. o \in 1..n
      BY <1>3, <1>4
    <3>2. onchain[o].time < 0
      BY <1>4, <1>8, <2>1, <3>1
    <3> QED BY <1>9, <3>1, <3>2
  <2>3. \A k \in 1..m : k \in 1..n /\ Page[k] = onchain[k]
    BY <1>5, <1>13, <2>2
  <2>4. \A k \in 1..m : k \in Taken(at, Page)
    <3> SUFFICES ASSUME NEW k \in 1..m PROVE Page[k].time > 0
      BY <1>5, <2>1 DEF Taken, After, NoCursor
    <3> QED BY <1>9, <2>3
  <2>5. m \in 1..m
    BY <1>6
  <2>6. r.cursor.time = onchain[m].time /\ m \in 1..n
    BY <1>7, <1>13, <2>3, <2>4, <2>5
  <2>7. ASSUME NEW i \in 1..n, Missing(i) PROVE WillRead(onchain, r, i)
    <3>1. i \notin 1..m
      BY <2>3, <2>4, <2>7
    <3>2. i = PageSize + 1 /\ m = PageSize
      BY <1>3, <1>5, <1>8, <1>13, <2>2, <3>1
    <3>3. onchain[i].time >= onchain[m].time
      <4>1. m <= i
        BY <1>8, <3>2
      <4> QED BY <1>9, <1>10, <2>6, <4>1
    <3> QED BY <1>7, <1>8, <1>13, <2>6, <3>2, <3>3 DEF WillRead
  <2> QED BY <1>3, <1>13, <2>7 DEF Behind
<1>14. CASE at.phase = "pass1" /\ q # 0
  <2>1. MinTime = at.cursor.time
    BY <1>14 DEF MinTime
  <2>2. ASSUME NEW i \in 1..n, Missing(i) PROVE WillRead(onchain, r, i)
    <3>1. i = PageSize + 1 /\ q >= PageSize /\ onchain[i].time >= at.cursor.time
      BY <1>2, <1>11, <1>14, <2>2 DEF WillRead
    <3>2. m = 1 /\ o + q + 1 = i
      BY <1>2, <1>3, <1>5, <1>6, <1>8, <3>1
    <3>3. 1 \in 1..m /\ Page[1] = onchain[i]
      BY <1>5, <3>2
    <3>4. Taken(at, Page) = {}
      <4>1. 1 \notin Taken(at, Page)
        BY <2>2, <3>3
      <4>2. Taken(at, Page) \subseteq {1}
        BY <1>5, <3>2 DEF Taken
      <4> QED BY <4>1, <4>2
    <3>5. r.cursor = at.cursor /\ q + m >= PageSize
      BY <1>2, <1>5, <1>7, <1>8, <3>1, <3>4
    <3> QED BY <1>7, <1>14, <3>1, <3>5 DEF WillRead
  <2> QED BY <1>3, <1>14, <2>2 DEF Behind
<1> QED
  BY <1>1, <1>12, <1>13, <1>14

(* A page arrives. *)
LEMMA FetchKeeps ==
    ASSUME MaxVotes <= PageSize + 1, VInv, Fetch PROVE VInv'
<1> DEFINE unseen == {Page[i].id : i \in Effective(Page)} \ run.seen
<1>1. /\ pc = "fetch" /\ pc' = "write" /\ Page # <<>>
      /\ run' = [run EXCEPT !.page = Page, !.left = unseen, !.seen = @ \cup unseen]
      /\ UNCHANGED <<remote, stored, checkpoint, due, failed, stops>>
  BY DEF Fetch
<1>2. /\ run.left = {} /\ run.streams /\ run.seen \subseteq stored /\ run \in RunRecords
  BY <1>1 DEF VInv, RunOK, Got
<1>3. /\ Page \in Seq(Ballot) /\ InOrder(Page) /\ Len(Page) <= PageSize
  <2>1. Len(onchain) \in Nat /\ run.at.offset \in Nat
    BY ChainNumbers, RunFacts DEF VInv
  <2> QED BY <2>1, PageIs DEF VInv
<1>4. unseen \subseteq 1..MaxVotes
  <2>1. \A i \in DOMAIN Page : Page[i] \in Ballot
    BY <1>3
  <2>2. Effective(Page) \subseteq DOMAIN Page
    BY DEF Effective
  <2> QED BY <2>1, <2>2 DEF Ballot
<1> HIDE DEF unseen
<1>5. /\ run' \in RunRecords /\ run'.at = run.at /\ run'.page = Page /\ run'.left = unseen
      /\ run'.seen = run.seen \cup unseen /\ run'.streams = run.streams
  BY <1>1, <1>2, <1>3, <1>4 DEF RunRecords
<1>6. Got' = stored \cup unseen
  BY <1>1, <1>5 DEF Got
<1>7. \A k \in Taken(run.at, Page) : Page[k].id \in Got'
  <2>1. \A k \in Effective(Page) : Page[k].id \in unseen \cup run.seen
    BY DEF unseen
  <2> QED BY <1>2, <1>6, <2>1, AdvancedIs
<1>8. /\ Behind(onchain, due, Reached(run.at, Page), Got')
      /\ run.at.phase = "pass2" /\ Len(Page) < PageSize => due \subseteq Got'
  BY <1>1, <1>6, <1>7, PageReads
<1>9. Advanced' = Reached(run.at, Page)
  BY <1>5, AdvancedIs
<1>10. ChainOK'
  BY <1>1 DEF VInv, ChainOK, remote, InOrder, Ids
<1>11. RunOK'
  BY <1>1, <1>2, <1>3, <1>5, <1>6 DEF VInv, RunOK, remote
<1>12. VotesOK'
  BY <1>1, <1>2, <1>5, <1>8, <1>9 DEF VInv, VotesOK, remote
<1> QED
  BY <1>10, <1>11, <1>12 DEF VInv

(* A vote is written. *)
LEMMA WriteKeeps ==
    ASSUME VInv, NEW id \in run.left, Write(id) PROVE VInv'
<1>1. /\ pc = "write" /\ stored' = stored \cup {id} /\ id \in 1..MaxVotes
      /\ run' = [run EXCEPT !.left = @ \ {id}]
      /\ UNCHANGED <<remote, checkpoint, pc, due, failed, stops>>
  BY RunFacts DEF Write
<1>2. /\ run' \in RunRecords /\ run'.at = run.at /\ run'.page = run.page
      /\ run'.left = run.left \ {id} /\ run'.seen = run.seen /\ run'.streams = run.streams
  BY <1>1 DEF VInv, RunOK, RunRecords
<1>3. Got' = Got /\ stored \subseteq stored' /\ Advanced' = Advanced
  BY <1>1, <1>2, AdvancedIs DEF Got
<1>4. ChainOK'
  BY <1>1 DEF VInv, ChainOK, remote, InOrder, Ids
<1>5. RunOK'
  BY <1>1, <1>2, <1>3 DEF VInv, RunOK, remote
<1>6. /\ Behind(onchain, due, checkpoint, stored')
      /\ run.streams => Behind(onchain, due, run.at, stored')
  BY <1>3, BehindMore DEF VInv, VotesOK
<1>7. VotesOK'
  BY <1>1, <1>2, <1>3, <1>6 DEF VInv, VotesOK, remote
<1> QED
  BY <1>4, <1>5, <1>7 DEF VInv

(* A page is written: what is owed will be read from the state after it. *)
LEMMA PageIsWritten ==
    ASSUME VInv, pc = "write", run.left = {}, run.streams
    PROVE  /\ GoodPoint(Advanced) /\ Behind(onchain, due, Advanced, stored)
           /\ Advanced.phase = run.at.phase
           /\ run.at.phase = "pass2" /\ Len(run.page) < PageSize => due \subseteq stored
<1>1. /\ run.page # <<>> /\ run.page \in Seq(Ballot) /\ InOrder(run.page)
      /\ run.at \in Checkpoints /\ Got = stored
  BY RunFacts DEF VInv, RunOK, Got
<1>2. Len(run.page) \in Nat
  BY <1>1
<1>3. GoodPoint(Advanced) /\ Advanced.phase = run.at.phase
  BY <1>1, <1>2, ReachedIs, AdvancedIs
<1> QED
  BY <1>1, <1>3 DEF VInv, VotesOK

(* A run goes on with its next page, from a point before which nothing is   *)
(* owed.                                                                    *)
LEMMA RunGoesOn ==
    ASSUME VInv, UNCHANGED <<remote, stored, due, failed, stops>>, NEW at, GoodPoint(at),
           run' = [run EXCEPT !.at = at, !.page = <<>>], run.streams, run.left = {},
           pc' \in {"fetch", "over"}, GoodPoint(checkpoint'),
           Behind(onchain, due, checkpoint', stored), Behind(onchain, due, at, stored),
           pc' = "over" => due \subseteq stored
    PROVE  VInv'
<1>1. /\ run' \in RunRecords /\ run'.at = at /\ run'.page = <<>>
      /\ run'.left = {} /\ run'.seen = run.seen /\ run'.streams = run.streams
  <2>1. run \in RunRecords /\ at \in Checkpoints /\ <<>> \in Seq(Ballot)
    BY DEF VInv, RunOK, GoodPoint
  <2> QED BY <2>1 DEF RunRecords
<1>2. ChainOK'
  BY DEF VInv, ChainOK, remote, InOrder, Ids
<1>3. RunOK'
  <2>1. Len(<<>>) <= PageSize
    BY IngestAssumption
  <2> QED BY <1>1, <2>1, RunFacts DEF VInv, RunOK, Got, remote
<1>4. VotesOK'
  BY <1>1 DEF VotesOK, remote
<1> QED
  BY <1>2, <1>3, <1>4 DEF VInv

LEMMA SavesKeep ==
    ASSUME VInv, SavePage \/ SaveShortPage \/ SaveLastPage PROVE VInv'
<1>1. pc = "write" /\ run.left = {} /\ run.streams /\ checkpoint' = Advanced
      /\ UNCHANGED <<remote, stored, due, failed, stops>>
  BY DEF SavePage, SaveShortPage, SaveLastPage
<1>2. /\ GoodPoint(Advanced) /\ Behind(onchain, due, Advanced, stored)
      /\ Advanced.phase = run.at.phase
      /\ run.at.phase = "pass2" /\ Len(run.page) < PageSize => due \subseteq stored
  BY <1>1, PageIsWritten
<1>3. CASE SavePage
  BY <1>1, <1>2, <1>3, RunGoesOn DEF SavePage
<1>4. CASE SaveShortPage
  <2>1. GoodPoint(PassTwo(Advanced)) /\ Behind(onchain, due, PassTwo(Advanced), stored)
    BY <1>2, <1>4, PassTwoReads DEF VInv, SaveShortPage
  <2> QED BY <1>1, <1>2, <1>4, <2>1, RunGoesOn DEF SaveShortPage
<1>5. CASE SaveLastPage
  BY <1>1, <1>2, <1>5, RunGoesOn DEF SaveLastPage
<1> QED
  BY <1>3, <1>4, <1>5

LEMMA EndPassOneKeeps ==
    ASSUME VInv, EndPassOne PROVE VInv'
<1>1. /\ pc = "fetch" /\ run.left = {} /\ run.streams /\ GoodPoint(run.at) /\ GoodPoint(checkpoint)
      /\ Behind(onchain, due, run.at, stored) /\ Behind(onchain, due, checkpoint, stored)
      /\ run.at.phase = "pass1" /\ run' = [run EXCEPT !.at = PassTwo(run.at)]
      /\ UNCHANGED <<remote, stored, checkpoint, pc, due, failed, stops>>
  BY DEF EndPassOne, VInv, RunOK, VotesOK
<1>2. GoodPoint(PassTwo(run.at)) /\ Behind(onchain, due, PassTwo(run.at), stored)
  BY <1>1, PassTwoReads DEF VInv
<1>3. /\ run' \in RunRecords /\ run'.at = PassTwo(run.at) /\ run'.page = run.page
      /\ run'.left = {} /\ run'.seen = run.seen /\ run'.streams = run.streams
  BY <1>1, <1>2 DEF VInv, RunOK, RunRecords, GoodPoint
<1>4. ChainOK'
  BY <1>1 DEF VInv, ChainOK, remote, InOrder, Ids
<1>5. RunOK'
  BY <1>1, <1>2, <1>3 DEF VInv, RunOK, Got, remote
<1>6. VotesOK'
  BY <1>1, <1>2, <1>3 DEF VotesOK, remote
<1> QED
  BY <1>4, <1>5, <1>6 DEF VInv

LEMMA IngestStarts == IngestInit => VInv
<1> SUFFICES ASSUME IngestInit PROVE VInv
  OBVIOUS
<1>1. ChainOK
  BY IngestAssumption DEF IngestInit, ChainOK, InOrder
<1>2. RunOK
  <2>1. /\ run = NoRun /\ NoRun.at = Fresh /\ NoRun.page = <<>> /\ NoRun.left = {}
        /\ NoRun.seen = {} /\ NoRun.streams = FALSE
    BY DEF IngestInit, NoRun
  <2>2. NoRun \in RunRecords /\ InOrder(<<>>)
    BY FreshReads DEF NoRun, RunRecords, GoodPoint, InOrder
  <2>3. Len(<<>>) <= MaxVotes
    BY IngestAssumption
  <2> QED BY <2>1, <2>2, <2>3, FreshReads, IngestAssumption DEF IngestInit, RunOK, Got
<1>3. VotesOK
  BY FreshReads DEF IngestInit, VotesOK, NoRun
<1> QED
  BY <1>1, <1>2, <1>3 DEF VInv

LEMMA IngestStepKeeps ==
    ASSUME MaxVotes <= PageSize + 1 PROVE VInv /\ [IngestNext]_ingestVars => VInv'
<1> SUFFICES ASSUME VInv, [IngestNext]_ingestVars PROVE VInv'
  OBVIOUS
<1>1. CASE IngestNext
  BY <1>1, NewBlockKeeps, ForkKeeps, BeginKeeps, BeginPrefetchedKeeps, FetchKeeps,
     WriteKeeps, SavesKeep, EndPassOneKeeps, EndsKeep, FailEarlyKeeps DEF IngestNext, RunStep
<1>2. CASE UNCHANGED ingestVars
  <2>1. UNCHANGED <<now, onchain, made, forks, stored, checkpoint, pc, run, due, failed, stops>>
    BY <1>2 DEF ingestVars, remote
  <2>2. Advanced' = Advanced /\ Got' = Got
    BY <2>1, AdvancedIs DEF Got
  <2>3. ChainOK' /\ RunOK'
    BY <2>1, <2>2 DEF VInv, ChainOK, RunOK, InOrder, Ids
  <2> QED BY <2>1, <2>2, <2>3 DEF VInv, VotesOK
<1> QED
  BY <1>1, <1>2

(* The invariant gives what a run promises, and of a checkpoint. *)
LEMMA VotesFollow == VInv => VotesComplete
<1> SUFFICES ASSUME VInv PROVE VotesComplete
  OBVIOUS
<1>1. PICK n \in Nat : n = Len(onchain) /\ DOMAIN onchain = 1..n
  BY ChainNumbers DEF VInv
<1>2. \A i \in 1..n : /\ onchain[i] \in Ballot /\ onchain[i].time \in Nat \ {0}
                      /\ onchain[i].tx \in Nat
  BY <1>1, ChainNumbers DEF VInv
<1>3. \A i, j \in 1..n : i < j => onchain[i].time <= onchain[j].time
  BY <1>1 DEF VInv, ChainOK, InOrder
<1>4. AllVotes
  <2> SUFFICES ASSUME pc = "fetch", Page = <<>>, run.at.phase = "pass2" PROVE due \subseteq stored
    BY DEF AllVotes, Over, VInv, VotesOK
  <2>1. PICK q \in Nat : q = run.at.offset
    BY RunFacts
  <2>2. /\ Older(MinTime) \in 0..n /\ MinTime = run.at.min /\ run.at.min \in Nat
        /\ \A i \in 1..n : onchain[i].time < MinTime <=> i <= Older(MinTime)
    BY <1>1, <2>1, PageIs, RunFacts DEF VInv, MinTime
  <2>3. Older(MinTime) + q + 0 >= n
    <3>1. Len(Page) = 0 /\ 0 < PageSize
      BY IngestAssumption
    <3>2. PICK m \in Nat : Len(Page) = m /\ (m < PageSize => Older(MinTime) + q + m >= n)
      BY <1>1, <2>1, PageIs DEF VInv
    <3> QED BY <3>1, <3>2
  <2>4. Behind(onchain, due, run.at, stored)
    BY DEF VInv, VotesOK, RunOK
  <2> SUFFICES ASSUME NEW d \in due, d \notin stored PROVE FALSE
    OBVIOUS
  <2>5. PICK i \in 1..n : onchain[i].id = d
    BY <1>1 DEF VInv, ChainOK, Ids
  <2>6. i > q /\ onchain[i - q].time >= run.at.min
    BY <1>1, <2>1, <2>4, <2>5 DEF Behind, WillRead
  <2>7. i - q \in 1..n
    BY <1>1, <2>1, <2>5, <2>6
  <2>8. ~(onchain[i - q].time < run.at.min)
    BY <1>2, <2>2, <2>6, <2>7
  <2>9. ~(i - q <= Older(MinTime))
    BY <2>2, <2>7, <2>8
  <2> QED BY <1>1, <2>1, <2>2, <2>3, <2>5, <2>9
<1>5. IngestTypeOK
  <2>1. \A i, j \in DOMAIN onchain :
            i < j => /\ onchain[i].time <= onchain[j].time
                     /\ onchain[i].time = onchain[j].time => onchain[i].tx <= onchain[j].tx
    BY DEF VInv, ChainOK, InOrder
  <2>2. due \subseteq 1..MaxVotes
    BY <1>1, <1>2 DEF VInv, ChainOK, Ids, Ballot
  <2> QED BY <2>1, <2>2, RunFacts DEF VInv, ChainOK, RunOK, IngestTypeOK
<1>6. CheckpointBehind
  <2> SUFFICES ASSUME NEW i \in 1..n, onchain[i].id \in due \ stored
               PROVE  onchain[i].time >= IF checkpoint.phase = "pass1"
                                         THEN checkpoint.cursor.time ELSE checkpoint.min
    BY <1>1 DEF CheckpointBehind
  <2>1. WillRead(onchain, checkpoint, i)
    BY <1>1 DEF VInv, VotesOK, Behind
  <2>2. /\ GoodPoint(checkpoint) /\ checkpoint.offset \in Nat /\ checkpoint.min \in Nat
        /\ checkpoint.cursor.time \in Nat
    BY RunFacts, PointNumbers DEF VInv, RunOK
  <2>3. CASE checkpoint.phase = "pass1"
    BY <1>2, <2>1, <2>2, <2>3 DEF WillRead, GoodPoint, NoCursor
  <2>4. CASE checkpoint.phase # "pass1"
    <3>1. /\ i > checkpoint.offset /\ onchain[i - checkpoint.offset].time >= checkpoint.min
      BY <2>1, <2>4 DEF WillRead
    <3>2. i - checkpoint.offset \in 1..n /\ i - checkpoint.offset <= i
      BY <1>1, <2>2, <3>1
    <3>3. onchain[i - checkpoint.offset].time <= onchain[i].time
      <4>1. CASE i - checkpoint.offset = i
        BY <1>2, <4>1
      <4>2. CASE i - checkpoint.offset # i
        BY <1>1, <1>3, <3>2, <4>2
      <4> QED BY <4>1, <4>2
    <3> QED BY <1>2, <2>2, <2>4, <3>1, <3>2, <3>3
  <2> QED BY <2>3, <2>4
<1> QED
  BY <1>4, <1>5, <1>6 DEF VotesComplete

(* A run of the ingestion that ends well has written every vote that was    *)
(* there when it, or the run from whose checkpoint it goes on, began        *)
(* afresh, and no checkpoint is ahead of what is written: for any blocks,   *)
(* forks, failures and stops, while there is at most one vote more than a   *)
(* page.  With two votes more it can fail.                                   *)
THEOREM VotesAreComplete ==
    ASSUME MaxVotes <= PageSize + 1 PROVE IngestSpec => []VotesComplete
<1>1. IngestSpec => []VInv
  BY IngestStarts, IngestStepKeeps, PTL DEF IngestSpec
<1>2. VInv => VotesComplete
  BY VotesFollow
<1> QED
  BY <1>1, <1>2, PTL

===============================================================================
