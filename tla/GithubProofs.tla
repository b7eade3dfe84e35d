------------------------------ MODULE GithubProofs ------------------------------
(***************************************************************************)
(* The GitHub jobs, for any repositories, events, windows and thresholds.  *)
(*                                                                         *)
(* 1. The runs: the sync and the snapshot account for every repository.    *)
(* 2. The tables: what is stored is never lost, and counted once in the    *)
(*    daily history and twice for its author.  The argument: the sync, the *)
(*    roll-up and the backfill are never at work together; what has been   *)
(*    rolled up is older than the window of any sync to come, so that it   *)
(*    is not stored again; and what the roll-up deletes is what it has     *)
(*    read.                                                                *)
(* 3. The deactivation of repositories: a counter that is shared is never  *)
(*    ahead of the answers that count.                                     *)
(* 4. The cursor the containers share: a transaction that has the row is   *)
(*    the only one that has it, so that what it has read is what is        *)
(*    committed until it writes.                                           *)
(***************************************************************************)
EXTENDS GithubPipeline, GithubClient, FiniteSetTheorems, WellFoundedInduction, TLAPS

(* A set of numbers that is not empty has a least element.                   *)
LEMMA LeastNat == ASSUME NEW T \in SUBSET Nat, T # {} PROVE \E x \in T : \A y \in T : x <= y
<1>1. PICK R : R = {ss \in Nat \X Nat : ss[1] < ss[2]}
  OBVIOUS
<1>2. IsWellFoundedOn(R, Nat)
  BY <1>1, NatLessThanWellFounded DEF OpToRel
<1>3. PICK x \in T : \A y \in T : ~ (<<y, x>> \in R)
  BY <1>2, WFMin
<1>4. \A y \in T : ~(y < x)
  BY <1>1, <1>3
<1> QED BY <1>4

(* The maximum of a set of dates is the latest of them.                      *)
LEMMA MaxIs ==
    ASSUME NEW N \in Nat, NEW S \in SUBSET (0 .. N), S # {}
    PROVE  Max(S) \in S /\ \A y \in S : Max(S) >= y
<1>1. PICK T : T = {n \in Nat : \E s \in S : n = N - s}
  OBVIOUS
<1>2. T \subseteq Nat /\ T # {}
  <2>1. PICK s \in S : TRUE
    OBVIOUS
  <2>2. N - s \in T
    BY <1>1
  <2> QED BY <1>1, <2>2
<1>3. PICK m \in T : \A y \in T : m <= y
  BY <1>2, LeastNat
<1>4. PICK x \in S : m = N - x
  BY <1>1, <1>3
<1>5. \A y \in S : x >= y
  <2>1. TAKE y \in S
  <2>2. N - y \in T
    BY <1>1
  <2> QED BY <1>3, <1>4, <2>2
<1> QED BY <1>5 DEF Max

-------------------------------------------------------------------------------
(* 1. The runs of the sync and of the snapshot, step by step.                *)

Pcs == {"idle", "batch", "fetch", "gone", "disable", "repo", "insert", "meta", "stats", "done",
        "tier2", "tier3"}
Answers == UNION {[D -> SUBSET Events] : D \in SUBSET Repos}
JobRuns == [pc : Pcs, tier : Tiers, since : Int, todo : SUBSET Repos, batch : SUBSET Repos,
            left : SUBSET Repos, gone : SUBSET Repos, data : Answers, at : Repos \cup {Nobody},
            stored : SUBSET Events, authors : SUBSET Devs, total : Nat, success : Nat,
            failed : Nat]

(* The repositories of the batch at hand that are neither done nor failed.   *)
Rest(run) == CASE run.pc \in {"fetch", "gone", "repo"} -> run.left
               [] run.pc = "disable" -> run.left \ {run.at}
               [] run.pc \in {"insert", "meta"} -> run.left \cup {run.at}
               [] OTHER -> {}
Due(run) == run.todo \cup Rest(run)

NoBatchFails == world.troubles \cap {"write", "fetch"} = {}

Shaped(run) ==
    /\ run \in JobRuns
    /\ run.left \subseteq run.batch /\ run.gone \subseteq run.left
    /\ run.pc \notin {"gone", "disable"} => run.gone = {}
    /\ run.todo \cap run.batch = {}
    /\ run.pc \in {"idle", "batch", "done", "tier2", "tier3"} => run.batch = {}
    /\ run.pc \in {"repo", "insert", "meta"} => run.left \subseteq DOMAIN run.data
    /\ run.pc \in {"insert", "meta"} => run.at \in (run.batch \cap DOMAIN run.data) \ run.left
    /\ run.pc = "disable" => run.at \in run.gone
    /\ run.pc = "done" => run.todo = {}

Accounted(run) ==
    /\ run.success + run.failed + Cardinality(Due(run)) >= run.total
    /\ NoBatchFails => run.success + run.failed + Cardinality(Due(run)) = run.total

(* Of the sync, what the run has stored and not yet counted.                 *)
Gathered(run) ==
    /\ \A r \in DOMAIN run.data : \A e \in run.data[r] : DateOf[e] >= run.since
    /\ run.pc \in {"idle", "batch", "fetch", "gone", "disable", "done", "tier2", "tier3"} =>
         run.stored = {} 
    /\ Authors(run.stored) \subseteq run.authors

RunOK(run) == Shaped(run) /\ Accounted(run) /\ Gathered(run)


(* A set of repositories is finite.                                          *)
LEMMA CardIsNat == ASSUME NEW S \in SUBSET Repos PROVE IsFiniteSet(S) /\ Cardinality(S) \in Nat
BY FS_Subset, FS_CardinalityType, TablesAssumption

(* A job that does not run is in order.                                      *)
LEMMA NoRunOK == RunOK(NoRun) /\ NoRun.pc = "idle"
<1>1. NoRun \in JobRuns
  <2>1. [r \in {} |-> {}] \in [{} -> SUBSET Events]
    OBVIOUS
  <2>2. [{} -> SUBSET Events] \in {[D -> SUBSET Events] : D \in SUBSET Repos}
    OBVIOUS
  <2>3. PICK a \in Answers : a = [r \in {} |-> {}]
    BY <2>1, <2>2 DEF Answers
  <2>4. NoRun = [pc |-> "idle", tier |-> "active", since |-> 0, todo |-> {}, batch |-> {},
          left |-> {}, gone |-> {}, data |-> a, at |-> Nobody,
          stored |-> {}, authors |-> {}, total |-> 0, success |-> 0, failed |-> 0]
    BY <2>3 DEF NoRun
  <2> QED BY <2>4 DEF JobRuns, Pcs, Tiers
<1>2. Due(NoRun) = {}
  BY DEF Due, Rest, NoRun
<1>3. Cardinality({}) = 0
  BY FS_EmptySet
<1>4. Shaped(NoRun)
  BY <1>1 DEF Shaped, NoRun
<1>5. Accounted(NoRun)
  <2>1. NoRun.success = 0 /\ NoRun.failed = 0 /\ NoRun.total = 0
    BY DEF NoRun
  <2> QED BY <2>1, <1>2, <1>3 DEF Accounted
<1>6. Gathered(NoRun)
  BY DEF Gathered, NoRun, Authors
<1> QED BY <1>4, <1>5, <1>6 DEF RunOK, NoRun

(* A batch that ends: what is left to do is what other batches have.         *)
LEMMA EndedOK ==
    ASSUME NEW run, RunOK(run), Rest(run) = {}
    PROVE  RunOK(Ended(run)) /\ Ended(run).pc \in {"batch", "done"} /\ Ended(run).stored = {}
           /\ Ended(run).since = run.since
<1> DEFINE p == IF run.todo = {} THEN "done" ELSE "batch"
<1>1. PICK v \in JobRuns : v = NoRun
  BY NoRunOK DEF RunOK, Shaped
<1>1a. v.data = NoRun.data /\ DOMAIN NoRun.data = {}
  BY <1>1 DEF NoRun
<1>2. PICK w : w = Ended(run)
  OBVIOUS
<1>3. w = [run EXCEPT !.pc = p, !.left = {}, !.gone = {}, !.data = v.data, !.at = Nobody,
                      !.batch = {}, !.stored = {}, !.authors = {}]
  BY <1>1, <1>2 DEF Ended
<1>4. p \in {"batch", "done"} /\ (p = "done" => run.todo = {})
  OBVIOUS
<1> HIDE DEF p
<1>5. run \in JobRuns
  BY DEF RunOK, Shaped
<1>6. w \in JobRuns
  BY <1>1, <1>3, <1>4, <1>5 DEF JobRuns, Pcs
<1>7. /\ w.pc = p /\ w.left = {} /\ w.gone = {} /\ w.data = v.data /\ w.at = Nobody /\ w.batch = {}
      /\ w.stored = {} /\ w.authors = {} /\ w.todo = run.todo /\ w.total = run.total
      /\ w.success = run.success /\ w.failed = run.failed /\ w.since = run.since
  BY <1>3, <1>5 DEF JobRuns
<1>8. Shaped(w)
  BY <1>4, <1>6, <1>7 DEF Shaped
<1>9. Due(w) = Due(run)
  BY <1>4, <1>7 DEF Due, Rest
<1>10. Accounted(w)
  BY <1>7, <1>9 DEF Accounted, RunOK
<1>11. Gathered(w)
  BY <1>1a, <1>7 DEF Gathered, Authors
<1> QED BY <1>2, <1>4, <1>7, <1>8, <1>10, <1>11 DEF RunOK

(* What is left of a batch is part of it.                                    *)
LEMMA RestInBatch ==
    ASSUME NEW run, Shaped(run)
    PROVE  Rest(run) \subseteq run.batch
BY DEF Rest, Shaped, JobRuns

(* What is still to do is a finite set of repositories.                      *)
LEMMA DueIs ==
    ASSUME NEW run, Shaped(run)
    PROVE  /\ Due(run) \in SUBSET Repos /\ IsFiniteSet(Due(run)) /\ Cardinality(Due(run)) \in Nat
           /\ Cardinality(Due(run)) <= Cardinality(run.todo) + Cardinality(run.batch)
<1>1. /\ run.todo \in SUBSET Repos /\ run.batch \in SUBSET Repos /\ run.todo \cap run.batch = {}
  BY DEF Shaped, JobRuns
<1>2. Due(run) \subseteq run.todo \cup run.batch
  BY RestInBatch DEF Due
<1>3. /\ IsFiniteSet(run.todo) /\ IsFiniteSet(run.batch)
      /\ Cardinality(run.todo) \in Nat /\ Cardinality(run.batch) \in Nat
      /\ IsFiniteSet(run.todo \cup run.batch)
  BY <1>1, CardIsNat
<1>4. Cardinality(run.todo \cup run.batch) = Cardinality(run.todo) + Cardinality(run.batch)
  <2>1. Cardinality(run.todo \cap run.batch) = 0
    BY <1>1, FS_EmptySet
  <2>2. Cardinality(run.todo \cup run.batch)
          = Cardinality(run.todo) + Cardinality(run.batch) - Cardinality(run.todo \cap run.batch)
    BY <1>3, FS_Union
  <2> QED BY <2>1, <2>2, <1>3
<1>5. Cardinality(Due(run)) <= Cardinality(run.todo \cup run.batch)
  BY <1>2, <1>3, FS_Subset
<1>6. Due(run) \in SUBSET Repos
  BY <1>1, <1>2
<1> QED BY <1>3, <1>4, <1>5, <1>6, CardIsNat

(* A batch that throws counts all its repositories as failed. *)
LEMMA ThrownOK ==
    ASSUME NEW run, RunOK(run), ~NoBatchFails
    PROVE  RunOK(Thrown(run)) /\ Thrown(run).pc \in {"batch", "done"} /\ Thrown(run).stored = {}
           /\ Thrown(run).since = run.since
<1>1. run \in JobRuns /\ Shaped(run)
  BY DEF RunOK, Shaped
<1>2. PICK n \in Nat : n = Cardinality(run.batch)
  BY <1>1, CardIsNat DEF JobRuns
<1>3. PICK u : u = [run EXCEPT !.failed = @ + n, !.pc = "stats", !.left = {}, !.gone = {},
                               !.stored = {}]
  OBVIOUS
<1>3a. run.failed + n \in Nat /\ "stats" \in Pcs
  BY <1>1 DEF JobRuns, Pcs
<1>4. /\ u \in JobRuns /\ u.pc = "stats" /\ u.left = {} /\ u.gone = {} /\ u.batch = run.batch
      /\ u.todo = run.todo /\ u.total = run.total /\ u.success = run.success
      /\ u.failed = run.failed + n /\ u.since = run.since /\ u.stored = {}
      /\ u.data = run.data /\ u.authors = run.authors
  BY <1>1, <1>3, <1>3a DEF JobRuns
<1>5. Shaped(u)
  BY <1>1, <1>4 DEF Shaped
<1>6. Rest(u) = {} /\ Due(u) = run.todo
  BY <1>4 DEF Rest, Due
<1>7. Accounted(u)
  <2>1. /\ run.success \in Nat /\ run.failed \in Nat /\ run.total \in Nat
        /\ Cardinality(run.todo) \in Nat
    BY <1>1, CardIsNat DEF JobRuns
  <2>2. run.success + run.failed + Cardinality(Due(run)) >= run.total
    BY DEF RunOK, Accounted
  <2> QED BY <2>1, <2>2, <1>1, <1>2, <1>4, <1>6, DueIs DEF Accounted
<1>8. Gathered(u)
  BY <1>4 DEF Gathered, RunOK, Authors
<1>9. Thrown(run) = Ended(u)
  BY <1>1, <1>2, <1>3 DEF Thrown, Ended, JobRuns
<1> QED
  BY <1>4, <1>5, <1>6, <1>7, <1>8, <1>9, EndedOK DEF RunOK

(* One more repository that failed, or was done. *)
LEMMA OneLess ==
    ASSUME NEW old, NEW new, Shaped(old), Shaped(new), Accounted(old), NEW r \in Due(old),
           Due(new) = Due(old) \ {r}, new.total = old.total,
           new.success + new.failed = old.success + old.failed + 1
    PROVE  Accounted(new)
<1>1. Cardinality(Due(new)) = Cardinality(Due(old)) - 1
  BY DueIs, FS_RemoveElement
<1>2. /\ old.success \in Nat /\ old.failed \in Nat /\ old.total \in Nat
      /\ new.success \in Nat /\ new.failed \in Nat /\ Cardinality(Due(old)) \in Nat
  BY DueIs DEF Shaped, JobRuns
<1> QED BY <1>1, <1>2 DEF Accounted

(* A step that leaves open what was open leaves the account as it is.        *)
LEMMA SameDue ==
    ASSUME NEW old, NEW new, Accounted(old), Due(new) = Due(old), new.total = old.total,
           new.success = old.success, new.failed = old.failed
    PROVE  Accounted(new)
BY DEF Accounted

(* A repository that GitHub cannot resolve is counted as failed, once.       *)
MarkedRun(run, r) == [run EXCEPT !.failed = @ + 1, !.pc = "disable", !.at = r]

(* A repository GitHub cannot resolve is counted as failed                   *)
(* (markRepoUnresolved).                                                     *)
LEMMA MarkedOK ==
    ASSUME NEW run, RunOK(run), run.pc = "gone", NEW r \in run.gone
    PROVE  RunOK(MarkedRun(run, r))
           /\ \A q : Forgotten([run EXCEPT !.failed = @ + 1], q) = Forgotten(MarkedRun(run, r), q)
<1>1. run \in JobRuns /\ Shaped(run) /\ r \in Repos /\ r \in run.left
  BY DEF RunOK, Shaped, JobRuns
<1>2. PICK u : u = MarkedRun(run, r)
  OBVIOUS
<1>2a. run.failed + 1 \in Nat /\ "disable" \in Pcs
  BY <1>1 DEF JobRuns, Pcs
<1>3. u \in JobRuns
  BY <1>1, <1>2, <1>2a DEF JobRuns, MarkedRun
<1>4. /\ u.pc = "disable" /\ u.at = r /\ u.left = run.left /\ u.gone = run.gone
      /\ u.batch = run.batch /\ u.todo = run.todo /\ u.data = run.data
      /\ u.total = run.total /\ u.success = run.success /\ u.failed = run.failed + 1
      /\ u.since = run.since /\ u.stored = run.stored /\ u.authors = run.authors
  BY <1>1, <1>2 DEF JobRuns, MarkedRun
<1>5. Shaped(u)
  BY <1>1, <1>3, <1>4 DEF Shaped
<1>6. Gathered(u)
  BY <1>4 DEF Gathered, RunOK
<1>7. Due(run) = run.todo \cup run.left /\ Due(u) = run.todo \cup (run.left \ {r})
  BY <1>4 DEF Due, Rest
<1>8. r \in Due(run) /\ Due(u) = Due(run) \ {r}
  BY <1>1, <1>7 DEF Shaped
<1>9. u.success + u.failed = run.success + run.failed + 1
  BY <1>1, <1>4 DEF JobRuns
<1>10. Accounted(u)
  BY <1>1, <1>4, <1>5, <1>8, <1>9, OneLess DEF RunOK
<1>11. ASSUME NEW q PROVE Forgotten([run EXCEPT !.failed = @ + 1], q) = Forgotten(u, q)
  <2>1. PICK v : v = [run EXCEPT !.failed = @ + 1]
    OBVIOUS
  <2>2. [v EXCEPT !.gone = @ \ {q}, !.left = @ \ {q}, !.at = Nobody, !.pc = "gone"]
          = [u EXCEPT !.gone = @ \ {q}, !.left = @ \ {q}, !.at = Nobody, !.pc = "gone"]
    BY <1>1, <1>2, <2>1 DEF MarkedRun, JobRuns
  <2>3. Forgotten(v, q) = Forgotten(u, q)
    BY <2>2 DEF Forgotten
  <2> QED BY <2>1, <2>3
<1> QED BY <1>2, <1>5, <1>6, <1>10, <1>11 DEF RunOK

(* A run goes on without a repository it has just deactivated.               *)
LEMMA ForgottenOK ==
    ASSUME NEW run, RunOK(run), run.pc = "disable"
    PROVE  /\ RunOK(Forgotten(run, run.at))
           /\ Forgotten(run, run.at).pc \in {"gone", "batch", "fetch", "done"}
           /\ Forgotten(run, run.at).since = run.since
<1>1. run \in JobRuns /\ Shaped(run) /\ run.stored = {} /\ run.at \in run.left
      /\ run.at \in Repos
  BY DEF RunOK, Shaped, Gathered, JobRuns
<1>2. PICK r : r = run.at
  OBVIOUS
<1>3. PICK u : u = [run EXCEPT !.gone = @ \ {r}, !.left = @ \ {r}, !.at = Nobody, !.pc = "gone"]
  OBVIOUS
<1>4. u \in JobRuns
  BY <1>1, <1>2, <1>3 DEF JobRuns, Pcs
<1>5. /\ u.pc = "gone" /\ u.at = Nobody /\ u.left = run.left \ {r} /\ u.gone = run.gone \ {r}
      /\ u.batch = run.batch /\ u.todo = run.todo /\ u.data = run.data
      /\ u.total = run.total /\ u.success = run.success /\ u.failed = run.failed
      /\ u.since = run.since /\ u.stored = run.stored /\ u.authors = run.authors
  BY <1>1, <1>3 DEF JobRuns
<1>6. Shaped(u) /\ Gathered(u)
  BY <1>1, <1>4, <1>5 DEF Shaped, Gathered, RunOK
<1>7. Due(run) = run.todo \cup (run.left \ {r}) /\ Due(u) = Due(run)
  BY <1>2, <1>5 DEF Due, Rest
<1>8. Accounted(u)
  BY <1>5, <1>7, SameDue DEF RunOK
<1>9. CASE u.gone # {}
  <2>1. Forgotten(run, run.at) = u
    BY <1>2, <1>3, <1>9 DEF Forgotten
  <2> QED BY <2>1, <1>5, <1>6, <1>8 DEF RunOK
<1>10. CASE u.gone = {} /\ u.left = {}
  <2>1. Forgotten(run, run.at) = Ended(u)
    BY <1>2, <1>3, <1>10 DEF Forgotten
  <2>2. Rest(u) = {}
    BY <1>5, <1>10 DEF Rest
  <2> QED BY <2>1, <2>2, <1>5, <1>6, <1>8, EndedOK DEF RunOK
<1>11. CASE u.gone = {} /\ u.left # {}
  <2>1. PICK v : v = [u EXCEPT !.pc = "fetch"]
    OBVIOUS
  <2>2. Forgotten(run, run.at) = v
    BY <1>2, <1>3, <1>11, <2>1 DEF Forgotten
  <2>3. v \in JobRuns
    BY <1>4, <2>1 DEF JobRuns, Pcs
  <2>4. /\ v.pc = "fetch" /\ v.at = Nobody /\ v.left = u.left /\ v.gone = u.gone
        /\ v.batch = u.batch /\ v.todo = u.todo /\ v.data = u.data
        /\ v.total = u.total /\ v.success = u.success /\ v.failed = u.failed
        /\ v.since = u.since /\ v.stored = u.stored /\ v.authors = u.authors
    BY <1>4, <1>5, <2>1 DEF JobRuns
  <2>5. Shaped(v) /\ Gathered(v)
    BY <1>6, <1>5, <1>1, <1>11, <2>3, <2>4 DEF Shaped, Gathered
  <2>6. Due(v) = Due(u)
    BY <1>5, <2>4 DEF Due, Rest
  <2>7. Accounted(v)
    BY <1>8, <2>4, <2>6, SameDue
  <2> QED BY <2>2, <2>4, <2>5, <2>7, <1>5 DEF RunOK
<1> QED BY <1>9, <1>10, <1>11

(* A step that moves a run on without a repository being done or failing.    *)
LEMMA MovedOK ==
    ASSUME NEW run, RunOK(run), NEW u \in JobRuns, Shaped(u), Gathered(u),
           u.todo = run.todo, Rest(u) = Rest(run), u.total = run.total,
           u.success = run.success, u.failed = run.failed
    PROVE  RunOK(u)
<1>1. Due(u) = Due(run)
  BY DEF Due
<1> QED BY <1>1, SameDue DEF RunOK

(* A repository that is at work, and how it ends: done or failed. *)
TakenRun(run, r, p) == [run EXCEPT !.left = @ \ {r}, !.at = r, !.pc = p]

(* A run takes the next repository of its batch.                             *)
LEMMA TakenOK ==
    ASSUME NEW run, RunOK(run), run.pc = "repo", NEW r \in run.left, NEW p \in {"insert", "meta"}
    PROVE  RunOK(TakenRun(run, r, p)) /\ TakenRun(run, r, p).pc = p
           /\ RepoFailed([run EXCEPT !.left = @ \ {r}, !.at = r]) = RepoFailed(TakenRun(run, r, p))
<1>1. run \in JobRuns /\ Shaped(run) /\ r \in Repos /\ r \in run.batch /\ r \in DOMAIN run.data
  BY DEF RunOK, Shaped, JobRuns
<1>2. PICK u : u = TakenRun(run, r, p)
  OBVIOUS
<1>3. u \in JobRuns
  BY <1>1, <1>2 DEF JobRuns, Pcs, TakenRun
<1>4. /\ u.pc = p /\ u.at = r /\ u.left = run.left \ {r} /\ u.gone = run.gone
      /\ u.batch = run.batch /\ u.todo = run.todo /\ u.data = run.data
      /\ u.total = run.total /\ u.success = run.success /\ u.failed = run.failed
      /\ u.since = run.since /\ u.stored = run.stored /\ u.authors = run.authors
  BY <1>1, <1>2 DEF JobRuns, TakenRun
<1>5. Shaped(u)
  <2>1. u.pc \in {"insert", "meta"} /\ u.at \in (u.batch \cap DOMAIN u.data) \ u.left
    BY <1>1, <1>4
  <2>2. u.left \subseteq DOMAIN u.data
    BY <1>1, <1>4 DEF Shaped
  <2>3. u.left \subseteq u.batch /\ u.gone = {} /\ u.todo \cap u.batch = {}
    BY <1>1, <1>4 DEF Shaped
  <2> QED BY <2>1, <2>2, <2>3, <1>3 DEF Shaped
<1>5a. Gathered(u)
  BY <1>1, <1>4 DEF Gathered, RunOK
<1>7. Rest(u) = Rest(run)
  <2>1. Rest(run) = run.left
    BY DEF Rest
  <2>2. Rest(u) = (run.left \ {r}) \cup {r}
    BY <1>4 DEF Rest
  <2> QED BY <2>1, <2>2
<1>8. RepoFailed([run EXCEPT !.left = @ \ {r}, !.at = r]) = RepoFailed(u)
  BY <1>1, <1>2 DEF RepoFailed, TakenRun, JobRuns
<1> QED BY <1>2, <1>3, <1>4, <1>5, <1>5a, <1>7, <1>8, MovedOK

(* A repository at work is counted once, as done or as failed.               *)
LEMMA RepoEnds ==
    ASSUME NEW run, RunOK(run), run.pc \in {"insert", "meta"}, NEW u \in JobRuns,
           u.pc = "repo", u.at = Nobody, u.left = run.left, u.gone = run.gone,
           u.batch = run.batch, u.todo = run.todo, u.data = run.data, u.total = run.total,
           u.since = run.since, u.stored = run.stored, u.authors = run.authors,
           u.success + u.failed = run.success + run.failed + 1
    PROVE  RunOK(u)
<1>1. run \in JobRuns /\ Shaped(run)
  BY DEF RunOK, Shaped
<1>2. Shaped(u) /\ Gathered(u)
  BY <1>1 DEF Shaped, Gathered, RunOK
<1>3. Rest(run) = run.left \cup {run.at} /\ Rest(u) = run.left
  BY DEF Rest
<1>4. Due(u) = Due(run) \ {run.at} /\ run.at \in Due(run)
  BY <1>1, <1>3 DEF Due, Shaped
<1> QED BY <1>1, <1>2, <1>4, OneLess DEF RunOK

RepoDone(run) == [run EXCEPT !.success = @ + 1, !.pc = "repo", !.at = Nobody]

(* The two ends of a repository keep a run in order.                         *)
LEMMA RepoEndsOK ==
    ASSUME NEW run, RunOK(run), run.pc \in {"insert", "meta"},
           NEW u \in {RepoFailed(run), RepoDone(run)}
    PROVE  RunOK(u) /\ u.pc = "repo" /\ u.stored = run.stored /\ u.since = run.since
<1>1. run \in JobRuns /\ Shaped(run)
  BY DEF RunOK, Shaped
<1>2. run.success \in Nat /\ run.failed \in Nat /\ "repo" \in Pcs
  BY <1>1 DEF JobRuns, Pcs
<1>3. CASE u = RepoFailed(run)
  <2>1. PICK m \in Nat : m = run.failed + 1
    BY <1>2
  <2>2. u = [run EXCEPT !.failed = m, !.pc = "repo", !.at = Nobody]
    BY <1>1, <1>3, <2>1 DEF RepoFailed, JobRuns
  <2>3. u \in JobRuns
    BY <1>1, <1>2, <2>2 DEF JobRuns
  <2>4. /\ u.pc = "repo" /\ u.at = Nobody /\ u.left = run.left /\ u.gone = run.gone
        /\ u.batch = run.batch /\ u.todo = run.todo /\ u.data = run.data
        /\ u.total = run.total /\ u.since = run.since /\ u.stored = run.stored
        /\ u.authors = run.authors /\ u.success = run.success /\ u.failed = m
    BY <1>1, <2>2 DEF JobRuns
  <2> QED BY <1>1, <1>2, <2>1, <2>3, <2>4, RepoEnds
<1>4. CASE u = RepoDone(run)
  <2>1. PICK m \in Nat : m = run.success + 1
    BY <1>2
  <2>2. u = [run EXCEPT !.success = m, !.pc = "repo", !.at = Nobody]
    BY <1>1, <1>4, <2>1 DEF RepoDone, JobRuns
  <2>3. u \in JobRuns
    BY <1>1, <1>2, <2>2 DEF JobRuns
  <2>4. /\ u.pc = "repo" /\ u.at = Nobody /\ u.left = run.left /\ u.gone = run.gone
        /\ u.batch = run.batch /\ u.todo = run.todo /\ u.data = run.data
        /\ u.total = run.total /\ u.since = run.since /\ u.stored = run.stored
        /\ u.authors = run.authors /\ u.failed = run.failed /\ u.success = m
    BY <1>1, <2>2 DEF JobRuns
  <2> QED BY <1>1, <1>2, <2>1, <2>3, <2>4, RepoEnds
<1> QED BY <1>3, <1>4

(* An insert that went through. *)
InsertedRun(run, reported) ==
    [run EXCEPT !.pc = "meta", !.stored = @ \cup reported,
                !.authors = @ \cup Authors(run.data[run.at])]

(* A run keeps what the database reports as inserted.                        *)
LEMMA InsertedOK ==
    ASSUME NEW run, RunOK(run), run.pc = "insert",
           NEW reported, reported \subseteq run.data[run.at]
    PROVE  /\ RunOK(InsertedRun(run, reported))
           /\ InsertedRun(run, reported).stored = run.stored \cup reported
           /\ InsertedRun(run, reported).since = run.since
           /\ InsertedRun(run, reported).pc = "meta"
           /\ run.data[run.at] \subseteq Events
<1>1. run \in JobRuns /\ Shaped(run) /\ run.at \in DOMAIN run.data
  BY DEF RunOK, Shaped
<1>2. PICK E : E = run.data[run.at]
  OBVIOUS
<1>3. E \subseteq Events
  BY <1>1, <1>2 DEF JobRuns, Answers
<1>4. Authors(E) \subseteq Devs /\ Authors(run.stored \cup reported) \subseteq run.authors \cup Authors(E)
  BY <1>1, <1>2, <1>3, TablesAssumption DEF Authors, RunOK, Gathered
<1>5. PICK A : A = Authors(E)
  OBVIOUS
<1>6. PICK u : u = [run EXCEPT !.pc = "meta", !.stored = @ \cup reported, !.authors = @ \cup A]
  OBVIOUS
<1>7. u = InsertedRun(run, reported)
  BY <1>2, <1>5, <1>6 DEF InsertedRun
<1>8. u \in JobRuns
  BY <1>1, <1>2, <1>3, <1>4, <1>5, <1>6 DEF JobRuns, Pcs
<1>9. /\ u.pc = "meta" /\ u.at = run.at /\ u.left = run.left /\ u.gone = run.gone
      /\ u.batch = run.batch /\ u.todo = run.todo /\ u.data = run.data /\ u.total = run.total
      /\ u.success = run.success /\ u.failed = run.failed
      /\ u.since = run.since /\ u.stored = run.stored \cup reported
      /\ u.authors = run.authors \cup A
  BY <1>1, <1>6 DEF JobRuns
<1>10. Shaped(u)
  BY <1>1, <1>8, <1>9 DEF Shaped
<1>11. Gathered(u)
  BY <1>4, <1>5, <1>9 DEF Gathered, RunOK
<1>12. Rest(u) = Rest(run)
  BY <1>9 DEF Rest
<1> QED BY <1>2, <1>3, <1>7, <1>8, <1>9, <1>10, <1>11, <1>12, MovedOK

(* The first step of a run, or of the next tier. *)
BegunRun(t, since, mine) == [NoRun EXCEPT !.tier = t, !.since = since,
                                          !.total = Cardinality(mine)]

(* A run begins with all its repositories, to do or failed.                  *)
LEMMA BegunOK ==
    ASSUME NEW t \in Tiers, NEW since \in Int, NEW mine \in SUBSET Repos,
           NEW run, run = BegunRun(t, since, mine)
    PROVE  /\ RunOK([run EXCEPT !.todo = mine, !.pc = IF mine = {} THEN "done" ELSE "batch"])
           /\ RunOK([run EXCEPT !.failed = run.total, !.pc = "done"])
<1>1. PICK v \in JobRuns : v = NoRun
  BY NoRunOK DEF RunOK, Shaped
<1>2. /\ v.left = {} /\ v.gone = {} /\ DOMAIN v.data = {} /\ v.batch = {} /\ v.stored = {}
      /\ v.authors = {} /\ v.success = 0 /\ v.failed = 0 /\ v.todo = {}
  BY <1>1 DEF NoRun
<1>3. PICK n \in Nat : n = Cardinality(mine)
  BY CardIsNat
<1>4. run = [v EXCEPT !.tier = t, !.since = since, !.total = n]
  BY <1>1, <1>3 DEF BegunRun
<1>5. PICK p \in {"done", "batch"} : /\ p = IF mine = {} THEN "done" ELSE "batch"
                                     /\ p = "done" => mine = {}
  OBVIOUS
<1>6. PICK u : u = [run EXCEPT !.todo = mine, !.pc = p]
  OBVIOUS
<1>7. /\ u \in JobRuns /\ u.pc = p /\ u.todo = mine /\ u.total = n /\ u.left = {} /\ u.gone = {}
      /\ u.data = v.data /\ u.batch = {} /\ u.stored = {} /\ u.authors = {}
      /\ u.success = 0 /\ u.failed = 0
  BY <1>1, <1>2, <1>4, <1>6 DEF JobRuns, Pcs
<1>8. Due(u) = mine
  BY <1>7 DEF Due, Rest
<1>9. Shaped(u) /\ Gathered(u)
  BY <1>2, <1>5, <1>7 DEF Shaped, Gathered, Authors
<1>10. RunOK(u)
  BY <1>3, <1>7, <1>8, <1>9 DEF Accounted, RunOK
<1>11. PICK x : x = [run EXCEPT !.failed = n, !.pc = "done"]
  OBVIOUS
<1>12. /\ x \in JobRuns /\ x.pc = "done" /\ x.todo = {} /\ x.total = n /\ x.left = {}
       /\ x.gone = {} /\ x.data = v.data /\ x.batch = {} /\ x.stored = {} /\ x.authors = {}
       /\ x.success = 0 /\ x.failed = n
  BY <1>1, <1>2, <1>4, <1>11 DEF JobRuns, Pcs
<1>13. Due(x) = {} /\ Cardinality({}) = 0
  BY <1>12, FS_EmptySet DEF Due, Rest
<1>14. Shaped(x) /\ Gathered(x)
  BY <1>2, <1>12 DEF Shaped, Gathered, Authors
<1>15. RunOK(x)
  BY <1>12, <1>13, <1>14 DEF Accounted, RunOK
<1>16. run.total = n
  BY <1>1, <1>4 DEF JobRuns
<1> QED BY <1>5, <1>6, <1>10, <1>11, <1>15, <1>16

BatchRun(run, b) == [run EXCEPT !.pc = "fetch", !.batch = b, !.left = b, !.todo = @ \ b,
                                !.stored = {}, !.authors = {}]

(* A batch is taken from what is to do.                                      *)
LEMMA BatchOK ==
    ASSUME NEW run, RunOK(run), run.pc = "batch", NEW b \in SUBSET run.todo
    PROVE  RunOK(BatchRun(run, b)) /\ BatchRun(run, b).stored = {}
           /\ BatchRun(run, b).since = run.since /\ BatchRun(run, b).pc = "fetch"
<1>1. run \in JobRuns /\ Shaped(run)
  BY DEF RunOK, Shaped
<1>2. PICK u : u = BatchRun(run, b)
  OBVIOUS
<1>3. u \in JobRuns
  BY <1>1, <1>2 DEF JobRuns, Pcs, BatchRun
<1>4. /\ u.pc = "fetch" /\ u.batch = b /\ u.left = b /\ u.gone = run.gone /\ u.todo = run.todo \ b
      /\ u.stored = {} /\ u.authors = {} /\ u.data = run.data /\ u.total = run.total
      /\ u.success = run.success /\ u.failed = run.failed /\ u.since = run.since
  BY <1>1, <1>2 DEF JobRuns, BatchRun
<1>5. Shaped(u) /\ Gathered(u)
  BY <1>1, <1>3, <1>4 DEF Shaped, Gathered, RunOK, Authors
<1>6. Rest(run) = {} /\ Rest(u) = b
  BY <1>4 DEF Rest
<1>7. Due(u) = Due(run)
  BY <1>4, <1>6 DEF Due
<1>8. Accounted(u)
  BY <1>4, <1>7, SameDue DEF RunOK
<1> QED BY <1>2, <1>4, <1>5, <1>8 DEF RunOK

(* An answer for some of the repositories: the others have failed.           *)
AnsweredRun(run, D, answer) ==
    [run EXCEPT !.pc = "repo", !.left = D, !.failed = @ + Cardinality(run.left \ D),
                !.data = answer]

(* GitHub answers for some repositories of the batch, and the others have    *)
(* failed.                                                                   *)
LEMMA AnsweredOK ==
    ASSUME NEW run, RunOK(run), run.pc = "fetch", NEW D \in SUBSET run.left,
           NEW answer \in [D -> SUBSET Events],
           \A r \in D : \A e \in answer[r] : DateOf[e] >= run.since
    PROVE  RunOK(AnsweredRun(run, D, answer)) /\ AnsweredRun(run, D, answer).stored = {}
           /\ AnsweredRun(run, D, answer).since = run.since
           /\ AnsweredRun(run, D, answer).pc = "repo"
<1>1. run \in JobRuns /\ Shaped(run) /\ run.left \in SUBSET Repos
  BY DEF RunOK, Shaped, JobRuns
<1>2. answer \in Answers /\ DOMAIN answer = D
  BY <1>1 DEF Answers
<1>3. PICK n \in Nat : n = Cardinality(run.left \ D)
  BY <1>1, CardIsNat
<1>4. PICK u : u = [run EXCEPT !.pc = "repo", !.left = D, !.failed = @ + n, !.data = answer]
  OBVIOUS
<1>5. u = AnsweredRun(run, D, answer)
  BY <1>3, <1>4 DEF AnsweredRun
<1>6. run.failed + n \in Nat /\ "repo" \in Pcs
  BY <1>1 DEF JobRuns, Pcs
<1>7. u \in JobRuns
  BY <1>1, <1>2, <1>4, <1>6 DEF JobRuns
<1>8. /\ u.pc = "repo" /\ u.left = D /\ u.gone = run.gone /\ u.batch = run.batch
      /\ u.todo = run.todo /\ u.data = answer /\ u.total = run.total /\ u.since = run.since
      /\ u.stored = run.stored /\ u.authors = run.authors /\ u.success = run.success
      /\ u.failed = run.failed + n
  BY <1>1, <1>4 DEF JobRuns
<1>9. Shaped(u)
  BY <1>1, <1>2, <1>7, <1>8 DEF Shaped
<1>10. Gathered(u) /\ u.stored = {}
  BY <1>2, <1>8 DEF Gathered, RunOK
<1>11. Due(run) = run.todo \cup run.left /\ Due(u) = run.todo \cup D
  BY <1>8 DEF Due, Rest
<1>12. run.todo \cap run.left = {}
  BY <1>1 DEF Shaped
<1>13. Due(u) \subseteq Due(run) /\ Due(run) \ Due(u) = run.left \ D
  BY <1>11, <1>12
<1>14. Cardinality(Due(run)) = Cardinality(Due(u)) + n
  <2>1. Cardinality(Due(run) \ Due(u)) = Cardinality(Due(run)) - Cardinality(Due(run) \cap Due(u))
    BY <1>1, DueIs, FS_Difference
  <2>2. Due(run) \cap Due(u) = Due(u)
    BY <1>13
  <2>3. Cardinality(Due(run)) \in Nat /\ Cardinality(Due(u)) \in Nat
    BY <1>1, <1>9, DueIs
  <2>4. Cardinality(Due(run) \ Due(u)) = n
    BY <1>3, <1>13
  <2> QED BY <2>1, <2>2, <2>3, <2>4
<1>15. Accounted(u)
  <2>1. /\ run.success \in Nat /\ run.failed \in Nat /\ run.total \in Nat
        /\ Cardinality(Due(u)) \in Nat
    BY <1>1, <1>9, DueIs DEF JobRuns
  <2>2. u.success + u.failed + Cardinality(Due(u))
          = run.success + run.failed + Cardinality(Due(run))
    BY <2>1, <1>3, <1>8, <1>14
  <2> QED BY <2>2, <1>8 DEF RunOK, Accounted
<1> QED BY <1>5, <1>8, <1>9, <1>10, <1>15 DEF RunOK

GoneRun(run, gone) == [run EXCEPT !.pc = "gone", !.gone = gone]

(* GitHub names repositories it cannot resolve.                              *)
LEMMA GoneOK ==
    ASSUME NEW run, RunOK(run), run.pc = "fetch", NEW gone \in SUBSET run.left,
           NEW u, u = GoneRun(run, gone)
    PROVE  RunOK(u) /\ u.stored = {} /\ u.since = run.since /\ u.pc = "gone"
<1>1. run \in JobRuns /\ Shaped(run) /\ run.left \in SUBSET Repos /\ run.stored = {}
  BY DEF RunOK, Shaped, JobRuns, Gathered
<1>2. u \in JobRuns
  BY <1>1 DEF JobRuns, Pcs, GoneRun
<1>3. /\ u.pc = "gone" /\ u.left = run.left /\ u.gone = gone /\ u.batch = run.batch
      /\ u.todo = run.todo /\ u.data = run.data /\ u.total = run.total /\ u.since = run.since
      /\ u.stored = run.stored /\ u.authors = run.authors /\ u.success = run.success
      /\ u.failed = run.failed
  BY <1>1 DEF JobRuns, GoneRun
<1>4. Shaped(u)
  BY <1>1, <1>2, <1>3 DEF Shaped
<1>5. Gathered(u) /\ u.stored = {}
  BY <1>1, <1>3 DEF Gathered, RunOK
<1>6. Rest(u) = Rest(run)
  BY <1>3 DEF Rest
<1> QED BY <1>2, <1>3, <1>4, <1>5, <1>6, MovedOK

StatsRun(run) == [run EXCEPT !.pc = "stats"]

(* The authors are written and the counts are next.                          *)
LEMMA StatsOK ==
    ASSUME NEW run, RunOK(run), run.pc = "repo", run.left = {},
           NEW u, u = StatsRun(run)
    PROVE  RunOK(u) /\ u.stored = run.stored /\ u.since = run.since /\ u.pc = "stats"
           /\ u.authors = run.authors
<1>1. run \in JobRuns /\ Shaped(run)
  BY DEF RunOK, Shaped, JobRuns, Gathered
<1>2. u \in JobRuns
  BY <1>1 DEF JobRuns, Pcs, StatsRun
<1>3. /\ u.pc = "stats" /\ u.left = {} /\ u.gone = run.gone /\ u.batch = run.batch
      /\ u.todo = run.todo /\ u.data = run.data /\ u.total = run.total /\ u.since = run.since
      /\ u.stored = run.stored /\ u.authors = run.authors /\ u.success = run.success
      /\ u.failed = run.failed
  BY <1>1 DEF JobRuns, StatsRun
<1>4. Shaped(u)
  BY <1>1, <1>2, <1>3 DEF Shaped
<1>5. Gathered(u)
  BY <1>1, <1>3 DEF Gathered, RunOK
<1>6. Rest(u) = Rest(run)
  BY <1>3 DEF Rest
<1> QED BY <1>2, <1>3, <1>4, <1>5, <1>6, MovedOK

TierRun(run, p) == [run EXCEPT !.pc = p]

(* The next update of the tiers.                                             *)
LEMMA TierOK ==
    ASSUME NEW run, RunOK(run), run.pc \in {"done", "tier2", "tier3"}, NEW p \in {"tier2", "tier3"},
           NEW u, u = TierRun(run, p)
    PROVE  RunOK(u) /\ u.stored = {} /\ u.since = run.since /\ u.pc = p
<1>1. run \in JobRuns /\ Shaped(run) /\ run.stored = {}
  BY DEF RunOK, Shaped, JobRuns, Gathered
<1>2. u \in JobRuns
  BY <1>1 DEF JobRuns, Pcs, TierRun
<1>3. /\ u.pc = p /\ u.left = run.left /\ u.gone = run.gone /\ u.batch = run.batch
      /\ u.todo = run.todo /\ u.data = run.data /\ u.total = run.total /\ u.since = run.since
      /\ u.stored = run.stored /\ u.authors = run.authors /\ u.success = run.success
      /\ u.failed = run.failed
  BY <1>1 DEF JobRuns, TierRun
<1>4. Shaped(u)
  BY <1>1, <1>2, <1>3 DEF Shaped
<1>5. Gathered(u) /\ u.stored = {}
  BY <1>1, <1>3 DEF Gathered, RunOK
<1>6. Rest(u) = {} /\ Rest(run) = {}
  BY <1>3 DEF Rest
<1> QED BY <1>2, <1>3, <1>4, <1>5, <1>6, MovedOK

JobsOK == job \in [Batchers -> JobRuns] /\ \A j \in Batchers : RunOK(job[j])
WorldOK == world.events \subseteq Events

(* A run of j goes on with u. *)
MovesTo(j, u) == RunOK(u) /\ job' = [job EXCEPT ![j] = u]

(* What every step of a run but Insert, UpsertDevelopers and UpdateStats     *)
(* does to what it has gathered.                                             *)
SmallMove(j) == \E u :
    /\ MovesTo(j, u)
    /\ u.pc # "stats"
    /\ \/ u.pc = "idle"
       \/ job[j].pc # "idle" /\ u.since = job[j].since
       \/ j = "sync" => u.since = now - Window
    /\ j = "sync" /\ Without({"write", "crash"}) => u.stored = job[j].stored

(* A run in order that goes on in order keeps both jobs in order.            *)
LEMMA JobsStep ==
    ASSUME JobsOK, world' = world, NEW j \in Batchers, NEW u, MovesTo(j, u)
    PROVE  JobsOK'
<1>1. u \in JobRuns
  BY DEF MovesTo, RunOK, Shaped
<1>2. job' \in [Batchers -> JobRuns]
  BY <1>1 DEF MovesTo, JobsOK
<1>3. ASSUME NEW k \in Batchers PROVE RunOK(job[k])'
  <2>1. PICK v : v = job'[k]
    OBVIOUS
  <2>2. RunOK(v)
    BY <2>1 DEF JobsOK, MovesTo
  <2> QED BY <2>1, <2>2 DEF RunOK, Accounted, NoBatchFails
<1> QED BY <1>2, <1>3 DEF JobsOK

(* What a write can do: only a fault applies it twice or not at all.         *)
LEMMA WrittenIs ==
    ASSUME NEW w \in Writes, Written(w)
    PROVE  /\ w.times \in {0, 1, 2} /\ w.ok \in BOOLEAN
           /\ w.ok => w.times \in {1, 2}
           /\ Without({"write"}) => w = Clean /\ w.times = 1 /\ w.ok
           /\ ~w.ok => ~NoBatchFails /\ ~Without({"write", "crash"})
           /\ faults \in Nat => faults' \in Nat
<1>1. /\ w.times \in {0, 1, 2} /\ w.ok \in BOOLEAN /\ (w.ok => w.times \in {1, 2})
      /\ Clean.ok /\ Clean.times = 1
  <2>1. PICK n \in {0, 1, 2}, b \in BOOLEAN : w = [times |-> n, ok |-> b] /\ (b = FALSE \/ n \in {1, 2})
    BY Zenon DEF Writes, Clean
  <2>2. w.times = n /\ w.ok = b
    BY <2>1
  <2>3. Clean.ok /\ Clean.times = 1
    BY Zenon DEF Clean
  <2> QED BY <2>1, <2>2, <2>3
<1>2. CASE w = Clean
  BY <1>1, <1>2 DEF Written
<1>3. CASE w # Clean
  <2>1. "write" \in world.troubles /\ faults > 0 /\ faults' = faults - 1
    BY <1>3 DEF Written, Trouble
  <2>2. faults \in Nat => faults' \in Nat
    BY <2>1
  <2> QED BY <1>1, <2>1, <2>2 DEF Without, NoBatchFails
<1> QED BY <1>2, <1>3

(* A run that begins, and the next tier of a run.                            *)
LEMMA BeginMove ==
    ASSUME JobsOK, TablesTypeOK, NEW j \in Batchers, NEW t \in Tiers, Begin(j, t),
           job[j].pc \in {"idle", "done"}
    PROVE  SmallMove(j) /\ (faults \in Nat => faults' \in Nat)
<1>1. RunOK(job[j]) /\ job[j].stored = {} /\ NoRun.stored = {}
  BY DEF JobsOK, RunOK, Gathered, NoRun
<1>2. PICK mine : mine = Candidates(j, t)
  OBVIOUS
<1>3. mine \in SUBSET Repos
  BY <1>2 DEF Candidates
<1>4. PICK since : since = IF j = "sync" THEN Since ELSE 0
  OBVIOUS
<1>5. since \in Int /\ (j = "sync" => since = now - Window)
  BY <1>4, TablesAssumption DEF Since, TablesTypeOK
<1>6. PICK run : run = BegunRun(t, since, mine)
  OBVIOUS
<1>7. run = [NoRun EXCEPT !.tier = t, !.since = IF j = "sync" THEN Since ELSE 0,
                          !.total = Cardinality(mine)]
  BY <1>4, <1>6 DEF BegunRun
<1>8. /\ RunOK([run EXCEPT !.todo = mine, !.pc = IF mine = {} THEN "done" ELSE "batch"])
      /\ RunOK([run EXCEPT !.failed = run.total, !.pc = "done"])
  BY <1>3, <1>5, <1>6, BegunOK
<1>9. NoRun \in JobRuns
  BY NoRunOK DEF RunOK, Shaped
<1>10. PICK u : /\ u \in {[run EXCEPT !.todo = mine, !.pc = IF mine = {} THEN "done" ELSE "batch"],
                          [run EXCEPT !.failed = run.total, !.pc = "done"]}
                /\ job' = [job EXCEPT ![j] = u]
                /\ faults' = faults \/ Trouble("failfast")
  BY <1>2, <1>7 DEF Begin, Goto
<1>11. RunOK(u)
  BY <1>8, <1>10
<1>12. run.since = since /\ run.stored = {}
  BY <1>1, <1>7, <1>4, <1>9 DEF JobRuns
<1>13. u.since = since /\ u.stored = {} /\ u.pc # "stats"
  BY <1>7, <1>9, <1>10, <1>12 DEF JobRuns
<1>14. faults \in Nat => faults' \in Nat
  BY <1>10 DEF Trouble
<1> QED BY <1>1, <1>5, <1>10, <1>11, <1>13, <1>14 DEF SmallMove, MovesTo

(* A run that ends, or is stopped by a crash.                                *)
LEMMA IdleMove ==
    ASSUME JobsOK, NEW j \in Batchers, job' = [job EXCEPT ![j] = NoRun],
           Without({"crash"}) => job[j].pc \in {"done", "tier2", "tier3"}
    PROVE  SmallMove(j)
<1>1. RunOK(NoRun) /\ NoRun.pc = "idle" /\ NoRun.stored = {}
  BY NoRunOK DEF NoRun
<1>2. Without({"write", "crash"}) => job[j].stored = {}
  BY DEF JobsOK, RunOK, Gathered, Without
<1> QED BY <1>1, <1>2 DEF SmallMove, MovesTo

(* A batch that throws.                                                      *)
LEMMA ThrownMove ==
    ASSUME JobsOK, NEW j \in Batchers, job' = [job EXCEPT ![j] = Thrown(job[j])], ~NoBatchFails,
           job[j].pc # "idle",
           job[j].pc \in {"fetch", "gone", "disable"} \/ ~Without({"write"})
    PROVE  SmallMove(j)
<1>1. RunOK(job[j])
  BY DEF JobsOK
<1>2. /\ RunOK(Thrown(job[j])) /\ Thrown(job[j]).pc \in {"batch", "done"}
      /\ Thrown(job[j]).stored = {} /\ Thrown(job[j]).since = job[j].since
  BY <1>1, ThrownOK
<1>3. Without({"write", "crash"}) => job[j].stored = {}
  BY <1>1 DEF RunOK, Gathered, Without
<1> QED BY <1>2, <1>3 DEF SmallMove, MovesTo

(* The next batch.                                                           *)
LEMMA NextBatchMove ==
    ASSUME JobsOK, NEW j \in Batchers, NextBatch(j)
    PROVE  SmallMove(j)
<1>1. RunOK(job[j]) /\ job[j].pc = "batch" /\ job[j].stored = {}
  BY DEF JobsOK, NextBatch, RunOK, Gathered
<1>2. PICK b \in SUBSET job[j].todo : job' = [job EXCEPT ![j] = BatchRun(job[j], b)]
  BY DEF NextBatch, Goto, BatchRun
<1>3. RunOK(BatchRun(job[j], b)) /\ BatchRun(job[j], b).stored = {}
           /\ BatchRun(job[j], b).since = job[j].since /\ BatchRun(job[j], b).pc = "fetch"
  BY <1>1, BatchOK
<1> QED BY <1>1, <1>2, <1>3 DEF SmallMove, MovesTo

(* The answers of GitHub to a batch.                                         *)
LEMMA FetchMove ==
    ASSUME JobsOK, WorldOK, NEW j \in Batchers, Fetch(j)
    PROVE  SmallMove(j) /\ (faults \in Nat => faults' \in Nat)
<1>1. RunOK(job[j]) /\ job[j].pc = "fetch" /\ job[j].stored = {} /\ job[j] \in JobRuns
  BY DEF JobsOK, Fetch, RunOK, Gathered
<1> DEFINE run == job[j]
           Given(D) == [r \in D |-> IF j = "sync" THEN Visible(r, job[j].since) ELSE {}]
<1>2. CASE \E D \in SUBSET run.left : /\ faults' = faults \/ Trouble("fetch")
                                      /\ job' = [job EXCEPT ![j] = AnsweredRun(run, D, Given(D))]
  <2>1. PICK D \in SUBSET run.left : /\ faults' = faults \/ Trouble("fetch")
                                     /\ job' = [job EXCEPT ![j] = AnsweredRun(run, D, Given(D))]
    BY <1>2
  <2>2. Given(D) \in [D -> SUBSET Events]
    BY DEF Visible, WorldOK
  <2>3. \A r \in D : \A e \in Given(D)[r] : DateOf[e] >= run.since
    <3>1. \A r \in D : \A e \in Given(D)[r] : e \in Visible(r, run.since)
      OBVIOUS
    <3>2. run.since \in Int
      BY <1>1 DEF JobRuns
    <3> QED BY <3>1, <3>2 DEF Visible
  <2>4. RunOK(AnsweredRun(run, D, Given(D))) /\ AnsweredRun(run, D, Given(D)).stored = {}
           /\ AnsweredRun(run, D, Given(D)).since = run.since
           /\ AnsweredRun(run, D, Given(D)).pc = "repo"
    BY <1>1, <2>2, <2>3, AnsweredOK
  <2>5. PICK u : u = AnsweredRun(run, D, Given(D))
    OBVIOUS
  <2>6. job' = [job EXCEPT ![j] = u] /\ RunOK(u) /\ u.stored = {} /\ u.since = job[j].since
        /\ u.pc # "stats"
    BY <2>1, <2>4, <2>5
  <2>7. SmallMove(j)
    BY <1>1, <2>6 DEF SmallMove, MovesTo
  <2> QED BY <2>1, <2>7 DEF Trouble
<1>3. CASE faults' = faults /\ \E gone \in Unresolvable(run) :
                  job' = [job EXCEPT ![j] = [run EXCEPT !.pc = "gone", !.gone = gone]]
  <2>1. PICK gone \in SUBSET run.left :
                  job' = [job EXCEPT ![j] = [run EXCEPT !.pc = "gone", !.gone = gone]]
    BY <1>3 DEF Unresolvable
  <2>2. PICK u : u = GoneRun(run, gone)
    OBVIOUS
  <2>3. RunOK(u) /\ u.stored = {} /\ u.since = run.since /\ u.pc = "gone"
    BY <1>1, <2>1, <2>2, GoneOK
  <2> QED BY <1>1, <1>3, <2>1, <2>2, <2>3 DEF SmallMove, MovesTo, GoneRun
<1>4. CASE Trouble("fetch") /\ job' = [job EXCEPT ![j] = Thrown(run)]
  <2>1. ~NoBatchFails
    BY <1>4 DEF Trouble, NoBatchFails
  <2>2. SmallMove(j)
    BY <1>1, <1>4, <2>1, ThrownMove
  <2> QED BY <1>4, <2>2 DEF Trouble
<1> QED
  BY <1>2, <1>3, <1>4 DEF Fetch, Goto, AnsweredRun

(* What follows when a repository that cannot be resolved is dealt with.     *)
LEMMA ForgottenMove ==
    ASSUME JobsOK, NEW j \in Batchers, NEW u, RunOK(u), u.pc = "disable", u.since = job[j].since,
           job[j].pc \in {"gone", "disable"},
           job' = [job EXCEPT ![j] = Forgotten(u, u.at)]
    PROVE  SmallMove(j)
<1>1. PICK v : v = Forgotten(u, u.at)
  OBVIOUS
<1>2. RunOK(v) /\ v.pc \in {"gone", "batch", "fetch", "done"} /\ v.since = u.since
  BY <1>1, ForgottenOK
<1>3. v.stored = {} /\ job[j].stored = {}
  BY <1>2 DEF RunOK, Gathered, JobsOK
<1> QED BY <1>1, <1>2, <1>3 DEF SmallMove, MovesTo

(* An answer that counts against a repository.                               *)
LEMMA MarkMove ==
    ASSUME JobsOK, NEW j \in Batchers, MarkUnresolved(j)
    PROVE  SmallMove(j) /\ (faults \in Nat => faults' \in Nat)
<1>1. RunOK(job[j]) /\ job[j].pc = "gone" /\ job[j].stored = {}
  BY DEF JobsOK, MarkUnresolved, RunOK, Gathered
<1>2. PICK r \in job[j].gone, w \in Writes :
        /\ Written(w)
        /\ LET run == [job[j] EXCEPT !.failed = @ + 1] IN
             job' = [job EXCEPT ![j] = 
                    IF ~w.ok THEN Thrown(job[j])
                    ELSE IF Capped(counters["activityUnresolved"][r] + w.times) < Threshold
                         THEN Forgotten(run, r)
                    ELSE [run EXCEPT !.pc = "disable", !.at = r]]
  BY DEF MarkUnresolved, Goto
<1>3. PICK u : u = MarkedRun(job[j], r)
  OBVIOUS
<1>4. RunOK(u) /\ \A q : Forgotten([job[j] EXCEPT !.failed = @ + 1], q) = Forgotten(u, q)
  BY <1>1, <1>3, MarkedOK
<1>5. job[j] \in JobRuns
  BY <1>1 DEF RunOK, Shaped
<1>6. u.pc = "disable" /\ u.at = r /\ u.since = job[j].since /\ u.stored = {}
      /\ u = [[job[j] EXCEPT !.failed = @ + 1] EXCEPT !.pc = "disable", !.at = r]
  BY <1>1, <1>3, <1>5 DEF MarkedRun, JobRuns
<1>7. CASE ~w.ok
  BY <1>1, <1>2, <1>7, ThrownMove, WrittenIs
<1>8. CASE job' = [job EXCEPT ![j] = Forgotten(u, u.at)]
  BY <1>1, <1>2, <1>4, <1>6, <1>8, ForgottenMove, WrittenIs
<1>9. CASE job' = [job EXCEPT ![j] = u]
  BY <1>1, <1>2, <1>4, <1>6, <1>9, WrittenIs DEF SmallMove, MovesTo
<1> QED
  BY <1>2, <1>4, <1>6, <1>7, <1>8, <1>9

(* A repository is deactivated.                                              *)
LEMMA DisableMove ==
    ASSUME JobsOK, NEW j \in Batchers, Disable(j)
    PROVE  SmallMove(j) /\ (faults \in Nat => faults' \in Nat)
<1>1. RunOK(job[j]) /\ job[j].pc = "disable"
  BY DEF JobsOK, Disable
<1>2. PICK w \in Writes :
        /\ Written(w)
        /\ job' = [job EXCEPT ![j] = IF w.ok THEN Forgotten(job[j], job[j].at) ELSE Thrown(job[j])]
  BY DEF Disable, Goto
<1>3. CASE ~w.ok
  BY <1>1, <1>2, <1>3, ThrownMove, WrittenIs
<1>4. CASE w.ok
  BY <1>1, <1>2, <1>4, ForgottenMove, WrittenIs
<1> QED BY <1>3, <1>4

(* The next repository of a batch.                                           *)
LEMMA NextRepoMove ==
    ASSUME JobsOK, NEW j \in Batchers, NextRepo(j)
    PROVE  SmallMove(j) /\ (faults \in Nat => faults' \in Nat)
<1>1. RunOK(job[j]) /\ job[j].pc = "repo" /\ job[j] \in JobRuns
  BY DEF JobsOK, NextRepo
<1>2. PICK r \in job[j].left :
        LET run == [job[j] EXCEPT !.left = @ \ {r}, !.at = r] IN
        \/ /\ job' = [job EXCEPT ![j] = [run EXCEPT !.pc = IF j = "sync" THEN "insert" ELSE "meta"]]
           /\ faults' = faults
        \/ Trouble("failfast") /\ job' = [job EXCEPT ![j] = RepoFailed(run)]
  BY DEF NextRepo, Goto
<1>3. PICK p \in {"insert", "meta"} : p = IF j = "sync" THEN "insert" ELSE "meta"
  OBVIOUS
<1>4. PICK u : u = TakenRun(job[j], r, p)
  OBVIOUS
<1>5. /\ RunOK(u) /\ u.pc = p
      /\ RepoFailed([job[j] EXCEPT !.left = @ \ {r}, !.at = r]) = RepoFailed(u)
  BY <1>1, <1>4, TakenOK
<1>6. /\ u.since = job[j].since /\ u.stored = job[j].stored
      /\ u = [[job[j] EXCEPT !.left = @ \ {r}, !.at = r] EXCEPT !.pc = p]
  BY <1>1, <1>4 DEF TakenRun, JobRuns
<1>7. CASE job' = [job EXCEPT ![j] = u] /\ faults' = faults
  BY <1>1, <1>5, <1>6, <1>7 DEF SmallMove, MovesTo
<1>8. CASE Trouble("failfast") /\ job' = [job EXCEPT ![j] = RepoFailed(u)]
  <2>1. PICK v : v = RepoFailed(u)
    OBVIOUS
  <2>2. RunOK(v) /\ v.pc = "repo" /\ v.stored = u.stored /\ v.since = u.since
    BY <1>5, <2>1, RepoEndsOK
  <2>3. SmallMove(j)
    BY <1>1, <1>6, <1>8, <2>1, <2>2 DEF SmallMove, MovesTo
  <2> QED BY <1>8, <2>3 DEF Trouble
<1> QED
  BY <1>2, <1>3, <1>5, <1>6, <1>7, <1>8

(* The metadata of a repository, with which it is done.                      *)
LEMMA MetaMove ==
    ASSUME JobsOK, NEW j \in Batchers, Meta(j)
    PROVE  SmallMove(j) /\ (faults \in Nat => faults' \in Nat)
<1>1. RunOK(job[j]) /\ job[j].pc = "meta"
  BY DEF JobsOK, Meta
<1>2. PICK w \in Writes :
        /\ Written(w)
        /\ job' = [job EXCEPT ![j] = IF w.ok THEN RepoDone(job[j]) ELSE RepoFailed(job[j])]
  BY DEF Meta, Goto, RepoDone
<1>3. PICK u : u = IF w.ok THEN RepoDone(job[j]) ELSE RepoFailed(job[j])
  OBVIOUS
<1>4. RunOK(u) /\ u.pc = "repo" /\ u.stored = job[j].stored /\ u.since = job[j].since
  BY <1>1, <1>3, RepoEndsOK
<1> QED BY <1>1, <1>2, <1>3, <1>4, WrittenIs DEF SmallMove, MovesTo

(* The three updates of the tiers.                                           *)
LEMMA RetierMove ==
    ASSUME JobsOK, Retier
    PROVE  SmallMove("sync") /\ (faults \in Nat => faults' \in Nat)
<1>0. "sync" \in Batchers
  BY DEF Batchers
<1>1. RunOK(job["sync"]) /\ job["sync"].pc \in {"done", "tier2", "tier3"} /\ job["sync"].stored = {}
  BY <1>0 DEF JobsOK, Retier, RunOK, Gathered
<1>1a. PICK k \in 1 .. 3 : k = CASE job["sync"].pc = "done" -> 1
                                 [] job["sync"].pc = "tier2" -> 2 [] OTHER -> 3
  <2>1. CASE job["sync"].pc = "done"
    BY <2>1
  <2>2. CASE job["sync"].pc = "tier2"
    BY <2>2
  <2>3. CASE job["sync"].pc = "tier3"
    BY <2>3
  <2> QED BY <1>1, <2>1, <2>2, <2>3
<1>2. PICK w \in Writes :
        /\ Written(w)
        /\ job' = [job EXCEPT !["sync"] = IF w.ok /\ k < 3
                       THEN [job["sync"] EXCEPT !.pc = <<"tier2", "tier3", "idle">>[k]]
                       ELSE NoRun]
  BY <1>1a DEF Retier, Goto
<1>3. CASE job' = [job EXCEPT !["sync"] = NoRun]
  BY <1>0, <1>1, <1>2, <1>3, IdleMove, WrittenIs
<1>4. ASSUME NEW p \in {"tier2", "tier3"}, job' = [job EXCEPT !["sync"] = TierRun(job["sync"], p)]
      PROVE  SmallMove("sync")
  <2>1. PICK u : u = TierRun(job["sync"], p)
    OBVIOUS
  <2>2. RunOK(u) /\ u.stored = {} /\ u.since = job["sync"].since /\ u.pc = p
    BY <1>1, <2>1, TierOK
  <2> QED BY <1>1, <1>4, <2>1, <2>2 DEF SmallMove, MovesTo
<1>5. CASE k = 1 /\ w.ok
  BY <1>2, <1>4, <1>5, WrittenIs DEF TierRun
<1>6. CASE k = 2 /\ w.ok
  BY <1>2, <1>4, <1>6, WrittenIs DEF TierRun
<1>7. CASE ~w.ok \/ k = 3
  <2>1. ~(w.ok /\ k < 3)
    BY <1>7
  <2> QED BY <1>2, <1>3, <2>1
<1> QED BY <1>5, <1>6, <1>7

(* A snapshot goes from batch to batch without storing events.               *)
LEMMA UpsertMove ==
    ASSUME JobsOK, UpsertDevelopers("snapshot")
    PROVE  SmallMove("snapshot") /\ UNCHANGED <<developers, faults>>
<1>1. RunOK(job["snapshot"]) /\ job["snapshot"].pc = "repo" /\ job["snapshot"].left = {}
  BY DEF JobsOK, UpsertDevelopers, Batchers
<1>2. Rest(job["snapshot"]) = {}
  BY <1>1 DEF Rest
<1>3. PICK u : u = Ended(job["snapshot"])
  OBVIOUS
<1>4. RunOK(u) /\ u.pc \in {"batch", "done"} /\ u.since = job["snapshot"].since
  BY <1>1, <1>2, <1>3, EndedOK
<1> QED BY <1>3, <1>4 DEF SmallMove, MovesTo, UpsertDevelopers, Goto

(* The sync has stored the events of a batch, and has their authors stored.  *)
LEMMA AuthorsStep ==
    ASSUME JobsOK, UpsertDevelopers("sync"), developers \subseteq Devs
    PROVE  /\ \E u : /\ MovesTo("sync", u) /\ u.since = job["sync"].since
                     /\ Without({"write", "crash"}) => u.stored = job["sync"].stored
                     /\ u.pc = "stats" => Authors(u.stored) \subseteq developers'
           /\ developers \subseteq developers' /\ developers' \subseteq Devs
           /\ faults \in Nat => faults' \in Nat
<1> DEFINE run == job["sync"]
<1>1. RunOK(run) /\ run.pc = "repo" /\ run.left = {}
  BY DEF JobsOK, UpsertDevelopers, Batchers
<1>2. PICK w \in Writes :
        /\ Written(w)
        /\ developers' = IF w.times = 0 THEN developers ELSE developers \cup run.authors
        /\ job' = [job EXCEPT !["sync"] = IF w.ok THEN StatsRun(run) ELSE Thrown(run)]
  BY DEF UpsertDevelopers, Goto, StatsRun
<1>3. run.authors \subseteq Devs /\ Authors(run.stored) \subseteq run.authors
  BY <1>1 DEF RunOK, Shaped, Gathered, JobRuns
<1>4. developers \subseteq developers' /\ developers' \subseteq Devs /\ (faults \in Nat => faults' \in Nat)
  BY <1>2, <1>3, WrittenIs
<1>5. CASE w.ok
  <2>1. PICK u : u = StatsRun(run)
    OBVIOUS
  <2>2. RunOK(u) /\ u.stored = run.stored /\ u.since = run.since
    BY <1>1, <2>1, StatsOK
  <2>3. developers' = developers \cup run.authors
    BY <1>2, <1>5, WrittenIs
  <2> QED BY <1>2, <1>3, <1>4, <1>5, <2>1, <2>2, <2>3 DEF MovesTo
<1>6. CASE ~w.ok
  <2>1. PICK u : u = Thrown(run)
    OBVIOUS
  <2>2. ~NoBatchFails /\ ~Without({"write", "crash"})
    BY <1>2, <1>6, WrittenIs
  <2>3. RunOK(u) /\ u.pc \in {"batch", "done"} /\ u.since = run.since
    BY <1>1, <2>1, <2>2, ThrownOK
  <2> QED BY <1>2, <1>4, <1>6, <2>1, <2>2, <2>3 DEF MovesTo
<1> QED BY <1>5, <1>6

(* What updateDeveloperRepoStats adds, and how the run goes on.              *)
LEMMA StatsStep ==
    ASSUME JobsOK, UpdateStats
    PROVE  \E u, w : /\ MovesTo("sync", u) /\ u.since = job["sync"].since
                     /\ u.pc # "stats" /\ u.stored = {}
                     /\ w \in Writes /\ Written(w) /\ credit' = Credited(job["sync"].stored, w.times)
<1> DEFINE run == job["sync"]
<1>1. RunOK(run) /\ run.pc = "stats"
  BY DEF JobsOK, UpdateStats, Batchers
<1>2. PICK w \in Writes :
        /\ Written(w)
        /\ credit' = Credited(run.stored, w.times)
        /\ job' = [job EXCEPT !["sync"] = IF w.ok THEN Ended(run) ELSE Thrown(run)]
  BY DEF UpdateStats, Goto
<1>3. PICK u : u = IF w.ok THEN Ended(run) ELSE Thrown(run)
  OBVIOUS
<1>4. Rest(run) = {}
  BY <1>1 DEF Rest
<1>5. ~w.ok => ~NoBatchFails
  BY <1>2, WrittenIs
<1>6. CASE w.ok
  <2>1. u = Ended(run)
    BY <1>3, <1>6
  <2> QED BY <1>1, <1>2, <1>4, <1>6, <2>1, EndedOK DEF MovesTo
<1>7. CASE ~w.ok
  <2>1. u = Thrown(run)
    BY <1>3, <1>7
  <2> QED BY <1>1, <1>2, <1>5, <1>7, <2>1, ThrownOK DEF MovesTo
<1> QED BY <1>6, <1>7

(* What insertRecentEventsReturningInserted stores and reports.              *)
LEMMA InsertStep ==
    ASSUME JobsOK, Insert
    PROVE  /\ \E u : /\ MovesTo("sync", u) /\ u.since = job["sync"].since
                     /\ u.pc \in {"meta", "repo"}
                     /\ Without({"write"}) => u.stored = job["sync"].stored \cup (recent' \ recent)
           /\ recent \subseteq recent' /\ recent' \ recent \subseteq Events
           /\ \A e \in recent' \ recent : DateOf[e] >= job["sync"].since
           /\ seen' = seen \cup recent'
           /\ faults \in Nat => faults' \in Nat
<1> DEFINE run == job["sync"]
           E == run.data[run.at]
<1>1. RunOK(run) /\ run.pc = "insert"
  BY DEF JobsOK, Insert, Batchers
<1>2. E \subseteq Events
  <2>1. {} \subseteq E
    OBVIOUS
  <2> QED BY <1>1, <2>1, InsertedOK
<1>3. \A e \in E : DateOf[e] >= run.since
  BY <1>1 DEF RunOK, Shaped, Gathered
<1>4. \/ /\ recent' = recent \cup (E \ recent) /\ faults' = faults
         /\ job' = [job EXCEPT !["sync"] = InsertedRun(run, E \ recent)]
      \/ /\ recent' = recent \cup (E \ recent) /\ Trouble("write")
         /\ job' = [job EXCEPT !["sync"] = InsertedRun(run, {})]
      \/ /\ \E some \in SUBSET (E \ recent) : recent' = recent \cup some
         /\ Trouble("write")
         /\ job' = [job EXCEPT !["sync"] = RepoFailed(run)]
  BY DEF Insert, Goto, InsertedRun, Reported
<1>5. /\ recent \subseteq recent' /\ recent' \ recent \subseteq E /\ seen' = seen \cup recent'
      /\ faults \in Nat => faults' \in Nat
  BY <1>4 DEF Insert, Trouble
<1>6. CASE /\ recent' = recent \cup (E \ recent) /\ faults' = faults
           /\ job' = [job EXCEPT !["sync"] = InsertedRun(run, E \ recent)]
  <2>1. PICK u : u = InsertedRun(run, E \ recent)
    OBVIOUS
  <2>2. E \ recent \subseteq E /\ recent' \ recent = E \ recent
    BY <1>6
  <2>3. RunOK(u) /\ u.stored = run.stored \cup (E \ recent) /\ u.since = run.since /\ u.pc = "meta"
    BY <1>1, <2>1, <2>2, InsertedOK
  <2> QED BY <1>2, <1>3, <1>5, <1>6, <2>1, <2>2, <2>3 DEF MovesTo
<1>7. CASE /\ Trouble("write")
           /\ job' = [job EXCEPT !["sync"] = InsertedRun(run, {})]
  <2>1. PICK u : u = InsertedRun(run, {})
    OBVIOUS
  <2>2. {} \subseteq E /\ ~Without({"write"})
    BY <1>7 DEF Trouble, Without
  <2>3. RunOK(u) /\ u.since = run.since /\ u.pc = "meta"
    BY <1>1, <2>1, <2>2, InsertedOK
  <2> QED BY <1>2, <1>3, <1>5, <1>7, <2>1, <2>2, <2>3 DEF MovesTo
<1>8. CASE Trouble("write") /\ job' = [job EXCEPT !["sync"] = RepoFailed(run)]
  <2>1. PICK u : u = RepoFailed(run)
    OBVIOUS
  <2>2. ~Without({"write"})
    BY <1>8 DEF Trouble, Without
  <2>3. RunOK(u) /\ u.since = run.since /\ u.pc = "repo"
    BY <1>1, <2>1, RepoEndsOK
  <2> QED BY <1>2, <1>3, <1>5, <1>8, <2>1, <2>2, <2>3 DEF MovesTo
<1> QED BY <1>4, <1>6, <1>7, <1>8

-------------------------------------------------------------------------------
(* The types of everything.                                                  *)

RollPcs == {"idle", "history", "credit", "delete", "totals"}
FillPcs == {"idle", "next", "fetch", "history", "credit", "clear", "failed", "disable"}
Whys    == {"none", "unresolved", "transient", "other"}
RollOK == roll \in [pc : RollPcs, cutoff : Int, old : SUBSET Events]
FillOK ==
    /\ fill \in [pc : FillPcs, todo : SUBSET Repos, at : Repos \cup {Nobody},
                 found : SUBSET Events, authors : SUBSET Devs, why : Whys]
    /\ fill.pc \notin {"idle", "next"} => fill.at \in Repos
StrikesOK == strikes \in [Repos -> [sync : 0 .. MaxCount, fill : 0 .. MaxCount,
                                    streak : 0 .. MaxCount]]

Typed == /\ TablesTypeOK /\ WorldOK /\ faults \in Nat
         /\ seen \subseteq Events /\ recent \subseteq seen
         /\ JobsOK /\ RollOK /\ FillOK /\ StrikesOK


(* Which actions change which tables. *)
LEMMA WorldStays == Next =>
    world' = world
BY DEF Next, SyncRun, SnapshotRun, RollRun, FillRun, Tick, Discover, Start, SyncStep,
       BatchStep, CrashOf, NextBatch, Fetch, MarkUnresolved, Disable, NextRepo, Meta,
       UpsertDevelopers, End, Insert, UpdateStats, NextTier, Retier, RollRead,
       RollStep, RollHistory, RollCredit, RollDelete, Recompute, CrashOfRoll,
       FillStart, FillStep, FillNext, FillFetch, FillHistory, FillCredit, FillMark,
       FillClear, FillFailed, FillDisable, CrashOfFill, tables, syncVars

(* Only the clock moves the time.                                            *)
LEMMA NowMoves == Next =>
    UNCHANGED now \/ Tick
BY DEF Next, SyncRun, SnapshotRun, RollRun, FillRun, Discover, Start, SyncStep,
       BatchStep, CrashOf, NextBatch, Fetch, MarkUnresolved, Disable, NextRepo, Meta,
       UpsertDevelopers, End, Insert, UpdateStats, NextTier, Retier, RollRead,
       RollStep, RollHistory, RollCredit, RollDelete, Recompute, CrashOfRoll,
       FillStart, FillStep, FillNext, FillFetch, FillHistory, FillCredit, FillMark,
       FillClear, FillFailed, FillDisable, CrashOfFill, tables, syncVars

(* Events are stored by the sync and leave by the roll-up.                   *)
LEMMA RecentMoves == Next =>
    UNCHANGED <<recent, seen>> \/ Insert \/ RollDelete
BY DEF Next, SyncRun, SnapshotRun, RollRun, FillRun, Tick, Discover, Start, SyncStep,
       BatchStep, CrashOf, NextBatch, Fetch, MarkUnresolved, Disable, NextRepo, Meta,
       UpsertDevelopers, End, UpdateStats, NextTier, Retier, RollRead, RollStep,
       RollHistory, RollCredit, Recompute, CrashOfRoll, FillStart, FillStep,
       FillNext, FillFetch, FillHistory, FillCredit, FillMark, FillClear, FillFailed,
       FillDisable, CrashOfFill, tables, syncVars

(* The daily history is written by the roll-up and by the backfill.          *)
LEMMA HistoryMoves == Next =>
    UNCHANGED <<history, days>> \/ RollHistory \/ FillHistory
BY DEF Next, SyncRun, SnapshotRun, RollRun, FillRun, Tick, Discover, Start, SyncStep,
       BatchStep, CrashOf, NextBatch, Fetch, MarkUnresolved, Disable, NextRepo, Meta,
       UpsertDevelopers, End, Insert, UpdateStats, NextTier, Retier, RollRead,
       RollStep, RollCredit, RollDelete, Recompute, CrashOfRoll, FillStart, FillStep,
       FillNext, FillFetch, FillCredit, FillMark, FillClear, FillFailed, FillDisable,
       CrashOfFill, tables, syncVars

(* Who writes what is counted for a developer.                               *)
LEMMA CreditMoves == Next =>
    UNCHANGED credit \/ UpdateStats \/ RollCredit \/ FillCredit
BY DEF Next, SyncRun, SnapshotRun, RollRun, FillRun, Tick, Discover, Start, SyncStep,
       BatchStep, CrashOf, NextBatch, Fetch, MarkUnresolved, Disable, NextRepo, Meta,
       UpsertDevelopers, End, Insert, NextTier, Retier, RollRead, RollStep,
       RollHistory, RollDelete, Recompute, CrashOfRoll, FillStart, FillStep,
       FillNext, FillFetch, FillHistory, FillMark, FillClear, FillFailed,
       FillDisable, CrashOfFill, tables, syncVars

(* Who writes the developers.                                                *)
LEMMA DevelopersMove == Next =>
    UNCHANGED developers \/ UpsertDevelopers("sync") \/ UpsertDevelopers("snapshot") \/ FillCredit
BY DEF Next, SyncRun, SnapshotRun, RollRun, FillRun, Tick, Discover, Start, SyncStep,
       BatchStep, CrashOf, NextBatch, Fetch, MarkUnresolved, Disable, NextRepo, Meta,
       End, Insert, UpdateStats, NextTier, Retier, RollRead, RollStep, RollHistory,
       RollCredit, RollDelete, Recompute, CrashOfRoll, FillStart, FillStep, FillNext,
       FillFetch, FillHistory, FillMark, FillClear, FillFailed, FillDisable,
       CrashOfFill, tables, syncVars

(* Only the roll-up recomputes the totals.                                   *)
LEMMA TotalsMove == Next =>
    UNCHANGED totals \/ Recompute
BY DEF Next, SyncRun, SnapshotRun, RollRun, FillRun, Tick, Discover, Start, SyncStep,
       BatchStep, CrashOf, NextBatch, Fetch, MarkUnresolved, Disable, NextRepo, Meta,
       UpsertDevelopers, End, Insert, UpdateStats, NextTier, Retier, RollRead,
       RollStep, RollHistory, RollCredit, RollDelete, CrashOfRoll, FillStart,
       FillStep, FillNext, FillFetch, FillHistory, FillCredit, FillMark, FillClear,
       FillFailed, FillDisable, CrashOfFill, tables, syncVars

(* Who writes the repositories.                                              *)
LEMMA RepoMoves == Next =>
    \/ UNCHANGED repo
    \/ \E j \in Batchers : Disable(j) \/ Meta(j)
    \/ Retier \/ FillMark \/ FillDisable
    \/ \E r \in Repos : Discover(r)
BY DEF Batchers, Next, SyncRun, SnapshotRun, RollRun, FillRun, Tick, Start, SyncStep,
       BatchStep, CrashOf, NextBatch, Fetch, MarkUnresolved, NextRepo,
       UpsertDevelopers, End, Insert, UpdateStats, NextTier, RollRead, RollStep,
       RollHistory, RollCredit, RollDelete, Recompute, CrashOfRoll, FillStart,
       FillStep, FillNext, FillFetch, FillHistory, FillCredit, FillClear, FillFailed,
       CrashOfFill, tables, syncVars

(* Who writes the shared counters, and when an answer counts.                *)
LEMMA CountersMove == Next =>
    \/ UNCHANGED <<counters, strikes>>
    \/ \E j \in Batchers : MarkUnresolved(j)
    \/ FillClear \/ FillFailed
BY DEF Batchers, Next, SyncRun, SnapshotRun, RollRun, FillRun, Tick, Discover, Start, SyncStep,
       BatchStep, CrashOf, NextBatch, Fetch, Disable, NextRepo, Meta,
       UpsertDevelopers, End, Insert, UpdateStats, NextTier, Retier, RollRead,
       RollStep, RollHistory, RollCredit, RollDelete, Recompute, CrashOfRoll,
       FillStart, FillStep, FillNext, FillFetch, FillHistory, FillCredit, FillMark,
       FillDisable, CrashOfFill, tables, syncVars

(* The steps of the roll-up.                                                 *)
LEMMA RollMoves == Next =>
    UNCHANGED roll \/ (Alone /\ RollRead) \/ RollStep \/ CrashOfRoll
BY DEF Next, SyncRun, SnapshotRun, RollRun, FillRun, Tick, Discover, Start, SyncStep,
       BatchStep, CrashOf, NextBatch, Fetch, MarkUnresolved, Disable, NextRepo, Meta,
       UpsertDevelopers, End, Insert, UpdateStats, NextTier, Retier, FillStart,
       FillStep, FillNext, FillFetch, FillHistory, FillCredit, FillMark, FillClear,
       FillFailed, FillDisable, CrashOfFill, tables, syncVars

(* The steps of the backfill.                                                *)
LEMMA FillMoves == Next =>
    UNCHANGED fill \/ (Alone /\ FillStart) \/ FillStep \/ CrashOfFill
BY DEF Next, SyncRun, SnapshotRun, RollRun, FillRun, Tick, Discover, Start, SyncStep,
       BatchStep, CrashOf, NextBatch, Fetch, MarkUnresolved, Disable, NextRepo, Meta,
       UpsertDevelopers, End, Insert, UpdateStats, NextTier, Retier, RollRead,
       RollStep, RollHistory, RollCredit, RollDelete, Recompute, CrashOfRoll, tables,
       syncVars

(* The runs are changed by their own steps only.                             *)
LEMMA JobMoves == Next =>
    \/ UNCHANGED job
    \/ SyncRun
    \/ SnapshotRun
BY DEF Next, RollRun, FillRun, Tick, Discover, Start, CrashOf, NextBatch, Fetch,
       MarkUnresolved, Disable, NextRepo, Meta, UpsertDevelopers, End, Insert,
       UpdateStats, NextTier, Retier, RollRead, RollStep, RollHistory, RollCredit,
       RollDelete, Recompute, CrashOfRoll, FillStart, FillStep, FillNext, FillFetch,
       FillHistory, FillCredit, FillMark, FillClear, FillFailed, FillDisable,
       CrashOfFill, tables, syncVars

(* Counting up to the bound.                                                 *)
LEMMA CappedTyped ==
    ASSUME NEW n \in 0 .. MaxCount, NEW k \in {0, 1, 2}
    PROVE  /\ Capped(n + k) \in 0 .. MaxCount /\ Capped(n + k) >= n
           /\ Capped(n + k) <= n + k
           /\ n = 0 \/ n = 1 => Capped(n + 1) = n + 1
           /\ k > 0 => Capped(n + k) > 0
BY TablesAssumption DEF Capped

(* What adding a set of events to a bag of events does.                      *)
LEMMA PlusIs ==
    ASSUME NEW bag \in [Events -> 0 .. MaxCount], NEW E \in SUBSET Events, NEW k \in {0, 1, 2}
    PROVE  /\ Plus(bag, E, k) \in [Events -> 0 .. MaxCount]
           /\ \A e \in Events : Plus(bag, E, k)[e] >= bag[e]
           /\ \A e \in Events \ E : Plus(bag, E, k)[e] = bag[e]
           /\ \A e \in E : Plus(bag, E, k)[e] = Capped(bag[e] + k)
<1>1. \A e \in Events : bag[e] \in 0 .. MaxCount
  OBVIOUS
<1> QED BY <1>1, CappedTyped DEF Plus

(* In the beginning everything is of its type.                               *)
LEMMA InitTyped == Init => Typed
<1> SUFFICES ASSUME Init PROVE Typed
  OBVIOUS
<1>1. 0 \in 0 .. MaxDay /\ 0 \in 0 .. MaxCount /\ 0 \in Nat /\ Never \in Never .. MaxDay
  BY TablesAssumption DEF Never
<1>2. NewRepo \in [tier : Tiers, active : BOOLEAN, last : Never .. MaxDay, filled : BOOLEAN]
  BY <1>1 DEF NewRepo, Tiers
<1>3. Unknown \in [tier : Tiers, active : BOOLEAN, last : Never .. MaxDay, filled : BOOLEAN]
  BY <1>2 DEF Unknown
<1>4. repo \in [Repos -> [tier : Tiers, active : BOOLEAN, last : Never .. MaxDay,
                           filled : BOOLEAN]]
  BY <1>2, <1>3 DEF Init, TablesInit
<1>5. counters \in [CounterKinds -> [Repos -> 0 .. MaxCount]]
  BY <1>1 DEF Init, TablesInit
<1>6. TablesTypeOK
  BY <1>1, <1>4, <1>5 DEF Init, TablesInit, TablesTypeOK
<1>7. JobsOK
  <2>1. RunOK(NoRun) /\ NoRun \in JobRuns
    BY NoRunOK DEF RunOK, Shaped
  <2> QED BY <2>1 DEF JobsOK, Init, SyncInit
<1>8. RollOK
  BY DEF RollOK, RollPcs, Init, RollupInit, NoRoll
<1>9. FillOK
  BY DEF FillOK, FillPcs, Whys, Init, RollupInit, NoFill
<1>10. StrikesOK
  BY <1>1 DEF StrikesOK, Init, SyncInit
<1> QED
  BY <1>6, <1>7, <1>8, <1>9, <1>10 DEF Typed, Init, TablesInit, SyncInit, WorldOK


(* Time does not go back.                                                    *)
LEMMA NowTyped == ASSUME Typed, Next PROVE now' \in 0 .. MaxDay /\ now' >= now
BY NowMoves, TablesAssumption DEF Typed, TablesTypeOK, Tick

(* The state of the roll-up.                                                 *)
LEMMA RollTyped == ASSUME Typed, Next PROVE RollOK'
<1> USE DEF Typed, TablesTypeOK
<1>1. NoRoll \in [pc : RollPcs, cutoff : Int, old : SUBSET Events]
  BY DEF NoRoll, RollPcs
<1>2. CASE RollRead
  <2>1. now - Window \in Int /\ Old(now - Window) \in SUBSET Events
    BY TablesAssumption DEF Old
  <2> QED BY <1>2, <2>1 DEF RollRead, RollOK, RollPcs
<1>3. ASSUME NEW p \in {"credit", "delete", "totals"}, roll' \in {[roll EXCEPT !.pc = p], NoRoll}
      PROVE  RollOK'
  BY <1>1, <1>3 DEF RollOK, RollPcs
<1>4. CASE RollHistory
  BY <1>3, <1>4 DEF RollHistory
<1>5. CASE RollCredit
  BY <1>3, <1>5 DEF RollCredit
<1>6. CASE RollDelete
  BY <1>3, <1>6 DEF RollDelete
<1>7. CASE Recompute \/ CrashOfRoll
  BY <1>1, <1>7 DEF Recompute, CrashOfRoll, RollOK
<1>8. CASE UNCHANGED roll
  BY <1>8 DEF RollOK
<1> QED BY <1>2, <1>4, <1>5, <1>6, <1>7, <1>8, RollMoves DEF RollStep

(* GitHub shows events only.                                                 *)
LEMMA VisibleTyped == ASSUME WorldOK, NEW r, NEW since PROVE Visible(r, since) \subseteq Events
BY DEF WorldOK, Visible

(* The state of the backfill.                                                *)
LEMMA FillTyped == ASSUME Typed, Next PROVE FillOK'
<1> USE DEF Typed
<1> DEFINE Fills == [pc : FillPcs, todo : SUBSET Repos, at : Repos \cup {Nobody},
                 found : SUBSET Events, authors : SUBSET Devs, why : Whys]
<1>1. NoFill \in Fills /\ NoFill.pc = "idle"
  BY DEF NoFill, FillPcs, Whys
<1>2. PICK v \in Fills : v = NoFill
  BY <1>1
<1>2a. v.pc = "idle"
  BY <1>1, <1>2
<1>3. ASSUME NEW todo \in SUBSET Repos, fill' = [v EXCEPT !.pc = "next", !.todo = todo] PROVE FillOK'
  BY <1>3 DEF FillOK, FillPcs
<1>4. CASE fill' = NoFill
  BY <1>1, <1>4 DEF FillOK
<1>5. CASE fill' = [NoFill EXCEPT !.pc = "next", !.todo = fill.todo]
  BY <1>2, <1>3, <1>5 DEF FillOK
<1>6. CASE FillStart
  BY <1>2, <1>3, <1>6 DEF FillStart
<1>7. CASE FillNext
  <2>1. ASSUME NEW r \in fill.todo, fill' = [fill EXCEPT !.pc = "fetch", !.todo = @ \ {r}, !.at = r]
        PROVE FillOK'
    BY <2>1 DEF FillOK, FillPcs
  <2> QED BY <1>4, <1>7, <2>1 DEF FillNext
<1>8. ASSUME NEW why \in {"unresolved", "transient", "other"}, fill' = FillFails(why),
             fill.pc \notin {"idle", "next"}
      PROVE  FillOK'
  BY <1>8 DEF FillFails, FillOK, FillPcs, Whys
<1>9. CASE FillFetch
  <2>1. PICK E : E = UNION {Commits(fill.at), PullRequests(fill.at), Issues(fill.at),
                                Releases(fill.at)}
    OBVIOUS
  <2>2. E \subseteq Events
    BY <2>1, VisibleTyped DEF Commits, PullRequests, Issues, Releases
  <2>3. CASE fill' = [fill EXCEPT !.pc = "history", !.found = E]
    BY <1>9, <2>2, <2>3 DEF FillOK, FillPcs, FillFetch
  <2> QED BY <1>8, <1>9, <2>1, <2>3 DEF FillFetch
<1>10. ASSUME NEW w \in Writes, NEW next, FillWrite(w, next), fill.pc \notin {"idle", "next"},
              fill' = next => FillOK'
       PROVE  FillOK'
  BY <1>8, <1>10 DEF FillWrite
<1>11. CASE FillHistory
  <2>1. PICK A : A = Authors({e \in fill.found : Tracked(e)})
    OBVIOUS
  <2>2. A \subseteq Devs
    BY <2>1, TablesAssumption DEF Authors, FillOK
  <2>3. CASE fill' = [fill EXCEPT !.pc = "credit", !.authors = A]
    BY <1>11, <2>2, <2>3 DEF FillOK, FillPcs, FillHistory
  <2> QED BY <1>10, <1>11, <2>1, <2>3 DEF FillHistory
<1>12. CASE FillCredit
  <2>1. ASSUME NEW d, fill' = [fill EXCEPT !.authors = @ \ {d}] PROVE FillOK'
    BY <1>12, <2>1 DEF FillOK, FillPcs, FillCredit
  <2> QED BY <1>10, <1>12, <2>1 DEF FillCredit
<1>13. CASE FillMark
  <2>1. CASE fill' = [fill EXCEPT !.pc = "clear"]
    BY <1>13, <2>1 DEF FillOK, FillPcs, FillMark
  <2> QED BY <1>10, <1>13, <2>1 DEF FillMark
<1>14. CASE FillClear
  BY <1>5, <1>10, <1>14 DEF FillClear
<1>15. CASE FillFailed
  <2>1. CASE fill' = [fill EXCEPT !.pc = "disable"]
    BY <1>15, <2>1 DEF FillOK, FillPcs, FillFailed
  <2> QED BY <1>4, <1>5, <1>15, <2>1 DEF FillFailed
<1>16. CASE FillDisable
  BY <1>4, <1>5, <1>16 DEF FillDisable
<1>17. CASE UNCHANGED fill
  BY <1>17 DEF FillOK
<1>18. CASE CrashOfFill
  BY <1>4, <1>18 DEF CrashOfFill
<1> QED
  BY <1>6, <1>7, <1>9, <1>11, <1>12, <1>13, <1>14, <1>15, <1>16, <1>17, <1>18, FillMoves DEF FillStep

(* The daily history only grows.                                             *)
LEMMA HistoryTyped ==
    ASSUME Typed, Next
    PROVE  /\ history' \in [Events -> 0 .. MaxCount]
           /\ days' \subseteq Repos \X (0 .. MaxDay)
           /\ \A e \in Events : history'[e] >= history[e]
<1> USE DEF Typed, TablesTypeOK
<1>0. ASSUME NEW E \in SUBSET Events PROVE Buckets(E) \subseteq Repos \X (0 .. MaxDay)
  BY TablesAssumption DEF Buckets
<1>1. \A e \in Events : history[e] \in 0 .. MaxCount
  OBVIOUS
<1>2. CASE UNCHANGED <<history, days>>
  BY <1>1, <1>2
<1>3. CASE RollHistory
  <2>1. PICK w \in Writes : /\ Written(w)
                            /\ history' = Plus(history, {e \in roll.old : InHistory(e)}, w.times)
                            /\ days' = IF w.times = 0 THEN days ELSE days \cup Buckets(roll.old)
    BY <1>3 DEF RollHistory
  <2>2. roll.old \in SUBSET Events /\ {e \in roll.old : InHistory(e)} \in SUBSET Events
    BY DEF RollOK
  <2> QED BY <2>1, <2>2, <1>0, WrittenIs, PlusIs
<1>4. CASE FillHistory
  <2>1. PICK new : new = {e \in fill.found : <<fill.at, DateOf[e]>> \notin days}
    OBVIOUS
  <2>2. new \in SUBSET Events
    BY <2>1 DEF FillOK
  <2>3. \/ UNCHANGED <<history, days>>
        \/ history' = Plus(history, new, 1) /\ days' = days \cup Buckets(new)
    BY <1>4, <2>1 DEF FillHistory
  <2> QED BY <1>1, <2>2, <2>3, <1>0, PlusIs
<1> QED BY <1>2, <1>3, <1>4, HistoryMoves

(* Crediting counts events.                                                  *)
LEMMA CreditedIs ==
    ASSUME Typed, NEW E \in SUBSET Events, NEW k \in {0, 1, 2}
    PROVE  Credited(E, k) \in [Events -> 0 .. MaxCount]
<1>1. {e \in E : ForDeveloper(e) /\ AuthorOf[e] \in developers} \in SUBSET Events
  OBVIOUS
<1> QED BY <1>1, PlusIs DEF Credited, Typed, TablesTypeOK

(* What is counted for a developer is a bag of events.                       *)
LEMMA CreditTyped ==
    ASSUME Typed, Next
    PROVE  credit' \in [Events -> 0 .. MaxCount]
<1> USE DEF Typed, TablesTypeOK
<1>1. CASE UNCHANGED credit
  BY <1>1
<1>2. CASE UpdateStats
  <2>1. PICK w \in Writes : Written(w) /\ credit' = Credited(job["sync"].stored, w.times)
    BY <1>2, StatsStep
  <2>2. job["sync"].stored \in SUBSET Events
    BY DEF JobsOK, JobRuns, Batchers
  <2> QED BY <2>1, <2>2, WrittenIs, CreditedIs
<1>3. CASE RollCredit
  <2>1. PICK w \in Writes : Written(w) /\ credit' = Credited(roll.old, w.times)
    BY <1>3 DEF RollCredit
  <2>2. roll.old \in SUBSET Events
    BY DEF RollOK
  <2> QED BY <2>1, <2>2, WrittenIs, CreditedIs
<1>4. CASE FillCredit
  <2>1. 0 \in 0 .. MaxCount /\ 1 \in 0 .. MaxCount
    BY TablesAssumption
  <2>2. \/ UNCHANGED credit
        \/ \E d : credit' = [e \in Events |-> IF AuthorOf[e] = d /\ RepoOf[e] = fill.at
                                     THEN IF e \in fill.found /\ Tracked(e) THEN 1 ELSE 0
                                     ELSE credit[e]]
    BY <1>4 DEF FillCredit
  <2> QED BY <2>1, <2>2
<1> QED BY <1>1, <1>2, <1>3, <1>4, CreditMoves

(* Developers are never removed.                                             *)
LEMMA DevelopersTyped ==
    ASSUME Typed, Next
    PROVE  developers' \subseteq Devs /\ developers \subseteq developers'
<1> USE DEF Typed, TablesTypeOK
<1>1. CASE UNCHANGED developers
  BY <1>1
<1>2. CASE UpsertDevelopers("sync")
  BY <1>2, AuthorsStep
<1>3. CASE UpsertDevelopers("snapshot")
  BY <1>3, UpsertMove
<1>4. CASE FillCredit
  BY <1>4 DEF FillCredit, FillOK
<1> QED BY <1>1, <1>2, <1>3, <1>4, DevelopersMove

(* The total of a developer is a number: the entries of a bag are finite.    *)
LEMMA TotalIsNat == ASSUME Typed, NEW d PROVE Total(d) \in Nat
<1>1. PICK mine : mine = {e \in Events : AuthorOf[e] = d /\ ForDeveloper(e)}
  OBVIOUS
<1>2. IsFiniteSet(mine) /\ IsFiniteSet(mine \cap recent)
  BY <1>1, TablesAssumption, FS_Subset
<1>3. IsFiniteSet(1 .. MaxCount)
  BY TablesAssumption, FS_Interval
<1>4. IsFiniteSet(mine \X (1 .. MaxCount))
  BY <1>2, <1>3, FS_Product
<1>5. PICK entries : entries = {x \in mine \X (1 .. MaxCount) : x[2] <= credit[x[1]]}
  OBVIOUS
<1>6. IsFiniteSet(entries)
  BY <1>4, <1>5, FS_Subset
<1>7. Cardinality(entries) \in Nat /\ Cardinality(mine \cap recent) \in Nat
  BY <1>2, <1>6, FS_CardinalityType
<1> QED BY <1>1, <1>5, <1>7 DEF Total

(* The totals are numbers.                                                   *)
LEMMA TotalsTyped == ASSUME Typed, Next PROVE totals' \in [Devs -> Nat]
<1>1. CASE UNCHANGED totals
  BY <1>1 DEF Typed, TablesTypeOK
<1>2. CASE Recompute
  BY <1>2, TotalIsNat DEF Typed, TablesTypeOK, Recompute
<1> QED BY <1>1, <1>2, TotalsMove

RepoRows == [tier : Tiers, active : BOOLEAN, last : Never .. MaxDay, filled : BOOLEAN]

(* The rows of the repositories are well-formed.                             *)
LEMMA RepoTyped ==
    ASSUME Typed, Next
    PROVE  repo' \in [Repos -> RepoRows]
<1>0. repo \in [Repos -> RepoRows]
  BY DEF Typed, TablesTypeOK, RepoRows
<1>1. CASE UNCHANGED repo
  BY <1>0, <1>1
<1>2. ASSUME NEW r \in Repos, NEW w, repo' = [repo EXCEPT ![r].active = @ /\ w.times = 0]
      PROVE  repo' \in [Repos -> RepoRows]
  <2>1. PICK b \in BOOLEAN : b = (repo[r].active /\ w.times = 0)
    OBVIOUS
  <2>2. repo' = [repo EXCEPT ![r].active = b]
    BY <1>0, <1>2, <2>1
  <2> QED BY <1>0, <2>2 DEF RepoRows
<1>3. ASSUME NEW j \in Batchers, Disable(j) PROVE repo' \in [Repos -> RepoRows]
  <2>1. job[j].at \in Repos
    BY <1>3 DEF Disable, Typed, JobsOK, RunOK, Shaped, JobRuns
  <2> QED BY <1>2, <1>3, <2>1 DEF Disable
<1>4. ASSUME NEW j \in Batchers, Meta(j) PROVE repo' \in [Repos -> RepoRows]
  <2> DEFINE run == job[j]
             E == run.data[run.at]
  <2>1. E \subseteq Events /\ run.at \in Repos
    BY <1>4 DEF Meta, Typed, JobsOK, RunOK, Shaped, JobRuns, Answers
  <2>2. PICK dates : dates = {DateOf[e] : e \in E}
    OBVIOUS
  <2>3. dates \subseteq 0 .. MaxDay
    BY <2>1, <2>2, TablesAssumption
  <2>4. dates # {} => Max(dates) \in Never .. MaxDay
    <3>1. dates # {} => Max(dates) \in dates
      BY <2>3, TablesAssumption, MaxIs
    <3>2. PICK m : m = Max(dates)
      OBVIOUS
    <3>3. dates # {} => m \in 0 .. MaxDay
      BY <3>1, <3>2, <2>3
    <3>4. \A n \in 0 .. MaxDay : n \in Never .. MaxDay
      BY TablesAssumption DEF Never
    <3> QED BY <3>2, <3>3, <3>4
  <2>5. repo' = repo \/ (dates # {} /\ repo' = [repo EXCEPT ![run.at].last = Max(dates)])
    BY <1>4, <2>2 DEF Meta
  <2> QED BY <1>0, <2>1, <2>4, <2>5 DEF RepoRows
<1>5. CASE Retier
  <2>1. PICK k \in 1 .. 3 : repo' = repo \/ repo' = Retiered(k)
    <3>1. CASE job["sync"].pc = "done"
      BY <1>5, <3>1 DEF Retier
    <3>2. CASE job["sync"].pc = "tier2"
      BY <1>5, <3>2 DEF Retier
    <3>3. CASE job["sync"].pc = "tier3"
      BY <1>5, <3>3 DEF Retier
    <3> QED BY <1>5, <3>1, <3>2, <3>3 DEF Retier
  <2>2. TierUpdates[k].tier \in Tiers
    BY DEF TierUpdates, Tiers
  <2>3. PICK t, S : t \in Tiers /\ t = TierUpdates[k].tier /\ S = TierUpdates[k].when
    BY <2>2
  <2>4. Retiered(k) = [r \in Repos |-> IF r \in S THEN [repo[r] EXCEPT !.tier = t] ELSE repo[r]]
    BY <2>3 DEF Retiered
  <2>5. Retiered(k) \in [Repos -> RepoRows]
    BY <1>0, <2>3, <2>4 DEF RepoRows
  <2> QED BY <1>0, <2>1, <2>5
<1>6. CASE FillMark
  <2>1. repo' = repo \/ repo' = [repo EXCEPT ![fill.at].filled = TRUE]
    BY <1>6 DEF FillMark
  <2> QED BY <1>0, <2>1 DEF RepoRows
<1>7. CASE FillDisable
  <2>1. fill.at \in Repos
    BY <1>7 DEF Typed, FillOK, FillDisable
  <2> QED BY <1>2, <1>7, <2>1 DEF FillDisable
<1>8. ASSUME NEW r \in Repos, Discover(r) PROVE repo' \in [Repos -> RepoRows]
  <2>1. PICK pushed \in Never .. now : repo' = [repo EXCEPT ![r].active = TRUE, ![r].last = pushed]
    BY <1>8 DEF Discover
  <2>2. pushed \in Never .. MaxDay
    BY <2>1, TablesAssumption DEF Typed, TablesTypeOK, Never
  <2> QED BY <1>0, <2>1, <2>2 DEF RepoRows
<1> QED BY <1>1, <1>3, <1>4, <1>5, <1>6, <1>7, <1>8, RepoMoves

Strikes == [sync : 0 .. MaxCount, fill : 0 .. MaxCount, streak : 0 .. MaxCount]

(* The counters and the answers that count are numbers.                      *)
LEMMA CountersTyped ==
    ASSUME Typed, Next
    PROVE  counters' \in [CounterKinds -> [Repos -> 0 .. MaxCount]] /\ StrikesOK'
<1>0. /\ counters \in [CounterKinds -> [Repos -> 0 .. MaxCount]]
      /\ strikes \in [Repos -> Strikes]
      /\ 0 \in 0 .. MaxCount
      /\ {"activityUnresolved", "backfillTransient", "backfillUnresolved"} = CounterKinds
  BY TablesAssumption DEF Typed, TablesTypeOK, StrikesOK, Strikes, CounterKinds
<1>1. CASE UNCHANGED <<counters, strikes>>
  BY <1>0, <1>1 DEF StrikesOK, Strikes
<1>2. ASSUME NEW j \in Batchers, MarkUnresolved(j)
      PROVE counters' \in [CounterKinds -> [Repos -> 0 .. MaxCount]] /\ StrikesOK'
  <2>1. PICK r \in job[j].gone, w \in Writes :
          LET n == Capped(counters["activityUnresolved"][r] + w.times) IN
          /\ Written(w)
          /\ counters' = [counters EXCEPT !["activityUnresolved"][r] = n]
          /\ strikes' = [strikes EXCEPT ![r].sync = Capped(@ + 1)]
    BY <1>2 DEF MarkUnresolved
  <2>2. r \in Repos
    BY <2>1 DEF Typed, JobsOK, JobRuns
  <2>3. PICK n : n = Capped(counters["activityUnresolved"][r] + w.times)
    OBVIOUS
  <2>4. n \in 0 .. MaxCount /\ Capped(strikes[r].sync + 1) \in 0 .. MaxCount
    <3>1. counters["activityUnresolved"][r] \in 0 .. MaxCount /\ strikes[r].sync \in 0 .. MaxCount
      BY <1>0, <2>2 DEF Strikes
    <3> QED BY <2>1, <2>3, <3>1, CappedTyped, WrittenIs
  <2> QED BY <1>0, <2>1, <2>2, <2>3, <2>4 DEF StrikesOK, Strikes
<1>3. ASSUME NEW kinds, NEW r PROVE Cleared(kinds, r) \in [CounterKinds -> [Repos -> 0 .. MaxCount]]
  BY <1>0 DEF Cleared
<1>4. CASE FillClear
  <2>1. fill.at \in Repos
    BY <1>4 DEF Typed, FillOK, FillClear
  <2>2. /\ counters' = counters \/
           counters' = Cleared({"backfillTransient", "backfillUnresolved"}, fill.at)
        /\ strikes' = [strikes EXCEPT ![fill.at].fill = 0, ![fill.at].streak = 0]
    BY <1>4 DEF FillClear
  <2>3. strikes' \in [Repos -> Strikes]
    BY <1>0, <2>1, <2>2 DEF Strikes
  <2> QED BY <1>0, <1>3, <2>2, <2>3 DEF StrikesOK, Strikes
<1>5. CASE FillFailed
  <2>1. PICK r : r = fill.at
    OBVIOUS
  <2>2. r \in Repos
    BY <1>5, <2>1 DEF Typed, FillOK, FillFailed
  <2>3. PICK base : base = After(fill.why, r)
    OBVIOUS
  <2>4. base \in [CounterKinds -> [Repos -> 0 .. MaxCount]]
    BY <1>0, <1>3, <2>3 DEF After
  <2>5. PICK kind \in CounterKinds :
           kind = IF fill.why = "transient" THEN "backfillTransient" ELSE "backfillUnresolved"
    BY <1>0
  <2>6. PICK w \in Writes :
          /\ Written(w)
          /\ \/ counters' = counters \/ counters' = base
             \/ counters' = [base EXCEPT ![kind][r] = Capped(base[kind][r] + w.times)]
    BY <1>5, <2>1, <2>3, <2>5 DEF FillFailed
  <2>7. Capped(base[kind][r] + w.times) \in 0 .. MaxCount
    <3>1. base[kind][r] \in 0 .. MaxCount /\ w.times \in {0, 1, 2}
      BY <2>2, <2>4, <2>5, <2>6, WrittenIs
    <3> QED BY <3>1, CappedTyped
  <2>8. counters' \in [CounterKinds -> [Repos -> 0 .. MaxCount]]
    <3>1. PICK m \in 0 .. MaxCount : m = Capped(base[kind][r] + w.times)
      BY <2>7
    <3>2. [base EXCEPT ![kind][r] = m] \in [CounterKinds -> [Repos -> 0 .. MaxCount]]
      BY <2>2, <2>4, <2>5, <3>1
    <3> QED BY <1>0, <2>4, <2>6, <3>1, <3>2
  <2>9. strikes[r].fill \in 0 .. MaxCount /\ strikes[r].streak \in 0 .. MaxCount
    BY <1>0, <2>2 DEF Strikes
  <2>10. PICK f \in 0 .. MaxCount, s \in 0 .. MaxCount :
           /\ f = IF fill.why = "unresolved" THEN Capped(strikes[r].fill + 1) ELSE strikes[r].fill
           /\ s = IF fill.why = "transient" THEN Capped(strikes[r].streak + 1) ELSE 0
    BY <1>0, <2>9, CappedTyped
  <2>11. strikes' = [strikes EXCEPT ![r].fill = f, ![r].streak = s]
    BY <1>0, <1>5, <2>1, <2>2, <2>10 DEF FillFailed, Strikes
  <2>12. strikes' \in [Repos -> Strikes]
    BY <1>0, <2>2, <2>11 DEF Strikes
  <2> QED BY <2>8, <2>12 DEF StrikesOK, Strikes
<1> QED BY <1>1, <1>2, <1>4, <1>5, CountersMove

(* A step of the sync is a small one, or one of the three that gather and    *)
(* count.                                                                    *)
LEMMA SyncJobs ==
    ASSUME Typed, SyncRun
    PROVE  \/ /\ SmallMove("sync") /\ faults' \in Nat
              /\ UNCHANGED <<recent, seen, history, credit, developers>>
           \/ UpsertDevelopers("sync") \/ UpdateStats \/ Insert
<1> USE DEF Typed
<1>0. "sync" \in Batchers /\ "active" \in Tiers
  BY DEF Batchers, Tiers
<1>1. CASE Start("sync")
  <2>1. SmallMove("sync") /\ faults' \in Nat
    BY <1>0, <1>1, BeginMove DEF Start
  <2> QED BY <1>1, <2>1 DEF Start, tables
<1>2. CASE NextBatch("sync")
  BY <1>0, <1>2, NextBatchMove DEF NextBatch, tables
<1>3. CASE Fetch("sync")
  <2>1. SmallMove("sync") /\ faults' \in Nat
    BY <1>0, <1>3, FetchMove
  <2> QED BY <1>3, <2>1 DEF Fetch, tables
<1>4. CASE MarkUnresolved("sync")
  <2>1. SmallMove("sync") /\ faults' \in Nat
    BY <1>0, <1>4, MarkMove
  <2> QED BY <1>4, <2>1 DEF MarkUnresolved
<1>5. CASE Disable("sync")
  <2>1. SmallMove("sync") /\ faults' \in Nat
    BY <1>0, <1>5, DisableMove
  <2> QED BY <1>5, <2>1 DEF Disable
<1>6. CASE NextRepo("sync")
  <2>1. SmallMove("sync") /\ faults' \in Nat
    BY <1>0, <1>6, NextRepoMove
  <2> QED BY <1>6, <2>1 DEF NextRepo, tables
<1>7. CASE Meta("sync")
  <2>1. SmallMove("sync") /\ faults' \in Nat
    BY <1>0, <1>7, MetaMove
  <2> QED BY <1>7, <2>1 DEF Meta
<1>8. CASE End("sync")
  <2>1. SmallMove("sync")
    BY <1>0, <1>8, IdleMove DEF End, Goto
  <2> QED BY <1>8, <2>1 DEF End, tables
<1>9. CASE NextTier
  <2>1. SmallMove("sync") /\ faults' \in Nat
    BY <1>0, <1>9, BeginMove DEF NextTier
  <2> QED BY <1>9, <2>1 DEF NextTier, tables
<1>10. CASE Retier
  <2>1. SmallMove("sync") /\ faults' \in Nat
    BY <1>10, RetierMove
  <2> QED BY <1>10, <2>1 DEF Retier
<1>11. CASE CrashOf("sync")
  <2>1. ~Without({"crash"}) /\ faults' \in Nat /\ job' = [job EXCEPT !["sync"] = NoRun]
    BY <1>11 DEF CrashOf, Goto, Trouble, Without
  <2>2. SmallMove("sync")
    BY <1>0, <2>1, IdleMove
  <2> QED BY <1>11, <2>1, <2>2 DEF CrashOf, tables
<1> QED
  BY <1>1, <1>2, <1>3, <1>4, <1>5, <1>6, <1>7, <1>8, <1>9, <1>10, <1>11 DEF SyncRun, SyncStep, BatchStep

(* A step of the snapshot is a small one.                                    *)
LEMMA SnapshotJobs ==
    ASSUME Typed, SnapshotRun
    PROVE  /\ SmallMove("snapshot") /\ faults' \in Nat
           /\ UNCHANGED <<recent, seen, history, credit, developers>>
<1> USE DEF Typed
<1>0. "snapshot" \in Batchers /\ "active" \in Tiers
  BY DEF Batchers, Tiers
<1>1. CASE Start("snapshot")
  <2>1. SmallMove("snapshot") /\ faults' \in Nat
    BY <1>0, <1>1, BeginMove DEF Start
  <2> QED BY <1>1, <2>1 DEF Start, tables
<1>2. CASE NextBatch("snapshot")
  BY <1>0, <1>2, NextBatchMove DEF NextBatch, tables
<1>3. CASE Fetch("snapshot")
  <2>1. SmallMove("snapshot") /\ faults' \in Nat
    BY <1>0, <1>3, FetchMove
  <2> QED BY <1>3, <2>1 DEF Fetch, tables
<1>4. CASE MarkUnresolved("snapshot")
  <2>1. SmallMove("snapshot") /\ faults' \in Nat
    BY <1>0, <1>4, MarkMove
  <2> QED BY <1>4, <2>1 DEF MarkUnresolved
<1>5. CASE Disable("snapshot")
  <2>1. SmallMove("snapshot") /\ faults' \in Nat
    BY <1>0, <1>5, DisableMove
  <2> QED BY <1>5, <2>1 DEF Disable
<1>6. CASE NextRepo("snapshot")
  <2>1. SmallMove("snapshot") /\ faults' \in Nat
    BY <1>0, <1>6, NextRepoMove
  <2> QED BY <1>6, <2>1 DEF NextRepo, tables
<1>7. CASE Meta("snapshot")
  <2>1. SmallMove("snapshot") /\ faults' \in Nat
    BY <1>0, <1>7, MetaMove
  <2> QED BY <1>7, <2>1 DEF Meta
<1>8. CASE UpsertDevelopers("snapshot")
  <2>1. SmallMove("snapshot") /\ faults' = faults /\ developers' = developers
    BY <1>8, UpsertMove
  <2> QED BY <1>8, <2>1 DEF UpsertDevelopers
<1>9. CASE End("snapshot")
  <2>1. SmallMove("snapshot")
    BY <1>0, <1>9, IdleMove DEF End, Goto
  <2> QED BY <1>9, <2>1 DEF End, tables
<1>10. CASE CrashOf("snapshot")
  <2>1. ~Without({"crash"}) /\ faults' \in Nat /\ job' = [job EXCEPT !["snapshot"] = NoRun]
    BY <1>10 DEF CrashOf, Goto, Trouble, Without
  <2>2. SmallMove("snapshot")
    BY <1>0, <2>1, IdleMove
  <2> QED BY <1>10, <2>1, <2>2 DEF CrashOf, tables
<1> QED
  BY <1>1, <1>2, <1>3, <1>4, <1>5, <1>6, <1>7, <1>8, <1>9, <1>10 DEF SnapshotRun, BatchStep

(* The faults to come are a number.                                          *)
LEMMA FaultsTyped ==
    ASSUME Typed, Next
    PROVE  faults' \in Nat
<1> USE DEF Typed
<1>1. ASSUME NEW w \in Writes, Written(w) PROVE faults' \in Nat
  BY <1>1, WrittenIs
<1>2. ASSUME NEW t, Trouble(t) PROVE faults' \in Nat
  BY <1>2 DEF Trouble
<1>3. CASE SyncRun
  <2>1. UpsertDevelopers("sync") => faults' \in Nat
    BY AuthorsStep DEF TablesTypeOK
  <2>2. UpdateStats => faults' \in Nat
    BY <1>1 DEF UpdateStats
  <2>3. Insert => faults' \in Nat
    BY InsertStep
  <2> QED BY <1>3, <2>1, <2>2, <2>3, SyncJobs
<1>4. CASE SnapshotRun
  BY <1>4, SnapshotJobs
<1>5. CASE RollRun
  <2>1. RollRead => faults' = faults
    BY DEF RollRead, syncVars
  <2> QED BY <1>1, <1>2, <1>5, <2>1 DEF RollRun, RollStep, RollHistory, RollCredit, RollDelete, Recompute,
                                        CrashOfRoll
<1>6. CASE FillRun
  <2>1. FillStart \/ FillNext => faults' = faults
    BY DEF FillStart, FillNext, syncVars
  <2>2. FillFetch => faults' \in Nat
    BY <1>2 DEF FillFetch
  <2>3. ASSUME NEW w \in Writes, NEW next, FillWrite(w, next) PROVE faults' \in Nat
    BY <1>1, <2>3 DEF FillWrite
  <2>4. FillHistory \/ FillMark \/ FillClear \/ FillFailed \/ FillDisable => faults' \in Nat
    BY <1>1, <2>3 DEF FillHistory, FillMark, FillClear, FillFailed, FillDisable
  <2>5. FillCredit => faults' \in Nat
    BY <2>3 DEF FillCredit
  <2> QED BY <1>2, <1>6, <2>1, <2>2, <2>4, <2>5 DEF FillRun, FillStep, CrashOfFill
<1>7. CASE Tick
  BY <1>7 DEF Tick, syncVars
<1>8. ASSUME NEW r \in Repos, Discover(r) PROVE faults' \in Nat
  BY <1>8 DEF Discover, syncVars
<1> QED BY <1>3, <1>4, <1>5, <1>6, <1>7, <1>8 DEF Next

(* What is in activity_recent has been stored.                               *)
LEMMA RecentTyped ==
    ASSUME Typed, Next
    PROVE  recent' \subseteq Events /\ seen' \subseteq Events /\ recent' \subseteq seen'
           /\ seen \subseteq seen'
<1> USE DEF Typed
<1>1. CASE Insert
  BY <1>1, InsertStep
<1>2. CASE RollDelete
  <2>1. recent' \subseteq recent /\ seen' = seen
    BY <1>2 DEF RollDelete, Kept
  <2> QED BY <2>1
<1> QED BY <1>1, <1>2, RecentMoves

(* Both jobs stay in order.                                                  *)
LEMMA JobsTyped == ASSUME Typed, Next PROVE JobsOK'
<1> USE DEF Typed
<1>0. "sync" \in Batchers /\ "snapshot" \in Batchers /\ world' = world
  BY WorldStays DEF Batchers
<1>1. ASSUME NEW j \in Batchers, SmallMove(j) PROVE JobsOK'
  BY <1>0, <1>1, JobsStep DEF SmallMove
<1>2. CASE SyncRun
  <2>1. CASE UpsertDevelopers("sync")
    BY <1>0, <2>1, AuthorsStep, JobsStep DEF TablesTypeOK
  <2>2. CASE UpdateStats
    BY <1>0, <2>2, StatsStep, JobsStep
  <2>3. CASE Insert
    BY <1>0, <2>3, InsertStep, JobsStep
  <2> QED BY <1>0, <1>1, <1>2, <2>1, <2>2, <2>3, SyncJobs
<1>3. CASE SnapshotRun
  BY <1>0, <1>1, <1>3, SnapshotJobs
<1>4. CASE UNCHANGED job
  BY <1>0, <1>4 DEF JobsOK, RunOK, Accounted, NoBatchFails
<1> QED BY <1>2, <1>3, <1>4, JobMoves

(* Every step keeps the types.                                               *)
LEMMA NextTyped == ASSUME Typed, [Next]_vars PROVE Typed'
<1>1. CASE Next
  <2>1. TablesTypeOK'
    BY <1>1, NowTyped, RecentTyped, HistoryTyped, CreditTyped, DevelopersTyped, TotalsTyped,
       RepoTyped, CountersTyped DEF TablesTypeOK, RepoRows
  <2>2. WorldOK'
    BY <1>1, WorldStays DEF Typed, WorldOK
  <2> QED BY <1>1, <2>1, <2>2, FaultsTyped, RecentTyped, JobsTyped, RollTyped, FillTyped,
             CountersTyped DEF Typed
<1>2. CASE UNCHANGED vars
  <2>1. JobsOK'
    BY <1>2 DEF vars, tables, syncVars, Typed, JobsOK, RunOK, Accounted, NoBatchFails
  <2> QED BY <1>2, <2>1 DEF vars, tables, syncVars, Typed, TablesTypeOK, WorldOK, RollOK, FillOK, StrikesOK
<1> QED BY <1>1, <1>2

(* Whatever happens, the tables are well-formed, what is in activity_recent  *)
(* has been stored, and the runs are what they should be.                    *)
THEOREM PipelineTyped == Spec => []Typed
<1>1. Init => Typed
  BY InitTyped
<1>2. Typed /\ [Next]_vars => Typed'
  BY NextTyped
<1> QED BY <1>1, <1>2, PTL DEF Spec

(* A run in order has accounted for every repository when it is done.        *)
LEMMA TypedAccounts == Typed => EveryRepoAccounted
<1> SUFFICES ASSUME Typed, NEW j \in Batchers, job[j].pc = "done"
             PROVE  /\ job[j].success + job[j].failed >= job[j].total
                    /\ world.troubles \cap {"write", "fetch"} = {} =>
                         job[j].success + job[j].failed = job[j].total
  BY DEF EveryRepoAccounted
<1>1. RunOK(job[j]) /\ job[j] \in JobRuns
  BY DEF Typed, JobsOK
<1>2. Due(job[j]) = {} /\ Cardinality({}) = 0
  BY <1>1, FS_EmptySet DEF Due, Rest, RunOK, Shaped
<1>3. job[j].success \in Nat /\ job[j].failed \in Nat /\ job[j].total \in Nat
  BY <1>1 DEF JobRuns
<1> QED BY <1>1, <1>2, <1>3 DEF RunOK, Accounted, NoBatchFails

(* EveryRepoAccounted: every repository of a run ends up as done or failed.  *)
THEOREM EveryRepoIsAccounted == Spec => []EveryRepoAccounted
BY PipelineTyped, TypedAccounts, PTL

-------------------------------------------------------------------------------
(* 2. What is stored and what is counted.                                    *)

TheSync == job["sync"]
NoOverlap == Without({"overlap"})
Quiet == Without({"overlap", "write", "crash"}) /\ "backfill" \notin world.jobs

(* At most one of the sync, the roll-up and the backfill runs.               *)
Apart == NoOverlap =>
    /\ TheSync.pc = "idle" \/ roll.pc = "idle"
    /\ TheSync.pc = "idle" \/ fill.pc = "idle"
    /\ roll.pc = "idle" \/ fill.pc = "idle"

(* What has been rolled up is older than the window of any run to come, and  *)
(* of the one at work.                                                       *)
Past == NoOverlap => \A e \in seen \ recent :
    DateOf[e] < now - Window /\ (TheSync.pc # "idle" => DateOf[e] < TheSync.since)

(* What the roll-up has read is what it will delete, and is counted first.   *)
RollKnows ==
    /\ roll.pc # "idle" => roll.cutoff <= now - Window
    /\ NoOverlap /\ roll.pc \in {"history", "credit", "delete"} => roll.old = Old(roll.cutoff)
    /\ roll.pc \in {"credit", "delete"} => \A e \in roll.old : InHistory(e) => history[e] > 0

FillKnows == fill.pc # "idle" => "backfill" \in world.jobs

(* The events that the history has counted, and that a developer's row has   *)
(* counted for the second time.                                              *)
InBuckets == (seen \ recent) \cup (IF roll.pc \in {"credit", "delete"} THEN roll.old ELSE {})
Recounted == (seen \ recent) \cup (IF roll.pc = "delete" THEN roll.old ELSE {})

CountedNow == Quiet =>
    \A e \in Events : history[e] = IF e \in InBuckets /\ InHistory(e) THEN 1 ELSE 0

WeighedNow == Quiet =>
    /\ \A e \in Events : ForDeveloper(e) =>
         credit[e] = (IF e \in seen \ TheSync.stored THEN 1 ELSE 0)
                     + (IF e \in Recounted THEN 1 ELSE 0)
    /\ \A e \in seen \ TheSync.stored : ForDeveloper(e) => AuthorOf[e] \in developers
    /\ TheSync.stored \subseteq recent
    /\ TheSync.pc = "stats" => Authors(TheSync.stored) \subseteq developers

Accurate == Apart /\ Past /\ RollKnows /\ FillKnows /\ NothingLost /\ CountedNow /\ WeighedNow
PipelineIInv == Typed /\ Accurate


(* What is known of the run of the sync.                                     *)
LEMMA SyncFacts ==
    ASSUME Typed
    PROVE  /\ TheSync \in JobRuns /\ RunOK(TheSync) /\ TheSync.stored \subseteq Events
           /\ TheSync.pc \in {"idle", "batch", "fetch", "gone", "disable", "done", "tier2", "tier3"}
                => TheSync.stored = {}
           /\ "sync" \in Batchers
BY DEF Typed, JobsOK, Batchers, TheSync, JobRuns, RunOK, Gathered

(* The run of the sync after a step of it.                                   *)
LEMMA NewSync ==
    ASSUME Typed, NEW u, MovesTo("sync", u)
    PROVE  TheSync' = u
BY DEF Typed, JobsOK, Batchers, TheSync, MovesTo

(* A sync begins when it is alone, and works when it has begun.              *)
LEMMA SyncAlone == SyncRun => Alone \/ TheSync.pc # "idle"
BY DEF SyncRun, Start, SyncStep, BatchStep, CrashOf, NextBatch, Fetch, MarkUnresolved, Disable,
       NextRepo, Meta, UpsertDevelopers, End, Insert, UpdateStats, NextTier, Retier, TheSync

(* Nothing is stored and nothing counted.                                    *)
LEMMA InitKept == Init => Accurate
<1> SUFFICES ASSUME Init PROVE Accurate
  OBVIOUS
<1>1. /\ recent = {} /\ seen = {} /\ roll = NoRoll /\ fill = NoFill /\ TheSync = NoRun
      /\ history = [e \in Events |-> 0] /\ credit = [e \in Events |-> 0]
  BY DEF Init, TablesInit, SyncInit, RollupInit, TheSync, Batchers
<1>2. roll.pc = "idle" /\ fill.pc = "idle" /\ TheSync.pc = "idle" /\ TheSync.stored = {}
  BY <1>1 DEF NoRoll, NoFill, NoRun
<1>3. InBuckets = {} /\ Recounted = {}
  BY <1>1, <1>2 DEF InBuckets, Recounted
<1>4. CountedNow /\ WeighedNow
  BY <1>1, <1>2, <1>3 DEF CountedNow, WeighedNow
<1> QED BY <1>1, <1>2, <1>4 DEF Accurate, Apart, Past, RollKnows, FillKnows, NothingLost

(* Steps that touch nothing of this: the snapshot, the discovery.            *)
LEMMA OtherKept ==
    ASSUME Accurate, UNCHANGED <<world, now, recent, seen, history, credit, roll, fill>>,
           developers \subseteq developers', TheSync' = TheSync
    PROVE  Accurate'
<1>1. Apart' /\ Past' /\ RollKnows' /\ FillKnows' /\ NothingLost'
  BY DEF Accurate, Apart, Past, RollKnows, FillKnows, NothingLost, NoOverlap, Without, Old
<1>2. CountedNow'
  BY DEF Accurate, CountedNow, Quiet, Without, InBuckets
<1>3. WeighedNow'
  BY DEF Accurate, WeighedNow, Quiet, Without, Recounted
<1> QED BY <1>1, <1>2, <1>3 DEF Accurate

(* As time passes, what is too old stays too old.                            *)
LEMMA TickKept ==
    ASSUME PipelineIInv, Tick
    PROVE  Accurate'
<1>1. PICK a \in Int, b \in Int : a = now - Window /\ b = now' - Window /\ a <= b
  BY TablesAssumption DEF PipelineIInv, Typed, TablesTypeOK, Tick
<1>2. UNCHANGED <<world, recent, seen, history, credit, developers, roll, fill, job>>
  BY DEF Tick, syncVars
<1>3. \A e \in seen \ recent : DateOf[e] \in Int
  BY TablesAssumption DEF PipelineIInv, Typed
<1>4. Past'
  <2>1. NoOverlap => \A e \in seen \ recent : DateOf[e] < a /\ (TheSync.pc # "idle" => DateOf[e] < TheSync.since)
    BY <1>1 DEF PipelineIInv, Accurate, Past
  <2>2. \A e \in seen \ recent : DateOf[e] < a => DateOf[e] < b
    BY <1>1, <1>3
  <2> QED BY <1>1, <1>2, <2>1, <2>2 DEF Past, NoOverlap, Without, TheSync
<1>5. RollKnows'
  <2>1. roll.pc # "idle" => roll.cutoff <= a /\ roll.cutoff \in Int
    BY <1>1 DEF PipelineIInv, Accurate, RollKnows, Typed, RollOK
  <2>2. roll.pc # "idle" => roll.cutoff <= b
    BY <1>1, <2>1
  <2> QED BY <1>1, <1>2, <2>2 DEF PipelineIInv, Accurate, RollKnows, NoOverlap, Without, Old
<1>6. Apart' /\ FillKnows' /\ NothingLost'
  BY <1>2 DEF PipelineIInv, Accurate, Apart, FillKnows, NothingLost, NoOverlap, Without, TheSync
<1>7. CountedNow' /\ WeighedNow'
  BY <1>2 DEF PipelineIInv, Accurate, CountedNow, WeighedNow, Quiet, Without, InBuckets, Recounted, TheSync
<1> QED BY <1>4, <1>5, <1>6, <1>7 DEF Accurate

(* A step of the sync that stores and counts nothing.                        *)
LEMMA SmallKept ==
    ASSUME PipelineIInv, SyncRun, SmallMove("sync"),
           UNCHANGED <<world, now, recent, seen, history, credit, developers, roll, fill>>
    PROVE  Accurate'
<1>1. PICK u : /\ MovesTo("sync", u)
               /\ u.pc # "stats"
               /\ \/ u.pc = "idle"
                  \/ TheSync.pc # "idle" /\ u.since = TheSync.since
                  \/ u.since = now - Window
               /\ Without({"write", "crash"}) => u.stored = TheSync.stored
  BY DEF SmallMove, TheSync
<1>2. TheSync' = u
  BY <1>1, NewSync DEF PipelineIInv
<1>3. Apart'
  BY SyncAlone DEF PipelineIInv, Accurate, Apart, Alone, NoOverlap, Without, TheSync
<1>4. Past'
  BY <1>1, <1>2 DEF PipelineIInv, Accurate, Past, NoOverlap, Without
<1>5. RollKnows' /\ FillKnows' /\ NothingLost'
  BY DEF PipelineIInv, Accurate, RollKnows, FillKnows, NothingLost, NoOverlap, Without, Old
<1>6. CountedNow'
  BY DEF PipelineIInv, Accurate, CountedNow, Quiet, Without, InBuckets
<1>7. Quiet => u.stored = TheSync.stored
  BY <1>1 DEF Quiet, Without
<1>8. WeighedNow'
  BY <1>1, <1>2, <1>7 DEF PipelineIInv, Accurate, WeighedNow, Quiet, Without, Recounted
<1> QED BY <1>3, <1>4, <1>5, <1>6, <1>8 DEF Accurate

(* The authors of what has been stored become known.                         *)
LEMMA AuthorsKept ==
    ASSUME PipelineIInv, UpsertDevelopers("sync"), UNCHANGED <<world, roll, fill>>
    PROVE  Accurate'
<1>0. UNCHANGED <<now, recent, seen, history, credit>>
  BY DEF UpsertDevelopers
<1>1. PICK u : /\ MovesTo("sync", u) /\ u.since = TheSync.since
               /\ Without({"write", "crash"}) => u.stored = TheSync.stored
               /\ u.pc = "stats" => Authors(u.stored) \subseteq developers'
  BY AuthorsStep DEF TheSync, PipelineIInv, Typed, TablesTypeOK
<1>1a. developers \subseteq developers'
  BY AuthorsStep DEF PipelineIInv, Typed, TablesTypeOK
<1>2. TheSync' = u /\ TheSync.pc = "repo"
  BY <1>1, NewSync DEF PipelineIInv, UpsertDevelopers, TheSync
<1>3. Apart'
  BY <1>2 DEF PipelineIInv, Accurate, Apart, NoOverlap, Without
<1>4. Past'
  BY <1>0, <1>1, <1>2 DEF PipelineIInv, Accurate, Past, NoOverlap, Without
<1>5. RollKnows' /\ FillKnows' /\ NothingLost'
  BY <1>0 DEF PipelineIInv, Accurate, RollKnows, FillKnows, NothingLost, NoOverlap, Without, Old
<1>6. CountedNow'
  BY <1>0 DEF PipelineIInv, Accurate, CountedNow, Quiet, Without, InBuckets
<1>7. Quiet => u.stored = TheSync.stored
  BY <1>1 DEF Quiet, Without
<1>8. WeighedNow'
  BY <1>0, <1>1, <1>1a, <1>2, <1>7 DEF PipelineIInv, Accurate, WeighedNow, Quiet, Without, Recounted
<1> QED BY <1>3, <1>4, <1>5, <1>6, <1>8 DEF Accurate

(* What crediting does when no write fails. *)
LEMMA CreditedOnce ==
    ASSUME Typed, NEW E \in SUBSET Events,
           \A e \in E : ForDeveloper(e) => AuthorOf[e] \in developers /\ credit[e] \in {0, 1}
    PROVE  \A e \in Events : ForDeveloper(e) =>
             Credited(E, 1)[e] = credit[e] + (IF e \in E THEN 1 ELSE 0)
<1> SUFFICES ASSUME NEW e \in Events, ForDeveloper(e)
             PROVE  Credited(E, 1)[e] = credit[e] + (IF e \in E THEN 1 ELSE 0)
  OBVIOUS
<1>1. PICK D : D = {x \in E : ForDeveloper(x) /\ AuthorOf[x] \in developers}
  OBVIOUS
<1>2. D \in SUBSET Events /\ credit \in [Events -> 0 .. MaxCount] /\ (e \in D <=> e \in E)
  BY <1>1 DEF Typed, TablesTypeOK
<1>3. Credited(E, 1)[e] = IF e \in D THEN Capped(credit[e] + 1) ELSE credit[e]
  BY <1>1, <1>2, PlusIs DEF Credited
<1>4. credit[e] \in 0 .. MaxCount
  BY <1>2
<1>5. e \in E => Capped(credit[e] + 1) = credit[e] + 1
  BY <1>4, CappedTyped
<1>6. credit[e] + 0 = credit[e]
  BY <1>4, TablesAssumption
<1> QED BY <1>2, <1>3, <1>5, <1>6

(* The sync counts what it has stored: each event for the first time.        *)
LEMMA StatsKept ==
    ASSUME PipelineIInv, UpdateStats, UNCHANGED <<world, roll, fill>>
    PROVE  Accurate'
<1>0. UNCHANGED <<now, recent, seen, history, developers>>
  BY DEF UpdateStats
<1>1. PICK u, w : /\ MovesTo("sync", u) /\ u.since = TheSync.since /\ u.pc # "stats"
                  /\ u.stored = {} /\ w \in Writes /\ Written(w)
                  /\ credit' = Credited(TheSync.stored, w.times)
  BY StatsStep DEF TheSync, PipelineIInv, Typed
<1>2. TheSync' = u /\ TheSync.pc = "stats"
  BY <1>1, NewSync DEF PipelineIInv, UpdateStats, TheSync
<1>3. Apart'
  BY <1>2 DEF PipelineIInv, Accurate, Apart, NoOverlap, Without
<1>4. Past'
  BY <1>0, <1>1, <1>2 DEF PipelineIInv, Accurate, Past, NoOverlap, Without
<1>5. RollKnows' /\ FillKnows' /\ NothingLost'
  BY <1>0 DEF PipelineIInv, Accurate, RollKnows, FillKnows, NothingLost, NoOverlap, Without, Old
<1>6. CountedNow'
  BY <1>0 DEF PipelineIInv, Accurate, CountedNow, Quiet, Without, InBuckets
<1>7. ASSUME Quiet PROVE WeighedNow'
  <2>1. w.times = 1 /\ Without({"write"})
    BY <1>1, <1>7, WrittenIs DEF Quiet, Without
  <2>2. roll.pc = "idle" /\ Recounted = seen \ recent
    BY <1>2, <1>7 DEF PipelineIInv, Accurate, Apart, Quiet, NoOverlap, Without, Recounted
  <2>3. PICK E : E = TheSync.stored
    OBVIOUS
  <2>4. E \subseteq recent /\ Authors(E) \subseteq developers /\ recent \subseteq seen /\ seen \subseteq Events
    BY <1>2, <1>7, <2>3 DEF PipelineIInv, Accurate, WeighedNow, Typed
  <2>5. \A e \in E : ForDeveloper(e) => AuthorOf[e] \in developers
    BY <2>4 DEF Authors, ForDeveloper
  <2>6. \A e \in Events : ForDeveloper(e) =>
          credit[e] = (IF e \in seen \ E THEN 1 ELSE 0) + (IF e \in seen \ recent THEN 1 ELSE 0)
    BY <1>7, <2>2, <2>3 DEF PipelineIInv, Accurate, WeighedNow
  <2>7. \A e \in E : ForDeveloper(e) => credit[e] = 0
    BY <2>4, <2>6
  <2>8. \A e \in Events : ForDeveloper(e) => credit'[e] = credit[e] + (IF e \in E THEN 1 ELSE 0)
    BY <1>1, <2>1, <2>3, <2>4, <2>5, <2>7, CreditedOnce DEF PipelineIInv
  <2>9. \A e \in Events : ForDeveloper(e) =>
          credit'[e] = (IF e \in seen THEN 1 ELSE 0) + (IF e \in seen \ recent THEN 1 ELSE 0)
    BY <2>4, <2>6, <2>8
  <2>10. \A e \in seen : ForDeveloper(e) => AuthorOf[e] \in developers
    BY <1>7, <2>3, <2>5 DEF PipelineIInv, Accurate, WeighedNow
  <2>11. Recounted' = seen \ recent
    BY <1>0, <2>2 DEF Recounted
  <2> QED BY <1>0, <1>1, <1>2, <2>9, <2>10, <2>11 DEF WeighedNow
<1>8. WeighedNow'
  BY <1>7 DEF WeighedNow, Quiet, Without
<1> QED BY <1>3, <1>4, <1>5, <1>6, <1>8 DEF Accurate

(* The sync stores what it has not stored before: an event that has been     *)
(* rolled up is too old for it.                                              *)
LEMMA InsertKept ==
    ASSUME PipelineIInv, Insert, UNCHANGED <<world, roll, fill>>
    PROVE  Accurate'
<1>0. UNCHANGED <<now, history, credit, developers>>
  BY DEF Insert
<1>1. PICK u : /\ MovesTo("sync", u) /\ u.since = TheSync.since
               /\ u.pc \in {"meta", "repo"}
               /\ Without({"write"}) => u.stored = TheSync.stored \cup (recent' \ recent)
  BY InsertStep DEF TheSync, PipelineIInv, Typed
<1>2. TheSync' = u /\ TheSync.pc = "insert" /\ u.pc # "stats" /\ u.pc # "idle"
  BY <1>1, NewSync DEF PipelineIInv, Insert, TheSync
<1>3. PICK new : new = recent' \ recent
  OBVIOUS
<1>4. /\ recent' = recent \cup new /\ new \cap recent = {} /\ new \subseteq Events
      /\ \A e \in new : DateOf[e] >= TheSync.since
      /\ seen' = seen \cup new
  <2>1. /\ recent \subseteq recent' /\ recent' \ recent \subseteq Events
        /\ \A e \in recent' \ recent : DateOf[e] >= TheSync.since
        /\ seen' = seen \cup recent'
    BY InsertStep DEF TheSync, PipelineIInv, Typed
  <2> QED BY <1>3, <2>1 DEF PipelineIInv, Typed
<1>5. NoOverlap => new \cap seen = {}
  <2>1. \A e \in new : DateOf[e] \in Int /\ TheSync.since \in Int
    BY <1>4, SyncFacts, TablesAssumption DEF PipelineIInv, JobRuns
  <2>2. NoOverlap => \A e \in seen \ recent : DateOf[e] < TheSync.since
    BY <1>2 DEF PipelineIInv, Accurate, Past
  <2> QED BY <1>4, <2>1, <2>2
<1>6. NoOverlap => seen' \ recent' = seen \ recent
  BY <1>4, <1>5
<1>7. Apart'
  BY <1>2 DEF PipelineIInv, Accurate, Apart, NoOverlap, Without
<1>8. Past'
  BY <1>0, <1>1, <1>2, <1>6 DEF PipelineIInv, Accurate, Past, NoOverlap, Without
<1>9. NoOverlap => roll.pc = "idle"
  BY <1>2 DEF PipelineIInv, Accurate, Apart
<1>10. RollKnows' /\ FillKnows'
  BY <1>0, <1>9 DEF PipelineIInv, Accurate, RollKnows, FillKnows, NoOverlap, Without
<1>11. NothingLost'
  BY <1>0, <1>4 DEF PipelineIInv, Accurate, NothingLost, Without
<1>12. Quiet => NoOverlap /\ Without({"write"})
  BY DEF Quiet, NoOverlap, Without
<1>13. Quiet => InBuckets' = InBuckets /\ Recounted' = Recounted
  BY <1>6, <1>9, <1>12 DEF InBuckets, Recounted
<1>14. CountedNow'
  BY <1>0, <1>13 DEF PipelineIInv, Accurate, CountedNow, Quiet, Without
<1>15. Quiet => seen' \ u.stored = seen \ TheSync.stored /\ u.stored \subseteq recent'
  BY <1>1, <1>3, <1>4, <1>5, <1>12 DEF PipelineIInv, Accurate, WeighedNow
<1>16. WeighedNow'
  BY <1>0, <1>2, <1>13, <1>15 DEF PipelineIInv, Accurate, WeighedNow, Quiet, Without
<1> QED BY <1>7, <1>8, <1>10, <1>11, <1>14, <1>16 DEF Accurate


(* The roll-up reads what is too old for every run of the sync.              *)
LEMMA RollReadKept ==
    ASSUME PipelineIInv, Alone, RollRead
    PROVE  Accurate'
<1>0. UNCHANGED <<world, now, recent, seen, history, credit, developers, fill, job>>
  BY DEF RollRead, tables, syncVars
<1>1. roll' = [pc |-> "history", cutoff |-> now - Window, old |-> Old(now - Window)]
  BY DEF RollRead
<1>2. now - Window \in Int
  BY TablesAssumption DEF PipelineIInv, Typed, TablesTypeOK
<1>3. roll'.pc = "history" /\ roll'.cutoff = now - Window /\ roll'.old = Old(now - Window)
      /\ roll.pc = "idle"
  BY <1>1 DEF RollRead
<1>4. Apart'
  BY <1>0, <1>3 DEF Apart, Alone, NoOverlap, Without, TheSync
<1>5. Past' /\ FillKnows' /\ NothingLost'
  BY <1>0 DEF PipelineIInv, Accurate, Past, FillKnows, NothingLost, NoOverlap, Without, TheSync
<1>6. RollKnows'
  BY <1>0, <1>2, <1>3 DEF RollKnows, Old
<1>7. InBuckets' = InBuckets /\ Recounted' = Recounted
  BY <1>0, <1>3 DEF InBuckets, Recounted
<1>8. CountedNow' /\ WeighedNow'
  BY <1>0, <1>7 DEF PipelineIInv, Accurate, CountedNow, WeighedNow, Quiet, Without, TheSync
<1> QED BY <1>4, <1>5, <1>6, <1>8 DEF Accurate

(* The roll-up gives up, or has done its work: nothing but its own state.    *)
LEMMA RollStopsKept ==
    ASSUME PipelineIInv, roll' = NoRoll, roll.pc \in {"idle", "history", "totals"} \/ ~Quiet,
           UNCHANGED <<world, now, recent, seen, history, credit, developers, fill, job>>
    PROVE  Accurate'
<1>1. roll'.pc = "idle"
  BY DEF NoRoll
<1>2. Apart' /\ Past' /\ FillKnows' /\ NothingLost' /\ RollKnows'
  BY <1>1 DEF PipelineIInv, Accurate, Apart, Past, FillKnows, NothingLost, RollKnows, NoOverlap, Without, TheSync
<1>3. Quiet => InBuckets' = InBuckets /\ Recounted' = Recounted
  BY <1>1 DEF InBuckets, Recounted
<1>4. CountedNow' /\ WeighedNow'
  BY <1>3 DEF PipelineIInv, Accurate, CountedNow, WeighedNow, Quiet, Without, TheSync
<1> QED BY <1>2, <1>4 DEF Accurate

(* The roll-up adds what it has read to the history, where it was not.       *)
LEMMA RollHistoryKept ==
    ASSUME PipelineIInv, RollHistory
    PROVE  Accurate'
<1>0. UNCHANGED <<world, now, recent, seen, credit, developers, fill, job>>
  BY DEF RollHistory
<1>1. PICK w \in Writes :
         /\ Written(w)
         /\ history' = Plus(history, {e \in roll.old : InHistory(e)}, w.times)
         /\ roll' = IF w.ok THEN [roll EXCEPT !.pc = "credit"] ELSE NoRoll
  BY DEF RollHistory
<1>2. PICK B : B = {e \in roll.old : InHistory(e)}
  OBVIOUS
<1>3. B \in SUBSET Events /\ roll.old \subseteq Events /\ history \in [Events -> 0 .. MaxCount]
  BY <1>2 DEF PipelineIInv, Typed, RollOK, TablesTypeOK
<1>4. /\ \A e \in Events : history'[e] >= history[e] /\ history[e] \in 0 .. MaxCount
                           /\ history'[e] \in 0 .. MaxCount
      /\ \A e \in Events \ B : history'[e] = history[e]
      /\ \A e \in B : history'[e] = Capped(history[e] + w.times)
  BY <1>1, <1>2, <1>3, PlusIs, WrittenIs
<1>5. \A e \in Events : history[e] > 0 => history'[e] > 0
  BY <1>4, TablesAssumption
<1>6. w.ok => \A e \in B : history'[e] > 0
  BY <1>1, <1>3, <1>4, CappedTyped, WrittenIs
<1>7. /\ roll.pc = "history"
      /\ w.ok => roll'.pc = "credit" /\ roll'.old = roll.old /\ roll'.cutoff = roll.cutoff
      /\ ~w.ok => roll'.pc = "idle"
  BY <1>1 DEF RollHistory, PipelineIInv, Typed, RollOK, NoRoll
<1>8. w.ok \in BOOLEAN
  BY <1>1, WrittenIs
<1>9. Apart' /\ Past' /\ FillKnows'
  BY <1>0, <1>7 DEF PipelineIInv, Accurate, Apart, Past, FillKnows, NoOverlap, Without, TheSync
<1>10. NothingLost'
  BY <1>0, <1>5 DEF PipelineIInv, Accurate, NothingLost, Without, Typed
<1>11. RollKnows'
  BY <1>0, <1>2, <1>6, <1>7, <1>8 DEF PipelineIInv, Accurate, RollKnows, NoOverlap, Without, Old
<1>12. Quiet => w.times = 1 /\ w.ok
  BY <1>1, WrittenIs DEF Quiet, Without
<1>13. ASSUME Quiet PROVE CountedNow' /\ WeighedNow'
  <2>1. w.ok /\ roll'.pc = "credit" /\ roll'.old = roll.old
    BY <1>7, <1>12, <1>13
  <2>2. roll.old \subseteq recent /\ recent \subseteq seen
    BY <1>7, <1>13 DEF PipelineIInv, Accurate, RollKnows, Old, Quiet, NoOverlap, Without, Typed
  <2>3. InBuckets = seen \ recent /\ InBuckets' = (seen \ recent) \cup roll.old
        /\ Recounted' = Recounted
    BY <1>0, <1>7, <2>1 DEF InBuckets, Recounted
  <2>4. \A e \in Events : history[e] = IF e \in seen \ recent /\ InHistory(e) THEN 1 ELSE 0
    BY <1>13, <2>3 DEF PipelineIInv, Accurate, CountedNow
  <2>5. \A e \in B : history[e] = 0 /\ e \notin seen \ recent /\ InHistory(e) /\ e \in roll.old
    BY <1>2, <1>3, <2>2, <2>4
  <2>6. Capped(0 + 1) = 1
    BY TablesAssumption DEF Capped
  <2>7. \A e \in B : history'[e] = 1
    BY <1>4, <1>12, <1>13, <2>5, <2>6
  <2>8. CountedNow'
    BY <1>2, <1>4, <2>3, <2>4, <2>5, <2>7 DEF CountedNow
  <2>9. WeighedNow'
    BY <1>0, <2>3 DEF PipelineIInv, Accurate, WeighedNow, Quiet, Without, TheSync
  <2> QED BY <2>8, <2>9
<1>14. CountedNow' /\ WeighedNow'
  BY <1>0, <1>13 DEF CountedNow, WeighedNow, Quiet, Without
<1> QED BY <1>9, <1>10, <1>11, <1>14 DEF Accurate

(* The roll-up counts what it has read for the second time.                  *)
LEMMA RollCreditKept ==
    ASSUME PipelineIInv, RollCredit
    PROVE  Accurate'
<1>0. UNCHANGED <<world, now, recent, seen, history, developers, fill, job>>
  BY DEF RollCredit
<1>1. PICK w \in Writes :
         /\ Written(w)
         /\ credit' = Credited(roll.old, w.times)
         /\ roll' = IF w.ok THEN [roll EXCEPT !.pc = "delete"] ELSE NoRoll
  BY DEF RollCredit
<1>2. /\ roll.pc = "credit"
      /\ w.ok => roll'.pc = "delete" /\ roll'.old = roll.old /\ roll'.cutoff = roll.cutoff
      /\ ~w.ok => roll'.pc = "idle"
  BY <1>1 DEF RollCredit, PipelineIInv, Typed, RollOK, NoRoll
<1>3. w.ok \in BOOLEAN /\ (Quiet => w.times = 1 /\ w.ok)
  BY <1>1, WrittenIs DEF Quiet, Without
<1>4. Apart' /\ Past' /\ FillKnows' /\ NothingLost'
  BY <1>0, <1>2 DEF PipelineIInv, Accurate, Apart, Past, FillKnows, NothingLost, NoOverlap, Without, TheSync
<1>5. RollKnows'
  BY <1>0, <1>2, <1>3 DEF PipelineIInv, Accurate, RollKnows, NoOverlap, Without, Old
<1>6. ASSUME Quiet PROVE CountedNow' /\ WeighedNow'
  <2>1. w.times = 1 /\ roll'.pc = "delete" /\ roll'.old = roll.old
    BY <1>2, <1>3, <1>6
  <2>2. roll.old \subseteq recent /\ recent \subseteq seen /\ seen \subseteq Events
    BY <1>2, <1>6 DEF PipelineIInv, Accurate, RollKnows, Old, Quiet, NoOverlap, Without, Typed
  <2>3. InBuckets' = InBuckets
    BY <1>0, <1>2, <2>1 DEF InBuckets
  <2>4. CountedNow'
    BY <1>0, <2>3 DEF PipelineIInv, Accurate, CountedNow, Quiet, Without
  <2>5. Recounted = seen \ recent /\ Recounted' = (seen \ recent) \cup roll.old
    BY <1>0, <1>2, <2>1 DEF Recounted
  <2>6. TheSync.pc = "idle" /\ TheSync.stored = {}
    BY <1>2, <1>6, SyncFacts DEF PipelineIInv, Accurate, Apart, Quiet, NoOverlap, Without
  <2>7. /\ \A e \in Events : ForDeveloper(e) =>
             credit[e] = (IF e \in seen THEN 1 ELSE 0) + (IF e \in seen \ recent THEN 1 ELSE 0)
        /\ \A e \in seen : ForDeveloper(e) => AuthorOf[e] \in developers
    BY <1>6, <2>5, <2>6 DEF PipelineIInv, Accurate, WeighedNow
  <2>8. \A e \in roll.old : ForDeveloper(e) => AuthorOf[e] \in developers /\ credit[e] = 1
    BY <2>2, <2>7
  <2>9. \A e \in Events : ForDeveloper(e) => credit'[e] = credit[e] + (IF e \in roll.old THEN 1 ELSE 0)
    BY <1>1, <2>1, <2>2, <2>8, CreditedOnce DEF PipelineIInv
  <2>10. \A e \in Events : ForDeveloper(e) =>
             credit'[e] = (IF e \in seen THEN 1 ELSE 0) + (IF e \in Recounted' THEN 1 ELSE 0)
    BY <2>2, <2>5, <2>7, <2>9
  <2>11. WeighedNow'
    BY <1>0, <2>6, <2>7, <2>10 DEF WeighedNow, TheSync
  <2> QED BY <2>4, <2>11
<1>7. CountedNow' /\ WeighedNow'
  BY <1>0, <1>6 DEF CountedNow, WeighedNow, Quiet, Without
<1> QED BY <1>4, <1>5, <1>7 DEF Accurate

(* The roll-up deletes what it has counted, and nothing else.                *)
LEMMA RollDeleteKept ==
    ASSUME PipelineIInv, RollDelete
    PROVE  Accurate'
<1>0. UNCHANGED <<world, now, seen, history, credit, developers, fill, job>>
  BY DEF RollDelete
<1>1. PICK w \in Writes :
         /\ Written(w)
         /\ recent' = IF w.times = 0 THEN recent ELSE Kept(roll.cutoff)
         /\ roll' = IF w.ok THEN [roll EXCEPT !.pc = "totals"] ELSE NoRoll
  BY DEF RollDelete
<1>2. roll.pc = "delete" /\ roll'.pc \in {"totals", "idle"} /\ roll'.cutoff \in {roll.cutoff, 0}
  BY <1>1 DEF RollDelete, PipelineIInv, Typed, RollOK, NoRoll
<1>2a. roll'.pc # "idle" => roll'.cutoff = roll.cutoff
  BY <1>1 DEF PipelineIInv, Typed, RollOK, NoRoll
<1>3. Quiet => w.times = 1
  BY <1>1, WrittenIs DEF Quiet, Without
<1>4. \A e \in recent : DateOf[e] \in Int
  BY TablesAssumption DEF PipelineIInv, Typed
<1>4a. roll.cutoff \in Int /\ roll.cutoff <= now - Window /\ now - Window \in Int
  BY <1>2, TablesAssumption DEF PipelineIInv, Typed, RollOK, Accurate, RollKnows, TablesTypeOK
<1>5. NoOverlap => \A e \in recent \ recent' : e \in roll.old /\ DateOf[e] < roll.cutoff
  BY <1>1, <1>2, <1>4, <1>4a DEF Kept, PipelineIInv, Accurate, RollKnows, Old
<1>5a. recent' \subseteq recent
  BY <1>1 DEF Kept
<1>6. NoOverlap => TheSync.pc = "idle" /\ TheSync.stored = {}
  BY <1>2, SyncFacts DEF PipelineIInv, Accurate, Apart
<1>7. Apart' /\ FillKnows'
  BY <1>0, <1>2 DEF PipelineIInv, Accurate, Apart, FillKnows, NoOverlap, Without, TheSync
<1>8. Past'
  <2>1. NoOverlap => \A e \in recent \ recent' : DateOf[e] < now - Window
    BY <1>4, <1>4a, <1>5
  <2> QED BY <1>0, <1>6, <2>1 DEF PipelineIInv, Accurate, Past, NoOverlap, Without, TheSync
<1>9. RollKnows'
  BY <1>0, <1>2, <1>2a, <1>4a DEF RollKnows
<1>10. NothingLost'
  <2>1. \A e \in roll.old : InHistory(e) => history[e] > 0
    BY <1>2 DEF PipelineIInv, Accurate, RollKnows
  <2> QED BY <1>0, <1>5, <2>1 DEF PipelineIInv, Accurate, NothingLost, NoOverlap, Without
<1>11. Quiet => seen \ recent' = (seen \ recent) \cup roll.old
  <2>1. ASSUME Quiet PROVE roll.old = Old(roll.cutoff) /\ recent' = Kept(roll.cutoff)
    BY <1>1, <1>2, <1>3, <2>1 DEF PipelineIInv, Accurate, RollKnows, Quiet, NoOverlap, Without
  <2>2. \A e \in recent : e \in Kept(roll.cutoff) <=> e \notin Old(roll.cutoff)
    BY <1>4, <1>4a DEF Kept, Old
  <2> QED BY <2>1, <2>2 DEF Kept, Old, PipelineIInv, Typed
<1>12. Quiet => InBuckets' = InBuckets /\ Recounted' = Recounted
  BY <1>0, <1>2, <1>11 DEF InBuckets, Recounted
<1>13. CountedNow'
  BY <1>0, <1>12 DEF PipelineIInv, Accurate, CountedNow, Quiet, Without
<1>14. WeighedNow'
  BY <1>0, <1>2, <1>6, <1>12 DEF PipelineIInv, Accurate, WeighedNow, Quiet, Without, TheSync, NoOverlap
<1> QED BY <1>7, <1>8, <1>9, <1>10, <1>13, <1>14 DEF Accurate

(* A step of the backfill: it is no behaviour in which what is counted is    *)
(* counted once, and it only adds to the history.                            *)
LEMMA FillKept ==
    ASSUME PipelineIInv, UNCHANGED <<world, now, recent, seen, roll, job>>,
           (Alone /\ FillStart) \/ FillStep \/ CrashOfFill,
           history' \in [Events -> 0 .. MaxCount], \A e \in Events : history'[e] >= history[e]
    PROVE  Accurate'
<1>1. "backfill" \in world.jobs /\ (fill.pc # "idle" \/ Alone)
  BY DEF PipelineIInv, Accurate, FillKnows, FillStart, FillStep, FillNext, FillFetch, FillHistory, FillCredit,
         FillMark, FillClear, FillFailed, FillDisable, CrashOfFill
<1>2. ~Quiet' /\ FillKnows'
  BY <1>1 DEF Quiet, FillKnows
<1>3. CountedNow' /\ WeighedNow'
  BY <1>2 DEF CountedNow, WeighedNow
<1>4. Apart'
  BY <1>1 DEF PipelineIInv, Accurate, Apart, Alone, NoOverlap, Without, TheSync
<1>5. Past'
  BY DEF PipelineIInv, Accurate, Past, NoOverlap, Without, TheSync
<1>6. \A e \in Events : history[e] > 0 => history'[e] > 0
  <2>1. \A e \in Events : history[e] \in Int /\ history'[e] \in Int /\ history'[e] >= history[e]
    BY DEF PipelineIInv, Typed, TablesTypeOK
  <2> QED BY <2>1
<1>7. RollKnows' /\ NothingLost'
  BY <1>6 DEF PipelineIInv, Typed, RollOK, Accurate, RollKnows, NothingLost, NoOverlap, Without, Old
<1> QED BY <1>2, <1>3, <1>4, <1>5, <1>7 DEF Accurate

(* The batch jobs do not change what can happen.                             *)
LEMMA BatchersStill == SyncRun \/ SnapshotRun => UNCHANGED <<world, now>>
BY DEF SyncRun, SnapshotRun, Start, SyncStep, BatchStep, CrashOf, NextBatch, Fetch, MarkUnresolved,
       Disable, NextRepo, Meta, UpsertDevelopers, End, Insert, UpdateStats, NextTier, Retier, tables

(* When nothing happens.                                                     *)
LEMMA IdleFrame ==
    ASSUME PipelineIInv, UNCHANGED vars
    PROVE  Accurate'
BY OtherKept DEF PipelineIInv, vars, tables, syncVars, TheSync

(* The snapshot does not touch the events.                                   *)
LEMMA SnapshotKept ==
    ASSUME PipelineIInv, SnapshotRun
    PROVE  Accurate'
<1>1. /\ SmallMove("snapshot")
      /\ UNCHANGED <<recent, seen, history, credit, developers, roll, fill>>
  BY SnapshotJobs DEF PipelineIInv, SnapshotRun
<1>2. TheSync' = TheSync
  BY <1>1 DEF SmallMove, MovesTo, TheSync, PipelineIInv, Typed, JobsOK, Batchers
<1>3. UNCHANGED <<world, now>>
  BY BatchersStill DEF SnapshotRun
<1> QED BY <1>1, <1>2, <1>3, OtherKept DEF PipelineIInv

(* Every step keeps what is counted accurate.                                *)
LEMMA NextKept == ASSUME PipelineIInv, [Next]_vars PROVE Accurate'
<1> USE DEF PipelineIInv
<1>0. Next => world' = world /\ history' \in [Events -> 0 .. MaxCount] /\ (\A e \in Events : history'[e] >= history[e])
              /\ developers \subseteq developers'
  BY WorldStays, HistoryTyped, DevelopersTyped
<1>1. CASE Tick
  BY <1>1, TickKept
<1>2. CASE SyncRun
  <2>1. UNCHANGED <<world, roll, fill>>
    BY <1>0, <1>2 DEF SyncRun, Next
  <2>2. CASE SmallMove("sync") /\ UNCHANGED <<recent, seen, history, credit, developers>>
    BY <1>2, <2>1, <2>2, SmallKept, BatchersStill
  <2>3. CASE UpsertDevelopers("sync")
    BY <2>1, <2>3, AuthorsKept
  <2>4. CASE UpdateStats
    BY <2>1, <2>4, StatsKept
  <2>5. CASE Insert
    BY <2>1, <2>5, InsertKept
  <2> QED BY <1>2, <2>2, <2>3, <2>4, <2>5, SyncJobs
<1>3. CASE SnapshotRun
  BY <1>3, SnapshotKept
<1>4. CASE RollRun
  <2>1. CASE Alone /\ RollRead
    BY <2>1, RollReadKept
  <2>2. CASE RollHistory
    BY <2>2, RollHistoryKept
  <2>3. CASE RollCredit
    BY <2>3, RollCreditKept
  <2>4. CASE RollDelete
    BY <2>4, RollDeleteKept
  <2>5. CASE Recompute
    BY <2>5, RollStopsKept DEF Recompute
  <2>6. CASE CrashOfRoll
    <3>1. ~Quiet
      BY <2>6 DEF CrashOfRoll, Trouble, Quiet, Without
    <3> QED BY <2>6, <3>1, RollStopsKept DEF CrashOfRoll, tables
  <2> QED BY <1>4, <2>1, <2>2, <2>3, <2>4, <2>5, <2>6 DEF RollRun, RollStep
<1>5. CASE FillRun
  <2>1. Next
    BY <1>5 DEF Next
  <2>2. UNCHANGED <<world, now, recent, seen, roll, job>>
    BY <1>5 DEF FillRun, FillStart, FillStep, FillNext, FillFetch, FillHistory, FillCredit,
         FillMark, FillClear, FillFailed, FillDisable, CrashOfFill, tables, syncVars
  <2> QED BY <1>0, <1>5, <2>1, <2>2, FillKept DEF FillRun
<1>6. ASSUME NEW r \in Repos, Discover(r) PROVE Accurate'
  BY <1>6, OtherKept DEF Discover, syncVars, TheSync
<1>7. CASE UNCHANGED vars
  BY <1>7, IdleFrame
<1> QED BY <1>1, <1>2, <1>3, <1>4, <1>5, <1>6, <1>7 DEF Next

(* The inductive invariant implies what the run checks.                      *)
LEMMA KeptIsKept == PipelineIInv => PipelineInv /\ EqualWeights
<1> SUFFICES ASSUME PipelineIInv PROVE PipelineInv /\ EqualWeights
  OBVIOUS
<1>1. CountedOnce
  <2> SUFFICES ASSUME Without({"overlap", "write", "crash"}), "backfill" \notin world.jobs, roll.pc = "idle"
               PROVE \A e \in Events : history[e] = IF e \in seen \ recent /\ InHistory(e) THEN 1 ELSE 0
    BY DEF CountedOnce
  <2>1. InBuckets = seen \ recent
    BY DEF InBuckets
  <2> QED BY <2>1 DEF PipelineIInv, Accurate, CountedNow, Quiet
<1>2. EqualWeights
  <2> SUFFICES ASSUME Without({"overlap", "write", "crash"}), "backfill" \notin world.jobs, roll.pc = "idle",
                      TheSync.pc = "idle", NEW e \in seen, ForDeveloper(e)
               PROVE credit[e] + (IF e \in recent THEN 1 ELSE 0) = 2
    BY DEF EqualWeights, TheSync
  <2>1. Recounted = seen \ recent /\ TheSync.stored = {} /\ e \in Events
    BY SyncFacts DEF PipelineIInv, Recounted, Typed
  <2>2. credit[e] = 1 + (IF e \in recent THEN 0 ELSE 1)
    BY <2>1 DEF PipelineIInv, Accurate, WeighedNow, Quiet
  <2> QED BY <2>2
<1> QED BY <1>1, <1>2 DEF PipelineInv, PipelineIInv, Typed, Accurate

(* The inductive invariant of the events and their counts holds.             *)
LEMMA PipelineInvariant == Spec => []PipelineIInv
<1>1. Init => PipelineIInv
  BY InitTyped, InitKept DEF PipelineIInv
<1>2. PipelineIInv /\ [Next]_vars => PipelineIInv'
  BY NextTyped, NextKept DEF PipelineIInv
<1> QED BY <1>1, <1>2, PTL DEF Spec

(* PipelineInv: what has been stored is never lost, and counted once. *)
THEOREM PipelineKeepsEvents == Spec => []PipelineInv
BY PipelineInvariant, KeptIsKept, PTL

(* EqualWeights: every stored commit or pull request weighs the same. *)
THEOREM PipelineWeighsEqually == Spec => []EqualWeights
BY PipelineInvariant, KeptIsKept, PTL

-------------------------------------------------------------------------------
(* 3. The deactivation of repositories.                                      *)

(* Unless a write is repeated, no counter is ahead of the answers that       *)
(* count, and a repository is to be deactivated only when they are enough.   *)
Warned(r) == strikes[r].sync >= Threshold
WarnedByFill(r) == strikes[r].fill >= Threshold \/ strikes[r].streak >= TransientThreshold
CountsEarned ==
    \A r \in Repos : /\ counters["activityUnresolved"][r] <= strikes[r].sync
                     /\ counters["backfillUnresolved"][r] <= strikes[r].fill
                     /\ counters["backfillTransient"][r] <= strikes[r].streak
Earned == Without({"write"}) =>
    /\ CountsEarned
    /\ \A j \in Batchers : job[j].pc = "disable" => Warned(job[j].at)
    /\ fill.pc = "disable" => WarnedByFill(fill.at)
WhyKnown == fill.pc = "failed" => fill.why \in {"unresolved", "transient", "other"}

(* How a run comes to deactivate a repository.                               *)
LEMMA EndedPc ==
    ASSUME NEW run \in JobRuns
    PROVE  Ended(run).pc # "disable" /\ Thrown(run).pc # "disable" /\ RepoFailed(run).pc # "disable"
           /\ \A r : Forgotten(run, r).pc # "disable"
<1>1. ASSUME NEW u \in JobRuns PROVE Ended(u).pc # "disable"
  BY DEF Ended, JobRuns
<1>2. run.failed + Cardinality(run.batch) \in Nat
  BY CardIsNat DEF JobRuns
<1>3. [run EXCEPT !.failed = @ + Cardinality(run.batch)] \in JobRuns
  BY <1>2 DEF JobRuns
<1>4. Thrown(run).pc # "disable"
  BY <1>1, <1>3 DEF Thrown
<1>5. RepoFailed(run).pc # "disable"
  BY DEF RepoFailed, JobRuns
<1>6. ASSUME NEW r PROVE Forgotten(run, r).pc # "disable"
  <2>1. PICK u : u = [run EXCEPT !.gone = @ \ {r}, !.left = @ \ {r}, !.at = Nobody, !.pc = "gone"]
    OBVIOUS
  <2>2. u \in JobRuns /\ u.pc = "gone"
    BY <2>1 DEF JobRuns, Pcs
  <2>3. [u EXCEPT !.pc = "fetch"].pc = "fetch"
    BY <2>2 DEF JobRuns
  <2> QED BY <1>1, <2>1, <2>2, <2>3 DEF Forgotten
<1> QED BY <1>1, <1>4, <1>5, <1>6

MarkedAt(j, r) ==
    /\ r \in Repos
    /\ strikes' = [strikes EXCEPT ![r].sync = Capped(@ + 1)]
    /\ \E w \in Writes : /\ Written(w)
         /\ counters' = [counters EXCEPT
              !["activityUnresolved"][r] = Capped(counters["activityUnresolved"][r] + w.times)]
         /\ \/ job'[j].pc # "disable"
            \/ job'[j].at = r
               /\ ~(Capped(counters["activityUnresolved"][r] + w.times) < Threshold)

(* What markRepoUnresolved counts, and when the run goes on to deactivate.   *)
LEMMA MarkedIs ==
    ASSUME Typed, NEW j \in Batchers, MarkUnresolved(j)
    PROVE  \E r : MarkedAt(j, r) /\ \A k \in Batchers \ {j} : job'[k] = job[k]
<1>1. job \in [Batchers -> JobRuns] /\ job[j] \in JobRuns
  BY DEF Typed, JobsOK
<1>2. PICK r \in job[j].gone, w \in Writes :
         LET n == Capped(counters["activityUnresolved"][r] + w.times) IN
         /\ Written(w)
         /\ counters' = [counters EXCEPT !["activityUnresolved"][r] = n]
         /\ strikes' = [strikes EXCEPT ![r].sync = Capped(@ + 1)]
         /\ LET run == [job[j] EXCEPT !.failed = @ + 1] IN
            job' = [job EXCEPT ![j] = IF ~w.ok THEN Thrown(job[j])
                    ELSE IF n < Threshold THEN Forgotten(run, r)
                    ELSE [run EXCEPT !.pc = "disable", !.at = r]]
  BY DEF MarkUnresolved, Goto
<1>3. PICK run : run = [job[j] EXCEPT !.failed = @ + 1]
  OBVIOUS
<1>4. run \in JobRuns
  BY <1>1, <1>3 DEF JobRuns
<1>5. [run EXCEPT !.pc = "disable", !.at = r].at = r
  BY <1>4 DEF JobRuns
<1>6. r \in Repos
  BY <1>1, <1>2 DEF JobRuns
<1>7. Thrown(job[j]).pc # "disable" /\ Forgotten(run, r).pc # "disable"
  BY <1>1, <1>4, EndedPc
<1>8. \A k \in Batchers \ {j} : job'[k] = job[k]
  BY <1>1, <1>2
<1>9. \/ job'[j].pc # "disable"
      \/ job'[j].at = r
         /\ ~(Capped(counters["activityUnresolved"][r] + w.times) < Threshold)
  BY <1>1, <1>2, <1>3, <1>5, <1>7
<1> QED BY <1>2, <1>6, <1>8, <1>9 DEF MarkedAt

(* Nothing else makes a run deactivate a repository.                         *)
LEMMA OnlyMarkDisables ==
    ASSUME Typed, Next, NEW j \in Batchers, ~MarkUnresolved(j), job'[j].pc = "disable"
    PROVE  job'[j] = job[j]
<1>1. /\ job \in [Batchers -> JobRuns] /\ job[j] \in JobRuns /\ Batchers = {"sync", "snapshot"}
      /\ NoRun \in JobRuns /\ NoRun.pc = "idle"
  BY NoRunOK DEF Typed, JobsOK, Batchers, RunOK, Shaped
<1>2. ASSUME NEW k \in Batchers, NEW u, u.pc # "disable", Goto(k, u)
      PROVE  job'[j] = job[j]
  BY <1>1, <1>2 DEF Goto
<1>3. ASSUME NEW k \in Batchers PROVE
        /\ Thrown(job[k]).pc # "disable" /\ Ended(job[k]).pc # "disable"
        /\ RepoFailed(job[k]).pc # "disable" /\ \A r : Forgotten(job[k], r).pc # "disable"
        /\ job[k] \in JobRuns
  BY <1>1, <1>3, EndedPc
<1>4. ASSUME NEW k \in Batchers, NEW t, Begin(k, t) PROVE job'[j] = job[j]
  <2>1. PICK run : run = [NoRun EXCEPT !.tier = t, !.since = IF k = "sync" THEN Since ELSE 0,
                              !.total = Cardinality(Candidates(k, t))]
    OBVIOUS
  <2>2. \/ Goto(k, [run EXCEPT !.todo = Candidates(k, t),
                               !.pc = IF Candidates(k, t) = {} THEN "done" ELSE "batch"])
        \/ Goto(k, [run EXCEPT !.failed = run.total, !.pc = "done"])
    BY <1>4, <2>1 DEF Begin
  <2>3. /\ [run EXCEPT !.todo = Candidates(k, t),
                       !.pc = IF Candidates(k, t) = {} THEN "done" ELSE "batch"].pc # "disable"
        /\ [run EXCEPT !.failed = run.total, !.pc = "done"].pc # "disable"
    BY <1>1, <2>1 DEF JobRuns
  <2> QED BY <1>2, <2>2, <2>3
<1>5. ASSUME NEW k \in Batchers, NextBatch(k) PROVE job'[j] = job[j]
  <2>1. PICK b : Goto(k, [job[k] EXCEPT !.pc = "fetch", !.batch = b, !.left = b, !.todo = @ \ b,
                                   !.stored = {}, !.authors = {}])
    BY <1>5 DEF NextBatch
  <2>2. [job[k] EXCEPT !.pc = "fetch", !.batch = b, !.left = b, !.todo = @ \ b,
                                   !.stored = {}, !.authors = {}].pc # "disable"
    BY <1>3 DEF JobRuns
  <2> QED BY <1>2, <2>1, <2>2
<1>6. ASSUME NEW k \in Batchers, Fetch(k) PROVE job'[j] = job[j]
  <2>1. \/ \E D, data, f : Goto(k, [job[k] EXCEPT !.pc = "repo", !.left = D, !.failed = f, !.data = data])
        \/ \E gone : Goto(k, [job[k] EXCEPT !.pc = "gone", !.gone = gone])
        \/ Goto(k, Thrown(job[k]))
    BY <1>6 DEF Fetch
  <2>2. /\ \A D, data, f : [job[k] EXCEPT !.pc = "repo", !.left = D, !.failed = f,
                               !.data = data].pc # "disable"
        /\ \A gone : [job[k] EXCEPT !.pc = "gone", !.gone = gone].pc # "disable"
    BY <1>3 DEF JobRuns
  <2> QED BY <1>2, <1>3, <2>1, <2>2
<1>7. ASSUME NEW k \in Batchers, Disable(k) PROVE job'[j] = job[j]
  <2>1. Goto(k, Forgotten(job[k], job[k].at)) \/ Goto(k, Thrown(job[k]))
    BY <1>7 DEF Disable
  <2> QED BY <1>2, <1>3, <2>1
<1>8. ASSUME NEW k \in Batchers, NextRepo(k) PROVE job'[j] = job[j]
  <2>1. PICK r : \E run :
          /\ run = [job[k] EXCEPT !.left = @ \ {r}, !.at = r]
          /\ Goto(k, [run EXCEPT !.pc = IF k = "sync" THEN "insert" ELSE "meta"]) \/ Goto(k, RepoFailed(run))
    BY <1>8 DEF NextRepo
  <2>2. PICK run : run = [job[k] EXCEPT !.left = @ \ {r}, !.at = r]
    OBVIOUS
  <2>3. [run EXCEPT !.pc = IF k = "sync" THEN "insert" ELSE "meta"].pc # "disable"
        /\ RepoFailed(run).pc # "disable"
    BY <1>3, <2>2 DEF JobRuns, RepoFailed
  <2> QED BY <1>2, <2>1, <2>2, <2>3
<1>9. ASSUME NEW k \in Batchers, Meta(k) PROVE job'[j] = job[j]
  <2>1. Goto(k, [job[k] EXCEPT !.success = @ + 1, !.pc = "repo", !.at = Nobody])
        \/ Goto(k, RepoFailed(job[k]))
    BY <1>9 DEF Meta
  <2>2. [job[k] EXCEPT !.success = @ + 1, !.pc = "repo", !.at = Nobody].pc # "disable"
    BY <1>3 DEF JobRuns
  <2> QED BY <1>2, <1>3, <2>1, <2>2
<1>10. ASSUME NEW k \in Batchers, UpsertDevelopers(k) PROVE job'[j] = job[j]
  <2>1. Goto(k, Ended(job[k])) \/ Goto(k, [job[k] EXCEPT !.pc = "stats"]) \/ Goto(k, Thrown(job[k]))
    BY <1>10 DEF UpsertDevelopers
  <2>2. [job[k] EXCEPT !.pc = "stats"].pc # "disable"
    BY <1>3 DEF JobRuns
  <2> QED BY <1>2, <1>3, <2>1, <2>2
<1>11. CASE UpdateStats
  <2>1. Goto("sync", Ended(job["sync"])) \/ Goto("sync", Thrown(job["sync"]))
    BY <1>11 DEF UpdateStats
  <2> QED BY <1>1, <1>2, <1>3, <2>1
<1>12. CASE Insert
  <2>1. \/ \E s, a : Goto("sync", [job["sync"] EXCEPT !.pc = "meta", !.stored = s, !.authors = a])
        \/ Goto("sync", RepoFailed(job["sync"]))
    BY <1>12 DEF Insert
  <2>2. \A s, a : [job["sync"] EXCEPT !.pc = "meta", !.stored = s, !.authors = a].pc # "disable"
    BY <1>1, <1>3 DEF JobRuns
  <2> QED BY <1>1, <1>2, <1>3, <2>1, <2>2
<1>13. CASE Retier
  <2>1. \/ \E p \in {"tier2", "tier3", "idle"} : Goto("sync", [job["sync"] EXCEPT !.pc = p])
        \/ Goto("sync", NoRun)
    BY <1>13 DEF Retier
  <2>2. \A p \in {"tier2", "tier3", "idle"} : [job["sync"] EXCEPT !.pc = p].pc # "disable"
    BY <1>1, <1>3 DEF JobRuns
  <2> QED BY <1>1, <1>2, <2>1, <2>2
<1>14. ASSUME NEW k \in Batchers, End(k) \/ CrashOf(k) PROVE job'[j] = job[j]
  BY <1>1, <1>2, <1>14 DEF End, CrashOf
<1>15. ASSUME NEW k \in Batchers, MarkUnresolved(k) PROVE job'[j] = job[j]
  BY <1>1, <1>15 DEF MarkUnresolved, Goto
<1>16. CASE NextTier
  BY <1>1, <1>4, <1>16 DEF NextTier
<1>17. ASSUME NEW k \in Batchers, Start(k) PROVE job'[j] = job[j]
  BY <1>4, <1>17 DEF Start
<1>18. ASSUME NEW k \in Batchers, BatchStep(k) PROVE job'[j] = job[j]
  BY <1>5, <1>6, <1>7, <1>8, <1>9, <1>10, <1>14, <1>15, <1>18 DEF BatchStep
<1>19. CASE SyncRun
  BY <1>1, <1>11, <1>12, <1>13, <1>14, <1>16, <1>17, <1>18, <1>19 DEF SyncRun, SyncStep
<1>20. CASE SnapshotRun
  BY <1>1, <1>14, <1>17, <1>18, <1>20 DEF SnapshotRun
<1> QED BY <1>19, <1>20, JobMoves

(* Counting one more on both sides keeps a counter behind the answers.       *)
LEMMA CountedAlike ==
    ASSUME NEW a \in 0 .. MaxCount, NEW b \in 0 .. MaxCount, a <= b
    PROVE  Capped(a + 1) <= Capped(b + 1)
BY TablesAssumption DEF Capped

(* The counters and the answers, one by one.                                 *)
LEMMA CountsTyped ==
    ASSUME Typed
    PROVE  /\ counters \in [CounterKinds -> [Repos -> 0 .. MaxCount]]
           /\ CounterKinds = {"activityUnresolved", "backfillTransient", "backfillUnresolved"}
           /\ strikes \in [Repos -> Strikes]
           /\ \A r \in Repos :
                /\ counters["activityUnresolved"][r] \in 0 .. MaxCount
                /\ counters["backfillUnresolved"][r] \in 0 .. MaxCount
                /\ counters["backfillTransient"][r] \in 0 .. MaxCount
                /\ strikes[r].sync \in 0 .. MaxCount /\ strikes[r].fill \in 0 .. MaxCount
                /\ strikes[r].streak \in 0 .. MaxCount
BY DEF Typed, TablesTypeOK, StrikesOK, Strikes, CounterKinds

(* A counter of the sync goes with an answer.                                *)
LEMMA MarkEarns ==
    ASSUME Typed, fill' = fill, Earned, Without({"write"}), NEW j \in Batchers, MarkUnresolved(j)
    PROVE  Earned'
<1>1. PICK r : MarkedAt(j, r) /\ \A k \in Batchers \ {j} : job'[k] = job[k]
  BY MarkedIs
<1>2. PICK n : n = Capped(counters["activityUnresolved"][r] + 1)
  OBVIOUS
<1>3. /\ r \in Repos
      /\ counters' = [counters EXCEPT !["activityUnresolved"][r] = n]
      /\ strikes' = [strikes EXCEPT ![r].sync = Capped(@ + 1)]
      /\ job'[j].pc # "disable" \/ (job'[j].at = r /\ ~(n < Threshold))
  BY <1>1, <1>2, WrittenIs DEF MarkedAt
<1>4. PICK m : m = Capped(strikes[r].sync + 1)
  OBVIOUS
<1>5. /\ counters["activityUnresolved"][r] \in 0 .. MaxCount /\ strikes[r].sync \in 0 .. MaxCount
      /\ counters["activityUnresolved"][r] <= strikes[r].sync
  BY <1>3, CountsTyped DEF Earned, CountsEarned
<1>6. n <= m /\ n \in 0 .. MaxCount /\ m \in 0 .. MaxCount /\ strikes[r].sync <= m
  BY <1>2, <1>4, <1>5, CountedAlike, CappedTyped
<1>7. /\ counters'["activityUnresolved"][r] = n /\ strikes'[r].sync = m
      /\ strikes'[r].fill = strikes[r].fill /\ strikes'[r].streak = strikes[r].streak
      /\ \A q \in Repos \ {r} : counters'["activityUnresolved"][q] = counters["activityUnresolved"][q]
                                /\ strikes'[q] = strikes[q]
      /\ counters'["backfillUnresolved"] = counters["backfillUnresolved"]
      /\ counters'["backfillTransient"] = counters["backfillTransient"]
  BY <1>3, <1>4, CountsTyped DEF Strikes
<1>8. CountsEarned'
  BY <1>6, <1>7 DEF CountsEarned, Earned
<1>9. \A q \in Repos : Warned(q) => Warned(q)'
  BY <1>3, <1>5, <1>6, <1>7, SyncAssumption DEF Warned
<1>10. job'[j].pc = "disable" => Warned(job[j].at)'
  BY <1>3, <1>6, <1>7, SyncAssumption DEF Warned
<1>11. ASSUME NEW k \in Batchers \ {j}, job'[k].pc = "disable" PROVE Warned(job[k].at)'
  <2>1. job[k].at \in Repos /\ job'[k] = job[k] /\ job[k].pc = "disable"
    BY <1>1, <1>11 DEF Typed, JobsOK, RunOK, Shaped, JobRuns
  <2> QED BY <1>9, <1>11, <2>1 DEF Earned
<1>12. fill.pc = "disable" => WarnedByFill(fill.at)'
  <2>1. fill.pc = "disable" => fill.at \in Repos /\ fill'.at = fill.at
    BY DEF Typed, FillOK
  <2> QED BY <1>7, <2>1 DEF Earned, WarnedByFill
<1> QED BY <1>8, <1>10, <1>11, <1>12 DEF Earned

(* What the backfill counts.                                                 *)
LEMMA ClearEarns ==
    ASSUME Typed, Earned, Without({"write"}), FillClear
    PROVE  Earned' /\ WhyKnown'
<1>1. PICK r \in Repos : r = fill.at
  BY DEF Typed, FillOK, FillClear
<1>2. /\ counters' = Cleared({"backfillTransient", "backfillUnresolved"}, r)
      /\ strikes' = [strikes EXCEPT ![r].fill = 0, ![r].streak = 0]
      /\ fill' = [NoFill EXCEPT !.pc = "next", !.todo = fill.todo] /\ job' = job
  BY <1>1, WrittenIs DEF FillClear, FillWrite
<1>3. /\ counters'["activityUnresolved"] = counters["activityUnresolved"]
      /\ counters'["backfillUnresolved"] = [counters["backfillUnresolved"] EXCEPT ![r] = 0]
      /\ counters'["backfillTransient"] = [counters["backfillTransient"] EXCEPT ![r] = 0]
  BY <1>2, CountsTyped DEF Cleared
<1>4. /\ strikes'[r].sync = strikes[r].sync /\ strikes'[r].fill = 0 /\ strikes'[r].streak = 0
      /\ \A q \in Repos \ {r} : strikes'[q] = strikes[q]
  BY <1>2, CountsTyped DEF Strikes
<1>5. CountsEarned'
  BY <1>3, <1>4, CountsTyped DEF Earned, CountsEarned
<1>6. ASSUME NEW j \in Batchers, job'[j].pc = "disable" PROVE Warned(job[j].at)'
  <2>1. job[j].at \in Repos /\ strikes'[job[j].at].sync = strikes[job[j].at].sync
    BY <1>2, <1>4, <1>6 DEF Typed, JobsOK, RunOK, Shaped, JobRuns
  <2> QED BY <1>2, <1>6, <2>1 DEF Earned, Warned
<1>7. fill'.pc = "next"
  BY <1>2 DEF NoFill
<1> QED BY <1>5, <1>6, <1>7 DEF Earned, WhyKnown

(* handleBackfillRepoFailure: a counter of the backfill goes with an answer. *)
LEMMA FailedEarns ==
    ASSUME Typed, Earned, WhyKnown, Without({"write"}), FillFailed
    PROVE  Earned' /\ WhyKnown'
<1>1. PICK r \in Repos : r = fill.at
  BY DEF Typed, FillOK, FillFailed
<1>2. fill.why \in {"unresolved", "transient", "other"} /\ job' = job
  BY DEF WhyKnown, FillFailed
<1>3. PICK base : base = After(fill.why, r)
  OBVIOUS
<1>4. PICK kind : kind = IF fill.why = "transient" THEN "backfillTransient" ELSE "backfillUnresolved"
  OBVIOUS
<1>5. PICK n : n = Capped(base[kind][r] + 1)
  OBVIOUS
<1>6. /\ IF fill.why = "other" THEN counters' = base
         ELSE counters' = [base EXCEPT ![kind][r] = n]
      /\ \/ fill' = [NoFill EXCEPT !.pc = "next", !.todo = fill.todo]
         \/ /\ fill.why # "other" /\ fill' = [fill EXCEPT !.pc = "disable"]
            /\ n >= (IF fill.why = "transient" THEN TransientThreshold ELSE Threshold)
      /\ strikes' = [strikes EXCEPT
              ![r].fill = IF fill.why = "unresolved" THEN Capped(@ + 1) ELSE @,
              ![r].streak = IF fill.why = "transient" THEN Capped(@ + 1) ELSE 0]
  <2>1. PICK w \in Writes :
         LET m == Capped(base[kind][r] + w.times) IN
         /\ Written(w)
         /\ IF fill.why = "other"
            THEN /\ counters' = IF w.times = 0 THEN counters ELSE base
                 /\ fill' = IF w.ok THEN [NoFill EXCEPT !.pc = "next", !.todo = fill.todo] ELSE NoFill
            ELSE /\ counters' \in {[base EXCEPT ![kind][r] = m]}
                                  \cup (IF w.times = 0 THEN {counters} ELSE {})
                 /\ fill' = IF ~w.ok THEN NoFill
                            ELSE IF m >= (IF fill.why = "transient" THEN TransientThreshold ELSE Threshold)
                                 THEN [fill EXCEPT !.pc = "disable"]
                                 ELSE [NoFill EXCEPT !.pc = "next", !.todo = fill.todo]
         /\ strikes' = [strikes EXCEPT
              ![r].fill = IF fill.why = "unresolved" THEN Capped(@ + 1) ELSE @,
              ![r].streak = IF fill.why = "transient" THEN Capped(@ + 1) ELSE 0]
    BY <1>1, <1>3, <1>4 DEF FillFailed
  <2>2. w.times = 1 /\ w.ok
    BY <2>1, WrittenIs
  <2>3. n = Capped(base[kind][r] + w.times)
    BY <1>5, <2>2
  <2> QED BY <2>1, <2>2, <2>3
<1>7. PICK f, s : /\ f = IF fill.why = "unresolved" THEN Capped(strikes[r].fill + 1) ELSE strikes[r].fill
                  /\ s = IF fill.why = "transient" THEN Capped(strikes[r].streak + 1) ELSE 0
  OBVIOUS
<1>8. /\ strikes'[r].sync = strikes[r].sync /\ strikes'[r].fill = f /\ strikes'[r].streak = s
      /\ \A q \in Repos \ {r} : strikes'[q] = strikes[q]
  BY <1>6, <1>7, CountsTyped DEF Strikes
<1>9. /\ counters["backfillUnresolved"][r] \in 0 .. MaxCount /\ strikes[r].fill \in 0 .. MaxCount
      /\ counters["backfillTransient"][r] \in 0 .. MaxCount /\ strikes[r].streak \in 0 .. MaxCount
      /\ counters["backfillUnresolved"][r] <= strikes[r].fill
      /\ counters["backfillTransient"][r] <= strikes[r].streak
  BY CountsTyped DEF Earned, CountsEarned
<1>10. /\ f \in 0 .. MaxCount /\ s \in 0 .. MaxCount
  BY <1>7, <1>9, CappedTyped, TablesAssumption
<1>11. base \in [CounterKinds -> [Repos -> 0 .. MaxCount]]
       /\ base["activityUnresolved"] = counters["activityUnresolved"]
       /\ base["backfillUnresolved"] = counters["backfillUnresolved"]
       /\ base["backfillTransient"] = IF fill.why = "transient" THEN counters["backfillTransient"]
                                      ELSE [counters["backfillTransient"] EXCEPT ![r] = 0]
  BY <1>3, CountsTyped, TablesAssumption DEF After, Cleared
<1>12. ASSUME fill.why = "transient"
       PROVE  CountsEarned' /\ (fill'.pc = "disable" => WarnedByFill(fill.at)')
  <2>1. /\ kind = "backfillTransient" /\ n = Capped(counters["backfillTransient"][r] + 1)
        /\ s = Capped(strikes[r].streak + 1) /\ f = strikes[r].fill
    BY <1>4, <1>5, <1>7, <1>11, <1>12
  <2>2. n <= s /\ n \in 0 .. MaxCount
    BY <1>9, <2>1, CountedAlike, CappedTyped
  <2>3. /\ counters'["backfillTransient"] = [counters["backfillTransient"] EXCEPT ![r] = n]
        /\ counters'["activityUnresolved"] = counters["activityUnresolved"]
        /\ counters'["backfillUnresolved"] = counters["backfillUnresolved"]
    BY <1>6, <1>11, <1>12, <2>1, CountsTyped
  <2>4. CountsEarned'
    BY <1>8, <1>9, <2>1, <2>2, <2>3, CountsTyped DEF Earned, CountsEarned
  <2>5. fill'.pc = "disable" => WarnedByFill(fill.at)'
    <3>1. CASE fill' = [NoFill EXCEPT !.pc = "next", !.todo = fill.todo]
      BY <3>1 DEF NoFill
    <3>2. CASE fill' = [fill EXCEPT !.pc = "disable"] /\ n >= TransientThreshold
      <4>1. fill'.at = r
        BY <1>1, <3>2 DEF Typed, FillOK
      <4>2. s >= TransientThreshold
        BY <1>10, <2>2, <3>2, RollupAssumption
      <4> QED BY <1>8, <4>1, <4>2 DEF WarnedByFill
    <3> QED BY <1>6, <1>12, <3>1, <3>2
  <2> QED BY <2>4, <2>5
<1>13. ASSUME fill.why = "unresolved"
       PROVE  CountsEarned' /\ (fill'.pc = "disable" => WarnedByFill(fill.at)')
  <2>1. /\ kind = "backfillUnresolved" /\ n = Capped(counters["backfillUnresolved"][r] + 1)
        /\ f = Capped(strikes[r].fill + 1) /\ s = 0
    BY <1>4, <1>5, <1>7, <1>11, <1>13
  <2>2. n <= f /\ n \in 0 .. MaxCount
    BY <1>9, <2>1, CountedAlike, CappedTyped
  <2>3. /\ counters'["backfillUnresolved"] = [counters["backfillUnresolved"] EXCEPT ![r] = n]
        /\ counters'["activityUnresolved"] = counters["activityUnresolved"]
        /\ counters'["backfillTransient"] = [counters["backfillTransient"] EXCEPT ![r] = 0]
    BY <1>6, <1>11, <1>13, <2>1, CountsTyped
  <2>4. CountsEarned'
    BY <1>8, <1>9, <2>1, <2>2, <2>3, CountsTyped DEF Earned, CountsEarned
  <2>5. fill'.pc = "disable" => WarnedByFill(fill.at)'
    <3>1. CASE fill' = [NoFill EXCEPT !.pc = "next", !.todo = fill.todo]
      BY <3>1 DEF NoFill
    <3>2. CASE fill' = [fill EXCEPT !.pc = "disable"] /\ n >= Threshold
      <4>1. fill'.at = r
        BY <1>1, <3>2 DEF Typed, FillOK
      <4>2. f >= Threshold
        BY <1>10, <2>2, <3>2, SyncAssumption
      <4> QED BY <1>8, <4>1, <4>2 DEF WarnedByFill
    <3> QED BY <1>6, <1>13, <3>1, <3>2
  <2> QED BY <2>4, <2>5
<1>14. ASSUME fill.why = "other"
       PROVE  CountsEarned' /\ (fill'.pc = "disable" => WarnedByFill(fill.at)')
  <2>1. f = strikes[r].fill /\ s = 0 /\ counters' = base /\ fill'.pc = "next"
    BY <1>6, <1>7, <1>14 DEF NoFill
  <2>2. /\ counters'["backfillUnresolved"] = counters["backfillUnresolved"]
        /\ counters'["activityUnresolved"] = counters["activityUnresolved"]
        /\ counters'["backfillTransient"] = [counters["backfillTransient"] EXCEPT ![r] = 0]
    BY <1>11, <1>14, <2>1
  <2>3. CountsEarned'
    BY <1>8, <1>9, <2>1, <2>2, CountsTyped DEF Earned, CountsEarned
  <2> QED BY <2>1, <2>3
<1>15. CountsEarned' /\ (fill'.pc = "disable" => WarnedByFill(fill.at)')
  BY <1>2, <1>12, <1>13, <1>14
<1>16. ASSUME NEW j \in Batchers, job'[j].pc = "disable" PROVE Warned(job[j].at)'
  <2>1. job[j].at \in Repos /\ strikes'[job[j].at].sync = strikes[job[j].at].sync
    BY <1>2, <1>8, <1>16 DEF Typed, JobsOK, RunOK, Shaped, JobRuns
  <2> QED BY <1>2, <1>16, <2>1 DEF Earned, Warned
<1>17. fill'.pc # "failed"
  BY <1>6 DEF NoFill, Typed, FillOK
<1> QED BY <1>15, <1>16, <1>17 DEF Earned, WhyKnown

(* Steps that count nothing and do not turn to deactivating.                 *)
LEMMA EarnedStays ==
    ASSUME Typed, Earned, WhyKnown, UNCHANGED <<world, counters, strikes>>,
           \A j \in Batchers : job'[j].pc = "disable" => job'[j] = job[j],
           fill'.pc \in {"disable", "failed"} => fill' = fill \/
               (fill'.pc = "failed" /\ fill'.why \in {"unresolved", "transient", "other"})
    PROVE  Earned' /\ WhyKnown'
<1>1. WhyKnown'
  BY DEF WhyKnown
<1>2. Earned'
  BY DEF Earned, CountsEarned, Warned, WarnedByFill, Without
<1> QED BY <1>1, <1>2

(* The other steps of the backfill.                                          *)
LEMMA FillGoesOn ==
    ASSUME Typed, (Alone /\ FillStart) \/ FillStep \/ CrashOfFill, ~FillClear, ~FillFailed
    PROVE  /\ UNCHANGED <<counters, strikes, job>>
           /\ fill'.pc # "disable"
           /\ fill'.pc = "failed" => fill'.why \in {"unresolved", "transient", "other"}
<1>0. fill \in [pc : FillPcs, todo : SUBSET Repos, at : Repos \cup {Nobody},
                 found : SUBSET Events, authors : SUBSET Devs, why : Whys] /\ NoFill.pc = "idle"
  BY DEF Typed, FillOK, NoFill
<1>1. ASSUME NEW why \in {"unresolved", "transient", "other"}, fill' = FillFails(why)
      PROVE  fill'.pc = "failed" /\ fill'.why \in {"unresolved", "transient", "other"}
  BY <1>0, <1>1 DEF FillFails
<1>2. ASSUME NEW w, NEW next, FillWrite(w, next), next.pc \notin {"disable", "failed"}
      PROVE  /\ fill'.pc # "disable"
             /\ fill'.pc = "failed" => fill'.why \in {"unresolved", "transient", "other"}
  BY <1>1, <1>2 DEF FillWrite
<1>3. UNCHANGED <<counters, strikes, job>>
  BY DEF FillStart, FillStep, FillNext, FillFetch, FillHistory, FillCredit, FillMark, FillDisable,
         CrashOfFill, tables, syncVars
<1>4. CASE FillStart
  BY <1>3, <1>4 DEF FillStart, NoFill
<1>5. CASE FillNext
  <2>1. ASSUME NEW r, fill' = [fill EXCEPT !.pc = "fetch", !.todo = @ \ {r}, !.at = r]
        PROVE  fill'.pc = "fetch"
    BY <1>0, <2>1
  <2> QED BY <1>0, <1>3, <1>5, <2>1 DEF FillNext
<1>6. CASE FillFetch
  <2>1. ASSUME NEW E, fill' = [fill EXCEPT !.pc = "history", !.found = E] PROVE fill'.pc = "history"
    BY <1>0, <2>1
  <2> QED BY <1>1, <1>3, <1>6, <2>1 DEF FillFetch
<1>7. CASE FillHistory
  <2>1. \A A : [fill EXCEPT !.pc = "credit", !.authors = A].pc = "credit"
    BY <1>0
  <2> QED BY <1>2, <1>7, <2>1 DEF FillHistory
<1>8. CASE FillCredit
  <2>1. \A d : [fill EXCEPT !.authors = @ \ {d}].pc = "credit"
    BY <1>0, <1>8 DEF FillCredit
  <2> QED BY <1>2, <1>8, <2>1 DEF FillCredit
<1>9. CASE FillMark
  <2>1. [fill EXCEPT !.pc = "clear"].pc = "clear"
    BY <1>0
  <2> QED BY <1>2, <1>9, <2>1 DEF FillMark
<1>10. CASE FillDisable
  <2>1. [NoFill EXCEPT !.pc = "next", !.todo = fill.todo].pc = "next"
    BY DEF NoFill
  <2> QED BY <1>0, <1>10, <2>1 DEF FillDisable
<1>11. CASE CrashOfFill
  BY <1>0, <1>3, <1>11 DEF CrashOfFill
<1> QED BY <1>3, <1>4, <1>5, <1>6, <1>7, <1>8, <1>9, <1>10, <1>11 DEF FillStep

(* The reason of a failure is known.                                         *)
LEMMA WhyStays ==
    ASSUME Typed, WhyKnown, Next PROVE WhyKnown'
<1>1. CASE FillClear
  BY <1>1 DEF FillClear, FillWrite, FillFails, NoFill, WhyKnown, Typed, FillOK
<1>2. CASE FillFailed
  <2>1. \/ fill' = NoFill \/ fill' = [NoFill EXCEPT !.pc = "next", !.todo = fill.todo]
        \/ fill' = [fill EXCEPT !.pc = "disable"]
    BY <1>2 DEF FillFailed
  <2>2. /\ NoFill.pc = "idle" /\ [NoFill EXCEPT !.pc = "next", !.todo = fill.todo].pc = "next"
        /\ [fill EXCEPT !.pc = "disable"].pc = "disable"
    BY DEF NoFill, Typed, FillOK
  <2> QED BY <2>1, <2>2 DEF WhyKnown
<1>3. CASE ~FillClear /\ ~FillFailed
  BY <1>3, FillMoves, FillGoesOn DEF WhyKnown
<1> QED BY <1>1, <1>2, <1>3

(* Every step keeps the counters behind the answers.                         *)
LEMMA NextEarns ==
    ASSUME Typed, Earned, WhyKnown, [Next]_vars
    PROVE  Earned' /\ WhyKnown'
<1>1. CASE UNCHANGED vars
  BY <1>1 DEF vars, tables, syncVars, Earned, CountsEarned, Warned, WarnedByFill, Without, WhyKnown
<1>2. CASE Next
  <2>1. world' = world /\ WhyKnown'
    BY <1>2, WorldStays, WhyStays
  <2>2. CASE ~Without({"write"})
    BY <2>1, <2>2 DEF Earned, Without
  <2>3. CASE Without({"write"})
    <3>1. CASE SyncRun \/ SnapshotRun
      <4>1. fill' = fill
        BY <3>1 DEF SyncRun, SnapshotRun
      <4>2. CASE \E j \in Batchers : MarkUnresolved(j)
        BY <2>1, <2>3, <4>1, <4>2, MarkEarns
      <4>3. CASE ~\E j \in Batchers : MarkUnresolved(j)
        <5>1. UNCHANGED <<counters, strikes>>
          BY <3>1, <4>3 DEF SyncRun, SnapshotRun, Start, SyncStep,
             BatchStep, CrashOf, NextBatch, Fetch, Disable, NextRepo, Meta,
             UpsertDevelopers, End, Insert, UpdateStats, NextTier, Retier, tables, Batchers
        <5> QED BY <1>2, <2>1, <4>1, <4>3, <5>1, OnlyMarkDisables, EarnedStays
      <4> QED BY <4>2, <4>3
    <3>2. CASE FillRun
      <4>1. CASE FillClear
        BY <2>3, <4>1, ClearEarns
      <4>2. CASE FillFailed
        BY <2>3, <4>2, FailedEarns
      <4>3. CASE ~FillClear /\ ~FillFailed
        <5>1. /\ UNCHANGED <<counters, strikes, job>>
              /\ fill'.pc # "disable"
              /\ fill'.pc = "failed" => fill'.why \in {"unresolved", "transient", "other"}
          BY <3>2, <4>3, FillGoesOn DEF FillRun
        <5> QED BY <2>1, <5>1, EarnedStays
      <4> QED BY <4>1, <4>2, <4>3
    <3>3. CASE Tick \/ RollRun \/ \E r \in Repos : Discover(r)
      <4>1. UNCHANGED <<counters, strikes, job, fill>>
        BY <3>3 DEF Tick, RollRun, Discover, RollRead, RollStep, RollHistory, RollCredit, RollDelete,
                    Recompute, CrashOfRoll, tables, syncVars
      <4> QED BY <2>1, <4>1, EarnedStays
    <3> QED BY <1>2, <3>1, <3>2, <3>3 DEF Next
  <2> QED BY <2>2, <2>3
<1> QED BY <1>1, <1>2

(* Nothing counts against a repository in the beginning.                     *)
LEMMA InitEarned == Init => Earned /\ WhyKnown
<1> SUFFICES ASSUME Init PROVE Earned /\ WhyKnown
  OBVIOUS
<1>1. /\ counters = [k \in CounterKinds |-> [r \in Repos |-> 0]]
      /\ strikes = [r \in Repos |-> [sync |-> 0, fill |-> 0, streak |-> 0]]
      /\ fill = NoFill /\ job = [j \in Batchers |-> NoRun] /\ NoRun.pc = "idle" /\ NoFill.pc = "idle"
  BY DEF Init, TablesInit, SyncInit, RollupInit, NoRun, NoFill
<1>2. CountsEarned
  BY <1>1 DEF CountsEarned, CounterKinds
<1> QED BY <1>1, <1>2 DEF Earned, WhyKnown

(* The inductive invariant of the counters holds.                            *)
LEMMA EarnedInvariant == Spec => [](Typed /\ Earned /\ WhyKnown)
<1>1. Init => Typed /\ Earned /\ WhyKnown
  BY InitTyped, InitEarned
<1>2. (Typed /\ Earned /\ WhyKnown) /\ [Next]_vars => (Typed /\ Earned /\ WhyKnown)'
  BY NextTyped, NextEarns
<1> QED BY <1>1, <1>2, PTL DEF Spec

(* The step that deactivates a repository.                                   *)
LEMMA DeactivationStep ==
    ASSUME Typed, Earned, [Next]_vars, Without({"write"}), NEW r \in Repos,
           repo[r].active, ~repo'[r].active
    PROVE  \/ strikes[r].sync >= Threshold \/ strikes[r].fill >= Threshold
           \/ strikes[r].streak >= TransientThreshold
<1>0. repo \in [Repos -> RepoRows]
  BY DEF Typed, TablesTypeOK, RepoRows
<1>1. CASE UNCHANGED repo
  BY <1>1
<1>2. ASSUME NEW q, NEW b, repo' = [repo EXCEPT ![q].active = b] PROVE q = r
  BY <1>0, <1>2 DEF RepoRows
<1>3. ASSUME NEW j \in Batchers, Disable(j) PROVE strikes[r].sync >= Threshold
  <2>1. job[j].pc = "disable" /\ job[j].at = r
    BY <1>2, <1>3 DEF Disable
  <2> QED BY <2>1 DEF Earned, Warned
<1>4. ASSUME NEW q, NEW last, repo' = repo \/ repo' = [repo EXCEPT ![q].last = last] PROVE FALSE
  BY <1>0, <1>4 DEF RepoRows
<1>5. ASSUME NEW j \in Batchers, Meta(j) PROVE FALSE
  BY <1>4, <1>5 DEF Meta
<1>6. CASE Retier
  <2>1. PICK k : repo' = repo \/ repo' = Retiered(k)
    BY <1>6 DEF Retier
  <2> QED BY <1>0, <2>1 DEF Retiered, RepoRows
<1>7. CASE FillMark
  <2>1. PICK q : repo' = repo \/ repo' = [repo EXCEPT ![q].filled = TRUE]
    BY <1>7 DEF FillMark
  <2> QED BY <1>0, <2>1 DEF RepoRows
<1>8. CASE FillDisable
  <2>1. fill.pc = "disable" /\ fill.at = r
    BY <1>2, <1>8 DEF FillDisable
  <2> QED BY <2>1 DEF Earned, WarnedByFill
<1>9. ASSUME NEW q \in Repos, Discover(q) PROVE FALSE
  <2>1. PICK pushed : repo' = [repo EXCEPT ![q].active = TRUE, ![q].last = pushed]
    BY <1>9 DEF Discover
  <2> QED BY <1>0, <2>1 DEF RepoRows
<1> QED BY <1>1, <1>3, <1>5, <1>6, <1>7, <1>8, <1>9, RepoMoves DEF vars, tables

(* DeactivationEarned: a repository is deactivated only after enough answers *)
(* that count against it (to sync and snapshot: in total, to the backfill:   *)
(* since it succeeded), or enough transient failures of the backfill in a    *)
(* row, unless a count was written twice.                                    *)
THEOREM PipelineDeactivatesDuly == Spec => DeactivationEarned
<1>1. (Typed /\ Earned) /\ [Next]_vars =>
        [Without({"write"}) => \A r \in Repos : repo[r].active /\ ~repo'[r].active =>
           \/ strikes[r].sync >= Threshold \/ strikes[r].fill >= Threshold
           \/ strikes[r].streak >= TransientThreshold]_vars
  BY DeactivationStep
<1> QED BY <1>1, EarnedInvariant, PTL DEF Spec, DeactivationEarned

-------------------------------------------------------------------------------
(* 4. The cursor the containers share.                                       *)

RealChanges == [kind : {"merge", "count", "clear"}, to : Moments]

RowTypeOK ==
    /\ CursorTypeOK
    /\ moment \in Moments
    /\ \A x \in Writers : change[x] # NoChange => change[x] \in RealChanges

(* The transactions that have the row: at most one, which read it as it is.  *)
RowHeld == \A x \in owner : copy[x] = row /\ owner = {x}

RowInv == RowTypeOK /\ RowHeld /\ CursorLosesNothing

(* The later of two moments is one of them. *)
LEMMA LaterOfTwo == ASSUME NEW s \in Moments, NEW t \in Moments PROVE Later(s, t) \in Moments
BY DEF Later

(* What a transaction commits: a document whose parts are the merged          *)
(* cooldown and the counter.                                                 *)
LEMMA ChangedIs ==
    ASSUME NEW r \in Rows, NEW what \in RealChanges, what.kind = "count" => r.count < MaxRow
    PROVE  /\ Changed(r, what) \in Rows
           /\ Changed(r, what).until = IF what.kind = "merge" THEN Later(r.until, what.to) ELSE r.until
           /\ Changed(r, what).count = CASE what.kind = "count" -> r.count + 1
                                         [] what.kind = "clear" -> 0
                                         [] OTHER -> r.count
<1>1. r.until \in Moments /\ r.count \in 0 .. MaxRow /\ what.to \in Moments /\ MaxRow \in Nat
  BY ClientAssumption DEF Rows, RealChanges
<1>2. CASE what.kind = "merge"
  <2>1. PICK u \in Moments : u = Later(r.until, what.to)
    BY <1>1, LaterOfTwo
  <2>2. Changed(r, what) = [r EXCEPT !.until = u]
    BY <1>2, <2>1 DEF Changed
  <2>3. what.kind # "count" /\ what.kind # "clear"
    BY <1>2
  <2> QED BY <1>2, <2>1, <2>2, <2>3 DEF Rows
<1>3. CASE what.kind = "count"
  <2>1. Changed(r, what) = [r EXCEPT !.count = r.count + 1]
    BY <1>3 DEF Changed
  <2>2. r.count + 1 \in 0 .. MaxRow
    BY <1>1, <1>3
  <2> QED BY <1>3, <2>1, <2>2 DEF Rows
<1>4. CASE what.kind = "clear"
  <2>1. Changed(r, what) = [r EXCEPT !.count = 0]
    BY <1>4 DEF Changed
  <2> QED BY <1>1, <1>4, <2>1 DEF Rows
<1> QED
  BY <1>2, <1>3, <1>4 DEF RealChanges

(* A transaction that opens changes nothing of the row. *)
LEMMA OpenStep ==
    ASSUME RowInv, NEW x \in Writers, NEW what \in RealChanges, Open(x, what),
           UNCHANGED <<moment, row, owner, copy, lost, merged, counted>>
    PROVE  RowInv'
<1>1. change' \in [Writers -> Changes]
  BY DEF Open, RowInv, RowTypeOK, CursorTypeOK, Changes, RealChanges
<1>2. \A y \in Writers : change'[y] # NoChange => change'[y] \in RealChanges
  BY DEF Open, RowInv, RowTypeOK, CursorTypeOK
<1> QED
  BY <1>1, <1>2 DEF RowInv, RowTypeOK, CursorTypeOK, RowHeld, CursorLosesNothing

(* A transaction that ends, or tries again, leaves no change of an unknown   *)
(* kind behind.                                                              *)
LEMMA EndTyped ==
    ASSUME RowTypeOK, NEW x \in Writers,
           change' \in {change, [change EXCEPT ![x] = NoChange]}
    PROVE  /\ change' \in [Writers -> Changes]
           /\ \A y \in Writers : change'[y] # NoChange => change'[y] \in RealChanges
<1>1. NoChange \in Changes
  BY ClientAssumption DEF NoChange, Changes, Moments
<1> QED
  BY <1>1 DEF RowTypeOK, CursorTypeOK

(* A transaction reads the row and keeps it. *)
LEMMA AcquireStep == ASSUME RowInv, NEW x \in Writers, Acquire(x) PROVE RowInv'
<1>1. copy' \in [Writers -> Rows] /\ copy'[x] = row /\ owner' = {x}
  BY DEF Acquire, RowInv, RowTypeOK, CursorTypeOK
<1> QED
  BY <1>1 DEF Acquire, RowInv, RowTypeOK, CursorTypeOK, RowHeld, CursorLosesNothing

(* A transaction writes the row back. *)
LEMMA CommitStep == ASSUME RowInv, NEW x \in Writers, Commit(x) PROVE RowInv'
<1> DEFINE what == change[x]
<1>1. /\ what \in RealChanges /\ row \in Rows /\ copy[x] = row /\ owner' = {}
      /\ what.kind = "count" => row.count < MaxRow
      /\ row' = Changed(row, what)
      /\ row.until = merged /\ row.count = counted
  BY DEF Commit, RowInv, RowTypeOK, CursorTypeOK, RowHeld, CursorLosesNothing
<1>2. row' \in Rows /\ row'.until = merged' /\ row'.count = counted'
  <2>1. /\ row' \in Rows
        /\ row'.until = IF what.kind = "merge" THEN Later(row.until, what.to) ELSE row.until
        /\ row'.count = CASE what.kind = "count" -> row.count + 1
                          [] what.kind = "clear" -> 0
                          [] OTHER -> row.count
    BY <1>1, ChangedIs
  <2> QED BY <1>1, <2>1 DEF Commit
<1>3. merged' \in Moments /\ counted' \in 0 .. MaxRow
  BY <1>2 DEF Rows
<1>4. /\ change' \in [Writers -> Changes]
      /\ \A y \in Writers : change'[y] # NoChange => change'[y] \in RealChanges
  BY EndTyped DEF Commit, RowInv
<1>5. copy' \in [Writers -> Rows] /\ lost' \in 0 .. MaxLost /\ moment' = moment
  <2>1. NoRow \in Rows
    BY ClientAssumption DEF NoRow, Rows, Moments
  <2> QED BY <2>1, ClientAssumption DEF Commit, RowInv, RowTypeOK, CursorTypeOK
<1> QED
  BY <1>1, <1>2, <1>3, <1>4, <1>5 DEF RowInv, RowTypeOK, CursorTypeOK, RowHeld, CursorLosesNothing

(* A transaction is rolled back. *)
LEMMA AbortStep == ASSUME RowInv, NEW x \in Writers, Abort(x) PROVE RowInv'
<1>1. /\ change' \in [Writers -> Changes]
      /\ \A y \in Writers : change'[y] # NoChange => change'[y] \in RealChanges
  BY EndTyped DEF Abort, RowInv
<1>2. copy' \in [Writers -> Rows] /\ lost' \in 0 .. MaxLost
  <2>1. NoRow \in Rows
    BY ClientAssumption DEF NoRow, Rows, Moments
  <2> QED BY <2>1, ClientAssumption DEF Abort, RowInv, RowTypeOK, CursorTypeOK
<1>3. owner' = {}
  BY DEF Abort, RowInv, RowHeld
<1> QED
  BY <1>1, <1>2, <1>3 DEF Abort, RowInv, RowTypeOK, CursorTypeOK, RowHeld, CursorLosesNothing

(* An answer may open a transaction for what it publishes. *)
LEMMA AnswerStep == ASSUME RowInv, NEW c \in Calls, Answer(c) PROVE RowInv'
<1>1. UNCHANGED <<moment, row, owner, copy, lost, merged, counted>>
  BY DEF Answer
<1>2. CASE UNCHANGED change
  BY <1>1, <1>2 DEF RowInv, RowTypeOK, CursorTypeOK, RowHeld, CursorLosesNothing
<1>3. ASSUME NEW reset \in moment + 1 .. LastMoment, NEW x \in Writers,
             Open(x, [kind |-> "merge", to |-> reset])
      PROVE  RowInv'
  <2>1. [kind |-> "merge", to |-> reset] \in RealChanges
    BY ClientAssumption DEF RealChanges, Moments, RowInv, RowTypeOK
  <2> QED BY <1>1, <1>3, <2>1, OpenStep
<1> QED
  BY <1>2, <1>3, Zenon DEF Answer

(* Every step keeps the invariant. *)
LEMMA Step == RowInv /\ [ClientNext]_allVars => RowInv'
<1> SUFFICES ASSUME RowInv, [ClientNext]_allVars PROVE RowInv'
  OBVIOUS
<1>1. ASSUME NEW x \in Writers, CountUnresolved(x) PROVE RowInv'
  <2>1. \A k \in {"count", "clear"} : [kind |-> k, to |-> 0] \in RealChanges
    BY ClientAssumption DEF RealChanges, Moments
  <2>2. PICK k \in {"count", "clear"} : Open(x, [kind |-> k, to |-> 0])
    BY <1>1 DEF CountUnresolved
  <2>3. UNCHANGED <<moment, row, owner, copy, lost, merged, counted>>
    BY <1>1 DEF CountUnresolved
  <2> QED BY <2>1, <2>2, <2>3, OpenStep
<1>2. ASSUME NEW x \in Writers, PublishElsewhere(x) PROVE RowInv'
  <2>1. PICK until \in moment + 1 .. LastMoment : Open(x, [kind |-> "merge", to |-> until])
    BY <1>2 DEF PublishElsewhere
  <2>2. [kind |-> "merge", to |-> until] \in RealChanges
    BY ClientAssumption DEF RealChanges, Moments, RowInv, RowTypeOK
  <2>3. UNCHANGED <<moment, row, owner, copy, lost, merged, counted>>
    BY <1>2 DEF PublishElsewhere
  <2> QED BY <2>1, <2>2, <2>3, OpenStep
<1>3. ASSUME NEW x \in Writers, CursorNext(x) PROVE RowInv'
  BY <1>1, <1>2, <1>3, AcquireStep, CommitStep, AbortStep DEF CursorNext, CursorStep
<1>4. ASSUME UNCHANGED cursorVars, moment' \in Moments PROVE RowInv'
  BY <1>4 DEF cursorVars, RowInv, RowTypeOK, CursorTypeOK, RowHeld, CursorLosesNothing
<1>5. moment \in Moments
  BY DEF RowInv, RowTypeOK
<1>6. ASSUME NEW c \in Calls, Ask(c) \/ CallStep(c) PROVE RowInv'
  BY <1>4, <1>5, <1>6, AnswerStep DEF Ask, CallStep, Decide, Wake
<1>7. ASSUME NEW p \in Processes, PullEnds(p) \/ IntervalEnds(p) PROVE RowInv'
  BY <1>4, <1>5, <1>7 DEF PullEnds, IntervalEnds
<1>8. CASE MomentPasses
  <2>1. moment' \in Moments
    BY <1>5, <1>8, ClientAssumption DEF MomentPasses, Moments
  <2> QED BY <1>4, <1>8, <2>1 DEF MomentPasses
<1>9. CASE UNCHANGED allVars
  BY <1>4, <1>5, <1>9 DEF allVars
<1> QED
  BY <1>3, <1>6, <1>7, <1>8, <1>9 DEF ClientNext

(* The row is what the committed changes amount to, and nobody but the one   *)
(* transaction that has it is about to write it.                             *)
THEOREM RowIsHeld == ClientSpec => []RowInv
<1>1. ClientInit => RowInv
  BY ClientAssumption DEF ClientInit, RowInv, RowTypeOK, CursorTypeOK, RowHeld, CursorLosesNothing,
     Moments, Rows, NoRow, NoChange, Changes
<1> QED
  BY <1>1, Step, PTL DEF ClientSpec

(* No change of the shared document is lost. *)
THEOREM NoChangeLost == ClientSpec => []CursorLosesNothing
<1>1. RowInv => CursorLosesNothing
  BY DEF RowInv
<1> QED
  BY <1>1, RowIsHeld, PTL
===============================================================================
