------------------------------ MODULE ReadsProofs ------------------------------
(***************************************************************************)
(* What a read of the API starts and what it answers.                      *)
(*                                                                         *)
(* The admission of sync-on-read, for any number of proposals, processes   *)
(* and reads, and however the processes crash:                             *)
(*   - a new proposal is ingested by one sync at a time: a sync past its   *)
(*     guard holds the guard of its key, and one that ingests that of the  *)
(*     proposal's id as well; guards are freed by those alone that hold    *)
(*     them, by name or because their process died;                        *)
(*   - the keys in flight of a process are those of its admitted reads,    *)
(*     one each, and every lock belongs to a sync that will free it;       *)
(*   - two starts under one key are a cooldown apart: an entry of the map  *)
(*     has the age of the last start of its key, a key without an entry    *)
(*     may start again, and the entries came one after the other, so that  *)
(*     one just stamped is among the newest that are kept.                 *)
(* The tally of a proposal's votes, for any power, total and committee     *)
(* below 200, and the tally of a linked survey, for any responses and      *)
(* however the requests for transactions and weights end:                  *)
(*   - the shares of a body are at most the whole, they are what the       *)
(*     analytics say, and a verdict that has turned to one side is not     *)
(*     turned by power that comes to it;                                   *)
(*   - of a member of the committee, and of a responder, the last vote     *)
(*     that is valid counts, and no other;                                 *)
(*   - no failed request is hidden in a finalized tally.                   *)
(***************************************************************************)
EXTENDS SyncOnRead, ProposalTally, SurveyTally,
        FiniteSetTheorems, FunctionTheorems, WellFoundedInduction, TLAPS

(* Where a sync holds the guard of its key. *)
Guarded == {"sync", "discover", "canonical", "ingest"}

ReadRecords == [pc : {"idle"} \cup Reading \cup Working, key : Keys \cup {<<>>},
                read : Keys \cup {<<>>}, lag : Int, seen : BOOLEAN]

ReadsTyped ==
    /\ req \in [Requests -> ReadRecords]
    /\ guard \in [Keys -> Owners \cup {Nobody, Dead}]
    /\ \A r \in Requests :
         /\ req[r].pc # "idle" => req[r].read \in Keys
         /\ req[r].pc \in {"check"} \cup Working => req[r].key \in Keys

GuardsHeld == \A r \in Requests :
    /\ req[r].pc \in Guarded => guard[req[r].key] = r
    /\ req[r].pc = "ingest" => guard[Canonical(req[r].read[1])] = r

IInv == ReadsTyped /\ GuardsHeld

-------------------------------------------------------------------------------
(* Nobody is taken for another. *)
LEMMA OwnersDiffer ==
    ASSUME NEW r \in Requests
    PROVE  r # Nobody /\ r # Dead /\ \A p \in Processes : r # OverviewOf(p)
BY ParametersAssumption DEF Requests, Nobody, Dead, OverviewOf

(* A proposal has a key of its id. *)
LEMMA CanonicalKey ==
    ASSUME NEW k \in Keys
    PROVE  k[1] \in Proposals /\ Canonical(k[1]) \in Keys
BY DEF Keys, Canonical

(* The step changes one request.                                             *)
OnlyReq(r, w) == req' = [req EXCEPT ![r] = w]

(* A step of one request keeps the invariant when the record it becomes is    *)
(* one, when it holds what it has to hold, and when it takes no guard from    *)
(* the others.                                                               *)
LEMMA StepOf ==
    ASSUME IInv, NEW r \in Requests, NEW w \in ReadRecords, OnlyReq(r, w),
           w.pc # "idle" => w.read \in Keys,
           w.pc \in {"check"} \cup Working => w.key \in Keys,
           guard' \in [Keys -> Owners \cup {Nobody, Dead}],
           \A k \in Keys, s \in Requests \ {r} : guard[k] = s => guard'[k] = s,
           w.pc \in Guarded => guard'[w.key] = r,
           w.pc = "ingest" => guard'[Canonical(w.read[1])] = r
    PROVE  IInv'
<1>1. req'[r] = w /\ \A s \in Requests \ {r} : req'[s] = req[s]
  BY DEF OnlyReq, IInv, ReadsTyped
<1>2. ReadsTyped'
  BY <1>1 DEF OnlyReq, IInv, ReadsTyped
<1>3. ASSUME NEW s \in Requests \ {r}
      PROVE  /\ req'[s].pc \in Guarded => guard'[req'[s].key] = s
             /\ req'[s].pc = "ingest" => guard'[Canonical(req'[s].read[1])] = s
  <2>1. req'[s] = req[s]
    BY <1>1
  <2>2. ASSUME req[s].pc \in Guarded PROVE guard'[req[s].key] = s
    <3>1. req[s].key \in Keys
      BY <2>2 DEF IInv, ReadsTyped, Guarded, Working
    <3> QED BY <2>2, <3>1 DEF IInv, GuardsHeld
  <2>3. ASSUME req[s].pc = "ingest" PROVE guard'[Canonical(req[s].read[1])] = s
    <3>1. Canonical(req[s].read[1]) \in Keys
      BY <2>3, CanonicalKey DEF IInv, ReadsTyped
    <3> QED BY <2>3, <3>1 DEF IInv, GuardsHeld
  <2> QED BY <2>1, <2>2, <2>3
<1>4. GuardsHeld'
  BY <1>1, <1>3 DEF GuardsHeld
<1> QED
  BY <1>2, <1>4 DEF IInv

(* A request that ends keeps the invariant, if it takes no guard from the    *)
(* others.                                                                   *)
LEMMA EndOf ==
    ASSUME IInv, NEW r \in Requests, OnlyReq(r, Idle),
           guard' \in [Keys -> Owners \cup {Nobody, Dead}],
           \A k \in Keys, s \in Requests \ {r} : guard[k] = s => guard'[k] = s
    PROVE  IInv'
<1>1. Idle \in ReadRecords /\ Idle.pc = "idle"
  BY DEF Idle, ReadRecords
<1> QED
  BY <1>1, StepOf DEF Guarded, Working

(* A guard that a request holds, and that it gives back, is no one else's.   *)
LEMMA FreedOwn ==
    ASSUME IInv, NEW r \in Requests, NEW h \in Keys, guard[h] = r, Freed(h)
    PROVE  /\ guard' \in [Keys -> Owners \cup {Nobody, Dead}]
           /\ \A k \in Keys, s \in Requests \ {r} : guard[k] = s => guard'[k] = s
BY DEF Freed, IInv, ReadsTyped

(* A guard that nobody holds is taken from no one. *)
LEMMA TakenFree ==
    ASSUME IInv, NEW r \in Owners, NEW h \in Keys, guard[h] = Nobody,
           guard' = [guard EXCEPT ![h] = r]
    PROVE  /\ guard' \in [Keys -> Owners \cup {Nobody, Dead}]
           /\ guard'[h] = r
           /\ \A k \in Keys, s \in Requests : guard[k] = s => guard'[k] = s
BY OwnersDiffer DEF IInv, ReadsTyped

-------------------------------------------------------------------------------
(* A request goes on to another place. *)
LEMMA MovedTo ==
    ASSUME IInv, NEW r \in Requests, NEW p \in {"idle"} \cup Reading \cup Working,
           NEW w, w = [req[r] EXCEPT !.pc = p]
    PROVE  /\ w \in ReadRecords /\ w.pc = p /\ w.key = req[r].key /\ w.read = req[r].read
<1>1. PICK v \in ReadRecords : v = req[r]
  BY DEF IInv, ReadsTyped
<1> QED
  BY <1>1 DEF ReadRecords

-------------------------------------------------------------------------------
(* The steps of a read before its guard: they take none. *)
LEMMA BeforeGuard ==
    ASSUME IInv, NEW r \in Requests, Read(r) \/ Resolve(r) \/ Skip(r) \/ Start(r)
    PROVE  IInv'
<1>1. /\ guard' = guard /\ guard' \in [Keys -> Owners \cup {Nobody, Dead}]
      /\ \A k \in Keys, s \in Requests \ {r} : guard[k] = s => guard'[k] = s
  BY DEF Read, Resolve, Skip, Start, shared, IInv, ReadsTyped
<1>2. CASE Read(r)
  <2>1. PICK q \in Proposals, n \in Names :
          OnlyReq(r, [Idle EXCEPT !.pc = "resolve", !.read = <<q, n>>])
    BY <1>2 DEF Read, OnlyReq
  <2>2. <<q, n>> \in Keys
    BY ParametersAssumption DEF Keys
  <2>3. PICK w : w = [Idle EXCEPT !.pc = "resolve", !.read = <<q, n>>]
    OBVIOUS
  <2>4. w \in ReadRecords /\ w.pc = "resolve" /\ w.read \in Keys
    <3>1. Idle \in ReadRecords
      BY DEF Idle, ReadRecords
    <3>2. PICK v \in ReadRecords : v = Idle
      BY <3>1
    <3> QED BY <2>2, <2>3, <3>2 DEF ReadRecords, Reading
  <2> QED BY <1>1, <2>1, <2>3, <2>4, StepOf DEF Guarded, Working
<1>3. CASE Resolve(r)
  <2>1. CASE OnlyReq(r, Idle)
    BY <1>1, <2>1, EndOf
  <2>2. PICK k : k = KeyOf(r[1], req[r].read)
    OBVIOUS
  <2>3. req[r].read \in Keys /\ req[r] \in ReadRecords
    BY <1>3 DEF Resolve, IInv, ReadsTyped
  <2>4. k \in Keys
    BY <2>2, <2>3, CanonicalKey DEF KeyOf
  <2>5. PICK b \in BOOLEAN : b = (req[r].read[1] \in known)
    <3>1. (req[r].read[1] \in known) \in BOOLEAN
      BY SMT
    <3> QED BY <3>1
  <2>6. CASE req' = [req EXCEPT ![r] = [req[r] EXCEPT !.pc = "check", !.key = k, !.seen = b]]
    <3>1. PICK w : w = [req[r] EXCEPT !.pc = "check", !.key = k, !.seen = b]
      OBVIOUS
    <3>2. /\ w \in ReadRecords /\ w.pc = "check" /\ w.key = k
          /\ w.read = req[r].read
      <4>1. PICK v \in ReadRecords : v = req[r]
        BY <2>3
      <4> QED BY <2>4, <3>1, <4>1 DEF ReadRecords, Working, Reading
    <3>3. OnlyReq(r, w)
      BY <2>6, <3>1 DEF OnlyReq
    <3> QED BY <1>1, <2>3, <2>4, <3>2, <3>3, StepOf DEF Guarded
  <2>7. \/ OnlyReq(r, Idle)
        \/ req' = [req EXCEPT ![r] = [req[r] EXCEPT !.pc = "check", !.key = k, !.seen = b]]
    BY <1>3, <2>2, <2>5, Zenon DEF Resolve, OnlyReq
  <2> QED BY <2>1, <2>6, <2>7
<1>4. CASE Skip(r)
  BY <1>1, <1>4, EndOf DEF Skip, Skipped, Ended, OnlyReq
<1>5. CASE Start(r)
  <2>1. PICK w : w = [req[r] EXCEPT !.pc = "guard"]
    OBVIOUS
  <2>2. w \in ReadRecords /\ w.pc = "guard" /\ w.key = req[r].key /\ w.read = req[r].read
    BY <2>1, MovedTo DEF Working
  <2>3. OnlyReq(r, w)
    BY <1>5, <2>1, Zenon DEF Start, OnlyReq
  <2>4. w.key \in Keys /\ w.read \in Keys
    BY <1>5, <2>2 DEF Start, IInv, ReadsTyped
  <2> QED BY <1>1, <2>2, <2>3, <2>4, StepOf DEF Guarded
<1> QED
  BY <1>2, <1>3, <1>4, <1>5

(* A request that goes on to a place where it holds what it has to hold. *)
LEMMA GoesOn ==
    ASSUME IInv, NEW r \in Requests, NEW p \in Working, req[r].pc \in Working,
           req' = [req EXCEPT ![r].pc = p],
           guard' \in [Keys -> Owners \cup {Nobody, Dead}],
           \A k \in Keys, s \in Requests \ {r} : guard[k] = s => guard'[k] = s,
           p \in Guarded => guard'[req[r].key] = r,
           p = "ingest" => guard'[Canonical(req[r].read[1])] = r
    PROVE  IInv'
<1>1. PICK w : w = [req[r] EXCEPT !.pc = p]
  OBVIOUS
<1>2. w \in ReadRecords /\ w.pc = p /\ w.key = req[r].key /\ w.read = req[r].read
  BY <1>1, MovedTo
<1>3. OnlyReq(r, w)
  BY <1>1, Zenon DEF OnlyReq
<1>4. req[r].key \in Keys /\ req[r].read \in Keys
  BY DEF IInv, ReadsTyped, Working
<1> QED
  BY <1>2, <1>3, <1>4, StepOf

(* The guard of the request's key is taken when nobody has it. *)
LEMMA GuardStep == ASSUME IInv, NEW r \in Requests, Guard(r) PROVE IInv'
<1>1. req[r].pc \in Working /\ req[r].key \in Keys /\ r \in Owners
  BY DEF Guard, IInv, ReadsTyped, Working, Owners
<1>2. CASE guard[req[r].key] = Nobody
  <2>1. guard' = [guard EXCEPT ![req[r].key] = r]
    BY <1>2 DEF Guard
  <2>2. PICK p \in {"sync", "discover"} : req' = [req EXCEPT ![r].pc = p]
    <3>1. \/ req' = [req EXCEPT ![r].pc = "sync"]
          \/ req' = [req EXCEPT ![r].pc = "discover"]
      BY <1>2 DEF Guard
    <3> QED BY <3>1
  <2>3. /\ guard' \in [Keys -> Owners \cup {Nobody, Dead}]
        /\ \A k \in Keys, s \in Requests \ {r} : guard[k] = s => guard'[k] = s
        /\ guard'[req[r].key] = r
    BY <1>1, <1>2, <2>1, TakenFree
  <2>4. p \in Working /\ p # "ingest"
    BY DEF Working
  <2> QED BY <1>1, <2>2, <2>3, <2>4, GoesOn
<1>3. CASE guard[req[r].key] # Nobody
  BY <1>3, EndOf DEF Guard, Ended, OnlyReq, IInv, ReadsTyped
<1> QED
  BY <1>2, <1>3

(* A sync that ends frees the guard of its key, which it holds. *)
LEMMA FreesAndEnds ==
    ASSUME IInv, NEW r \in Requests, req[r].pc \in Guarded, Freed(req[r].key), Ended(r)
    PROVE  IInv'
<1>1. req[r].key \in Keys /\ guard[req[r].key] = r
  BY DEF IInv, ReadsTyped, GuardsHeld, Guarded, Working
<1> QED
  BY <1>1, FreedOwn, EndOf DEF Ended, OnlyReq

(* The list tells the id of the proposal: the guard of that is the one the   *)
(* request holds, or the next to take.                                       *)
LEMMA DiscoverStep == ASSUME IInv, NEW r \in Requests, Discover(r) PROVE IInv'
<1>1. PICK p \in {"ingest", "canonical"} :
        /\ req' = [req EXCEPT ![r].pc = p]
        /\ p = "ingest" => req[r].key = Canonical(req[r].read[1])
  <2>1. CASE req[r].key = Canonical(req[r].read[1])
    BY <2>1 DEF Discover
  <2>2. CASE req[r].key # Canonical(req[r].read[1])
    BY <2>2 DEF Discover
  <2> QED BY <2>1, <2>2
<1>2. req[r].pc \in Working /\ p \in Working /\ guard[req[r].key] = r /\ guard' = guard
  BY DEF Discover, Working, Guarded, IInv, GuardsHeld, shared
<1>3. guard' \in [Keys -> Owners \cup {Nobody, Dead}]
  BY <1>2 DEF IInv, ReadsTyped
<1> QED
  BY <1>1, <1>2, <1>3, GoesOn

(* The guard of the proposal's id is taken too, or that of the key freed. *)
LEMMA CanonicalStep == ASSUME IInv, NEW r \in Requests, CanonicalGuard(r) PROVE IInv'
<1> DEFINE c == Canonical(req[r].read[1])
<1>1. req[r].pc \in Working \cap Guarded /\ req[r].key \in Keys /\ c \in Keys /\ r \in Owners
  BY CanonicalKey DEF CanonicalGuard, IInv, ReadsTyped, Working, Guarded, Owners
<1>2. guard[req[r].key] = r
  BY <1>1 DEF IInv, GuardsHeld
<1>3. CASE guard[c] = Nobody
  <2>1. guard' = [guard EXCEPT ![c] = r] /\ req' = [req EXCEPT ![r].pc = "ingest"]
    BY <1>3 DEF CanonicalGuard
  <2>2. /\ guard' \in [Keys -> Owners \cup {Nobody, Dead}]
        /\ \A k \in Keys, s \in Requests : guard[k] = s => guard'[k] = s
        /\ guard'[c] = r
    BY <1>1, <1>3, <2>1, TakenFree
  <2>3. guard'[req[r].key] = r
    BY <1>1, <1>2, <2>2
  <2>4. "ingest" \in Working
    BY DEF Working
  <2> QED BY <1>1, <2>1, <2>2, <2>3, <2>4, GoesOn
<1>4. CASE guard[c] # Nobody
  BY <1>1, <1>4, FreesAndEnds DEF CanonicalGuard
<1> QED
  BY <1>3, <1>4

(* Both guards are freed by the request that holds both. *)
LEMMA IngestStep == ASSUME IInv, NEW r \in Requests, Ingest(r) PROVE IInv'
<1> DEFINE c == Canonical(req[r].read[1])
<1>1. req[r].pc = "ingest" /\ req[r].key \in Keys /\ c \in Keys
  BY CanonicalKey DEF Ingest, IInv, ReadsTyped, Working
<1>2. guard[req[r].key] = r /\ guard[c] = r
  BY <1>1 DEF IInv, GuardsHeld, Guarded
<1>3. guard' = [guard EXCEPT ![c] = Nobody, ![req[r].key] = Nobody] /\ OnlyReq(r, Idle)
  BY DEF Ingest, Released, Ended, OnlyReq
<1>4. /\ guard' \in [Keys -> Owners \cup {Nobody, Dead}]
      /\ \A k \in Keys, s \in Requests \ {r} : guard[k] = s => guard'[k] = s
  BY <1>1, <1>2, <1>3 DEF IInv, ReadsTyped
<1> QED
  BY <1>3, <1>4, EndOf

-------------------------------------------------------------------------------
(* A step of which the requests take no part keeps the invariant, if it      *)
(* takes no guard from them.                                                 *)
LEMMA Elsewhere ==
    ASSUME IInv, req' = req, guard' \in [Keys -> Owners \cup {Nobody, Dead}],
           \A k \in Keys, s \in Requests : guard[k] = s => guard'[k] = s
    PROVE  IInv'
<1>1. ReadsTyped'
  BY DEF IInv, ReadsTyped
<1>2. ASSUME NEW s \in Requests, req[s].pc \in Guarded PROVE guard'[req[s].key] = s
  <2>1. req[s].key \in Keys
    BY <1>2 DEF IInv, ReadsTyped, Guarded, Working
  <2> QED BY <1>2, <2>1 DEF IInv, GuardsHeld
<1>3. ASSUME NEW s \in Requests, req[s].pc = "ingest"
      PROVE  guard'[Canonical(req[s].read[1])] = s
  <2>1. Canonical(req[s].read[1]) \in Keys
    BY <1>3, CanonicalKey DEF IInv, ReadsTyped
  <2> QED BY <1>3, <2>1 DEF IInv, GuardsHeld
<1>4. GuardsHeld'
  BY <1>2, <1>3 DEF GuardsHeld
<1> QED
  BY <1>1, <1>4 DEF IInv

(* The overview takes guards that nobody has and frees its own. *)
LEMMA OverviewStep == ASSUME IInv, NEW p \in Processes, Overview(p) \/ OverviewRead(p) PROVE IInv'
<1>1. guard \in [Keys -> Owners \cup {Nobody, Dead}] /\ OverviewOf(p) \in Owners
  BY DEF IInv, ReadsTyped, Owners
<1>2. ASSUME req' = req, guard' = guard PROVE IInv'
  BY <1>1, <1>2, Elsewhere
<1>3. CASE OverviewRead(p) \/ OverviewCheck(p) \/ OverviewLock(p) \/ OverviewList(p) \/ OverviewDone(p)
  BY <1>2, <1>3 DEF OverviewRead, OverviewCheck, OverviewLock, OverviewList, OverviewDone, shared
<1>4. CASE OverviewGuard(p)
  <2>1. PICK q :
          \/ guard' = guard
          \/ guard[Canonical(q)] = Nobody /\ guard' = [guard EXCEPT ![Canonical(q)] = OverviewOf(p)]
    BY <1>4 DEF OverviewGuard
  <2>2. req' = req
    BY <1>4 DEF OverviewGuard
  <2>3. CASE guard[Canonical(q)] = Nobody /\ guard' = [guard EXCEPT ![Canonical(q)] = OverviewOf(p)]
    BY <1>1, <2>2, <2>3, OwnersDiffer, Elsewhere
  <2> QED BY <1>2, <2>1, <2>2, <2>3
<1>5. CASE OverviewIngest(p)
  <2>1. PICK q :
          guard[Canonical(q)] = OverviewOf(p) /\ guard' = [guard EXCEPT ![Canonical(q)] = Nobody]
    BY <1>5 DEF OverviewIngest, Freed
  <2>2. req' = req
    BY <1>5 DEF OverviewIngest
  <2> QED BY <1>1, <2>1, <2>2, OwnersDiffer, Elsewhere
<1> QED
  BY <1>3, <1>4, <1>5 DEF Overview

(* A process that dies keeps no guard, and its requests are gone. *)
LEMMA CrashStep == ASSUME IInv, NEW p \in Processes, Crash(p) PROVE IInv'
<1>1. /\ guard' = [k \in Keys |-> IF guard[k] # Dead /\ guard[k][1] = p THEN Dead ELSE guard[k]]
      /\ req' = [r \in Requests |-> IF r[1] = p THEN Idle ELSE req[r]]
  BY DEF Crash
<1>2. Idle \in ReadRecords /\ Idle.pc = "idle"
  BY DEF Idle, ReadRecords
<1>3. ReadsTyped'
  BY <1>1, <1>2 DEF IInv, ReadsTyped, Working
<1>4. \A k \in Keys, s \in Requests : s[1] # p /\ guard[k] = s => guard'[k] = s
  BY <1>1
<1>5. ASSUME NEW s \in Requests, req'[s].pc \in Guarded PROVE guard'[req'[s].key] = s
  <2>1. s[1] # p /\ req'[s] = req[s]
    BY <1>1, <1>2, <1>5 DEF Guarded
  <2>2. req[s].key \in Keys
    BY <1>5, <2>1 DEF IInv, ReadsTyped, Guarded, Working
  <2> QED BY <1>4, <1>5, <2>1, <2>2 DEF IInv, GuardsHeld
<1>6. ASSUME NEW s \in Requests, req'[s].pc = "ingest"
      PROVE  guard'[Canonical(req'[s].read[1])] = s
  <2>1. s[1] # p /\ req'[s] = req[s]
    BY <1>1, <1>2, <1>6
  <2>2. Canonical(req[s].read[1]) \in Keys
    BY <1>6, <2>1, CanonicalKey DEF IInv, ReadsTyped
  <2> QED BY <1>4, <1>6, <2>1, <2>2 DEF IInv, GuardsHeld
<1>7. GuardsHeld'
  BY <1>5, <1>6 DEF GuardsHeld
<1> QED
  BY <1>3, <1>7 DEF IInv

(* Time passes for the requests that read, which hold nothing. *)
LEMMA TickStep == ASSUME IInv, Tick PROVE IInv'
<1>1. guard' = guard
  BY DEF Tick, shared
<1>2. ASSUME NEW r \in Requests
      PROVE  /\ req'[r] \in ReadRecords /\ req'[r].pc = req[r].pc
             /\ req'[r].key = req[r].key /\ req'[r].read = req[r].read
  <2>1. PICK v \in ReadRecords : v = req[r]
    BY DEF IInv, ReadsTyped
  <2>2. req'[r] = IF v.pc \in Reading THEN [v EXCEPT !.lag = v.lag + 1] ELSE v
    BY <2>1 DEF Tick
  <2> QED BY <2>1, <2>2 DEF ReadRecords
<1>3. req' \in [Requests -> ReadRecords]
  <2>1. req' = [r \in Requests |-> req'[r]]
    BY DEF Tick
  <2> QED BY <1>2, <2>1
<1> QED
  BY <1>1, <1>2, <1>3 DEF IInv, ReadsTyped, GuardsHeld

(* Every step keeps the guards. *)
LEMMA Step == IInv /\ [Next]_vars => IInv'
<1> SUFFICES ASSUME IInv, [Next]_vars PROVE IInv'
  OBVIOUS
<1>1. ASSUME NEW r \in Requests, Read(r) \/ Details(r) PROVE IInv'
  <2>1. CASE Resync(r) \/ DiscoverFails(r)
    BY <2>1, FreesAndEnds DEF Resync, DiscoverFails, Guarded
  <2> QED BY <1>1, <2>1, BeforeGuard, GuardStep, DiscoverStep, CanonicalStep, IngestStep DEF Details
<1>2. guard \in [Keys -> Owners \cup {Nobody, Dead}]
  BY DEF IInv, ReadsTyped
<1>3. ASSUME UNCHANGED <<guard, req>> PROVE IInv'
  BY <1>2, <1>3, Elsewhere
<1>4. ASSUME NEW p \in Processes, OverviewRead(p) \/ Overview(p) \/ Pressure(p) \/ Crash(p)
      PROVE  IInv'
  BY <1>3, <1>4, OverviewStep, CrashStep DEF Pressure, shared
<1>5. CASE CronBegins \/ CronEnds
  BY <1>3, <1>5 DEF CronBegins, CronEnds
<1>6. CASE LeaseEnds
  <2>1. \/ UNCHANGED guard
        \/ \E k \in Keys : guard[k] = Dead /\ guard' = [guard EXCEPT ![k] = Nobody]
    BY <1>6 DEF LeaseEnds
  <2>2. req' = req
    BY <1>6 DEF LeaseEnds
  <2> QED BY <1>2, <2>1, <2>2, OwnersDiffer, Elsewhere
<1>7. CASE UNCHANGED vars
  BY <1>3, <1>7 DEF vars, shared
<1> QED
  BY <1>1, <1>4, <1>5, <1>6, <1>7, TickStep DEF Next

-------------------------------------------------------------------------------
(* A sync holds the guards it relies on, whoever crashes. *)
THEOREM GuardsAreHeld == Spec => []IInv
<1>1. Init => IInv
  <2> SUFFICES ASSUME Init PROVE IInv
    OBVIOUS
  <2>1. Idle \in ReadRecords /\ Idle.pc = "idle"
    BY DEF Idle, ReadRecords
  <2> QED BY <2>1 DEF Init, IInv, ReadsTyped, GuardsHeld, Guarded, Working
<1> QED
  BY <1>1, Step, PTL DEF Spec

(* A new proposal is ingested by one sync at a time. *)
THEOREM OneIngestAtATime == Spec => []OneIngest
<1>1. IInv => OneIngest
  <2> SUFFICES ASSUME IInv, NEW q \in Proposals
               PROVE  Cardinality({r \in Requests : req[r].pc = "ingest" /\ req[r].read[1] = q}
                        \cup {OverviewOf(p) : p \in {o \in Processes :
                                 over[o].pc = "ingest" /\ guard[Canonical(q)] = OverviewOf(o)}}) <= 1
    BY DEF OneIngest
  <2> DEFINE S == {r \in Requests : req[r].pc = "ingest" /\ req[r].read[1] = q}
                        \cup {OverviewOf(p) : p \in {o \in Processes :
                                 over[o].pc = "ingest" /\ guard[Canonical(q)] = OverviewOf(o)}}
  <2>1. S \subseteq {guard[Canonical(q)]}
    BY DEF IInv, GuardsHeld
  <2>2. Cardinality({guard[Canonical(q)]}) = 1 /\ IsFiniteSet({guard[Canonical(q)]})
    BY FS_Singleton
  <2>3. Cardinality(S) <= Cardinality({guard[Canonical(q)]})
    BY <2>1, <2>2, FS_Subset
  <2> QED BY <2>2, <2>3
<1> QED
  BY <1>1, GuardsAreHeld, PTL

(* The map of the starts: the keys in it are finitely many and came one      *)
(* after the other.                                                          *)
Chain(m) ==
    /\ \A k \in DOMAIN m : m[k].before \subseteq DOMAIN m \ {k}
    /\ \A k \in DOMAIN m : \A j \in m[k].before : m[j].before \subseteq m[k].before
    /\ \A j, k \in DOMAIN m : j = k \/ j \in m[k].before \/ k \in m[j].before

MapOK(m) ==
    /\ DOMAIN m \subseteq Keys /\ IsFiniteSet(DOMAIN m) /\ Cardinality(DOMAIN m) <= MaxTracked
    /\ \A k \in DOMAIN m : m[k] \in Entries
    /\ Chain(m)

Young(m, lag, limit) == {k \in DOMAIN m : m[k].age - lag < limit}
Newest(m, S) == {k \in S : Cardinality({j \in S : k \in m[j].before}) < MaxTracked}

(* What pruning is, in the terms of the proofs. *)
LEMMA PrunedIs ==
    ASSUME NEW m, NEW lag, NEW limit, NEW N, N = Newest(m, Young(m, lag, limit))
    PROVE  Pruned(m, lag, limit) =
               [k \in N |-> [age |-> m[k].age, before |-> m[k].before \cap N]]
BY DEF Pruned, Newest, Young

(* Pruning drops keys and changes no age. *)
LEMMA PrunedAges ==
    ASSUME NEW m, NEW lag
    PROVE  /\ DOMAIN Prune(m, lag) \subseteq DOMAIN m
           /\ \A k \in DOMAIN Prune(m, lag) : Prune(m, lag)[k].age = m[k].age
<1>1. PICK N : N = Newest(m, Young(m, lag, Cooldown))
  OBVIOUS
<1>2. Prune(m, lag) = [k \in N |-> [age |-> m[k].age, before |-> m[k].before \cap N]]
  BY <1>1, PrunedIs DEF Prune
<1> QED
  BY <1>1, <1>2 DEF Newest, Young

(* A set of numbers that is not empty has a least element.                   *)
LEMMA LeastNat == ASSUME NEW T \in SUBSET Nat, T # {} PROVE \E x \in T : \A y \in T : x <= y
<1>1. PICK R : R = {ss \in Nat \X Nat : ss[1] < ss[2]}
  OBVIOUS
<1>2. IsWellFoundedOn(R, Nat)
  BY <1>1, NatLessThanWellFounded DEF OpToRel
<1>3. PICK x \in T : \A y \in T : ~ (<<y, x>> \in R)
  BY <1>2, WFMin
<1>4. \A y \in T : ~(y < x)
  BY <1>1, <1>3
<1> QED BY <1>4

(* The newest are no more than the map may have: the oldest of them has all  *)
(* others after it.                                                          *)
LEMMA NewestFew ==
    ASSUME NEW m, IsFiniteSet(DOMAIN m), Chain(m), NEW S \in SUBSET DOMAIN m
    PROVE  IsFiniteSet(Newest(m, S)) /\ Cardinality(Newest(m, S)) <= MaxTracked
<1> DEFINE N == Newest(m, S)
<1>1. N \subseteq S /\ N \subseteq DOMAIN m
  BY DEF Newest
<1>2. IsFiniteSet(S) /\ IsFiniteSet(N)
  BY <1>1, FS_Subset
<1>3. MaxTracked \in Nat
  BY ParametersAssumption
<1>4. CASE N = {}
  BY <1>2, <1>3, <1>4, FS_EmptySet
<1>5. CASE N # {}
  <2>1. \A k \in DOMAIN m : IsFiniteSet(m[k].before) /\ Cardinality(m[k].before) \in Nat
    BY FS_Subset, FS_CardinalityType DEF Chain
  <2> DEFINE T == {n \in Nat : \E k \in N : n = Cardinality(m[k].before)}
  <2>2. T \in SUBSET Nat /\ T # {}
    BY <1>1, <1>5, <2>1
  <2>3. PICK x \in T : \A y \in T : x <= y
    BY <2>2, LeastNat
  <2>4. PICK k \in N : x = Cardinality(m[k].before)
    BY <2>3
  <2>5. ASSUME NEW j \in N \ {k} PROVE j \in S /\ k \in m[j].before
    <3>1. j \in DOMAIN m /\ k \in DOMAIN m
      BY <1>1
    <3>2. CASE j \in m[k].before
      <4>1. m[j].before \subseteq m[k].before \ {j}
        BY <3>1, <3>2 DEF Chain
      <4>2. Cardinality(m[k].before \ {j}) = Cardinality(m[k].before) - 1
        BY <2>1, <3>1, <3>2, FS_RemoveElement
      <4>3. Cardinality(m[j].before) <= Cardinality(m[k].before \ {j})
        BY <2>1, <3>1, <4>1, FS_RemoveElement, FS_Subset
      <4>4. Cardinality(m[j].before) \in T
        BY <2>1, <3>1
      <4>5. Cardinality(m[k].before) <= Cardinality(m[j].before)
        BY <2>3, <2>4, <4>4
      <4>6. Cardinality(m[k].before) \in Nat /\ Cardinality(m[j].before) \in Nat
        BY <2>1, <3>1
      <4> QED BY <4>2, <4>3, <4>5, <4>6
    <3> QED BY <1>1, <3>1, <3>2 DEF Chain
  <2> DEFINE A == {j \in S : k \in m[j].before}
  <2>6. N \ {k} \subseteq A
    BY <2>5
  <2>7. IsFiniteSet(A) /\ Cardinality(A) \in Nat
    BY <1>2, FS_Subset, FS_CardinalityType
  <2>8. Cardinality(N \ {k}) <= Cardinality(A)
    BY <2>6, <2>7, FS_Subset
  <2>9. Cardinality(A) < MaxTracked
    BY DEF Newest
  <2>10. Cardinality(N \ {k}) = Cardinality(N) - 1
    BY <1>2, FS_RemoveElement
  <2>11. Cardinality(N) \in Nat
    BY <1>2, FS_CardinalityType
  <2> QED BY <1>2, <1>3, <2>7, <2>8, <2>9, <2>10, <2>11
<1> QED
  BY <1>4, <1>5

(* A map that is pruned is one again, no larger than it may be, with the     *)
(* ages it had.                                                              *)
LEMMA PrunedMap ==
    ASSUME NEW m, DOMAIN m \subseteq Keys, IsFiniteSet(DOMAIN m), \A k \in DOMAIN m : m[k] \in Entries,
           Chain(m), NEW lag \in Nat
    PROVE  /\ MapOK(Prune(m, lag)) /\ DOMAIN Prune(m, lag) \subseteq DOMAIN m
           /\ \A k \in DOMAIN Prune(m, lag) : /\ Prune(m, lag)[k].age = m[k].age
                                              /\ m[k].age - lag < Cooldown
<1>1. PICK N : N = Newest(m, Young(m, lag, Cooldown))
  OBVIOUS
<1>2. Prune(m, lag) = [k \in N |-> [age |-> m[k].age, before |-> m[k].before \cap N]]
  BY <1>1, PrunedIs DEF Prune
<1>3. N \subseteq DOMAIN m /\ \A k \in N : m[k].age - lag < Cooldown
  BY <1>1 DEF Newest, Young
<1>4. IsFiniteSet(N) /\ Cardinality(N) <= MaxTracked
  BY <1>1, NewestFew DEF Young
<1>5. PICK u : u = Prune(m, lag)
  OBVIOUS
<1>6. DOMAIN u = N /\ \A k \in N : u[k].age = m[k].age /\ u[k].before = m[k].before \cap N
  BY <1>2, <1>5
<1>7. \A k \in N : u[k] \in Entries
  BY <1>2, <1>3, <1>5 DEF Entries
<1>8. Chain(u)
  BY <1>3, <1>6 DEF Chain
<1>9. MapOK(u)
  BY <1>3, <1>4, <1>6, <1>7, <1>8 DEF MapOK
<1> QED
  BY <1>3, <1>5, <1>6, <1>9

(* A map that is small enough loses the old entries alone. *)
LEMMA PrunedSmall ==
    ASSUME NEW m, MapOK(m), NEW lag, NEW k \in DOMAIN m, m[k].age - lag < Cooldown
    PROVE  k \in DOMAIN Prune(m, lag)
<1> DEFINE S == Young(m, lag, Cooldown)
<1> DEFINE A == {j \in S : k \in m[j].before}
<1>1. A \subseteq DOMAIN m \ {k} /\ k \in S
  BY DEF Young, MapOK, Chain
<1>2. IsFiniteSet(DOMAIN m) /\ Cardinality(DOMAIN m) \in Nat /\ Cardinality(DOMAIN m) <= MaxTracked
  BY FS_CardinalityType DEF MapOK
<1>3. IsFiniteSet(DOMAIN m \ {k}) /\ Cardinality(DOMAIN m \ {k}) = Cardinality(DOMAIN m) - 1
  BY <1>2, FS_RemoveElement
<1>4. Cardinality(A) <= Cardinality(DOMAIN m \ {k}) /\ IsFiniteSet(A)
  BY <1>1, <1>3, FS_Subset
<1>5. Cardinality(A) \in Nat
  BY <1>4, FS_CardinalityType
<1>6. Cardinality(A) < MaxTracked
  BY <1>2, <1>3, <1>4, <1>5, ParametersAssumption
<1>7. k \in Newest(m, S)
  BY <1>1, <1>6 DEF Newest
<1> QED
  BY <1>7, PrunedIs DEF Prune

(* A key that is stamped stands in the map with its stamp, and after those   *)
(* that were in it; what is pruned then keeps it.                            *)
LEMMA StampedMap ==
    ASSUME NEW m, MapOK(m), NEW k \in Keys, NEW lag \in Ages
    PROVE  /\ DOMAIN Stamp(m, k, lag) = DOMAIN m \cup {k} /\ Stamp(m, k, lag)[k].age = lag
           /\ \A j \in DOMAIN m \ {k} : Stamp(m, k, lag)[j].age = m[j].age
           /\ MapOK(Prune(Stamp(m, k, lag), lag))
           /\ k \in DOMAIN Prune(Stamp(m, k, lag), lag)
<1>1. PICK u : u = Stamp(m, k, lag)
  OBVIOUS
<1>2. /\ DOMAIN u = DOMAIN m \cup {k}
      /\ u[k].age = lag /\ \A j \in DOMAIN m \ {k} : u[j].age = m[j].age
      /\ \A j \in DOMAIN m : u[j].before = m[j].before
      /\ k \notin DOMAIN m => u[k].before = DOMAIN m
  BY <1>1 DEF Stamp
<1>3. /\ DOMAIN m \subseteq Keys /\ IsFiniteSet(DOMAIN m)
      /\ \A j \in DOMAIN m : m[j].age \in Ages /\ m[j].before \subseteq Keys
  BY DEF MapOK, Entries
<1>4. DOMAIN u \subseteq Keys /\ IsFiniteSet(DOMAIN u)
  BY <1>2, <1>3, FS_AddElement
<1>5. \A j \in DOMAIN u : u[j] \in Entries
  BY <1>1, <1>2, <1>3 DEF Stamp, Entries
<1>6. Chain(u)
  BY <1>2 DEF Chain, MapOK
<1>7. lag \in Nat /\ lag - lag < Cooldown
  BY ParametersAssumption DEF Ages
<1>8. MapOK(Prune(u, lag))
  BY <1>4, <1>5, <1>6, <1>7, PrunedMap
<1>9. CASE k \in DOMAIN m
  <2>1. DOMAIN u = DOMAIN m
    BY <1>2, <1>9
  <2>2. MapOK(u)
    BY <2>1, <1>5, <1>6 DEF MapOK
  <2> QED BY <1>1, <1>2, <1>7, <1>8, <2>2, PrunedSmall
<1>10. CASE k \notin DOMAIN m
  <2> DEFINE S == Young(u, lag, Cooldown)
  <2>1. {j \in S : k \in u[j].before} = {}
    BY <1>2, <1>6, <1>10 DEF Young, Chain, MapOK
  <2>2. Cardinality({j \in S : k \in u[j].before}) < MaxTracked
    <3>1. 0 < MaxTracked
      BY ParametersAssumption
    <3>2. Cardinality({}) = 0
      BY FS_EmptySet
    <3> QED BY <2>1, <3>1, <3>2
  <2>3. k \in Newest(u, S)
    BY <1>2, <1>7, <2>2 DEF Newest, Young
  <2>4. k \in DOMAIN Prune(u, lag)
    BY <2>3, PrunedIs DEF Prune
  <2> QED BY <1>1, <1>2, <1>8, <2>4
<1> QED
  BY <1>9, <1>10

(* A read that was admitted, until it ends. *)
Busy == {"check"} \cup Working
KeysInFlight(p) == {req[r].key : r \in {s \in Requests : s[1] = p /\ req[s].pc \in Busy}}

(* A step that admits none and ends none keeps the keys in flight. *)
LEMMA OwnersStay ==
    ASSUME OneOwner, busy' = busy,
           \A r \in Requests : /\ req'[r].pc \in Busy <=> req[r].pc \in Busy
                               /\ req[r].pc \in Busy => req'[r].key = req[r].key
    PROVE  OneOwner'
<1>1. \A r \in Requests : req'[r].pc \in {"check"} \cup Working <=> req[r].pc \in {"check"} \cup Working
  BY DEF Busy
<1>2. \A p \in Processes :
          {req'[r].key : r \in {s \in Requests : s[1] = p /\ req'[s].pc \in {"check"} \cup Working}}
        = {req[r].key : r \in {s \in Requests : s[1] = p /\ req[s].pc \in {"check"} \cup Working}}
  BY <1>1 DEF Busy
<1>3. \A r \in Requests : req[r].pc \in {"check"} \cup Working => req'[r].key = req[r].key
  BY DEF Busy
<1> QED
  BY <1>1, <1>2, <1>3 DEF OneOwner

(* A sync that ends frees its key, which no other of its process has. *)
LEMMA OwnerEnds ==
    ASSUME OneOwner, IInv, busy \in [Processes -> SUBSET Keys], NEW r \in Requests,
           req[r].pc \in Busy, Ended(r)
    PROVE  OneOwner'
<1>1. /\ req'[r].pc = "idle" /\ \A s \in Requests \ {r} : req'[s] = req[s]
      /\ busy' = [busy EXCEPT ![r[1]] = @ \ {req[r].key}] /\ r[1] \in Processes
  BY DEF Ended, Idle, IInv, ReadsTyped, Requests
<1>2. "idle" \notin {"check"} \cup Working
  BY DEF Working
<1>3. \A s \in Requests : req'[s].pc \in {"check"} \cup Working =>
          s # r /\ req'[s] = req[s]
  BY <1>1, <1>2
<1>4. ASSUME NEW p \in Processes
      PROVE  busy'[p] = {req'[s].key : s \in {t \in Requests : t[1] = p /\ req'[t].pc \in {"check"} \cup Working}}
  <2>1. busy[p] = {req[s].key : s \in {t \in Requests : t[1] = p /\ req[t].pc \in {"check"} \cup Working}}
    BY DEF OneOwner
  <2>2. CASE p # r[1]
    <3>1. busy'[p] = busy[p]
      BY <1>1, <2>2
    <3>2. \A s \in Requests : s[1] = p => req'[s] = req[s]
      BY <1>1, <2>2
    <3> QED BY <2>1, <3>1, <3>2
  <2>3. CASE p = r[1]
    <3>1. busy'[p] = busy[p] \ {req[r].key}
      BY <1>1, <2>3
    <3>2. \A s \in Requests : s # r /\ s[1] = p /\ req[s].pc \in {"check"} \cup Working => req[s].key # req[r].key
      BY <2>3 DEF OneOwner, Busy
    <3>3. \A s \in Requests \ {r} : req'[s] = req[s]
      BY <1>1
    <3> QED BY <1>1, <1>2, <2>1, <3>1, <3>2, <3>3
  <2> QED BY <2>2, <2>3
<1>5. ASSUME NEW p \in Processes, NEW s \in Requests, NEW t \in Requests,
             s # t, s[1] = p, t[1] = p, req'[s].pc \in {"check"} \cup Working,
             req'[t].pc \in {"check"} \cup Working
      PROVE  req'[s].key # req'[t].key
  <2>1. req'[s] = req[s] /\ req'[t] = req[t]
    BY <1>3, <1>5
  <2> QED BY <1>5, <2>1 DEF OneOwner
<1> QED
  BY <1>4, <1>5 DEF OneOwner

(* A read is admitted under a key that is not in flight. *)
LEMMA OwnerAdmitted ==
    ASSUME OneOwner, IInv, busy \in [Processes -> SUBSET Keys], NEW r \in Requests, NEW k,
           req[r].pc \notin Busy, k \notin busy[r[1]],
           busy' = [busy EXCEPT ![r[1]] = @ \cup {k}],
           NEW w, req' = [req EXCEPT ![r] = w], w.pc \in Busy, w.key = k
    PROVE  OneOwner'
<1>1. /\ req'[r] = w /\ \A s \in Requests \ {r} : req'[s] = req[s]
      /\ r[1] \in Processes
  BY DEF IInv, ReadsTyped, Requests
<1>2. req[r].pc \notin {"check"} \cup Working /\ w.pc \in {"check"} \cup Working
  BY DEF Busy
<1>3. ASSUME NEW p \in Processes
      PROVE  busy'[p] = {req'[s].key : s \in {t \in Requests : t[1] = p /\ req'[t].pc \in {"check"} \cup Working}}
  <2>1. busy[p] = {req[s].key : s \in {t \in Requests : t[1] = p /\ req[t].pc \in {"check"} \cup Working}}
    BY DEF OneOwner
  <2>2. CASE p # r[1]
    <3>1. busy'[p] = busy[p]
      BY <1>1, <2>2
    <3>2. \A s \in Requests : s[1] = p => req'[s] = req[s]
      BY <1>1, <2>2
    <3> QED BY <2>1, <3>1, <3>2
  <2>3. CASE p = r[1]
    <3>1. busy'[p] = busy[p] \cup {k}
      BY <1>1, <2>3
    <3> QED BY <1>1, <1>2, <2>1, <2>3, <3>1
  <2> QED BY <2>2, <2>3
<1>4. ASSUME NEW p \in Processes, NEW s \in Requests, NEW t \in Requests,
             s # t, s[1] = p, t[1] = p, req'[s].pc \in {"check"} \cup Working,
             req'[t].pc \in {"check"} \cup Working
      PROVE  req'[s].key # req'[t].key
  <2>1. ASSUME NEW o \in Requests, o # r, o[1] = r[1], req'[o].pc \in {"check"} \cup Working
        PROVE  req'[o].key # k
    <3>1. req'[o] = req[o]
      BY <1>1, <2>1
    <3>2. req[o].key \in busy[r[1]]
      BY <1>1, <2>1, <3>1 DEF OneOwner
    <3> QED BY <3>1, <3>2
  <2>2. CASE s = r
    BY <1>1, <1>4, <2>1, <2>2
  <2>3. CASE t = r
    BY <1>1, <1>4, <2>1, <2>3
  <2>4. CASE s # r /\ t # r
    <3>1. req'[s] = req[s] /\ req'[t] = req[t]
      BY <1>1, <2>4
    <3> QED BY <1>4, <3>1 DEF OneOwner
  <2> QED BY <2>2, <2>3, <2>4
<1> QED
  BY <1>3, <1>4 DEF OneOwner

(* Which of these a step is. *)
LEMMA RequestMoves ==
    ASSUME IInv, NEW r \in Requests, Read(r) \/ Details(r)
    PROVE  \/ /\ busy' = busy
              /\ \A s \in Requests : /\ req'[s].pc \in Busy <=> req[s].pc \in Busy
                                     /\ req[s].pc \in Busy => req'[s].key = req[s].key
           \/ req[r].pc \in Busy /\ Ended(r)
           \/ Resolve(r) /\ Admitted(r[1], KeyOf(r[1], req[r].read), req[r].lag)
<1>0. req \in [Requests -> ReadRecords] /\ \A s \in Requests : req[s] = [req[s] EXCEPT !.pc = req[s].pc]
  BY DEF IInv, ReadsTyped, ReadRecords
<1> DEFINE Stays == /\ busy' = busy
                    /\ \A s \in Requests : /\ req'[s].pc \in Busy <=> req[s].pc \in Busy
                                           /\ req[s].pc \in Busy => req'[s].key = req[s].key
<1>1. ASSUME NEW w, OnlyReq(r, w), w.pc \notin Busy, req[r].pc \notin Busy, busy' = busy PROVE Stays
  BY <1>0, <1>1 DEF OnlyReq
<1>2. ASSUME NEW x \in Busy, req' = [req EXCEPT ![r] = [req[r] EXCEPT !.pc = x]],
             req[r].pc \in Busy, busy' = busy
      PROVE  Stays
  <2>1. PICK v \in ReadRecords : v = req[r]
    BY <1>0
  <2>2. PICK w : w = [v EXCEPT !.pc = x]
    OBVIOUS
  <2>3. w.pc = x /\ w.key = req[r].key
    BY <2>1, <2>2 DEF ReadRecords
  <2>4. req'[r] = w /\ \A s \in Requests \ {r} : req'[s] = req[s]
    BY <1>0, <1>2, <2>1, <2>2
  <2> QED BY <1>2, <2>3, <2>4
<1>3. CASE Read(r)
  <2>1. PICK q, n : OnlyReq(r, [Idle EXCEPT !.pc = "resolve", !.read = <<q, n>>])
    BY <1>3 DEF Read, OnlyReq
  <2>2. [Idle EXCEPT !.pc = "resolve", !.read = <<q, n>>].pc = "resolve"
    BY DEF Idle
  <2>3. req[r].pc \notin Busy /\ "resolve" \notin Busy /\ busy' = busy
    BY <1>3 DEF Read, Busy, Working, memory
  <2> QED BY <1>1, <2>1, <2>2, <2>3
<1>4. CASE Resolve(r) /\ ~Admitted(r[1], KeyOf(r[1], req[r].read), req[r].lag)
  <2>1. OnlyReq(r, Idle) /\ busy' = busy /\ req[r].pc = "resolve"
    BY <1>4 DEF Resolve, OnlyReq
  <2>2. Idle.pc \notin Busy /\ "resolve" \notin Busy
    BY DEF Idle, Busy, Working
  <2> QED BY <1>1, <2>1, <2>2
<1>5. CASE Skip(r)
  BY <1>5 DEF Skip, Skipped, Busy
<1>6. CASE Start(r)
  <2>1. req' = [req EXCEPT ![r] = [req[r] EXCEPT !.pc = "guard"]] /\ busy' = busy /\ req[r].pc = "check"
    BY <1>6 DEF Start
  <2>2. "guard" \in Busy /\ "check" \in Busy
    BY DEF Busy, Working
  <2> QED BY <1>2, <2>1, <2>2
<1>7. CASE Guard(r)
  <2>1. req[r].pc \in Busy /\ {"sync", "discover"} \subseteq Busy
    BY <1>7 DEF Guard, Busy, Working
  <2>2. \/ Ended(r)
        \/ busy' = busy /\ req' = [req EXCEPT ![r] = [req[r] EXCEPT !.pc = "sync"]]
        \/ busy' = busy /\ req' = [req EXCEPT ![r] = [req[r] EXCEPT !.pc = "discover"]]
    BY <1>7 DEF Guard
  <2> QED BY <1>2, <2>1, <2>2
<1>8. CASE Discover(r)
  <2>1. req[r].pc \in Busy /\ {"ingest", "canonical"} \subseteq Busy /\ busy' = busy
    BY <1>8 DEF Discover, Busy, Working
  <2>2. \/ req' = [req EXCEPT ![r] = [req[r] EXCEPT !.pc = "ingest"]]
        \/ req' = [req EXCEPT ![r] = [req[r] EXCEPT !.pc = "canonical"]]
    BY <1>8 DEF Discover
  <2> QED BY <1>2, <2>1, <2>2
<1>9. CASE CanonicalGuard(r)
  <2>1. req[r].pc \in Busy /\ "ingest" \in Busy
    BY <1>9 DEF CanonicalGuard, Busy, Working
  <2>2. \/ Ended(r)
        \/ busy' = busy /\ req' = [req EXCEPT ![r] = [req[r] EXCEPT !.pc = "ingest"]]
    BY <1>9 DEF CanonicalGuard
  <2> QED BY <1>2, <2>1, <2>2
<1>10. CASE Resync(r) \/ DiscoverFails(r) \/ Ingest(r)
  BY <1>10 DEF Resync, DiscoverFails, Ingest, Busy, Working
<1> QED
  BY <1>3, <1>4, <1>5, <1>6, <1>7, <1>8, <1>9, <1>10 DEF Details

(* The keys in flight are those of the reads that were admitted. *)
LEMMA OwnerStep ==
    ASSUME IInv, IInv', OneOwner, busy \in [Processes -> SUBSET Keys], [Next]_vars
    PROVE  OneOwner'
<1>0. ASSUME UNCHANGED <<req, busy>> PROVE OneOwner'
  BY <1>0, OwnersStay
<1>1. ASSUME NEW r \in Requests, Read(r) \/ Details(r) PROVE OneOwner'
  <2>1. CASE Resolve(r) /\ Admitted(r[1], KeyOf(r[1], req[r].read), req[r].lag)
    <3>1. PICK k : k = KeyOf(r[1], req[r].read)
      OBVIOUS
    <3>2. k \notin busy[r[1]]
      BY <2>1, <3>1 DEF Admitted
    <3>3. /\ busy' = [busy EXCEPT ![r[1]] = @ \cup {k}]
          /\ req' = [req EXCEPT ![r] = [req[r] EXCEPT !.pc = "check", !.key = k,
                                !.seen = req[r].read[1] \in known]]
      BY <2>1, <3>1 DEF Resolve
    <3>4. PICK w : w = [req[r] EXCEPT !.pc = "check", !.key = k, !.seen = req[r].read[1] \in known]
      OBVIOUS
    <3>5. w.pc = "check" /\ w.key = k
      <4>1. PICK v \in ReadRecords : v = req[r]
        BY DEF IInv, ReadsTyped
      <4> QED BY <3>4, <4>1 DEF ReadRecords
    <3>6. req[r].pc \notin Busy /\ "check" \in Busy
      BY <2>1 DEF Resolve, Busy, Working
    <3>7. req' = [req EXCEPT ![r] = w]
      BY <3>3, <3>4
    <3>8. busy' = [busy EXCEPT ![r[1]] = busy[r[1]] \cup {k}]
      BY <3>3
    <3>9. w.pc \in Busy /\ w.key = k /\ req[r].pc \notin Busy
      BY <3>5, <3>6
    <3> QED BY <3>2, <3>7, <3>8, <3>9, OwnerAdmitted
  <2> QED BY <1>1, <2>1, RequestMoves, OwnersStay, OwnerEnds
<1>2. ASSUME NEW p \in Processes, OverviewRead(p) \/ Overview(p) \/ Pressure(p) PROVE OneOwner'
  BY <1>0, <1>2 DEF OverviewRead, Overview, OverviewCheck, OverviewLock, OverviewList, OverviewGuard,
     OverviewIngest, OverviewDone, Pressure, memory
<1>3. ASSUME NEW p \in Processes, Crash(p) PROVE OneOwner'
  <2>1. /\ \A r \in Requests : req'[r] = IF r[1] = p THEN Idle ELSE req[r]
        /\ busy' = [busy EXCEPT ![p] = {}]
    BY <1>3 DEF Crash
  <2>2. Idle.pc \notin {"check"} \cup Working
    BY DEF Idle, Working
  <2>3. ASSUME NEW o \in Processes
        PROVE  /\ busy'[o] = {req'[s].key : s \in {t \in Requests : t[1] = o /\ req'[t].pc \in {"check"} \cup Working}}
               /\ \A r, s \in Requests :
                    r # s /\ r[1] = o /\ s[1] = o /\ req'[r].pc \in {"check"} \cup Working
                       /\ req'[s].pc \in {"check"} \cup Working => req'[r].key # req'[s].key
    <3>1. CASE o = p
      <4>1. busy'[o] = {}
        BY <2>1, <3>1
      <4>2. \A t \in Requests : t[1] = o => req'[t].pc \notin {"check"} \cup Working
        BY <2>1, <2>2, <3>1
      <4> QED BY <4>1, <4>2
    <3>2. CASE o # p
      <4>1. busy'[o] = busy[o]
        BY <2>1, <3>2
      <4>2. \A t \in Requests : t[1] = o => req'[t] = req[t]
        BY <2>1, <3>2
      <4>3. busy[o] = {req[s].key : s \in {t \in Requests : t[1] = o /\ req[t].pc \in {"check"} \cup Working}}
        BY DEF OneOwner
      <4>4. \A r, s \in Requests :
                    r # s /\ r[1] = o /\ s[1] = o /\ req[r].pc \in {"check"} \cup Working
                       /\ req[s].pc \in {"check"} \cup Working => req[r].key # req[s].key
        BY DEF OneOwner
      <4> QED BY <4>1, <4>2, <4>3, <4>4
    <3> QED BY <3>1, <3>2
  <2> QED BY <2>3 DEF OneOwner
<1>4. CASE CronBegins \/ CronEnds \/ LeaseEnds
  BY <1>0, <1>4 DEF CronBegins, CronEnds, LeaseEnds, memory
<1>5. CASE Tick
  <2>1. \A r \in Requests : req'[r].pc = req[r].pc /\ req'[r].key = req[r].key
    <3>1. ASSUME NEW r \in Requests PROVE req'[r].pc = req[r].pc /\ req'[r].key = req[r].key
      <4>1. PICK v \in ReadRecords : v = req[r]
        BY DEF IInv, ReadsTyped
      <4>2. req'[r] = IF v.pc \in Reading THEN [v EXCEPT !.lag = v.lag + 1] ELSE v
        BY <1>5, <4>1 DEF Tick
      <4> QED BY <4>1, <4>2 DEF ReadRecords
    <3> QED BY <3>1
  <2>2. busy' = busy
    BY <1>5 DEF Tick
  <2> QED BY <2>1, <2>2, OwnersStay
<1>6. CASE UNCHANGED vars
  BY <1>0, <1>6 DEF vars, memory
<1> QED
  BY <1>1, <1>2, <1>3, <1>4, <1>5, <1>6 DEF Next

(* Which guards a request may hold. *)
Holds(r, k) ==
    \/ req[r].pc \in Guarded /\ k = req[r].key
    \/ req[r].pc = "ingest" /\ k = Canonical(req[r].read[1])

RequestLocks == \A k \in Keys, r \in Requests : guard[k] = r => Holds(r, k)

(* The overview holds one guard while it ingests, and none otherwise. *)
OverviewHolds == \A p \in Processes :
    IF over[p].pc = "ingest"
    THEN \E k \in Keys : {j \in Keys : guard[j] = OverviewOf(p)} = {k}
    ELSE {j \in Keys : guard[j] = OverviewOf(p)} = {}

CronOwned == \A p \in Processes : cron = p => over[p].pc \in {"list", "next", "ingest"}

(* A request passes its guards on to nobody: they were free or its own, and  *)
(* are so afterwards; it touches nothing of the overview.                    *)
LEMMA RequestGuards ==
    ASSUME IInv, NEW r \in Requests, Read(r) \/ Details(r)
    PROVE  /\ guard' \in [Keys -> Owners \cup {Nobody, Dead}]
           /\ \A k \in Keys : guard'[k] = guard[k]
                                \/ (guard[k] \in {Nobody, r} /\ guard'[k] \in {Nobody, r})
           /\ over' = over /\ cron' = cron
           /\ \A s \in Requests \ {r} : req'[s] = req[s]
<1>0. /\ guard \in [Keys -> Owners \cup {Nobody, Dead}] /\ req \in [Requests -> ReadRecords]
      /\ r \in Owners
  BY DEF IInv, ReadsTyped, Owners
<1>1. over' = over /\ cron' = cron
  BY DEF Read, Details, Resolve, Skip, Start, Guard, Resync, Discover, DiscoverFails, CanonicalGuard,
     Ingest, shared
<1>2. \A s \in Requests \ {r} : req'[s] = req[s]
  BY <1>0 DEF Read, Details, Resolve, Skip, Skipped, Start, Guard, Resync, Discover, DiscoverFails,
     CanonicalGuard, Ingest, Ended
<1>3. ASSUME NEW h \in Keys, guard[h] \in {Nobody, r}, NEW x \in {Nobody, r},
             guard' = [guard EXCEPT ![h] = x]
      PROVE  /\ guard' \in [Keys -> Owners \cup {Nobody, Dead}]
             /\ \A k \in Keys : guard'[k] = guard[k]
                                  \/ (guard[k] \in {Nobody, r} /\ guard'[k] \in {Nobody, r})
  <2>1. \A k \in Keys : guard'[k] = IF k = h THEN x ELSE guard[k]
    BY <1>0, <1>3
  <2>2. x \in Owners \cup {Nobody, Dead}
    BY <1>0, <1>3
  <2>3. guard' \in [Keys -> Owners \cup {Nobody, Dead}]
    BY <1>0, <1>3, <2>2
  <2> QED BY <1>3, <2>1, <2>3
<1>4. CASE Read(r) \/ Resolve(r) \/ Skip(r) \/ Start(r) \/ Discover(r)
  <2>1. guard' = guard
    BY <1>4 DEF Read, Resolve, Skip, Start, Discover, shared
  <2> QED BY <1>0, <1>1, <1>2, <2>1
<1>5. CASE Guard(r)
  <2>1. req[r].key \in Keys
    BY <1>5 DEF Guard, IInv, ReadsTyped, Working
  <2>2. guard' = guard \/ (guard[req[r].key] = Nobody /\ guard' = [guard EXCEPT ![req[r].key] = r])
    <3>1. CASE guard[req[r].key] = Nobody
      BY <1>5, <3>1 DEF Guard
    <3>2. CASE guard[req[r].key] # Nobody
      BY <1>5, <3>2 DEF Guard
    <3> QED BY <3>1, <3>2
  <2>3. CASE guard' = guard
    BY <1>0, <1>1, <1>2, <2>3
  <2> QED BY <1>1, <1>2, <1>3, <2>1, <2>2, <2>3
<1>6. CASE Resync(r) \/ DiscoverFails(r)
  <2>1. req[r].key \in Keys /\ guard[req[r].key] = r
    BY <1>6 DEF Resync, DiscoverFails, IInv, ReadsTyped, GuardsHeld, Working, Guarded
  <2>2. guard' = [guard EXCEPT ![req[r].key] = Nobody]
    BY <1>6 DEF Resync, DiscoverFails, Freed
  <2> QED BY <1>1, <1>2, <1>3, <2>1, <2>2
<1>7. CASE CanonicalGuard(r)
  <2> DEFINE c == Canonical(req[r].read[1])
  <2>1. req[r].key \in Keys /\ guard[req[r].key] = r /\ c \in Keys
    BY <1>7, CanonicalKey DEF CanonicalGuard, IInv, ReadsTyped, GuardsHeld, Working, Guarded
  <2>2. \/ guard[c] = Nobody /\ guard' = [guard EXCEPT ![c] = r]
        \/ guard' = [guard EXCEPT ![req[r].key] = Nobody]
    BY <1>7 DEF CanonicalGuard, Freed
  <2> QED BY <1>1, <1>2, <1>3, <2>1, <2>2
<1>8. CASE Ingest(r)
  <2> DEFINE c == Canonical(req[r].read[1])
  <2>1. req[r].key \in Keys /\ guard[req[r].key] = r /\ c \in Keys /\ guard[c] = r
    BY <1>8, CanonicalKey DEF Ingest, IInv, ReadsTyped, GuardsHeld, Working, Guarded
  <2>2. guard' = [guard EXCEPT ![c] = Nobody, ![req[r].key] = Nobody]
    BY <1>8 DEF Ingest, Released
  <2>3. \A k \in Keys : guard'[k] = IF k = c \/ k = req[r].key THEN Nobody ELSE guard[k]
    BY <1>0, <2>1, <2>2
  <2>4. guard' \in [Keys -> Owners \cup {Nobody, Dead}]
    BY <1>0, <2>2
  <2> QED BY <1>1, <1>2, <2>1, <2>3, <2>4
<1> QED
  BY <1>4, <1>5, <1>6, <1>7, <1>8 DEF Details

(* A request holds no guard but those of its place. *)
LEMMA HoldsStep ==
    ASSUME IInv, RequestLocks, NEW r \in Requests, Read(r) \/ Details(r), NEW k \in Keys, guard'[k] = r
    PROVE  Holds(r, k)'
<1>0. req \in [Requests -> ReadRecords] /\ guard \in [Keys -> Owners \cup {Nobody, Dead}] /\ r # Nobody
  BY OwnersDiffer DEF IInv, ReadsTyped
<1>a. guard[k] = r => Holds(r, k)
  BY DEF RequestLocks
<1>1. CASE Read(r) \/ Resolve(r) \/ Skip(r) \/ Start(r)
  BY <1>0, <1>1, <1>a DEF Read, Resolve, Skip, Start, shared, Holds, Guarded
<1>p. ASSUME NEW x, req' = [req EXCEPT ![r] = [req[r] EXCEPT !.pc = x]]
      PROVE  req'[r].pc = x /\ req'[r].key = req[r].key /\ req'[r].read = req[r].read
  <2>1. PICK v \in ReadRecords : v = req[r]
    BY <1>0
  <2>2. req'[r] = [v EXCEPT !.pc = x]
    BY <1>0, <1>p, <2>1
  <2> QED BY <2>1, <2>2 DEF ReadRecords
<1>2. CASE Guard(r)
  <2>1. guard[k] # r
    BY <1>2, <1>a DEF Guard, Holds, Guarded
  <2>2. k = req[r].key
    BY <1>0, <1>2, <2>1 DEF Guard
  <2>3. \/ req' = [req EXCEPT ![r] = [req[r] EXCEPT !.pc = "sync"]]
        \/ req' = [req EXCEPT ![r] = [req[r] EXCEPT !.pc = "discover"]]
    BY <1>2, <2>1 DEF Guard
  <2> QED BY <1>p, <2>2, <2>3 DEF Holds, Guarded
<1>3. CASE Resync(r) \/ DiscoverFails(r)
  <2>1. guard[k] = r /\ k # req[r].key
    BY <1>0, <1>3 DEF Resync, DiscoverFails, Freed
  <2> QED BY <1>3, <1>a, <2>1 DEF Resync, DiscoverFails, Holds
<1>4. CASE Discover(r)
  <2>1. guard[k] = r /\ req[r].pc = "discover"
    BY <1>4 DEF Discover, shared
  <2>2. k = req[r].key
    BY <1>a, <2>1 DEF Holds
  <2>3. \/ req' = [req EXCEPT ![r] = [req[r] EXCEPT !.pc = "ingest"]]
        \/ req' = [req EXCEPT ![r] = [req[r] EXCEPT !.pc = "canonical"]]
    BY <1>4 DEF Discover
  <2> QED BY <1>p, <2>2, <2>3 DEF Holds, Guarded
<1>5. CASE CanonicalGuard(r)
  <2> DEFINE c == Canonical(req[r].read[1])
  <2>1. guard[k] = r => k = req[r].key
    BY <1>5, <1>a DEF CanonicalGuard, Holds
  <2>2. CASE guard[c] = Nobody
    <3>1. guard' = [guard EXCEPT ![c] = r] /\ req' = [req EXCEPT ![r] = [req[r] EXCEPT !.pc = "ingest"]]
      BY <1>5, <2>2 DEF CanonicalGuard
    <3>2. k \in {req[r].key, c}
      BY <1>0, <2>1, <3>1
    <3> QED BY <1>p, <3>1, <3>2 DEF Holds, Guarded
  <2>3. CASE guard[c] # Nobody
    <3>1. guard' = [guard EXCEPT ![req[r].key] = Nobody]
      BY <1>5, <2>3 DEF CanonicalGuard, Freed
    <3> QED BY <1>0, <2>1, <3>1
  <2> QED BY <2>2, <2>3
<1>6. CASE Ingest(r)
  <2>1. guard' = [guard EXCEPT ![Canonical(req[r].read[1])] = Nobody, ![req[r].key] = Nobody]
    BY <1>6 DEF Ingest, Released
  <2>2. guard[k] = r /\ k # req[r].key /\ k # Canonical(req[r].read[1])
    BY <1>0, <2>1
  <2> QED BY <1>a, <2>2 DEF Holds
<1> QED
  BY <1>1, <1>2, <1>3, <1>4, <1>5, <1>6 DEF Details

(* The overview's guard is where its place says, if the other guards that    *)
(* change are not its.                                                       *)
LEMMA OverviewHoldsStay ==
    ASSUME OverviewHolds, NEW p \in Processes, over'[p].pc = over[p].pc,
           \A k \in Keys : guard'[k] = OverviewOf(p) <=> guard[k] = OverviewOf(p)
    PROVE  IF over'[p].pc = "ingest"
           THEN \E k \in Keys : {j \in Keys : guard'[j] = OverviewOf(p)} = {k}
           ELSE {j \in Keys : guard'[j] = OverviewOf(p)} = {}
<1>1. {j \in Keys : guard'[j] = OverviewOf(p)} = {j \in Keys : guard[j] = OverviewOf(p)}
  OBVIOUS
<1> QED
  BY <1>1 DEF OverviewHolds

(* A lock that is held belongs to a sync that will free it. *)
Locks == RequestLocks /\ OverviewHolds /\ CronOwned

(* The type of the overviews. *)
OverPlaces == {"idle", "check", "lock", "list", "next", "ingest"}
OverTypes == over \in [Processes -> [pc : OverPlaces, age : Ages, lag : 0..MaxLag, todo : SUBSET Proposals]]

(* A step of a request moves the guards it may hold, no other. *)
LEMMA LocksOfRequest ==
    ASSUME IInv, Locks, NEW r \in Requests, Read(r) \/ Details(r)
    PROVE  Locks'
<1>1. /\ \A k \in Keys : guard'[k] = guard[k] \/ (guard[k] \in {Nobody, r} /\ guard'[k] \in {Nobody, r})
      /\ over' = over /\ cron' = cron
      /\ \A s \in Requests \ {r} : req'[s] = req[s]
  BY RequestGuards
<1>2. RequestLocks'
  <2>1. ASSUME NEW k \in Keys, NEW s \in Requests, guard'[k] = s PROVE Holds(s, k)'
    <3>1. CASE s = r
      BY <2>1, <3>1, HoldsStep DEF Locks
    <3>2. CASE s # r
      <4>1. guard[k] = s /\ req'[s] = req[s]
        BY <1>1, <2>1, <3>2, OwnersDiffer
      <4> QED BY <4>1 DEF Locks, RequestLocks, Holds
    <3> QED BY <3>1, <3>2
  <2> QED BY <2>1 DEF RequestLocks
<1>3. OverviewHolds'
  <2>1. ASSUME NEW p \in Processes, NEW k \in Keys
        PROVE  guard'[k] = OverviewOf(p) <=> guard[k] = OverviewOf(p)
    <3>1. OverviewOf(p) # Nobody /\ OverviewOf(p) # r
      BY OwnersDiffer DEF OverviewOf, Nobody
    <3> QED BY <1>1, <3>1
  <2> QED BY <1>1, <2>1, OverviewHoldsStay DEF Locks, OverviewHolds
<1>4. CronOwned'
  BY <1>1 DEF Locks, CronOwned
<1> QED
  BY <1>2, <1>3, <1>4 DEF Locks

(* The requests keep what they have, when others take what nobody has. *)
LEMMA RequestLocksStay ==
    ASSUME Locks, req' = req, \A k \in Keys, s \in Requests : guard'[k] = s => guard[k] = s
    PROVE  RequestLocks'
BY DEF Locks, RequestLocks, Holds

(* The sync of an overview: it ingests under one guard, in the job's lock. *)
LEMMA LocksOfOverview ==
    ASSUME IInv, OverTypes, Locks, NEW p \in Processes, OverviewRead(p) \/ Overview(p)
    PROVE  Locks'
<1>0. /\ guard \in [Keys -> Owners \cup {Nobody, Dead}]
      /\ over \in [Processes -> [pc : OverPlaces, age : Ages, lag : 0..MaxLag, todo : SUBSET Proposals]]
  BY DEF IInv, ReadsTyped, OverTypes
<1>1. req' = req /\ \A o \in Processes \ {p} : over'[o] = over[o]
  BY <1>0 DEF OverviewRead, Overview, OverviewCheck, OverviewLock, OverviewList, OverviewGuard,
     OverviewIngest, OverviewDone
<1>2. \A o \in Processes \ {p} : OverviewOf(o) # OverviewOf(p)
  BY DEF OverviewOf
<1>3. \A o \in Processes : OverviewOf(o) # Nobody /\ OverviewOf(o) # Dead
  BY DEF OverviewOf, Nobody, Dead
<1>4. CASE OverviewRead(p) \/ OverviewCheck(p) \/ OverviewLock(p) \/ OverviewList(p) \/ OverviewDone(p)
  <2>1. guard' = guard
    BY <1>4 DEF OverviewRead, OverviewCheck, OverviewLock, OverviewList, OverviewDone, shared
  <2>2. over[p].pc # "ingest" /\ over'[p].pc # "ingest"
    BY <1>0, <1>4 DEF OverviewRead, OverviewCheck, OverviewLock, OverviewList, OverviewDone
  <2>3. RequestLocks'
    BY <1>1, <2>1, RequestLocksStay
  <2>4. OverviewHolds'
    <3>1. ASSUME NEW o \in Processes
          PROVE  IF over'[o].pc = "ingest"
                 THEN \E k \in Keys : {j \in Keys : guard'[j] = OverviewOf(o)} = {k}
                 ELSE {j \in Keys : guard'[j] = OverviewOf(o)} = {}
      <4>1. CASE o = p
        BY <2>1, <2>2, <4>1 DEF Locks, OverviewHolds
      <4>2. CASE o # p
        BY <1>1, <2>1, <4>2, OverviewHoldsStay DEF Locks
      <4> QED BY <4>1, <4>2
    <3> QED BY <3>1 DEF OverviewHolds
  <2>5. CronOwned'
    <3>1. CASE OverviewRead(p) \/ OverviewCheck(p)
      <4>1. cron' = cron /\ cron # p
        BY <3>1 DEF OverviewRead, OverviewCheck, shared, Locks, CronOwned
      <4> QED BY <1>1, <4>1 DEF Locks, CronOwned
    <3>2. CASE OverviewLock(p)
      <4>1. cron # p
        BY <3>2 DEF OverviewLock, Locks, CronOwned
      <4>2. \/ cron' = p /\ over'[p].pc = "list"
            \/ cron' = cron
        BY <1>0, <3>2 DEF OverviewLock
      <4> QED BY <1>1, <4>1, <4>2 DEF Locks, CronOwned
    <3>3. CASE OverviewList(p)
      <4>1. cron' = cron /\ over'[p].pc = "next"
        BY <1>0, <3>3 DEF OverviewList, shared
      <4> QED BY <1>1, <4>1 DEF Locks, CronOwned
    <3>4. CASE OverviewDone(p)
      <4>1. cron' = "free" /\ \A o \in Processes : o # "free"
        BY <3>4, ParametersAssumption DEF OverviewDone
      <4> QED BY <4>1 DEF CronOwned
    <3> QED BY <1>4, <3>1, <3>2, <3>3, <3>4
  <2> QED BY <2>3, <2>4, <2>5 DEF Locks
<1>5. ASSUME OverviewGuard(p) \/ OverviewIngest(p), NEW k \in Keys, NEW x \in {Nobody, OverviewOf(p)},
             guard' = [guard EXCEPT ![k] = x], guard[k] \in {Nobody, OverviewOf(p)},
             over'[p].pc \in {"next", "ingest"}, cron' = cron,
             over'[p].pc = "ingest" <=> x # Nobody,
             over[p].pc = "ingest" <=> guard[k] # Nobody
      PROVE  Locks'
  <2>1. RequestLocks'
    BY <1>0, <1>1, <1>5, OwnersDiffer, RequestLocksStay
  <2>2. OverviewHolds'
    <3>1. ASSUME NEW o \in Processes
          PROVE  IF over'[o].pc = "ingest"
                 THEN \E h \in Keys : {j \in Keys : guard'[j] = OverviewOf(o)} = {h}
                 ELSE {j \in Keys : guard'[j] = OverviewOf(o)} = {}
      <4>1. CASE o = p
        <5>1. {j \in Keys : guard[j] = OverviewOf(p)} \subseteq {k}
          BY <1>3, <1>5 DEF Locks, OverviewHolds
        <5>2. {j \in Keys : guard'[j] = OverviewOf(p)} = IF x # Nobody THEN {k} ELSE {}
          BY <1>0, <1>3, <1>5, <5>1
        <5> QED BY <1>5, <4>1, <5>2
      <4>2. CASE o # p
        BY <1>0, <1>1, <1>2, <1>3, <1>5, <4>2, OverviewHoldsStay DEF Locks
      <4> QED BY <4>1, <4>2
    <3> QED BY <3>1 DEF OverviewHolds
  <2>3. CronOwned'
    BY <1>1, <1>5 DEF Locks, CronOwned
  <2> QED BY <2>1, <2>2, <2>3 DEF Locks
<1>6. CASE OverviewGuard(p)
  <2>1. PICK q \in over[p].todo :
          IF guard[Canonical(q)] = Nobody
          THEN /\ guard' = [guard EXCEPT ![Canonical(q)] = OverviewOf(p)]
               /\ over' = [over EXCEPT ![p].pc = "ingest"]
          ELSE /\ over' = [over EXCEPT ![p].todo = @ \ {q}]
               /\ UNCHANGED guard
    BY <1>6 DEF OverviewGuard
  <2>2. Canonical(q) \in Keys
    BY <1>0, <2>1 DEF Canonical, Keys
  <2>3. over[p].pc = "next" /\ cron' = cron
    BY <1>6 DEF OverviewGuard
  <2>4. CASE guard[Canonical(q)] = Nobody
    <3>1. over'[p].pc = "ingest"
      BY <1>0, <2>1, <2>4
    <3> QED BY <1>3, <1>5, <1>6, <2>1, <2>2, <2>3, <2>4, <3>1
  <2>5. CASE guard[Canonical(q)] # Nobody
    <3>1. over'[p].pc = "next" /\ guard' = guard
      BY <1>0, <2>1, <2>3, <2>5
    <3>2. \A o \in Processes : over'[o].pc = over[o].pc
      BY <1>1, <2>3, <3>1
    <3> QED BY <1>1, <2>3, <3>1, <3>2, RequestLocksStay, OverviewHoldsStay DEF Locks, OverviewHolds, CronOwned
  <2> QED BY <2>4, <2>5
<1>7. CASE OverviewIngest(p)
  <2>1. PICK q \in over[p].todo :
          /\ guard[Canonical(q)] = OverviewOf(p)
          /\ guard' = [guard EXCEPT ![Canonical(q)] = Nobody]
          /\ over' = [over EXCEPT ![p].pc = "next", ![p].todo = @ \ {q}]
    BY <1>7 DEF OverviewIngest, Freed
  <2>2. Canonical(q) \in Keys
    BY <1>0, <2>1 DEF Canonical, Keys
  <2>3. over[p].pc = "ingest" /\ cron' = cron
    BY <1>7 DEF OverviewIngest
  <2>4. over'[p].pc = "next"
    BY <1>0, <2>1
  <2> QED BY <1>3, <1>5, <1>7, <2>1, <2>2, <2>3, <2>4
<1> QED
  BY <1>4, <1>6, <1>7 DEF Overview

(* A process that dies owns nothing any more. *)
LEMMA LocksOfCrash == ASSUME IInv, Locks, OverTypes, NEW p \in Processes, Crash(p) PROVE Locks'
<1>0. /\ guard \in [Keys -> Owners \cup {Nobody, Dead}]
      /\ \A o \in Processes \ {p} : over'[o] = over[o]
      /\ over'[p] = OverIdle
  BY DEF IInv, ReadsTyped, OverTypes, Crash
<1>1. \A k \in Keys : guard'[k] = IF guard[k] # Dead /\ guard[k][1] = p THEN Dead ELSE guard[k]
  BY DEF Crash
<1>2. \A s \in Requests : req'[s] = IF s[1] = p THEN Idle ELSE req[s]
  BY DEF Crash
<1>3. \A o \in Processes : OverviewOf(o) # Dead /\ OverviewOf(o)[1] = o
  BY DEF OverviewOf, Dead
<1>4. RequestLocks'
  <2>1. ASSUME NEW k \in Keys, NEW s \in Requests, guard'[k] = s PROVE Holds(s, k)'
    <3>1. guard[k] = s /\ s[1] # p
      BY <1>1, <2>1, OwnersDiffer
    <3>2. req'[s] = req[s]
      BY <1>2, <3>1
    <3> QED BY <3>1, <3>2 DEF Locks, RequestLocks, Holds
  <2> QED BY <2>1 DEF RequestLocks
<1>5. OverviewHolds'
  <2>1. ASSUME NEW o \in Processes
        PROVE  IF over'[o].pc = "ingest"
               THEN \E h \in Keys : {j \in Keys : guard'[j] = OverviewOf(o)} = {h}
               ELSE {j \in Keys : guard'[j] = OverviewOf(o)} = {}
    <3>1. CASE o = p
      <4>1. \A k \in Keys : guard'[k] # OverviewOf(p)
        BY <1>1, <1>3
      <4>2. over'[o].pc = "idle"
        BY <1>0, <3>1 DEF OverIdle
      <4> QED BY <3>1, <4>1, <4>2
    <3>2. CASE o # p
      <4>1. \A k \in Keys : guard'[k] = OverviewOf(o) <=> guard[k] = OverviewOf(o)
        BY <1>1, <1>3, <3>2
      <4>2. over'[o].pc = over[o].pc
        BY <1>0, <3>2
      <4> QED BY <4>1, <4>2, OverviewHoldsStay DEF Locks
    <3> QED BY <3>1, <3>2
  <2> QED BY <2>1 DEF OverviewHolds
<1>6. CronOwned'
  <2>1. \A o \in Processes : o # "dead"
    BY ParametersAssumption
  <2>2. cron' = IF cron = p THEN "dead" ELSE cron
    BY DEF Crash
  <2> QED BY <1>0, <2>1, <2>2 DEF Locks, CronOwned
<1> QED
  BY <1>4, <1>5, <1>6 DEF Locks

(* Every lock that is held is its owner's. *)
LEMMA LocksStep == ASSUME IInv, Locks, OverTypes, [Next]_vars PROVE Locks'
<1>0. /\ guard \in [Keys -> Owners \cup {Nobody, Dead}]
      /\ over \in [Processes -> [pc : OverPlaces, age : Ages, lag : 0..MaxLag, todo : SUBSET Proposals]]
  BY DEF IInv, ReadsTyped, OverTypes
<1>1. ASSUME UNCHANGED <<guard, req>>, \A p \in Processes : over'[p].pc = over[p].pc,
             cron' = cron \/ cron' \notin Processes
      PROVE  Locks'
  BY <1>1, RequestLocksStay, OverviewHoldsStay DEF Locks, OverviewHolds, CronOwned
<1>2. ASSUME NEW p \in Processes, Pressure(p) PROVE Locks'
  BY <1>1, <1>2 DEF Pressure, shared
<1>3. CASE CronBegins \/ CronEnds
  BY <1>1, <1>3, ParametersAssumption DEF CronBegins, CronEnds
<1>4. CASE LeaseEnds
  <2>1. CASE cron = "dead" /\ cron' = "expired" /\ UNCHANGED guard
    BY <1>1, <1>4, <2>1, ParametersAssumption DEF LeaseEnds
  <2>2. CASE /\ \E k \in Keys : guard[k] = Dead /\ guard' = [guard EXCEPT ![k] = Nobody]
             /\ UNCHANGED cron
    <3>1. PICK k \in Keys : guard[k] = Dead /\ guard' = [guard EXCEPT ![k] = Nobody]
      BY <2>2
    <3>2. \A j \in Keys : guard'[j] = IF j = k THEN Nobody ELSE guard[j]
      BY <1>0, <3>1
    <3>3. \A o \in Processes : OverviewOf(o) # Nobody /\ OverviewOf(o) # Dead
      BY DEF OverviewOf, Nobody, Dead
    <3>4. req' = req /\ over' = over
      BY <1>4 DEF LeaseEnds
    <3>5. RequestLocks'
      BY <3>2, <3>4, OwnersDiffer, RequestLocksStay
    <3>6. OverviewHolds'
      BY <3>1, <3>2, <3>3, <3>4, OverviewHoldsStay DEF Locks, OverviewHolds
    <3> QED BY <2>2, <3>4, <3>5, <3>6 DEF Locks, CronOwned
  <2> QED BY <1>4, <2>1, <2>2 DEF LeaseEnds
<1>5. CASE Tick
  <2>1. cron' = cron /\ guard' = guard
    BY <1>5 DEF Tick, shared
  <2>2. \A p \in Processes : over'[p].pc = over[p].pc
    <3>1. ASSUME NEW p \in Processes PROVE over'[p].pc = over[p].pc
      <4>1. PICK v \in [pc : OverPlaces, age : Ages, lag : 0..MaxLag, todo : SUBSET Proposals] : v = over[p]
        BY <1>0
      <4>2. over'[p] = [v EXCEPT !.age = Older(v.age), !.lag = IF v.pc = "check" THEN v.lag + 1 ELSE 0]
        BY <1>5, <4>1 DEF Tick
      <4> QED BY <4>1, <4>2
    <3> QED BY <3>1
  <2>3. \A r \in Requests : req'[r].pc \in Guarded => req'[r] = req[r]
    <3>1. ASSUME NEW r \in Requests, req'[r].pc \in Guarded PROVE req'[r] = req[r]
      <4>1. PICK v \in ReadRecords : v = req[r]
        BY DEF IInv, ReadsTyped
      <4>2. req'[r] = IF v.pc \in Reading THEN [v EXCEPT !.lag = v.lag + 1] ELSE v
        BY <1>5, <4>1 DEF Tick
      <4> QED BY <3>1, <4>1, <4>2 DEF ReadRecords, Guarded, Reading
    <3> QED BY <3>1
  <2>4. \A r \in Requests : req[r].pc \in Guarded => req'[r] = req[r]
    BY <1>5 DEF Tick, Guarded, Reading
  <2>5. RequestLocks'
    BY <2>1, <2>4 DEF Locks, RequestLocks, Holds, Guarded
  <2> QED BY <2>1, <2>2, <2>5, OverviewHoldsStay DEF Locks, OverviewHolds, CronOwned
<1>6. CASE UNCHANGED vars
  BY <1>1, <1>6 DEF vars, shared
<1> QED
  BY <1>2, <1>3, <1>4, <1>5, <1>6, LocksOfRequest, LocksOfOverview, LocksOfCrash DEF Next

(* The ages of the map are those of the starts, and what is not in it may    *)
(* start again; so may a key whose read was admitted and is being checked.   *)
MapsOK == DOMAIN times = Processes /\ \A p \in Processes : MapOK(times[p])
SinceTyped == since \in [Processes -> [Keys -> Ages]]
SinceTold == \A p \in Processes, k \in Keys :
    IF k \in DOMAIN times[p] THEN times[p][k].age = since[p][k] ELSE since[p][k] >= Cooldown
SlotFresh == \A r \in Requests : req[r].pc = "check" => since[r[1]][req[r].key] >= Cooldown
Times == MapsOK /\ SinceTyped /\ SinceTold /\ SlotFresh
LagsOK == \A r \in Requests : req[r].lag \in 0..MaxLag

(* Numbers that are multiplied grow. *)
LEMMA Multiplied ==
    /\ Old \in Nat /\ Cooldown \in Nat /\ Cooldown > 0 /\ MaxLag \in Nat
    /\ Old >= Cooldown /\ Old >= MaxLag
    /\ \A p : CooldownOf(p) >= Cooldown
<1>1. Cooldown \in Nat /\ Cooldown >= 1 /\ Multiplier \in Nat /\ Multiplier >= 1 /\ MaxLag \in Nat
  BY ParametersAssumption
<1>2. Multiplier - 1 \in Nat
  BY <1>1
<1>3. Cooldown * Multiplier = Cooldown * (Multiplier - 1) + Cooldown
  BY <1>1
<1>4. Cooldown * (Multiplier - 1) \in Nat
  BY <1>1, <1>2
<1>5. Cooldown * Multiplier \in Nat /\ Cooldown * Multiplier >= Cooldown
  BY <1>1, <1>3, <1>4
<1> QED
  BY <1>1, <1>5 DEF Old, CooldownOf

(* A step that starts nothing and admits nothing keeps the times. *)
LEMMA TimesStay ==
    ASSUME Times, times' = times, since' = since,
           \A r \in Requests : req'[r].pc = "check" => req[r].pc = "check" /\ req'[r].key = req[r].key
    PROVE  Times'
<1>1. SlotFresh'
  BY DEF Times, SlotFresh
<1> QED
  BY <1>1 DEF Times, MapsOK, SinceTyped, SinceTold

(* A read is admitted under a key that is not in its cooldown: those that    *)
(* were pruned are older.                                                    *)
LEMMA TimesResolve ==
    ASSUME IInv, Times, LagsOK, NEW r \in Requests, Resolve(r)
    PROVE  Times'
<1> DEFINE p == r[1]
<1> DEFINE lag == req[r].lag
<1> DEFINE m == times[p]
<1> DEFINE n == Prune(m, lag)
<1>1. p \in Processes /\ lag \in Nat /\ MapOK(m) /\ DOMAIN times = Processes
  BY Multiplied DEF Requests, LagsOK, Times, MapsOK
<1>2. times' = [times EXCEPT ![p] = n] /\ since' = since
  BY DEF Resolve
<1>3. /\ MapOK(n) /\ DOMAIN n \subseteq DOMAIN m
      /\ \A k \in DOMAIN n : n[k].age = m[k].age /\ m[k].age - lag < Cooldown
  BY <1>1, PrunedMap DEF MapOK
<1>4. \A k \in DOMAIN m : k \in DOMAIN n \/ m[k].age - lag >= Cooldown
  <2>1. ASSUME NEW k \in DOMAIN m, ~(m[k].age - lag >= Cooldown) PROVE k \in DOMAIN n
    <3>1. m[k].age - lag < Cooldown
      BY <1>1, <2>1, Multiplied DEF MapOK, Entries, Ages
    <3> QED BY <1>1, <3>1, PrunedSmall
  <2> QED BY <2>1
<1>5. \A k \in DOMAIN m : k \in Keys /\ m[k].age \in Nat /\ m[k].age = since[p][k]
  BY <1>1, Multiplied DEF MapOK, Entries, Ages, Times, SinceTold
<1>6. \A k \in Keys : k \notin DOMAIN n => since[p][k] >= Cooldown
  <2>1. ASSUME NEW k \in Keys, k \notin DOMAIN n PROVE since[p][k] >= Cooldown
    <3>1. CASE k \in DOMAIN m
      <4>1. m[k].age - lag >= Cooldown /\ m[k].age \in Nat /\ m[k].age = since[p][k]
        BY <1>4, <1>5, <2>1, <3>1
      <4> QED BY <1>1, <4>1, Multiplied
    <3>2. CASE k \notin DOMAIN m
      BY <1>1, <3>2 DEF Times, SinceTold
    <3> QED BY <3>1, <3>2
  <2> QED BY <2>1
<1>7. MapsOK'
  BY <1>1, <1>2, <1>3 DEF Times, MapsOK
<1>8. SinceTold'
  <2>1. ASSUME NEW o \in Processes, NEW k \in Keys
        PROVE  IF k \in DOMAIN times'[o] THEN times'[o][k].age = since'[o][k]
               ELSE since'[o][k] >= Cooldown
    <3>1. CASE o = p
      <4>1. times'[o] = n
        BY <1>1, <1>2, <3>1
      <4> QED BY <1>2, <1>3, <1>5, <1>6, <3>1, <4>1
    <3>2. CASE o # p
      <4>1. times'[o] = times[o]
        BY <1>1, <1>2, <3>2
      <4> QED BY <1>2, <4>1 DEF Times, SinceTold
    <3> QED BY <3>1, <3>2
  <2> QED BY <2>1 DEF SinceTold
<1>9. SlotFresh'
  <2>1. \A s \in Requests \ {r} : req'[s] = req[s]
    BY RequestGuards DEF Details
  <2>2. ASSUME req'[r].pc = "check" PROVE since[p][req'[r].key] >= Cooldown
    <3> DEFINE k == KeyOf(p, req[r].read)
    <3>1. req \in [Requests -> ReadRecords] /\ Idle.pc # "check"
      BY DEF IInv, ReadsTyped, Idle
    <3>2. Admitted(p, k, lag)
      BY <2>2, <3>1 DEF Resolve
    <3>3. req'[r].key = k
      <4>1. PICK v \in ReadRecords : v = req[r]
        BY <3>1
      <4>2. req'[r] = [v EXCEPT !.pc = "check", !.key = k, !.seen = req[r].read[1] \in known]
        BY <3>1, <3>2, <4>1 DEF Resolve
      <4> QED BY <4>2 DEF ReadRecords
    <3>4. AgeOf(n, k) - lag >= CooldownOf(p)
      BY <3>2 DEF Admitted
    <3>5. k \notin DOMAIN n
      <4>1. ASSUME k \in DOMAIN n PROVE FALSE
        <5>1. m[k].age - lag < Cooldown /\ AgeOf(n, k) = m[k].age /\ m[k].age \in Nat
          BY <1>3, <1>5, <4>1 DEF AgeOf
        <5>2. CooldownOf(p) >= Cooldown /\ CooldownOf(p) \in Int
          BY Multiplied, ParametersAssumption DEF CooldownOf
        <5> QED BY <1>1, <3>4, <5>1, <5>2, Multiplied
      <4> QED BY <4>1
    <3>6. k \in Keys
      BY CanonicalKey DEF Resolve, KeyOf, IInv, ReadsTyped
    <3> QED BY <1>6, <3>3, <3>5, <3>6
  <2> QED BY <1>2, <2>1, <2>2 DEF Times, SlotFresh
<1> QED
  BY <1>2, <1>7, <1>8, <1>9 DEF Times, SinceTyped

(* The map tells the age of a key when it is started, and the others that    *)
(* are being checked have other keys.                                        *)
LEMMA TimesStart ==
    ASSUME IInv, OneOwner, Times, LagsOK, NEW r \in Requests, Start(r)
    PROVE  Times'
<1> DEFINE p == r[1]
<1> DEFINE k == req[r].key
<1> DEFINE lag == req[r].lag
<1> DEFINE m == times[p]
<1> DEFINE st == Stamp(m, k, lag)
<1> DEFINE n == Prune(st, lag)
<1>1. /\ p \in Processes /\ lag \in Nat /\ lag \in Ages /\ MapOK(m) /\ DOMAIN times = Processes
      /\ k \in Keys /\ since \in [Processes -> [Keys -> Ages]]
  <2>1. lag \in Nat /\ lag \in Ages
    BY Multiplied DEF LagsOK, Ages
  <2> QED BY <2>1 DEF Requests, Times, MapsOK, SinceTyped, Start, IInv, ReadsTyped
<1>2. times' = [times EXCEPT ![p] = n] /\ since' = [since EXCEPT ![p] = SinceAfter(r, n)]
  BY DEF Start
<1>3. /\ DOMAIN st = DOMAIN m \cup {k} /\ st[k].age = lag
      /\ \A j \in DOMAIN m \ {k} : st[j].age = m[j].age
      /\ MapOK(n) /\ k \in DOMAIN n
  BY <1>1, StampedMap
<1>4. DOMAIN n \subseteq DOMAIN st /\ \A j \in DOMAIN n : n[j].age = st[j].age
  BY PrunedAges
<1>5. PICK ages \in [Keys -> Ages] : ages = since[p]
  BY <1>1
<1>6. PICK after : after = SinceAfter(r, n)
  OBVIOUS
<1>7. \A j \in Keys : after[j] = IF j = k THEN lag
                      ELSE IF j \in DOMAIN m \ DOMAIN n /\ ages[j] < Cooldown THEN Old ELSE ages[j]
  BY <1>5, <1>6 DEF SinceAfter
<1>8. Old \in Ages /\ after \in [Keys -> Ages]
  <2>1. Old \in Ages
    BY Multiplied DEF Ages
  <2>2. after = [j \in Keys |-> after[j]]
    BY <1>6 DEF SinceAfter
  <2> QED BY <1>1, <1>5, <1>7, <2>1, <2>2
<1>9. \A j \in Keys \ {k} : after[j] = ages[j] \/ after[j] >= Cooldown
  BY <1>7, Multiplied
<1>10. SinceTyped'
  BY <1>1, <1>2, <1>6, <1>8 DEF SinceTyped
<1>11. MapsOK'
  BY <1>1, <1>2, <1>3 DEF Times, MapsOK
<1>12. SinceTold'
  <2>1. ASSUME NEW o \in Processes, NEW j \in Keys
        PROVE  IF j \in DOMAIN times'[o] THEN times'[o][j].age = since'[o][j]
               ELSE since'[o][j] >= Cooldown
    <3>1. CASE o = p
      <4>1. times'[o] = n /\ since'[o] = after
        BY <1>1, <1>2, <1>6, <3>1
      <4>2. CASE j = k
        BY <1>3, <1>4, <1>7, <4>1, <4>2
      <4>3. CASE j # k /\ j \in DOMAIN n
        <5>1. j \in DOMAIN m /\ n[j].age = m[j].age
          BY <1>3, <1>4, <4>3
        <5>2. m[j].age = ages[j]
          BY <1>5, <5>1, <1>1 DEF Times, SinceTold
        <5>3. after[j] = ages[j]
          BY <1>7, <4>3
        <5> QED BY <4>1, <4>3, <5>1, <5>2, <5>3
      <4>4. CASE j # k /\ j \notin DOMAIN n
        <5>1. CASE j \in DOMAIN m
          <6>1. ages[j] \in Nat
            BY <1>5, Multiplied DEF Ages
          <6> QED BY <1>7, <4>1, <4>4, <5>1, <6>1, Multiplied
        <5>2. CASE j \notin DOMAIN m
          <6>1. ages[j] >= Cooldown
            BY <1>1, <1>5, <5>2 DEF Times, SinceTold
          <6> QED BY <1>7, <4>1, <4>4, <5>2, <6>1
        <5> QED BY <5>1, <5>2
      <4> QED BY <4>2, <4>3, <4>4
    <3>2. CASE o # p
      <4>1. times'[o] = times[o] /\ since'[o] = since[o]
        BY <1>1, <1>2, <3>2
      <4> QED BY <4>1 DEF Times, SinceTold
    <3> QED BY <3>1, <3>2
  <2> QED BY <2>1 DEF SinceTold
<1>13. SlotFresh'
  <2>1. ASSUME NEW s \in Requests, req'[s].pc = "check" PROVE since'[s[1]][req'[s].key] >= Cooldown
    <3>1. s # r /\ req'[s] = req[s]
      <4>1. PICK v \in ReadRecords : v = req[r]
        BY DEF IInv, ReadsTyped
      <4>2. req' = [req EXCEPT ![r] = [v EXCEPT !.pc = "guard"]] /\ req \in [Requests -> ReadRecords]
        BY <4>1 DEF Start, IInv, ReadsTyped
      <4>3. req'[r].pc = "guard"
        BY <4>1, <4>2 DEF ReadRecords
      <4> QED BY <2>1, <4>2, <4>3
    <3>2. req[s].pc = "check" /\ req[s].key \in Keys /\ s[1] \in Processes
      BY <2>1, <3>1 DEF IInv, ReadsTyped, Requests
    <3>3. since[s[1]][req[s].key] >= Cooldown
      BY <3>2 DEF Times, SlotFresh
    <3>4. CASE s[1] = p
      <4>1. req[r].pc = "check" /\ req[s].key # k
        BY <3>1, <3>2, <3>4 DEF Start, OneOwner, Requests
      <4>2. since'[s[1]] = after
        BY <1>1, <1>2, <1>6, <3>4
      <4> QED BY <1>5, <1>9, <3>1, <3>2, <3>3, <3>4, <4>1, <4>2
    <3>5. CASE s[1] # p
      BY <1>1, <1>2, <3>1, <3>2, <3>3, <3>5
    <3> QED BY <3>4, <3>5
  <2> QED BY <2>1 DEF SlotFresh
<1> QED
  BY <1>10, <1>11, <1>12, <1>13 DEF Times

(* Time passes for the map as for the starts. *)
LEMMA TimesTick == ASSUME IInv, Times, Tick PROVE Times'
<1>1. \A a \in Ages : /\ Older(a) \in Ages
                      /\ a >= Cooldown => Older(a) >= Cooldown
  BY Multiplied DEF Ages, Older
<1>2. \A p \in Processes, k \in Keys : since'[p][k] = Older(since[p][k])
  BY DEF Tick
<1>3. SinceTyped'
  <2>1. since' = [p \in Processes |-> [k \in Keys |-> Older(since[p][k])]]
    BY DEF Tick
  <2>2. \A p \in Processes, k \in Keys : since[p][k] \in Ages
    BY DEF Times, SinceTyped
  <2> QED BY <1>1, <2>1, <2>2 DEF SinceTyped
<1>4. ASSUME NEW p \in Processes
      PROVE  /\ DOMAIN times'[p] = DOMAIN times[p]
             /\ \A k \in DOMAIN times[p] : /\ times'[p][k].age = Older(times[p][k].age)
                                           /\ times'[p][k].before = times[p][k].before
                                           /\ times'[p][k] \in Entries
  <2>1. times'[p] = [k \in DOMAIN times[p] |-> [times[p][k] EXCEPT !.age = Older(times[p][k].age)]]
    BY DEF Tick
  <2>2. ASSUME NEW k \in DOMAIN times[p]
        PROVE  /\ times'[p][k].age = Older(times[p][k].age)
               /\ times'[p][k].before = times[p][k].before
               /\ times'[p][k] \in Entries
    <3>1. PICK e \in Entries : e = times[p][k]
      BY DEF Times, MapsOK, MapOK
    <3>2. times'[p][k] = [e EXCEPT !.age = Older(e.age)]
      BY <2>1, <3>1
    <3> QED BY <1>1, <3>1, <3>2 DEF Entries
  <2> QED BY <2>1, <2>2
<1>5. MapsOK'
  <2>1. ASSUME NEW p \in Processes PROVE MapOK(times'[p])
    <3>1. MapOK(times[p])
      BY DEF Times, MapsOK
    <3>2. Chain(times'[p])
      BY <1>4, <3>1 DEF MapOK, Chain
    <3> QED BY <1>4, <3>1, <3>2 DEF MapOK
  <2>2. DOMAIN times' = Processes
    BY DEF Tick
  <2> QED BY <2>1, <2>2 DEF MapsOK
<1>6. SinceTold'
  <2>1. ASSUME NEW p \in Processes, NEW k \in Keys
        PROVE  IF k \in DOMAIN times'[p] THEN times'[p][k].age = since'[p][k]
               ELSE since'[p][k] >= Cooldown
    <3>1. since[p][k] \in Ages
      BY DEF Times, SinceTyped
    <3> QED BY <1>1, <1>2, <1>4, <3>1 DEF Times, SinceTold
  <2> QED BY <2>1 DEF SinceTold
<1>7. SlotFresh'
  <2>1. ASSUME NEW r \in Requests, req'[r].pc = "check" PROVE since'[r[1]][req'[r].key] >= Cooldown
    <3>1. PICK v \in ReadRecords : v = req[r]
      BY DEF IInv, ReadsTyped
    <3>2. req'[r] = IF v.pc \in Reading THEN [v EXCEPT !.lag = v.lag + 1] ELSE v
      BY <3>1 DEF Tick
    <3>3. v.pc = "check" /\ req'[r].key = v.key
      BY <2>1, <3>2 DEF ReadRecords
    <3>4. v.key \in Keys /\ r[1] \in Processes
      BY <3>1, <3>3 DEF IInv, ReadsTyped, Requests
    <3>5. since[r[1]][v.key] >= Cooldown /\ since[r[1]][v.key] \in Ages
      BY <3>1, <3>3, <3>4 DEF Times, SlotFresh, SinceTyped
    <3> QED BY <1>1, <1>2, <3>3, <3>4, <3>5
  <2> QED BY <2>1 DEF SlotFresh
<1> QED
  BY <1>3, <1>5, <1>6, <1>7 DEF Times

(* A process that comes up again remembers no start. *)
LEMMA TimesCrash == ASSUME IInv, Times, NEW p \in Processes, Crash(p) PROVE Times'
<1>1. /\ times' = [times EXCEPT ![p] = <<>>]
      /\ since' = [since EXCEPT ![p] = [k \in Keys |-> Old]]
      /\ req' = [r \in Requests |-> IF r[1] = p THEN Idle ELSE req[r]]
  BY DEF Crash
<1>2. DOMAIN <<>> = {}
  OBVIOUS
<1>3. MapOK(<<>>)
  <2>1. MaxTracked >= 0
    BY ParametersAssumption
  <2> QED BY <1>2, <2>1, FS_EmptySet DEF MapOK, Chain
<1>4. MapsOK'
  BY <1>1, <1>3 DEF Times, MapsOK
<1>5. Old \in Ages /\ Old >= Cooldown
  BY Multiplied DEF Ages
<1>6. SinceTyped'
  BY <1>1, <1>5 DEF Times, SinceTyped
<1>7. SinceTold'
  <2>1. ASSUME NEW o \in Processes, NEW k \in Keys
        PROVE  IF k \in DOMAIN times'[o] THEN times'[o][k].age = since'[o][k]
               ELSE since'[o][k] >= Cooldown
    <3>1. CASE o = p
      BY <1>1, <1>2, <1>5, <3>1 DEF Times, MapsOK, SinceTyped
    <3>2. CASE o # p
      BY <1>1, <3>2 DEF Times, MapsOK, SinceTyped, SinceTold
    <3> QED BY <3>1, <3>2
  <2> QED BY <2>1 DEF SinceTold
<1>8. SlotFresh'
  <2>1. Idle.pc # "check"
    BY DEF Idle
  <2>2. ASSUME NEW r \in Requests, req'[r].pc = "check" PROVE since'[r[1]][req'[r].key] >= Cooldown
    <3>1. r[1] # p /\ req'[r] = req[r] /\ r[1] \in Processes
      BY <1>1, <2>1, <2>2 DEF Requests
    <3>2. since'[r[1]] = since[r[1]]
      BY <1>1, <3>1 DEF Times, SinceTyped
    <3> QED BY <2>2, <3>1, <3>2 DEF Times, SlotFresh
  <2> QED BY <2>2 DEF SlotFresh
<1> QED
  BY <1>4, <1>6, <1>7, <1>8 DEF Times

(* Every step keeps the map and the starts in agreement. *)
LEMMA TimesStep == ASSUME IInv, OneOwner, Times, LagsOK, [Next]_vars PROVE Times'
<1>1. ASSUME NEW r \in Requests, Read(r) \/ Details(r) PROVE Times'
  <2>1. CASE ~Resolve(r) /\ ~Start(r)
    <3>1. times' = times /\ since' = since
      BY <1>1, <2>1 DEF Read, Details, Skip, Guard, Resync, Discover, DiscoverFails, CanonicalGuard,
         Ingest, memory
    <3>2. \A s \in Requests \ {r} : req'[s] = req[s]
      BY <1>1, RequestGuards
    <3>3. req'[r].pc # "check"
      <4>1. PICK v \in ReadRecords : v = req[r]
        BY DEF IInv, ReadsTyped
      <4>2. req \in [Requests -> ReadRecords]
        BY DEF IInv, ReadsTyped
      <4>3. \A x : [v EXCEPT !.pc = x].pc = x
        BY DEF ReadRecords
      <4>4. CASE req' = [req EXCEPT ![r] = Idle]
        BY <4>2, <4>4 DEF Idle
      <4>5. CASE \E q, o : req' = [req EXCEPT ![r] = [Idle EXCEPT !.pc = "resolve", !.read = <<q, o>>]]
        BY <4>2, <4>5 DEF Idle
      <4>6. CASE \E x \in {"sync", "discover", "ingest", "canonical"} :
                     req' = [req EXCEPT ![r] = [v EXCEPT !.pc = x]]
        BY <4>2, <4>3, <4>6
      <4>7. CASE Read(r)
        BY <4>5, <4>7 DEF Read
      <4>8. CASE Skip(r) \/ Resync(r) \/ DiscoverFails(r) \/ Ingest(r)
        BY <4>4, <4>8 DEF Skip, Skipped, Resync, DiscoverFails, Ingest, Ended
      <4>9. CASE Guard(r)
        BY <4>1, <4>4, <4>6, <4>9 DEF Guard, Ended
      <4>10. CASE Discover(r)
        BY <4>1, <4>6, <4>10 DEF Discover
      <4>11. CASE CanonicalGuard(r)
        BY <4>1, <4>4, <4>6, <4>11 DEF CanonicalGuard, Ended
      <4> QED BY <1>1, <2>1, <4>7, <4>8, <4>9, <4>10, <4>11 DEF Details
    <3> QED BY <3>1, <3>2, <3>3, TimesStay
  <2> QED BY <2>1, TimesResolve, TimesStart
<1>2. ASSUME UNCHANGED <<times, since, req>> PROVE Times'
  BY <1>2, TimesStay
<1>3. ASSUME NEW p \in Processes, OverviewRead(p) \/ Overview(p) \/ Pressure(p) PROVE Times'
  BY <1>2, <1>3 DEF OverviewRead, Overview, OverviewCheck, OverviewLock, OverviewList, OverviewGuard,
     OverviewIngest, OverviewDone, Pressure, memory
<1>4. CASE CronBegins \/ CronEnds \/ LeaseEnds
  BY <1>2, <1>4 DEF CronBegins, CronEnds, LeaseEnds, memory
<1>5. CASE UNCHANGED vars
  BY <1>2, <1>5 DEF vars, memory
<1> QED
  BY <1>1, <1>3, <1>4, <1>5, TimesCrash, TimesTick DEF Next

(* The other types. *)
SharedTypes ==
    /\ known \subseteq Proposals
    /\ cron \in Processes \cup {"free", "cron", "dead", "expired"}
    /\ pressure \subseteq Processes
    /\ alias \in [Processes -> SUBSET Proposals]
    /\ busy \in [Processes -> SUBSET Keys]
    /\ OverTypes

(* The checks of a read take MaxLag at most. *)
LEMMA LagsStep == ASSUME IInv, LagsOK, [Next]_vars PROVE LagsOK'
<1>0. req \in [Requests -> ReadRecords] /\ MaxLag \in Nat
  BY Multiplied DEF IInv, ReadsTyped
<1>1. ASSUME NEW r \in Requests, Read(r) \/ Details(r) PROVE LagsOK'
  <2>1. \A s \in Requests \ {r} : req'[s] = req[s]
    BY <1>1, RequestGuards
  <2>2. PICK v \in ReadRecords : v = req[r]
    BY <1>0
  <2>3. v.lag \in 0..MaxLag
    BY <2>2 DEF LagsOK
  <2>4. \/ \E q, o : req'[r] = [Idle EXCEPT !.pc = "resolve", !.read = <<q, o>>]
        \/ req'[r] = Idle
        \/ \E k, b : req'[r] = [v EXCEPT !.pc = "check", !.key = k, !.seen = b]
        \/ \E x : req'[r] = [v EXCEPT !.pc = x]
    <3>1. CASE Read(r)
      <4>1. PICK q \in Proposals, n \in Names :
              req' = [req EXCEPT ![r] = [Idle EXCEPT !.pc = "resolve", !.read = <<q, n>>]]
        BY <3>1, Zenon DEF Read
      <4>2. req'[r] = [Idle EXCEPT !.pc = "resolve", !.read = <<q, n>>]
        BY <1>0, <4>1, Zenon
      <4> QED BY <4>2, Zenon
    <3>2. CASE Resolve(r)
      <4>1. CASE req' = [req EXCEPT ![r] = Idle]
        BY <1>0, <4>1
      <4>2. CASE req' # [req EXCEPT ![r] = Idle]
        <5>1. PICK k : k = KeyOf(r[1], req[r].read)
          OBVIOUS
        <5>2. PICK b : b = (req[r].read[1] \in known)
          OBVIOUS
        <5>3. req' = [req EXCEPT ![r] = [@ EXCEPT !.pc = "check", !.key = k, !.seen = b]]
          BY <3>2, <4>2, <5>1, <5>2, Zenon DEF Resolve
        <5>4. req'[r] = [v EXCEPT !.pc = "check", !.key = k, !.seen = b]
          BY <1>0, <2>2, <5>3, Zenon
        <5> QED BY <5>4
      <4> QED BY <4>1, <4>2
    <3>3. CASE Start(r) \/ Discover(r)
      BY <1>0, <2>2, <3>3 DEF Start, Discover
    <3>4. CASE Guard(r) \/ CanonicalGuard(r)
      BY <1>0, <2>2, <3>4 DEF Guard, CanonicalGuard, Ended
    <3>5. CASE Skip(r) \/ Resync(r) \/ DiscoverFails(r) \/ Ingest(r)
      BY <1>0, <3>5 DEF Skip, Skipped, Resync, DiscoverFails, Ingest, Ended
    <3> QED BY <1>1, <3>1, <3>2, <3>3, <3>4, <3>5 DEF Details
  <2>5. req'[r].lag \in {0, v.lag}
    <3>1. ASSUME NEW q, NEW o, req'[r] = [Idle EXCEPT !.pc = "resolve", !.read = <<q, o>>]
          PROVE  req'[r].lag = 0
      BY <3>1 DEF Idle
    <3>2. ASSUME req'[r] = Idle PROVE req'[r].lag = 0
      BY <3>2 DEF Idle
    <3>3. ASSUME NEW k, NEW b, req'[r] = [v EXCEPT !.pc = "check", !.key = k, !.seen = b]
          PROVE  req'[r].lag = v.lag
      BY <3>3 DEF ReadRecords
    <3>4. ASSUME NEW x, req'[r] = [v EXCEPT !.pc = x] PROVE req'[r].lag = v.lag
      BY <3>4 DEF ReadRecords
    <3> QED BY <2>4, <3>1, <3>2, <3>3, <3>4, Zenon
  <2> QED BY <1>0, <2>1, <2>3, <2>5 DEF LagsOK
<1>2. ASSUME UNCHANGED req PROVE LagsOK'
  BY <1>2 DEF LagsOK
<1>3. ASSUME NEW p \in Processes, OverviewRead(p) \/ Overview(p) \/ Pressure(p) PROVE LagsOK'
  BY <1>2, <1>3 DEF OverviewRead, Overview, OverviewCheck, OverviewLock, OverviewList, OverviewGuard,
     OverviewIngest, OverviewDone, Pressure
<1>4. ASSUME NEW p \in Processes, Crash(p) PROVE LagsOK'
  BY <1>0, <1>4 DEF Crash, Idle, LagsOK
<1>5. CASE CronBegins \/ CronEnds \/ LeaseEnds
  BY <1>2, <1>5 DEF CronBegins, CronEnds, LeaseEnds
<1>6. CASE Tick
  <2>1. ASSUME NEW r \in Requests PROVE req'[r].lag \in 0..MaxLag
    <3>1. PICK v \in ReadRecords : v = req[r]
      BY <1>0
    <3>2. req'[r] = IF v.pc \in Reading THEN [v EXCEPT !.lag = v.lag + 1] ELSE v
      BY <1>6, <3>1 DEF Tick
    <3>3. v.lag \in 0..MaxLag /\ (v.pc \in Reading => v.lag < MaxLag)
      BY <1>6, <3>1 DEF Tick, LagsOK
    <3> QED BY <1>0, <3>2, <3>3 DEF ReadRecords
  <2> QED BY <2>1 DEF LagsOK
<1>7. CASE UNCHANGED vars
  BY <1>2, <1>7 DEF vars
<1> QED
  BY <1>1, <1>3, <1>4, <1>5, <1>6, <1>7 DEF Next

(* The overviews keep their types. *)
LEMMA OverStep == ASSUME IInv, SharedTypes, [Next]_vars PROVE OverTypes'
<1> DEFINE Overs == [pc : OverPlaces, age : Ages, lag : 0..MaxLag, todo : SUBSET Proposals]
<1>0. over \in [Processes -> Overs] /\ MaxLag \in Nat /\ Old \in Nat
  BY Multiplied DEF SharedTypes, OverTypes
<1>1. ASSUME UNCHANGED over PROVE OverTypes'
  BY <1>1 DEF SharedTypes, OverTypes
<1>2. ASSUME NEW p \in Processes, NEW w \in Overs, over' = [over EXCEPT ![p] = w] PROVE OverTypes'
  BY <1>0, <1>2 DEF OverTypes
<1>3. ASSUME NEW p \in Processes, OverviewRead(p) \/ Overview(p) PROVE OverTypes'
  <2>1. PICK v \in Overs : v = over[p]
    BY <1>0
  <2>2. \/ \E x \in OverPlaces : over' = [over EXCEPT ![p] = [v EXCEPT !.pc = x]]
        \/ over' = [over EXCEPT ![p] = [v EXCEPT !.pc = "check", !.lag = 0]]
        \/ over' = [over EXCEPT ![p] = [v EXCEPT !.pc = "lock", !.age = v.lag]]
        \/ \E S \in SUBSET Proposals : over' = [over EXCEPT ![p] = [v EXCEPT !.pc = "next", !.todo = S]]
        \/ \E S \in SUBSET Proposals : over' = [over EXCEPT ![p] = [v EXCEPT !.todo = S]]
    <3>1. CASE OverviewRead(p)
      BY <1>0, <2>1, <3>1 DEF OverviewRead
    <3>2. CASE OverviewCheck(p)
      BY <1>0, <2>1, <3>2 DEF OverviewCheck, OverPlaces
    <3>3. CASE OverviewLock(p)
      BY <1>0, <2>1, <3>3 DEF OverviewLock, OverPlaces
    <3>4. CASE OverviewList(p)
      <4>1. PICK new \in {{}, Proposals \ known} : over' = [over EXCEPT ![p].pc = "next", ![p].todo = new]
        BY <3>4 DEF OverviewList
      <4>2. over' = [over EXCEPT ![p] = [over[p] EXCEPT !.pc = "next", !.todo = new]]
        BY <1>0, <4>1
      <4>3. new \in SUBSET Proposals
        OBVIOUS
      <4> QED
        BY <2>1, <4>2, <4>3
    <3>5. CASE OverviewGuard(p)
      BY <1>0, <2>1, <3>5 DEF OverviewGuard, OverPlaces
    <3>6. CASE OverviewIngest(p)
      <4>1. PICK q \in over[p].todo :
              over' = [over EXCEPT ![p].pc = "next", ![p].todo = @ \ {q}]
        BY <3>6 DEF OverviewIngest
      <4>2. PICK S \in SUBSET Proposals : S = v.todo \ {q}
        BY <2>1
      <4>3. over' = [over EXCEPT ![p] = [v EXCEPT !.pc = "next", !.todo = S]]
        BY <1>0, <2>1, <4>1, <4>2
      <4> QED BY <4>3
    <3>7. CASE OverviewDone(p)
      BY <1>0, <2>1, <3>7 DEF OverviewDone, OverPlaces
    <3> QED BY <1>3, <3>1, <3>2, <3>3, <3>4, <3>5, <3>6, <3>7 DEF Overview
  <2>3. v.lag \in Ages
    BY <2>1, Multiplied DEF Ages
  <2>4. ASSUME NEW w \in Overs, over' = [over EXCEPT ![p] = w] PROVE OverTypes'
    BY <1>2, <2>4
  <2>5. ASSUME NEW x \in OverPlaces PROVE [v EXCEPT !.pc = x] \in Overs
    OBVIOUS
  <2>6. [v EXCEPT !.pc = "check", !.lag = 0] \in Overs
    <3>1. PICK n \in 0..MaxLag : n = 0
      BY <1>0
    <3>2. [v EXCEPT !.pc = "check", !.lag = n] \in Overs
      BY DEF OverPlaces
    <3> QED BY <3>1, <3>2
  <2>7. [v EXCEPT !.pc = "lock", !.age = v.lag] \in Overs
    BY <2>3 DEF OverPlaces
  <2>8. ASSUME NEW S \in SUBSET Proposals
        PROVE  [v EXCEPT !.pc = "next", !.todo = S] \in Overs /\ [v EXCEPT !.todo = S] \in Overs
    BY DEF OverPlaces
  <2> QED BY <2>2, <2>4, <2>5, <2>6, <2>7, <2>8
<1>4. ASSUME NEW p \in Processes, Crash(p) PROVE OverTypes'
  <2>1. OverIdle \in Overs
    BY <1>0 DEF OverIdle, OverPlaces, Ages
  <2> QED BY <1>2, <1>4, <2>1 DEF Crash
<1>5. CASE Tick
  <2>1. ASSUME NEW p \in Processes PROVE over'[p] \in Overs
    <3>1. PICK v \in Overs : v = over[p]
      BY <1>0
    <3>2. over'[p] = [v EXCEPT !.age = Older(v.age), !.lag = IF v.pc = "check" THEN v.lag + 1 ELSE 0]
      BY <1>5, <3>1 DEF Tick
    <3>3. v.pc = "check" => v.lag < MaxLag
      BY <1>5, <3>1 DEF Tick
    <3>4. Older(v.age) \in Ages
      BY <1>0 DEF Older, Ages
    <3>5. (IF v.pc = "check" THEN v.lag + 1 ELSE 0) \in 0..MaxLag
      BY <1>0, <3>3
    <3> QED BY <3>2, <3>4, <3>5
  <2>2. over' = [p \in Processes |-> over'[p]]
    BY <1>5 DEF Tick
  <2> QED BY <2>1, <2>2 DEF OverTypes
<1>6. ASSUME NEW r \in Requests, Read(r) \/ Details(r) PROVE OverTypes'
  BY <1>1, <1>6, RequestGuards
<1>7. ASSUME NEW p \in Processes, Pressure(p) PROVE OverTypes'
  BY <1>1, <1>7 DEF Pressure
<1>8. CASE CronBegins \/ CronEnds \/ LeaseEnds
  BY <1>1, <1>8 DEF CronBegins, CronEnds, LeaseEnds
<1>9. CASE UNCHANGED vars
  BY <1>1, <1>9 DEF vars
<1> QED
  BY <1>3, <1>4, <1>5, <1>6, <1>7, <1>8, <1>9 DEF Next

(* So do the shared state and the memory of the processes. *)
LEMMA SharedStep == ASSUME IInv, SharedTypes, [Next]_vars PROVE SharedTypes'
<1>1. OverTypes'
  BY OverStep
<1>2. \A r \in Requests : req[r].pc # "idle" =>
          /\ req[r].read[1] \in Proposals /\ r[1] \in Processes /\ KeyOf(r[1], req[r].read) \in Keys
  BY CanonicalKey DEF IInv, ReadsTyped, Requests, KeyOf
<1>3. \A p \in Processes : over[p].todo \subseteq Proposals
  BY DEF SharedTypes, OverTypes
<1>4. known' \subseteq Proposals
  <2>1. \/ known' = known
        \/ \E r \in Requests : req[r].pc = "ingest" /\ known' = known \cup {req[r].read[1]}
        \/ \E p \in Processes : \E q \in over[p].todo : known' = known \cup {q}
    BY DEF Next, vars, shared, Read, Details, Resolve, Skip, Start, Guard, Resync, Discover,
       DiscoverFails, CanonicalGuard, Ingest, OverviewRead, Overview, OverviewCheck, OverviewLock,
       OverviewList, OverviewGuard, OverviewIngest, OverviewDone, Pressure, Crash, CronBegins,
       CronEnds, LeaseEnds, Tick
  <2> QED BY <1>2, <1>3, <2>1 DEF SharedTypes
<1>5. cron' \in Processes \cup {"free", "cron", "dead", "expired"}
  <2>1. \/ cron' = cron
        \/ cron' \in {"free", "cron", "dead", "expired"}
        \/ \E p \in Processes : cron' = p
    BY DEF Next, vars, shared, Read, Details, Resolve, Skip, Start, Guard, Resync, Discover,
       DiscoverFails, CanonicalGuard, Ingest, OverviewRead, Overview, OverviewCheck, OverviewLock,
       OverviewList, OverviewGuard, OverviewIngest, OverviewDone, Pressure, Crash, CronBegins,
       CronEnds, LeaseEnds, Tick
  <2> QED BY <2>1 DEF SharedTypes
<1>6. pressure' \subseteq Processes
  <2>1. pressure' \subseteq pressure \/ \E p \in Processes : pressure' \subseteq pressure \cup {p}
    BY DEF Next, vars, shared, Read, Details, Resolve, Skip, Start, Guard, Resync, Discover,
       DiscoverFails, CanonicalGuard, Ingest, OverviewRead, Overview, OverviewCheck, OverviewLock,
       OverviewList, OverviewGuard, OverviewIngest, OverviewDone, Pressure, Crash, CronBegins,
       CronEnds, LeaseEnds, Tick
  <2> QED BY <2>1 DEF SharedTypes
<1>7. alias' \in [Processes -> SUBSET Proposals]
  <2>1. \/ alias' = alias
        \/ \E r \in Requests : /\ req[r].pc = "discover"
                               /\ alias' = [alias EXCEPT ![r[1]] = @ \cup {req[r].read[1]}]
        \/ \E p \in Processes : alias' = [alias EXCEPT ![p] = {}]
    BY DEF Next, vars, memory, Read, Details, Resolve, Skip, Start, Guard, Resync, Discover,
       DiscoverFails, CanonicalGuard, Ingest, OverviewRead, Overview, OverviewCheck, OverviewLock,
       OverviewList, OverviewGuard, OverviewIngest, OverviewDone, Pressure, Crash, CronBegins,
       CronEnds, LeaseEnds, Tick
  <2> QED BY <1>2, <2>1 DEF SharedTypes
<1>8. busy' \in [Processes -> SUBSET Keys]
  <2>1. \/ busy' = busy
        \/ \E r \in Requests : /\ req[r].pc = "resolve"
                               /\ busy' = [busy EXCEPT ![r[1]] = @ \cup {KeyOf(r[1], req[r].read)}]
        \/ \E r \in Requests : busy' = [busy EXCEPT ![r[1]] = @ \ {req[r].key}]
        \/ \E p \in Processes : busy' = [busy EXCEPT ![p] = {}]
    BY DEF Next, vars, memory, Read, Details, Resolve, Skip, Skipped, Ended, Start, Guard, Resync,
       Discover, DiscoverFails, CanonicalGuard, Ingest, OverviewRead, Overview, OverviewCheck,
       OverviewLock, OverviewList, OverviewGuard, OverviewIngest, OverviewDone, Pressure, Crash,
       CronBegins, CronEnds, LeaseEnds, Tick
  <2> QED BY <1>2, <2>1 DEF SharedTypes, Requests
<1> QED
  BY <1>1, <1>4, <1>5, <1>6, <1>7, <1>8 DEF SharedTypes

-------------------------------------------------------------------------------
(* All of it is inductive. *)
(* The inductive invariant of the admission. *)
ReadsInv == IInv /\ SharedTypes /\ LagsOK /\ OneOwner /\ Locks /\ Times

(* The inductive invariant: every step keeps it. *)
LEMMA ReadsStep == ReadsInv /\ [Next]_vars => ReadsInv'
<1> SUFFICES ASSUME ReadsInv, [Next]_vars PROVE ReadsInv'
  OBVIOUS
<1>1. IInv'
  BY Step DEF ReadsInv
<1>2. SharedTypes' /\ LagsOK'
  BY SharedStep, LagsStep DEF ReadsInv
<1>3. OneOwner'
  BY <1>1, OwnerStep DEF ReadsInv, SharedTypes
<1>4. Locks'
  BY LocksStep DEF ReadsInv, SharedTypes
<1>5. Times'
  BY TimesStep DEF ReadsInv
<1> QED
  BY <1>1, <1>2, <1>3, <1>4, <1>5 DEF ReadsInv

(* It holds at the start. *)
LEMMA ReadsBegin == Init => ReadsInv
<1> SUFFICES ASSUME Init PROVE ReadsInv
  OBVIOUS
<1>0. Idle \in ReadRecords /\ Idle.pc = "idle" /\ Idle.lag = 0
  BY DEF Idle, ReadRecords
<1>1. IInv
  BY <1>0 DEF Init, IInv, ReadsTyped, GuardsHeld, Guarded, Working
<1>2. MaxLag \in Nat /\ Old \in Ages /\ Old >= Cooldown
  BY Multiplied DEF Ages
<1>3. SharedTypes
  BY <1>2 DEF Init, SharedTypes, OverTypes, OverIdle, OverPlaces
<1>4. LagsOK
  BY <1>0, <1>2 DEF Init, LagsOK
<1>5. OneOwner
  <2>1. \A r \in Requests : req[r].pc \notin {"check"} \cup Working
    BY <1>0 DEF Init, Working
  <2> QED BY <2>1 DEF Init, OneOwner
<1>6. Locks
  <2>1. \A p \in Processes : OverviewOf(p) # Nobody
    BY DEF OverviewOf, Nobody
  <2>2. \A p \in Processes : cron # p
    BY ParametersAssumption DEF Init
  <2>3. \A p \in Processes : over[p].pc # "ingest"
    BY DEF Init, OverIdle
  <2>4. \A k \in Keys : guard[k] = Nobody
    BY DEF Init
  <2> QED BY <2>1, <2>2, <2>3, <2>4, OwnersDiffer DEF Locks, RequestLocks, OverviewHolds, CronOwned
<1>7. Times
  <2>1. DOMAIN <<>> = {} /\ \A p \in Processes : times[p] = <<>>
    BY DEF Init
  <2>2. MaxTracked >= 0
    BY ParametersAssumption
  <2>3. MapsOK
    BY <2>1, <2>2, FS_EmptySet DEF MapsOK, MapOK, Chain, Init
  <2> QED BY <1>0, <1>2, <2>1, <2>3 DEF Times, SinceTyped, SinceTold, SlotFresh, Init
<1> QED
  BY <1>1, <1>3, <1>4, <1>5, <1>6, <1>7 DEF ReadsInv

(* Inv, and one sync that ingests, follow from it. *)
LEMMA LocksAreOwned == ReadsInv => LocksOwned
<1> SUFFICES ASSUME ReadsInv PROVE LocksOwned
  OBVIOUS
<1>1. \A k \in Keys, r \in Requests : guard[k] = r =>
          \/ req[r].pc \in Working \ {"guard"} /\ k = req[r].key
          \/ req[r].pc = "ingest" /\ k = Canonical(req[r].read[1])
  BY DEF ReadsInv, Locks, RequestLocks, Holds, Guarded, Working
<1>2. ASSUME NEW p \in Processes
      PROVE  Cardinality({k \in Keys : guard[k] = OverviewOf(p)}) =
                 IF over[p].pc = "ingest" THEN 1 ELSE 0
  <2>1. CASE over[p].pc = "ingest"
    <3>1. PICK k \in Keys : {j \in Keys : guard[j] = OverviewOf(p)} = {k}
      BY <2>1 DEF ReadsInv, Locks, OverviewHolds
    <3> QED BY <2>1, <3>1, FS_Singleton
  <2>2. CASE over[p].pc # "ingest"
    <3>1. {j \in Keys : guard[j] = OverviewOf(p)} = {}
      BY <2>2 DEF ReadsInv, Locks, OverviewHolds
    <3> QED BY <2>2, <3>1, FS_EmptySet
  <2> QED BY <2>1, <2>2
<1> QED
  BY <1>1, <1>2 DEF LocksOwned, ReadsInv, Locks, CronOwned

(* The type invariant follows from it. *)
LEMMA ReadsAreTyped == ReadsInv => TypeOK
<1> SUFFICES ASSUME ReadsInv PROVE TypeOK
  OBVIOUS
<1>1. \A p \in Processes :
          /\ DOMAIN times[p] \subseteq Keys /\ Cardinality(DOMAIN times[p]) <= MaxTracked
          /\ \A k \in DOMAIN times[p] : times[p][k] \in Entries
  BY DEF ReadsInv, Times, MapsOK, MapOK
<1>2. \A r \in Requests :
          /\ req[r].pc \in {"idle"} \cup Reading \cup Working
          /\ req[r].key \in Keys \cup {<<>>} /\ req[r].read \in Keys \cup {<<>>}
          /\ req[r].lag \in 0..MaxLag /\ req[r].seen \in BOOLEAN
  BY DEF ReadsInv, IInv, ReadsTyped, ReadRecords, LagsOK
<1> QED
  BY <1>1, <1>2 DEF TypeOK, ReadsInv, IInv, ReadsTyped, SharedTypes, OverTypes, OverPlaces, Times, SinceTyped

(* SyncsOwned: what is marked as in flight or locked belongs to a sync at    *)
(* work (syncOnRead.ts), whoever crashes; and one sync ingests a proposal.   *)
THEOREM SyncsAreOwned == Spec => []SyncsOwned
<1>1. Spec => []ReadsInv
  BY ReadsBegin, ReadsStep, PTL DEF Spec
<1>2. ReadsInv => Inv
  BY LocksAreOwned, ReadsAreTyped DEF Inv, ReadsInv
<1> QED
  BY <1>1, <1>2, OneIngestAtATime, PTL DEF SyncsOwned

(* TimesSpaced: two starts under one key are a cooldown apart, however the   *)
(* reads that prune the map overlap (maybeStartProposalSync).                *)
THEOREM TimesAreSpaced == Spec => TimesSpaced
<1>1. ReadsInv => Spaced
  <2> SUFFICES ASSUME ReadsInv, NEW r \in Requests, req[r].pc = "check"
               PROVE  since[r[1]][req[r].key] >= Cooldown
    BY DEF Spaced
  <2> QED BY DEF ReadsInv, Times, SlotFresh
<1>2. Spec => []ReadsInv
  BY ReadsBegin, ReadsStep, PTL DEF Spec
<1>3. ReadsInv /\ [Next]_vars => [Spaced]_vars
  BY <1>1
<1> QED
  BY <1>2, <1>3, PTL DEF Spec, TimesSpaced


-------------------------------------------------------------------------------
(* The tally of a proposal's votes (ProposalTally)                           *)

(* A division is by defect, and grows with the quotient of the numbers.      *)
LEMMA DivBounds ==
    ASSUME NEW x \in Int, NEW b \in Nat \ {0}
    PROVE  x \div b \in Int /\ b * (x \div b) <= x /\ x < b * (x \div b) + b
BY SMT

(* A quotient grows with the fraction it is of.                              *)
LEMMA DivGrows ==
    ASSUME NEW x \in Nat, NEW b \in Nat \ {0}, NEW y \in Nat, NEW d \in Nat \ {0}, x * d <= y * b
    PROVE  x \div b <= y \div d
BY SMT

(* A share is a natural number.                                              *)
LEMMA PercentInt ==
    ASSUME NEW x \in Nat, NEW d \in Int
    PROVE  Percent(x, d) \in Nat
BY SMT DEF Percent

(* Two shares of a whole are at most the whole, but for rounding.            *)
LEMMA SharesOfWhole ==
    ASSUME NEW x \in Nat, NEW y \in Nat, NEW d \in Nat \ {0}, x + y <= d
    PROVE  /\ Percent(x, d) + Percent(y, d) <= 10001
           /\ pct2(x, d) + pct2(y, d) <= 10000
<1>1. Percent(x, d) = (20000 * x + d) \div (2 * d) /\ Percent(y, d) = (20000 * y + d) \div (2 * d)
    BY DEF Percent
<1>2. pct2(x, d) = (10000 * x) \div d /\ pct2(y, d) = (10000 * y) \div d
    BY DEF pct2
<1>3. PICK p \in Int : p = (20000 * x + d) \div (2 * d)
    BY DivBounds
<1>4. PICK q \in Int : q = (20000 * y + d) \div (2 * d)
    BY DivBounds
<1>5. (2 * d) * p <= 20000 * x + d /\ (2 * d) * q <= 20000 * y + d
    <2>1. PICK b \in Nat \ {0} : b = 2 * d
        OBVIOUS
    <2>2. PICK m \in Int : m = 20000 * x + d
        OBVIOUS
    <2>3. PICK n \in Int : n = 20000 * y + d
        OBVIOUS
    <2>4. p = m \div b /\ q = n \div b
        BY <1>3, <1>4, <2>1, <2>2, <2>3
    <2>5. b * p <= m /\ b * q <= n
        BY <2>4, DivBounds
    <2> QED
        BY <2>1, <2>2, <2>3, <2>5
<1>6. d * (p + q) <= d * 10001
    BY <1>5
<1>7. p + q <= 10001
    BY <1>6
<1>8. PICK u \in Int : u = (10000 * x) \div d
    BY DivBounds
<1>9. PICK v \in Int : v = (10000 * y) \div d
    BY DivBounds
<1>10. d * u <= 10000 * x /\ d * v <= 10000 * y
    BY <1>8, <1>9, DivBounds
<1>11. d * (u + v) <= d * 10000
    BY <1>10
<1>12. u + v <= 10000
    BY <1>11
<1> QED
    BY <1>1, <1>2, <1>3, <1>4, <1>7, <1>8, <1>9, <1>12

(* The share of the one side does not fall when it grows and the rest shrinks. *)
LEMMA ShareGrows ==
    ASSUME NEW x \in Nat, NEW r \in Nat, NEW y \in Nat, NEW s \in Nat, x <= y, s <= r
    PROVE  Percent(x, x + r) <= Percent(y, y + s)
<1>1. CASE x + r = 0
    BY <1>1, PercentInt DEF Percent
<1>2. CASE x + r > 0 /\ y + s > 0
    <2>1. x * s <= y * r
        BY SMT
    <2>2. x * (y + s) <= y * (x + r)
        BY <2>1
    <2>3. (20000 * x + (x + r)) * (2 * (y + s)) = 40000 * (x * (y + s)) + 2 * ((x + r) * (y + s))
        OBVIOUS
    <2>4. (20000 * y + (y + s)) * (2 * (x + r)) = 40000 * (y * (x + r)) + 2 * ((x + r) * (y + s))
        OBVIOUS
    <2>5. PICK m \in Nat : m = (x + r) * (y + s)
        OBVIOUS
    <2>6. PICK f \in Nat : f = x * (y + s)
        OBVIOUS
    <2>7. PICK g \in Nat : g = y * (x + r)
        OBVIOUS
    <2>8. (20000 * x + (x + r)) * (2 * (y + s)) <= (20000 * y + (y + s)) * (2 * (x + r))
        BY <2>2, <2>3, <2>4, <2>5, <2>6, <2>7
    <2>9. (20000 * x + (x + r)) \div (2 * (x + r)) <= (20000 * y + (y + s)) \div (2 * (y + s))
        <3>1. PICK b \in Nat \ {0} : b = 2 * (x + r)
            BY <1>2
        <3>2. PICK d \in Nat \ {0} : d = 2 * (y + s)
            BY <1>2
        <3>3. PICK n \in Nat : n = 20000 * x + (x + r)
            OBVIOUS
        <3>4. PICK o \in Nat : o = 20000 * y + (y + s)
            OBVIOUS
        <3>5. n * d <= o * b
            BY <2>8, <3>1, <3>2, <3>3, <3>4
        <3>6. n \div b <= o \div d
            BY <3>5, DivGrows
        <3> QED
            BY <3>1, <3>2, <3>3, <3>4, <3>6
    <2> QED
        BY <1>2, <2>9 DEF Percent
<1>3. CASE x + r > 0 /\ y + s = 0
    <2>1. x = 0 /\ y = 0 /\ s = 0 /\ r > 0
        BY <1>3
    <2>2. Percent(x, x + r) = r \div (2 * r)
        BY <2>1 DEF Percent
    <2>3. r \div (2 * r) = 0
        BY <2>1, SMT
    <2> QED
        BY <2>1, <2>2, <2>3 DEF Percent
<1> QED
    BY <1>1, <1>2, <1>3

-------------------------------------------------------------------------------
(* A power record with a total; what Koios counted against the action has    *)
(* the explicit No and the predefined one in it.                             *)
PowerRows == [yes : Nat, no : Nat, abstain : Nat, alwaysAbstain : Nat, alwaysNo : Nat,
              inactive : Nat, total : {None} \cup Nat, koiosNo : {None} \cup Nat]
Sound(p) == p \in PowerRows /\ (p.koiosNo # None => p.koiosNo >= p.no + p.alwaysNo)

(* What counts as Yes, and what else is in the denominator.                  *)
DrepYes(type, p)  == p.yes + (IF type = "NO_CONFIDENCE" THEN p.alwaysNo ELSE 0)
DrepRest(type, p) == p.no + DrepNotVoted(p) + (IF type = "NO_CONFIDENCE" THEN 0 ELSE p.alwaysNo)

(* What did not vote is not negative.                                        *)
LEMMA DrepNotVotedNat ==
    ASSUME NEW p \in PowerRows
    PROVE  DrepNotVoted(p) \in Nat
<1>1. toNumber(p.total) \in Nat
    BY DEF toNumber, PowerRows
<1>2. toNumber(p.total) - p.yes - p.no - p.abstain - p.alwaysAbstain - p.alwaysNo - p.inactive \in Int
    BY <1>1 DEF PowerRows
<1> QED
    BY <1>2 DEF DrepNotVoted, AtLeast0

(* Yes and No of the DReps, in the API and in the analytics.                 *)
LEMMA DrepSides ==
    ASSUME NEW p \in PowerRows, NEW type \in GovernanceTypes
    PROVE  /\ DrepYes(type, p) \in Nat /\ DrepRest(type, p) \in Nat
           /\ buildDrepVoteInfo(type, p) \in VoteInfos
           /\ LET y == DrepYes(type, p)  n == DrepRest(type, p) IN
              /\ buildDrepVoteInfo(type, p).yesPercent = Percent(y, y + n)
              /\ buildDrepVoteInfo(type, p).noPercent = Percent(n, y + n)
              /\ computeDrepLedgerBuckets(type, p).outcome = <<pct2(y, y + n), pct2(n, y + n)>>
<1>1. DrepNotVoted(p) \in Nat
    BY DrepNotVotedNat
<1>2. PICK nv \in Nat : nv = DrepNotVoted(p)
    BY <1>1
<1>3. /\ p.yes \in Nat /\ p.no \in Nat /\ p.abstain \in Nat /\ p.alwaysAbstain \in Nat /\ p.alwaysNo \in Nat
    BY DEF PowerRows
<1>4. DrepYes(type, p) \in Nat /\ DrepRest(type, p) \in Nat
    BY <1>2, <1>3 DEF DrepYes, DrepRest
<1>5. PICK y \in Nat : y = DrepYes(type, p)
    BY <1>4
<1>6. PICK n \in Nat : n = DrepRest(type, p)
    BY <1>4
<1>7. /\ y = p.yes + (IF type = "NO_CONFIDENCE" THEN p.alwaysNo ELSE 0)
      /\ n = p.no + nv + (IF type = "NO_CONFIDENCE" THEN 0 ELSE p.alwaysNo)
    BY <1>2, <1>5, <1>6 DEF DrepYes, DrepRest
<1>8. buildDrepVoteInfo(type, p) = [yes |-> y, no |-> n, abstain |-> p.abstain + p.alwaysAbstain,
                                    yesPercent |-> Percent(y, y + n), noPercent |-> Percent(n, y + n)]
    BY <1>2, <1>7 DEF buildDrepVoteInfo
<1>9. Percent(y, y + n) \in Nat /\ Percent(n, y + n) \in Nat
    <2>1. PICK d \in Int : d = y + n
        OBVIOUS
    <2>2. Percent(y, d) \in Nat /\ Percent(n, d) \in Nat
        BY PercentInt
    <2> QED
        BY <2>1, <2>2
<1>10. buildDrepVoteInfo(type, p) \in VoteInfos
    BY <1>3, <1>8, <1>9 DEF VoteInfos
<1>11. computeDrepLedgerBuckets(type, p).outcome = <<pct2(y, y + n), pct2(n, y + n)>>
    <2>1. n = IF type = "NO_CONFIDENCE" THEN p.no + nv ELSE p.no + p.alwaysNo + nv
        BY <1>3, <1>7
    <2>2. y = IF type = "NO_CONFIDENCE" THEN p.yes + p.alwaysNo ELSE p.yes
        BY <1>3, <1>7
    <2> QED
        BY <2>1, <2>2, <1>2 DEF computeDrepLedgerBuckets
<1> QED
    BY <1>4, <1>5, <1>6, <1>8, <1>10, <1>11

-------------------------------------------------------------------------------
SpoYes(type, new, p) == p.yes + (IF new /\ type = "NO_CONFIDENCE" THEN p.alwaysNo ELSE 0)
SpoNo(type, new, p) ==
    p.no + (IF new THEN SpoNotVoted(p) ELSE p.alwaysNo)
         + (IF new /\ type = "HARD_FORK_INITIATION" THEN p.alwaysNo + p.alwaysAbstain ELSE 0)
SpoRest(type, new, p) ==
    SpoNo(type, new, p)
    + (IF new /\ type \notin {"HARD_FORK_INITIATION", "NO_CONFIDENCE"} THEN p.alwaysNo ELSE 0)

(* The total is what was counted and what did not vote.                      *)
LEMMA SpoParts ==
    ASSUME NEW p, Sound(p)
    PROVE  SpoNotVoted(p) \in Nat /\ SpoTotal(p) = SpoCounted(p) + SpoNotVoted(p)
<1>1. /\ p.yes \in Nat /\ p.no \in Nat /\ p.abstain \in Nat /\ p.alwaysAbstain \in Nat /\ p.alwaysNo \in Nat
      /\ p.koiosNo # None => p.koiosNo \in Nat
    BY DEF PowerRows, Sound
<1>2. toNumber(p.total) \in Nat
    BY DEF toNumber, PowerRows, Sound
<1>3. CASE p.koiosNo # None
    BY <1>1, <1>3 DEF Sound, SpoNotVoted, SpoTotal, SpoCounted
<1>4. CASE p.koiosNo = None
    BY <1>1, <1>2, <1>4 DEF SpoNotVoted, SpoTotal, SpoCounted, Larger
<1> QED
    BY <1>3, <1>4

(* Yes and No of the pools, by either formula.                               *)
LEMMA SpoSides ==
    ASSUME NEW p, Sound(p), NEW type \in GovernanceTypes, NEW new \in BOOLEAN
    PROVE  /\ SpoYes(type, new, p) \in Nat /\ SpoNo(type, new, p) \in Nat /\ SpoRest(type, new, p) \in Nat
           /\ SpoNo(type, new, p) <= SpoRest(type, new, p)
           /\ buildSpoVoteInfo(type, new, p) \in VoteInfos
           /\ LET y == SpoYes(type, new, p)  n == SpoNo(type, new, p)  of == y + SpoRest(type, new, p) IN
              /\ buildSpoVoteInfo(type, new, p).yesPercent = Percent(y, of)
              /\ buildSpoVoteInfo(type, new, p).noPercent = Percent(n, of)
              /\ computeSpoLedgerBuckets(type, new, p).outcome = <<pct2(y, of), pct2(n, of)>>
<1>1. /\ p.yes \in Nat /\ p.no \in Nat /\ p.abstain \in Nat /\ p.alwaysAbstain \in Nat /\ p.alwaysNo \in Nat
    BY DEF PowerRows, Sound
<1>2. PICK nv \in Nat : nv = SpoNotVoted(p)
    BY SpoParts
<1>3. SpoTotal(p) = p.yes + p.no + p.abstain + p.alwaysAbstain + p.alwaysNo + nv
    BY <1>2, SpoParts DEF SpoCounted
<1>4. /\ SpoYes(type, new, p) \in Nat /\ SpoNo(type, new, p) \in Nat /\ SpoRest(type, new, p) \in Nat
      /\ SpoNo(type, new, p) <= SpoRest(type, new, p)
    BY <1>1, <1>2 DEF SpoYes, SpoNo, SpoRest
<1>5. PICK y \in Nat : y = SpoYes(type, new, p)
    BY <1>4
<1>6. PICK n \in Nat : n = SpoNo(type, new, p)
    BY <1>4
<1>7. PICK of \in Nat : of = y + SpoRest(type, new, p)
    BY <1>4
<1>8. y + n <= of
    BY <1>4, <1>5, <1>6, <1>7
<1>9. DEFINE s == SpoShares(type, new, p)
<1>10. s.yes = y /\ s.no = n /\ s.of = of /\ s.abstain \in Nat
    <2>1. CASE ~new
        <3>1. s = [yes |-> p.yes, no |-> p.no + p.alwaysNo, abstain |-> p.abstain + p.alwaysAbstain,
                   of |-> p.yes + p.no + p.alwaysNo]
            BY <2>1 DEF SpoShares
        <3> QED
            BY <3>1, <2>1, <1>1, <1>5, <1>6, <1>7 DEF SpoYes, SpoNo, SpoRest
    <2>2. CASE new /\ type = "HARD_FORK_INITIATION"
        <3>1. s = [yes |-> p.yes, abstain |-> p.abstain,
                   no |-> p.no + AtLeast0(nv + p.alwaysNo + p.alwaysAbstain), of |-> SpoTotal(p) - p.abstain]
            BY <2>2, <1>2 DEF SpoShares
        <3>2. AtLeast0(nv + p.alwaysNo + p.alwaysAbstain) = nv + p.alwaysNo + p.alwaysAbstain
            BY <1>1 DEF AtLeast0
        <3> QED
            BY <3>1, <3>2, <2>2, <1>1, <1>2, <1>3, <1>5, <1>6, <1>7 DEF SpoYes, SpoNo, SpoRest
    <2>3. CASE new /\ type = "NO_CONFIDENCE"
        <3>1. s = [yes |-> p.yes + p.alwaysNo, abstain |-> p.abstain + p.alwaysAbstain,
                   no |-> p.no + AtLeast0(nv), of |-> SpoTotal(p) - p.abstain - p.alwaysAbstain]
            BY <2>3, <1>2 DEF SpoShares
        <3>2. AtLeast0(nv) = nv
            BY DEF AtLeast0
        <3> QED
            BY <3>1, <3>2, <2>3, <1>1, <1>2, <1>3, <1>5, <1>6, <1>7 DEF SpoYes, SpoNo, SpoRest
    <2>4. CASE new /\ type \notin {"HARD_FORK_INITIATION", "NO_CONFIDENCE"}
        <3>1. s = [yes |-> p.yes, abstain |-> p.abstain + p.alwaysAbstain,
                   no |-> p.no + AtLeast0(nv), of |-> SpoTotal(p) - p.abstain - p.alwaysAbstain]
            BY <2>4, <1>2 DEF SpoShares
        <3>2. AtLeast0(nv) = nv
            BY DEF AtLeast0
        <3> QED
            BY <3>1, <3>2, <2>4, <1>1, <1>2, <1>3, <1>5, <1>6, <1>7 DEF SpoYes, SpoNo, SpoRest
    <2> QED
        BY <2>1, <2>2, <2>3, <2>4
<1>11. CappedBoth(y, n, of) = <<Percent(y, of), Percent(n, of)>>
    <2>1. CASE of = 0
        BY <2>1 DEF CappedBoth, Percent
    <2>2. CASE of > 0
        BY <2>2, <1>8 DEF CappedBoth
    <2> QED
        BY <2>1, <2>2
<1>12. buildSpoVoteInfo(type, new, p) = [yes |-> y, no |-> n, abstain |-> s.abstain,
                                        yesPercent |-> Percent(y, of), noPercent |-> Percent(n, of)]
    BY <1>10, <1>11 DEF buildSpoVoteInfo
<1>13. Percent(y, of) \in Nat /\ Percent(n, of) \in Nat
    <2>1. of \in Int
        OBVIOUS
    <2> QED
        BY <2>1, PercentInt
<1>14. buildSpoVoteInfo(type, new, p) \in VoteInfos
    BY <1>10, <1>12, <1>13 DEF VoteInfos
<1>15. computeSpoLedgerBuckets(type, new, p).outcome = <<pct2(y, of), pct2(n, of)>>
    <2>1. AtLeast0(SpoNotVoted(p)) = nv
        BY <1>2 DEF AtLeast0
    <2> DEFINE fork == new /\ type = "HARD_FORK_INITIATION"
               motion == new /\ type = "NO_CONFIDENCE"
               abstain == p.abstain + (IF fork THEN 0 ELSE p.alwaysAbstain)
    <2>2. y = p.yes + (IF motion THEN p.alwaysNo ELSE 0)
        BY <1>5 DEF SpoYes
    <2>3. n = p.no + (IF ~new THEN p.alwaysNo ELSE nv) + (IF fork THEN p.alwaysNo + p.alwaysAbstain ELSE 0)
        BY <1>2, <1>6 DEF SpoNo
    <2>4. of = IF new THEN SpoTotal(p) - abstain ELSE p.yes + p.no + p.alwaysNo
        BY <1>1, <1>2, <1>3, <1>5, <1>7, <2>2 DEF SpoRest, SpoNo
    <2> HIDE DEF fork, motion
    <2>5. computeSpoLedgerBuckets(type, new, p).outcome =
             <<pct2(p.yes + (IF motion THEN p.alwaysNo ELSE 0),
                    IF new THEN SpoTotal(p) - abstain ELSE p.yes + p.no + p.alwaysNo),
               pct2(p.no + (IF ~new THEN p.alwaysNo ELSE nv) + (IF fork THEN p.alwaysNo + p.alwaysAbstain ELSE 0),
                    IF new THEN SpoTotal(p) - abstain ELSE p.yes + p.no + p.alwaysNo)>>
        BY <2>1 DEF computeSpoLedgerBuckets, fork, motion
    <2> QED
        BY <2>2, <2>3, <2>4, <2>5
<1> QED
    BY <1>4, <1>5, <1>6, <1>7, <1>12, <1>14, <1>15

-------------------------------------------------------------------------------
(* The invariant                                                             *)

CommitteeVotes == [voter : Members, vote : Choices3]

PowerTyped ==
    /\ body \in {"DREP", "SPO", "CC"}
    /\ proposal \in [type : GovernanceTypes, epoch : {None, 533, 534},
                     eligible : Eligible \cup {MIN_ELIGIBLE_CC_MEMBERS}]
    /\ stance \in [Stances -> Nat]
    /\ body # "DREP" => stance["inactive"] = 0
    /\ seen \in [total : {None} \cup Nat, koiosNo : {None} \cup Nat]
    /\ seen.koiosNo # None => body = "SPO" /\ seen.koiosNo = NoPower

VotesTyped ==
    /\ chain \in Seq(CommitteeVotes)
    /\ rows \in Seq(Nat)
    /\ \A k \in DOMAIN rows : rows[k] \in DOMAIN chain
    /\ \A k, l \in DOMAIN rows : rows[k] = rows[l] => k = l

TallyInv == PowerTyped /\ VotesTyped

(* How much of the power has which stance is a number.                       *)
LEMMA StanceNumbers ==
    ASSUME NEW st \in [Stances -> Nat]
    PROVE  /\ st["yes"] \in Nat /\ st["no"] \in Nat /\ st["abstain"] \in Nat /\ st["alwaysAbstain"] \in Nat
           /\ st["alwaysNo"] \in Nat /\ st["inactive"] \in Nat /\ st["none"] \in Nat
BY DEF Stances

(* The invariant holds before anybody votes ...                              *)
LEMMA TallyInvInit == TallyInit => TallyInv
<1> SUFFICES ASSUME TallyInit PROVE TallyInv
    OBVIOUS
<1>1. PowerTyped
    <2>1. stance \in [Stances -> Nat]
        BY TallyAssumption DEF TallyInit, NobodyVoted
    <2>2. proposal \in [type : GovernanceTypes, epoch : {None, 533, 534},
                        eligible : Eligible \cup {MIN_ELIGIBLE_CC_MEMBERS}]
        BY DEF TallyInit
    <2>3. stance["inactive"] = 0
        BY DEF TallyInit, NobodyVoted, Stances
    <2> QED
        BY <2>1, <2>2, <2>3 DEF TallyInit, PowerTyped
<1>2. VotesTyped
    BY DEF TallyInit, VotesTyped
<1> QED
    BY <1>1, <1>2 DEF TallyInv

(* ... and every report, new stance, vote and ingestion keeps it.            *)
LEMMA TallyInvNext == TallyInv /\ [TallyNext]_tallyVars => TallyInv'
<1> SUFFICES ASSUME TallyInv, [TallyNext]_tallyVars PROVE TallyInv'
    OBVIOUS
<1> USE DEF TallyInv
<1>1. CASE Report
    <2>1. NoPower \in Nat
        BY StanceNumbers DEF NoPower, PowerTyped
    <2>2. 0 .. MaxTotal \subseteq Nat
        BY TallyAssumption
    <2>3. seen' \in [total : {None} \cup Nat, koiosNo : {None} \cup Nat]
        BY <1>1, <2>1, <2>2 DEF Report
    <2>4. seen'.koiosNo # None => body = "SPO" /\ seen'.koiosNo = NoPower
        BY <1>1 DEF Report
    <2>5. NoPower' = NoPower
        BY <1>1 DEF Report, NoPower
    <2>6. PowerTyped'
        BY <1>1, <2>3, <2>4, <2>5 DEF Report, PowerTyped
    <2>7. VotesTyped'
        BY <1>1 DEF Report, VotesTyped
    <2> QED
        BY <2>6, <2>7
<1>2. ASSUME NEW from \in Stances, NEW to \in Stances, Restance(from, to)
      PROVE  TallyInv'
    <2>1. stance' \in [Stances -> Nat]
        BY <1>2 DEF Restance, PowerTyped
    <2>2. NoPower' \in Nat
        BY <2>1, StanceNumbers DEF NoPower
    <2>3. seen' \in [total : {None} \cup Nat, koiosNo : {None} \cup Nat]
        BY <1>2, <2>2 DEF Restance, PowerTyped
    <2>4. seen'.koiosNo # None => body = "SPO" /\ seen'.koiosNo = NoPower'
        BY <1>2 DEF Restance, PowerTyped
    <2>5a. body # "DREP" => stance'["inactive"] = 0
        <3> SUFFICES ASSUME body # "DREP" PROVE stance'["inactive"] = stance["inactive"]
            BY DEF PowerTyped
        <3>1. from # "inactive" /\ to # "inactive"
            BY <1>2 DEF Restance, StancesOf
        <3>2. "inactive" \in Stances
            BY DEF Stances
        <3> QED
            BY <1>2, <3>1, <3>2 DEF Restance, PowerTyped
    <2>5. PowerTyped'
        BY <1>2, <2>1, <2>3, <2>4, <2>5a DEF Restance, PowerTyped
    <2>6. VotesTyped'
        BY <1>2 DEF Restance, VotesTyped
    <2> QED
        BY <2>5, <2>6
<1>3. ASSUME NEW m \in Members, NEW c \in Choices3, Cast(m, c)
      PROVE  TallyInv'
    <2>1. PowerTyped'
        BY <1>3 DEF Cast, PowerTyped, NoPower
    <2>2. [voter |-> m, vote |-> c] \in CommitteeVotes
        BY DEF CommitteeVotes
    <2>3. chain' \in Seq(CommitteeVotes) /\ DOMAIN chain \subseteq DOMAIN chain'
        BY <1>3, <2>2 DEF Cast, VotesTyped
    <2>4. VotesTyped'
        BY <1>3, <2>3 DEF Cast, VotesTyped
    <2> QED
        BY <2>1, <2>4
<1>4. ASSUME NEW i \in DOMAIN chain, IngestRow(i)
      PROVE  TallyInv'
    <2>1. PowerTyped'
        BY <1>4 DEF IngestRow, PowerTyped, NoPower
    <2>2. i \in Nat
        BY DEF VotesTyped
    <2>3. rows' = Append(rows, i) /\ chain' = chain
        BY <1>4 DEF IngestRow
    <2>4. \A k \in DOMAIN rows : rows[k] # i
        BY <1>4 DEF IngestRow, Ingested
    <2>5. PICK n \in Nat : n = Len(rows) /\ DOMAIN rows = 1 .. n
        BY DEF VotesTyped
    <2>6. /\ rows' \in Seq(Nat) /\ DOMAIN rows' = 1 .. n + 1 /\ rows'[n + 1] = i
          /\ \A k \in 1 .. n : rows'[k] = rows[k]
        BY <2>2, <2>3, <2>5 DEF VotesTyped
    <2>7. \A k \in DOMAIN rows' : rows'[k] \in DOMAIN chain'
        BY <2>3, <2>5, <2>6 DEF VotesTyped
    <2>8. \A k, l \in DOMAIN rows' : rows'[k] = rows'[l] => k = l
        <3> SUFFICES ASSUME NEW k \in 1 .. n + 1, NEW l \in 1 .. n + 1, rows'[k] = rows'[l]
                     PROVE  k = l
            BY <2>6
        <3>1. CASE k \in 1 .. n /\ l \in 1 .. n
            BY <3>1, <2>5, <2>6 DEF VotesTyped
        <3>2. CASE k \in 1 .. n /\ l = n + 1
            BY <3>2, <2>4, <2>5, <2>6
        <3>3. CASE k = n + 1 /\ l \in 1 .. n
            BY <3>3, <2>4, <2>5, <2>6
        <3> QED
            BY <3>1, <3>2, <3>3
    <2>9. VotesTyped'
        BY <2>3, <2>6, <2>7, <2>8 DEF VotesTyped
    <2> QED
        BY <2>1, <2>9
<1>5. CASE UNCHANGED tallyVars
    <2>1. PowerTyped'
        BY <1>5 DEF tallyVars, PowerTyped, NoPower
    <2>2. VotesTyped'
        BY <1>5 DEF tallyVars, VotesTyped
    <2> QED
        BY <2>1, <2>2
<1> QED
    BY <1>1, <1>2, <1>3, <1>4, <1>5 DEF TallyNext

(* The power of a body and the votes of the committee keep their types, the  *)
(* votes are ingested once each and are there when they are ingested.        *)
THEOREM TallyTypeCorrect == TallySpec => []TallyInv
BY TallyInvInit, TallyInvNext, PTL DEF TallySpec
-------------------------------------------------------------------------------
(* The shares                                                                *)

(* The power record that the stances and the numbers of a report make.       *)
PowerOf(st, report) ==
    [yes |-> st["yes"], no |-> st["no"], abstain |-> st["abstain"],
     alwaysAbstain |-> st["alwaysAbstain"], alwaysNo |-> st["alwaysNo"],
     inactive |-> st["inactive"], total |-> report.total, koiosNo |-> report.koiosNo]
AgainstIn(st) == st["no"] + st["alwaysNo"] + st["none"]
Reports == [total : {None} \cup Nat, koiosNo : {None} \cup Nat]

(* The stored power of a body is typed.                                      *)
LEMMA PowerOfSound ==
    ASSUME NEW st \in [Stances -> Nat], NEW report \in Reports,
           report.koiosNo # None => report.koiosNo = AgainstIn(st)
    PROVE  /\ PowerOf(st, report) \in PowerRows /\ Sound(PowerOf(st, report))
<1>1. PowerOf(st, report) \in PowerRows
    BY StanceNumbers DEF PowerOf, PowerRows, Reports
<1>2. report.koiosNo # None => report.koiosNo >= st["no"] + st["alwaysNo"]
    BY StanceNumbers DEF AgainstIn
<1> QED
    BY <1>1, <1>2 DEF PowerOf, Sound

(* What the API and the analytics say of a body, by its two sides.           *)
InfoOf(b, type, new, p) == IF b = "DREP" THEN buildDrepVoteInfo(type, p) ELSE buildSpoVoteInfo(type, new, p)
OutcomeOf(b, type, new, p) ==
    IF b = "DREP" THEN computeDrepLedgerBuckets(type, p).outcome ELSE computeSpoLedgerBuckets(type, new, p).outcome
YesOf(b, type, new, p)  == IF b = "DREP" THEN DrepYes(type, p) ELSE SpoYes(type, new, p)
NoOf(b, type, new, p)   == IF b = "DREP" THEN DrepRest(type, p) ELSE SpoNo(type, new, p)
RestOf(b, type, new, p) == IF b = "DREP" THEN DrepRest(type, p) ELSE SpoRest(type, new, p)

(* The shares of the body that acts are shares of Yes and No.                *)
LEMMA Sides ==
    ASSUME NEW p, Sound(p), NEW type \in GovernanceTypes, NEW new \in BOOLEAN, NEW b
    PROVE  /\ YesOf(b, type, new, p) \in Nat /\ NoOf(b, type, new, p) \in Nat
           /\ RestOf(b, type, new, p) \in Nat /\ NoOf(b, type, new, p) <= RestOf(b, type, new, p)
           /\ InfoOf(b, type, new, p) \in VoteInfos
           /\ LET y == YesOf(b, type, new, p)  n == NoOf(b, type, new, p)  of == y + RestOf(b, type, new, p) IN
              /\ InfoOf(b, type, new, p).yesPercent = Percent(y, of)
              /\ InfoOf(b, type, new, p).noPercent = Percent(n, of)
              /\ OutcomeOf(b, type, new, p) = <<pct2(y, of), pct2(n, of)>>
<1>1. CASE b = "DREP"
    <2>1. p \in PowerRows
        BY DEF Sound
    <2> QED
        BY <1>1, <2>1, DrepSides DEF YesOf, NoOf, RestOf, InfoOf, OutcomeOf
<1>2. CASE b # "DREP"
    BY <1>2, SpoSides DEF YesOf, NoOf, RestOf, InfoOf, OutcomeOf
<1> QED
    BY <1>1, <1>2

(* These are what the mapper and the analytics answer.                       *)
TwoSided == body # "CC" /\ seen.total # None =>
    /\ PowerRow = PowerOf(stance, seen) /\ Sound(PowerRow)
    /\ New \in BOOLEAN /\ proposal.type \in GovernanceTypes
    /\ Info = InfoOf(body, proposal.type, New, PowerRow)
    /\ Buckets.outcome = OutcomeOf(body, proposal.type, New, PowerRow)
LEMMA TallySides == PowerTyped => TwoSided
<1> SUFFICES ASSUME PowerTyped, body # "CC", seen.total # None
             PROVE  /\ PowerRow = PowerOf(stance, seen) /\ Sound(PowerRow)
                    /\ New \in BOOLEAN /\ proposal.type \in GovernanceTypes
                    /\ Info = InfoOf(body, proposal.type, New, PowerRow)
                    /\ Buckets.outcome = OutcomeOf(body, proposal.type, New, PowerRow)
    BY DEF TwoSided
<1>1. PowerRow = PowerOf(stance, seen)
    BY DEF PowerRow, PowerOf
<1>2. Sound(PowerRow)
    BY <1>1, PowerOfSound DEF PowerTyped, Reports, AgainstIn, NoPower
<1>3. New \in BOOLEAN /\ proposal.type \in GovernanceTypes
    BY DEF New, shouldUseNewSpoFormula, PowerTyped
<1>4. PowerRow.total # None
    BY DEF PowerRow
<1>5. CASE body = "DREP"
    <2>1. Row.drep = PowerRow /\ Row.type = proposal.type
        BY <1>5 DEF Row
    <2> QED
        BY <1>1, <1>2, <1>3, <1>4, <1>5, <2>1 DEF Info, DrepInfo, Buckets, InfoOf, OutcomeOf
<1>6. CASE body = "SPO"
    <2>1. Row.spo = PowerRow /\ Row.type = proposal.type /\ Row.transition = FALSE /\ Row.epoch = proposal.epoch
        BY <1>6 DEF Row
    <2>2. Info = buildSpoVoteInfo(proposal.type, New, PowerRow)
        BY <1>4, <1>6, <2>1 DEF Info, SpoInfo, New
    <2> QED
        BY <1>1, <1>2, <1>3, <1>6, <2>2 DEF Buckets, InfoOf, OutcomeOf
<1> QED
    BY <1>1, <1>2, <1>3, <1>5, <1>6 DEF PowerTyped

(* Yes and No are together at most the whole.                                *)
LEMMA SharesBoundedInv == PowerTyped => SharesBounded
<1> SUFFICES ASSUME PowerTyped, body # "CC", seen.total # None
             PROVE  InfoBounded /\ OutcomeBounded
    BY DEF SharesBounded
<1>1. PICK y \in Nat : y = YesOf(body, proposal.type, New, PowerRow)
    BY TallySides, Sides DEF TwoSided
<1>2. PICK n \in Nat : n = NoOf(body, proposal.type, New, PowerRow)
    BY TallySides, Sides DEF TwoSided
<1>3. PICK r \in Nat : r = RestOf(body, proposal.type, New, PowerRow) /\ n <= r
    BY <1>2, TallySides, Sides DEF TwoSided
<1>4. PICK of \in Nat : of = y + r
    OBVIOUS
<1>5. /\ Info.yesPercent = Percent(y, of) /\ Info.noPercent = Percent(n, of)
      /\ Buckets.outcome = <<pct2(y, of), pct2(n, of)>>
    BY <1>1, <1>2, <1>3, <1>4, TallySides, Sides DEF TwoSided
<1>6. CASE of = 0
    <2>1. Percent(y, of) = 0 /\ Percent(n, of) = 0 /\ pct2(y, of) = None
        BY <1>6 DEF Percent, pct2
    <2>2. Buckets.outcome[1] = None
        BY <1>5, <2>1
    <2>3. InfoBounded
        BY <1>5, <2>1 DEF InfoBounded
    <2>4. OutcomeBounded
        BY <2>2 DEF OutcomeBounded
    <2> QED
        BY <2>3, <2>4
<1>7. CASE of # 0
    <2>1. of \in Nat \ {0} /\ y + n <= of
        BY <1>3, <1>4, <1>7
    <2>2. Percent(y, of) + Percent(n, of) <= 10001 /\ pct2(y, of) + pct2(n, of) <= 10000
        BY <2>1, SharesOfWhole
    <2>3. of \in Int
        OBVIOUS
    <2>4. Percent(y, of) \in Nat /\ Percent(n, of) \in Nat
        BY <2>3, PercentInt
    <2>5. PICK u \in Nat : u = Percent(y, of)
        BY <2>4
    <2>6. PICK v \in Nat : v = Percent(n, of)
        BY <2>4
    <2>7a. u + v <= 10001
        BY <2>2, <2>5, <2>6
    <2>7. u + v \in 0 .. 10001
        BY <2>7a
    <2>8. InfoBounded
        BY <1>5, <2>5, <2>6, <2>7 DEF InfoBounded
    <2>9. Buckets.outcome[1] = pct2(y, of) /\ Buckets.outcome[2] = pct2(n, of)
        BY <1>5
    <2>10. Buckets.outcome[1] + Buckets.outcome[2] <= 10000
        BY <2>2, <2>9
    <2>11. OutcomeBounded
        BY <2>10 DEF OutcomeBounded
    <2> QED
        BY <2>8, <2>11
<1> QED
    BY <1>6, <1>7

(* With numbers that belong together the two sides are those of the ledger.  *)
LEMMA YesShareExactInv == PowerTyped => YesShareExact
<1> SUFFICES ASSUME PowerTyped, body # "CC", seen.total # None, Consistent
             PROVE  /\ Info.yesPercent = Percent(PowerIn(CountsYes), PowerIn(Stances \ LeftOut))
                    /\ Buckets.outcome[1] = pct2(PowerIn(CountsYes), PowerIn(Stances \ LeftOut))
    BY DEF YesShareExact
<1>1. PICK y \in Nat : y = YesOf(body, proposal.type, New, PowerRow)
    BY TallySides, Sides DEF TwoSided
<1>2. PICK r \in Nat : r = RestOf(body, proposal.type, New, PowerRow)
    BY TallySides, Sides DEF TwoSided
<1>3. Info.yesPercent = Percent(y, y + r) /\ Buckets.outcome[1] = pct2(y, y + r)
    BY <1>1, <1>2, TallySides, Sides DEF TwoSided
<1>4. /\ stance["yes"] \in Nat /\ stance["no"] \in Nat /\ stance["abstain"] \in Nat
      /\ stance["alwaysAbstain"] \in Nat /\ stance["alwaysNo"] \in Nat
      /\ stance["inactive"] \in Nat /\ stance["none"] \in Nat
    BY StanceNumbers DEF PowerTyped
<1>5. /\ PowerRow.yes = stance["yes"] /\ PowerRow.no = stance["no"] /\ PowerRow.abstain = stance["abstain"]
      /\ PowerRow.alwaysAbstain = stance["alwaysAbstain"] /\ PowerRow.alwaysNo = stance["alwaysNo"]
      /\ PowerRow.inactive = stance["inactive"] /\ PowerRow.total = seen.total /\ PowerRow.koiosNo = seen.koiosNo
    BY DEF PowerRow
<1>6. seen.total \in Nat /\ toNumber(seen.total) = seen.total
    BY DEF PowerTyped, toNumber
<1>7. PowerIn(Stances) = stance["yes"] + stance["no"] + stance["abstain"] + stance["alwaysAbstain"]
                         + stance["alwaysNo"] + stance["inactive"] + stance["none"]
    BY DEF PowerIn, Stances
<1>8. PowerIn(CountsYes) = y
    BY <1>1, <1>4, <1>5, <1>6 DEF PowerIn, CountsYes, YesOf, DrepYes, SpoYes, PowerTyped
<1>9. CASE body = "DREP"
    <2>1. DrepNotVoted(PowerRow) = stance["none"]
        BY <1>4, <1>5, <1>6, <1>7, <1>9 DEF Consistent, PowerTyped, DrepNotVoted, AtLeast0
    <2>2. PowerIn(Stances \ LeftOut) = stance["yes"] + stance["no"] + stance["alwaysNo"] + stance["none"]
        BY <1>4, <1>9 DEF PowerIn, Stances, LeftOut
    <2>3. y + r = stance["yes"] + stance["no"] + stance["alwaysNo"] + stance["none"]
        BY <1>1, <1>2, <1>4, <1>5, <1>9, <2>1 DEF YesOf, RestOf, DrepYes, DrepRest
    <2> QED
        BY <1>3, <1>8, <2>2, <2>3
<1>10. CASE body = "SPO"
    <2>1. SpoNotVoted(PowerRow) = stance["none"] /\ stance["inactive"] = 0
        <3>1. CASE seen.koiosNo # None
            BY <1>4, <1>5, <1>10, <3>1 DEF PowerTyped, NoPower, SpoNotVoted
        <3>2. CASE seen.koiosNo = None
            <4>1. seen.total = SpoCounted(PowerRow) + stance["none"] /\ SpoCounted(PowerRow) \in Nat
                BY <1>4, <1>5, <1>7, <1>10, <3>2 DEF Consistent, PowerTyped, SpoCounted
            <4>2. SpoTotal(PowerRow) = seen.total
                BY <1>4, <1>5, <1>6, <3>2, <4>1 DEF SpoTotal, Larger
            <4> QED
                BY <1>4, <1>5, <1>10, <3>2, <4>1, <4>2 DEF SpoNotVoted, PowerTyped
        <3> QED
            BY <3>1, <3>2
    <2>2. y = stance["yes"] + (IF New /\ proposal.type = "NO_CONFIDENCE" THEN stance["alwaysNo"] ELSE 0)
        BY <1>1, <1>5, <1>10 DEF YesOf, SpoYes
    <2>3. r = SpoRest(proposal.type, New, PowerRow)
        BY <1>2, <1>10 DEF RestOf
    <2>4. CASE ~New
        <3>1. PowerIn(Stances \ LeftOut) = stance["yes"] + stance["no"] + stance["alwaysNo"]
            BY <1>4, <1>10, <2>1, <2>4 DEF PowerIn, Stances, LeftOut
        <3>2. y + r = stance["yes"] + stance["no"] + stance["alwaysNo"]
            BY <1>4, <1>5, <2>2, <2>3, <2>4 DEF SpoRest, SpoNo
        <3> QED
            BY <1>3, <1>8, <3>1, <3>2
    <2>5. CASE New /\ proposal.type = "HARD_FORK_INITIATION"
        <3>1. PowerIn(Stances \ LeftOut) =
                 stance["yes"] + stance["no"] + stance["alwaysAbstain"] + stance["alwaysNo"] + stance["none"]
            BY <1>4, <1>10, <2>1, <2>5 DEF PowerIn, Stances, LeftOut
        <3>2. y + r = stance["yes"] + stance["no"] + stance["alwaysAbstain"] + stance["alwaysNo"] + stance["none"]
            BY <1>4, <1>5, <2>1, <2>2, <2>3, <2>5 DEF SpoRest, SpoNo
        <3> QED
            BY <1>3, <1>8, <3>1, <3>2
    <2>6. CASE New /\ proposal.type # "HARD_FORK_INITIATION"
        <3>1. PowerIn(Stances \ LeftOut) = stance["yes"] + stance["no"] + stance["alwaysNo"] + stance["none"]
            BY <1>4, <1>10, <2>1, <2>6 DEF PowerIn, Stances, LeftOut
        <3>2. y + r = stance["yes"] + stance["no"] + stance["alwaysNo"] + stance["none"]
            BY <1>4, <1>5, <2>1, <2>2, <2>3, <2>6 DEF SpoRest, SpoNo
        <3> QED
            BY <1>3, <1>8, <3>1, <3>2
    <2> QED
        BY <2>4, <2>5, <2>6
<1> QED
    BY <1>9, <1>10 DEF PowerTyped

-------------------------------------------------------------------------------
(* A unit of power that moves                                                *)

(* What did not vote of the pools: the rest of the no-power, where there is  *)
(* one, or what is left of the total.                                        *)
LEMMA SpoNotVotedIs ==
    ASSUME NEW p, Sound(p), p.total # None
    PROVE  SpoNotVoted(p) = IF p.koiosNo # None THEN p.koiosNo - p.no - p.alwaysNo
                            ELSE AtLeast0(p.total - p.yes - p.no - p.abstain - p.alwaysAbstain - p.alwaysNo)
<1>1. /\ p.yes \in Nat /\ p.no \in Nat /\ p.abstain \in Nat /\ p.alwaysAbstain \in Nat /\ p.alwaysNo \in Nat
      /\ p.total \in Nat
    BY DEF PowerRows, Sound
<1> QED
    BY <1>1 DEF SpoNotVoted, SpoTotal, SpoCounted, Larger, AtLeast0, toNumber

Moved(st, from, to) == [st EXCEPT ![from] = @ - 1, ![to] = @ + 1]
ReportAfter(report, st) == IF report.koiosNo = None THEN report ELSE [report EXCEPT !.koiosNo = AgainstIn(st)]

(* A unit that comes to Yes does not take from Yes nor add to the rest; one  *)
(* that comes to No does not add to Yes nor take from the rest.              *)
LEMMA SidesMove ==
    ASSUME NEW st \in [Stances -> Nat], NEW report \in Reports, report.total # None,
           report.koiosNo # None => report.koiosNo = AgainstIn(st),
           NEW from \in Stances, NEW to \in {"yes", "no"}, from # to, st[from] > 0,
           NEW b, NEW type \in GovernanceTypes, NEW new \in BOOLEAN,
           NEW p, p = PowerOf(st, report),
           NEW q, q = PowerOf(Moved(st, from, to), ReportAfter(report, Moved(st, from, to)))
    PROVE  /\ Sound(p) /\ Sound(q)
           /\ to = "yes" => /\ YesOf(b, type, new, p) <= YesOf(b, type, new, q)
                            /\ RestOf(b, type, new, q) <= RestOf(b, type, new, p)
           /\ to = "no"  => /\ YesOf(b, type, new, q) <= YesOf(b, type, new, p)
                            /\ RestOf(b, type, new, p) <= RestOf(b, type, new, q)
<1> DEFINE st2 == Moved(st, from, to)
           report2 == ReportAfter(report, st2)
           gone(s) == IF from = s THEN 1 ELSE 0
           come(s) == IF to = s THEN 1 ELSE 0
<1>1. st2 \in [Stances -> Nat]
    BY DEF Moved, Stances
<1>2. AgainstIn(st) \in Nat /\ AgainstIn(st2) \in Nat
    BY <1>1, StanceNumbers DEF AgainstIn
<1>3. /\ report2 \in Reports /\ report2.total = report.total
      /\ report2.koiosNo # None => report2.koiosNo = AgainstIn(st2)
      /\ report2.koiosNo = None <=> report.koiosNo = None
    BY <1>2, NoneAssumption DEF ReportAfter, Reports
<1>4. Sound(p) /\ Sound(q)
    BY <1>1, <1>3, PowerOfSound
<1>5. \A s \in Stances : st2[s] = st[s] - gone(s) + come(s)
    BY DEF Moved
<1> HIDE DEF st2, report2
<1>6. /\ p.yes = st["yes"] /\ p.no = st["no"] /\ p.abstain = st["abstain"]
      /\ p.alwaysAbstain = st["alwaysAbstain"] /\ p.alwaysNo = st["alwaysNo"] /\ p.inactive = st["inactive"]
      /\ p.total = report.total /\ p.koiosNo = report.koiosNo
    BY DEF PowerOf
<1>7. /\ q.yes = st2["yes"] /\ q.no = st2["no"] /\ q.abstain = st2["abstain"]
      /\ q.alwaysAbstain = st2["alwaysAbstain"] /\ q.alwaysNo = st2["alwaysNo"] /\ q.inactive = st2["inactive"]
      /\ q.total = report.total /\ q.koiosNo = report2.koiosNo
    BY <1>3 DEF PowerOf, st2, report2
<1>8. /\ q.yes = p.yes - gone("yes") + come("yes") /\ q.no = p.no - gone("no") + come("no")
      /\ q.abstain = p.abstain - gone("abstain") /\ q.alwaysAbstain = p.alwaysAbstain - gone("alwaysAbstain")
      /\ q.alwaysNo = p.alwaysNo - gone("alwaysNo") /\ q.inactive = p.inactive - gone("inactive")
    <2>1. /\ st2["yes"] = st["yes"] - gone("yes") + come("yes") /\ st2["no"] = st["no"] - gone("no") + come("no")
          /\ st2["abstain"] = st["abstain"] - gone("abstain") + come("abstain")
          /\ st2["alwaysAbstain"] = st["alwaysAbstain"] - gone("alwaysAbstain") + come("alwaysAbstain")
          /\ st2["alwaysNo"] = st["alwaysNo"] - gone("alwaysNo") + come("alwaysNo")
          /\ st2["inactive"] = st["inactive"] - gone("inactive") + come("inactive")
        BY <1>5 DEF Stances
    <2>2. come("abstain") = 0 /\ come("alwaysAbstain") = 0 /\ come("alwaysNo") = 0 /\ come("inactive") = 0
        OBVIOUS
    <2> QED
        BY <1>6, <1>7, <2>1, <2>2, StanceNumbers
<1>9. /\ p.yes \in Nat /\ p.no \in Nat /\ p.abstain \in Nat /\ p.alwaysAbstain \in Nat /\ p.alwaysNo \in Nat
      /\ p.inactive \in Nat /\ p.total \in Nat
      /\ q.yes \in Nat /\ q.no \in Nat /\ q.abstain \in Nat /\ q.alwaysAbstain \in Nat /\ q.alwaysNo \in Nat
      /\ q.inactive \in Nat
    BY <1>4, <1>6 DEF Sound, PowerRows
<1>10. CASE b = "DREP"
    <2>1. /\ DrepNotVoted(p) = AtLeast0(p.total - p.yes - p.no - p.abstain
                                       - p.alwaysAbstain - p.alwaysNo - p.inactive)
          /\ DrepNotVoted(q) = AtLeast0(p.total - q.yes - q.no - q.abstain
                                       - q.alwaysAbstain - q.alwaysNo - q.inactive)
        BY <1>6, <1>7 DEF DrepNotVoted, toNumber
    <2>2. /\ YesOf(b, type, new, p) = p.yes + (IF type = "NO_CONFIDENCE" THEN p.alwaysNo ELSE 0)
          /\ YesOf(b, type, new, q) = q.yes + (IF type = "NO_CONFIDENCE" THEN q.alwaysNo ELSE 0)
          /\ RestOf(b, type, new, p) = p.no + DrepNotVoted(p) + (IF type = "NO_CONFIDENCE" THEN 0 ELSE p.alwaysNo)
          /\ RestOf(b, type, new, q) = q.no + DrepNotVoted(q) + (IF type = "NO_CONFIDENCE" THEN 0 ELSE q.alwaysNo)
        BY <1>10 DEF YesOf, RestOf, DrepYes, DrepRest
    <2>3. PICK m \in Nat : m = DrepNotVoted(p)
        BY <1>4, DrepNotVotedNat DEF Sound
    <2>4. PICK n \in Nat : n = DrepNotVoted(q)
        BY <1>4, DrepNotVotedNat DEF Sound
    <2>5. n <= m /\ n >= m - gone("none") /\ (from # "none" => n = m)
        <3>1. p.yes + p.no + p.abstain + p.alwaysAbstain + p.alwaysNo + p.inactive =
              q.yes + q.no + q.abstain + q.alwaysAbstain + q.alwaysNo + q.inactive - gone("none")
            BY <1>8, <1>9 DEF Stances
        <3> QED
            BY <1>9, <2>1, <2>3, <2>4, <3>1 DEF AtLeast0
    <2> QED
        BY <1>4, <1>8, <1>9, <2>2, <2>3, <2>4, <2>5
<1>11. CASE b # "DREP"
    <2>1. PICK m \in Nat : m = SpoNotVoted(p)
        BY <1>4, SpoParts
    <2>2. PICK n \in Nat : n = SpoNotVoted(q)
        BY <1>4, SpoParts
    <2>3. n <= m /\ n >= m - 1 /\ (from \notin {"none", "inactive"} => n = m)
        <3>1. CASE report.koiosNo # None
            <4>1. p.koiosNo = p.no + p.alwaysNo + st["none"] /\ q.koiosNo = q.no + q.alwaysNo + st2["none"]
                BY <1>3, <1>6, <1>7, <3>1 DEF AgainstIn
            <4>2. st2["none"] = st["none"] - gone("none")
                BY <1>5, StanceNumbers DEF Stances
            <4>3. m = st["none"] /\ n = st2["none"]
                BY <1>1, <1>3, <1>4, <1>6, <1>7, <1>9, <2>1, <2>2, <3>1, <4>1, SpoNotVotedIs, StanceNumbers
            <4> QED
                BY <4>2, <4>3
        <3>2. CASE report.koiosNo = None
            <4>1. p.koiosNo = None /\ q.koiosNo = None /\ p.total # None /\ q.total = p.total
                BY <1>3, <1>6, <1>7, <3>2
            <4>2. /\ m = AtLeast0(p.total - p.yes - p.no - p.abstain - p.alwaysAbstain - p.alwaysNo)
                  /\ n = AtLeast0(p.total - q.yes - q.no - q.abstain - q.alwaysAbstain - q.alwaysNo)
                BY <1>4, <2>1, <2>2, <4>1, SpoNotVotedIs
            <4>3. p.yes + p.no + p.abstain + p.alwaysAbstain + p.alwaysNo =
                  q.yes + q.no + q.abstain + q.alwaysAbstain + q.alwaysNo - gone("none") - gone("inactive")
                BY <1>8, <1>9 DEF Stances
            <4> QED
                BY <1>9, <4>2, <4>3 DEF AtLeast0
        <3> QED
            BY <3>1, <3>2
    <2>4. /\ YesOf(b, type, new, p) = p.yes + (IF new /\ type = "NO_CONFIDENCE" THEN p.alwaysNo ELSE 0)
          /\ YesOf(b, type, new, q) = q.yes + (IF new /\ type = "NO_CONFIDENCE" THEN q.alwaysNo ELSE 0)
        BY <1>11 DEF YesOf, SpoYes
    <2>5. /\ RestOf(b, type, new, p) = SpoRest(type, new, p)
          /\ RestOf(b, type, new, q) = SpoRest(type, new, q)
        BY <1>11 DEF RestOf
    <2>6. CASE ~new
        BY <1>4, <1>8, <1>9, <2>4, <2>5, <2>6 DEF SpoRest, SpoNo
    <2>7. CASE new /\ type = "HARD_FORK_INITIATION"
        BY <1>4, <1>8, <1>9, <2>1, <2>2, <2>3, <2>4, <2>5, <2>7 DEF SpoRest, SpoNo
    <2>8. CASE new /\ type = "NO_CONFIDENCE"
        BY <1>4, <1>8, <1>9, <2>1, <2>2, <2>3, <2>4, <2>5, <2>8 DEF SpoRest, SpoNo
    <2>9. CASE new /\ type \notin {"HARD_FORK_INITIATION", "NO_CONFIDENCE"}
        BY <1>4, <1>8, <1>9, <2>1, <2>2, <2>3, <2>4, <2>5, <2>9 DEF SpoRest, SpoNo
    <2> QED
        BY <2>6, <2>7, <2>8, <2>9
<1> QED
    BY <1>10, <1>11

(* A threshold is a number or None.                                          *)
LEMMA ThresholdIs ==
    ASSUME NEW type \in GovernanceTypes, NEW k \in {2, 3}
    PROVE  getVotingThreshold(type)[k] \in {None} \cup Int
<1>1. getVotingThreshold(type) = VOTING_THRESHOLDS[type]
    BY DEF getVotingThreshold
<1>2. VOTING_THRESHOLDS[type] \in {<<None, 67, 51>>, <<67, 75, None>>, <<67, 60, 51>>, <<67, 67, None>>,
                                   <<67, 100, 100>>}
    BY DEF VOTING_THRESHOLDS, GovernanceTypes
<1> QED
    BY <1>1, <1>2

(* Power that comes to one side moves the verdict to that side, if at all.   *)
LEMMA VoteHelpsNext == TallyInv /\ TallyInv' /\ [TallyNext]_tallyVars => VoteHelps
<1> SUFFICES ASSUME PowerTyped, PowerTyped', [TallyNext]_tallyVars,
                    body # "CC", seen.total # None, seen'.total = seen.total
             PROVE  /\ stance'["yes"] > stance["yes"] /\ Passing = TRUE => Passing' = TRUE
                    /\ stance'["no"] > stance["no"] /\ Passing = FALSE => Passing' = FALSE
    BY DEF VoteHelps, TallyInv
<1> SUFFICES ASSUME stance'["yes"] > stance["yes"] \/ stance'["no"] > stance["no"]
             PROVE  /\ stance'["yes"] > stance["yes"] /\ Passing = TRUE => Passing' = TRUE
                    /\ stance'["no"] > stance["no"] /\ Passing = FALSE => Passing' = FALSE
    OBVIOUS
<1>1. \E from, to \in Stances : Restance(from, to)
    <2>1. stance' # stance
        BY StanceNumbers DEF PowerTyped
    <2> QED
        BY <2>1 DEF TallyNext, tallyVars, Report, Cast, IngestRow
<1>2. PICK from \in Stances, to \in Stances : Restance(from, to)
    BY <1>1
<1>3. /\ stance' = Moved(stance, from, to) /\ from # to /\ stance[from] > 0
      /\ seen' = ReportAfter(seen, stance') /\ body' = body /\ proposal' = proposal
    BY <1>2 DEF Restance, Moved, ReportAfter, AgainstIn, NoPower
<1>4. \A s \in Stances : stance'[s] = stance[s] - (IF from = s THEN 1 ELSE 0) + (IF to = s THEN 1 ELSE 0)
    BY <1>3 DEF Moved, PowerTyped
<1>5. /\ to \in {"yes", "no"}
      /\ stance'["yes"] > stance["yes"] => to = "yes"
      /\ stance'["no"] > stance["no"] => to = "no"
    <2>1. /\ stance["yes"] \in Nat /\ stance["no"] \in Nat
          /\ stance'["yes"] = stance["yes"] - (IF from = "yes" THEN 1 ELSE 0) + (IF to = "yes" THEN 1 ELSE 0)
          /\ stance'["no"] = stance["no"] - (IF from = "no" THEN 1 ELSE 0) + (IF to = "no" THEN 1 ELSE 0)
        BY <1>4, StanceNumbers DEF PowerTyped, Stances
    <2>2. /\ stance'["yes"] > stance["yes"] => to = "yes"
          /\ stance'["no"] > stance["no"] => to = "no"
        BY <2>1
    <2> QED
        BY <2>2
<1>6. PICK p : p = PowerRow
    OBVIOUS
<1>7. PICK q : q = PowerRow'
    OBVIOUS
<1>8. /\ p = PowerOf(stance, seen) /\ New \in BOOLEAN /\ proposal.type \in GovernanceTypes
      /\ Info = InfoOf(body, proposal.type, New, p)
    BY <1>6, TallySides DEF TwoSided
<1>9. PowerTyped' => TwoSided'
    BY TallySides, PTL
<1>10. /\ q = PowerOf(stance', seen') /\ New' = New
       /\ Info' = InfoOf(body, proposal.type, New, q)
    <2>1. body' # "CC" /\ seen'.total # None
        BY <1>3
    <2>2. New' = New
        BY <1>3 DEF New
    <2> QED
        BY <1>3, <1>7, <1>9, <2>1, <2>2 DEF TwoSided
<1>11. /\ Sound(p) /\ Sound(q)
       /\ to = "yes" => /\ YesOf(body, proposal.type, New, p) <= YesOf(body, proposal.type, New, q)
                         /\ RestOf(body, proposal.type, New, q) <= RestOf(body, proposal.type, New, p)
       /\ to = "no"  => /\ YesOf(body, proposal.type, New, q) <= YesOf(body, proposal.type, New, p)
                         /\ RestOf(body, proposal.type, New, p) <= RestOf(body, proposal.type, New, q)
    <2>1. stance \in [Stances -> Nat] /\ seen \in Reports /\ (seen.koiosNo # None => seen.koiosNo = AgainstIn(stance))
        BY DEF PowerTyped, Reports, AgainstIn, NoPower
    <2>2. q = PowerOf(Moved(stance, from, to), ReportAfter(seen, Moved(stance, from, to)))
        BY <1>3, <1>10
    <2> QED
        BY <1>3, <1>5, <1>8, <2>1, <2>2, SidesMove
<1>12. PICK y \in Nat, r \in Nat : y = YesOf(body, proposal.type, New, p) /\ r = RestOf(body, proposal.type, New, p)
    BY <1>8, <1>11, Sides
<1>13. PICK z \in Nat, s \in Nat : z = YesOf(body, proposal.type, New, q) /\ s = RestOf(body, proposal.type, New, q)
    BY <1>8, <1>11, Sides
<1>14. Info \in VoteInfos /\ Info.yesPercent = Percent(y, y + r)
    BY <1>8, <1>11, <1>12, Sides
<1>15. Info' \in VoteInfos /\ Info'.yesPercent = Percent(z, z + s)
    BY <1>8, <1>10, <1>11, <1>13, Sides
<1>16. /\ to = "yes" => Info.yesPercent <= Info'.yesPercent
       /\ to = "no"  => Info'.yesPercent <= Info.yesPercent
    <2>1. to = "yes" => y <= z /\ s <= r
        BY <1>11, <1>12, <1>13
    <2>2. to = "no" => z <= y /\ r <= s
        BY <1>11, <1>12, <1>13
    <2>3. to = "yes" => Percent(y, y + r) <= Percent(z, z + s)
        BY <2>1, ShareGrows
    <2>4. to = "no" => Percent(z, z + s) <= Percent(y, y + r)
        BY <2>2, ShareGrows
    <2> QED
        BY <1>14, <1>15, <2>3, <2>4
<1>17. Info # None /\ Info' # None /\ Info.yesPercent \in Int /\ Info'.yesPercent \in Int
    BY <1>14, <1>15, NoneAssumption DEF VoteInfos
<1>18. Threshold' = Threshold /\ Threshold \in {None} \cup Int
    BY <1>3, <1>8, ThresholdIs DEF Threshold
<1>19. CASE Threshold = None
    <2>1. Passing = None /\ Passing' = None
        BY <1>18, <1>19 DEF Passing, Passes
    <2> QED
        BY <2>1
<1>20. CASE Threshold # None
    <2>1. PICK t \in Int : t = 100 * Threshold
        BY <1>18, <1>20
    <2>2. PICK u \in Int : u = Info.yesPercent
        BY <1>17
    <2>3. PICK v \in Int : v = Info'.yesPercent
        BY <1>17
    <2>4. Passing = (u >= t) /\ Passing' = (v >= t)
        BY <1>17, <1>18, <1>20, <2>1, <2>2, <2>3 DEF Passing, Passes, evaluateThreshold
    <2>5. (to = "yes" => u <= v) /\ (to = "no" => v <= u)
        BY <1>16, <2>2, <2>3
    <2>6. (to = "yes" => (u >= t => v >= t)) /\ (to = "no" => (v >= t => u >= t))
        BY <2>5
    <2>7. to # "yes" \/ to # "no"
        OBVIOUS
    <2>8. ASSUME stance'["yes"] > stance["yes"], Passing = TRUE
          PROVE  Passing' = TRUE
        <3>1. u >= t /\ v >= t
            BY <1>5, <2>4, <2>6, <2>8
        <3> QED
            BY <3>1, <2>4
    <2>9. ASSUME stance'["no"] > stance["no"], Passing = FALSE
          PROVE  Passing' = FALSE
        <3>1. ~(u >= t) /\ ~(v >= t)
            BY <1>5, <2>4, <2>6, <2>9
        <3>2. (v >= t) = FALSE
            BY <3>1
        <3> QED
            BY <3>2, <2>4, Zenon
    <2> QED
        BY <2>8, <2>9
<1> QED
    BY <1>19, <1>20

(* The verdicts follow the votes: power that comes to one side never turns   *)
(* the verdict of the body to the other, whatever epoch the total is of.     *)
THEOREM VerdictsFollowVotes == TallySpec => VotesCount
<1>1. TallyInv /\ TallyInv' /\ [TallyNext]_tallyVars => [VoteHelps]_tallyVars
    BY VoteHelpsNext
<1> QED
    BY <1>1, TallyTypeCorrect, PTL DEF TallySpec, VotesCount
-------------------------------------------------------------------------------
(* The committee                                                             *)

(* With fewer than 200 eligible members no share is rounded up to 67 percent. *)
LEMMA RoundingExact ==
    ASSUME NEW y \in Nat, NEW of \in Int, of <= 199
    PROVE  Percent(y, of) >= 6700 <=> of > 0 /\ 100 * y >= 67 * of
<1>1. CASE of <= 0
    BY <1>1 DEF Percent
<1>2. CASE of > 0
    <2>1. PICK b \in Nat \ {0} : b = 2 * of
        BY <1>2
    <2>2. PICK n \in Int : n = 20000 * y + of
        OBVIOUS
    <2>3. PICK q \in Int : q = n \div b
        BY DivBounds
    <2>4. b * q <= n /\ n < b * q + b
        BY <2>3, DivBounds
    <2>5. Percent(y, of) = q
        BY <1>2, <2>1, <2>2, <2>3 DEF Percent
    <2>6. ASSUME q >= 6700 PROVE 100 * y >= 67 * of
        <3>1. b * 6700 <= b * q
            BY <2>6
        <3>2. 13400 * of <= 20000 * y + of
            BY <2>1, <2>2, <2>4, <3>1
        <3> QED
            BY <3>2
    <2>7. ASSUME 100 * y >= 67 * of PROVE q >= 6700
        <3>1. SUFFICES ASSUME q + 1 <= 6700 PROVE FALSE
            OBVIOUS
        <3>2. b * (q + 1) <= b * 6700
            BY <3>1
        <3>3. 20000 * y + of < 13400 * of
            BY <2>1, <2>2, <2>4, <3>2
        <3> QED
            BY <1>2, <2>7, <3>3
    <2> QED
        BY <1>2, <2>5, <2>6, <2>7
<1> QED
    BY <1>1, <1>2

(* The two verdicts on constitutionality are of one share.                   *)
LEMMA VerdictIsOfShare ==
    ASSUME NEW counts \in [Choices3 -> Nat], NEW eligible \in 1 .. 199
    PROVE  /\ buildCcVoteInfo(counts, eligible) \in CcVoteInfos
           /\ (determineConstitutionality(counts, eligible) = "Constitutional") =
                 (eligible >= MIN_ELIGIBLE_CC_MEMBERS
                  /\ Passes(buildCcVoteInfo(counts, eligible), 67) = TRUE)
<1>1. PICK y \in Nat : y = counts["YES"]
    BY DEF Choices3
<1>2. PICK n \in Nat : n = counts["NO"]
    BY DEF Choices3
<1>3. PICK a \in Nat : a = counts["ABSTAIN"]
    BY DEF Choices3
<1>4. PICK of \in Int : of = eligible - a
    OBVIOUS
<1>5. of <= 199
    BY <1>4
<1>6. Percent(y, of) >= 6700 <=> of > 0 /\ 100 * y >= 67 * of
    BY <1>5, RoundingExact
<1>7. Percent(y, of) \in Nat /\ Percent(n, of) \in Nat
    BY PercentInt
<1> DEFINE info == buildCcVoteInfo(counts, eligible)
<1>8. info.yesPercent = Percent(y, of) /\ info \in CcVoteInfos
    <2>1. info = [yesPercent |-> Percent(y, of), noPercent |-> Percent(n, of),
                  notVoted |-> AtLeast0(eligible - y - n - a), valid |-> eligible >= MIN_ELIGIBLE_CC_MEMBERS]
        BY <1>1, <1>2, <1>3, <1>4 DEF buildCcVoteInfo
    <2>2. AtLeast0(eligible - y - n - a) \in Nat
        BY DEF AtLeast0
    <2>3. (eligible >= MIN_ELIGIBLE_CC_MEMBERS) \in BOOLEAN
        BY DEF MIN_ELIGIBLE_CC_MEMBERS
    <2> QED
        BY <2>1, <2>2, <2>3, <1>7 DEF CcVoteInfos
<1>9. (Passes(info, 67) = TRUE) <=> Percent(y, of) >= 6700
    BY <1>7, <1>8, NoneAssumption DEF Passes, evaluateThreshold
<1>10. CASE eligible < MIN_ELIGIBLE_CC_MEMBERS
    <2>1. determineConstitutionality(counts, eligible) = "Committee Too Small"
        BY <1>10 DEF determineConstitutionality, MIN_ELIGIBLE_CC_MEMBERS
    <2>2. ~(eligible >= MIN_ELIGIBLE_CC_MEMBERS)
        BY <1>10 DEF MIN_ELIGIBLE_CC_MEMBERS
    <2> QED
        BY <1>8, <2>1, <2>2
<1>11. CASE eligible >= MIN_ELIGIBLE_CC_MEMBERS /\ \A c \in Choices3 : counts[c] = 0
    <2>1. determineConstitutionality(counts, eligible) = "Pending"
        BY <1>11 DEF determineConstitutionality, MIN_ELIGIBLE_CC_MEMBERS
    <2>2. y = 0
        BY <1>1, <1>11 DEF Choices3
    <2>3. ~(Percent(y, of) >= 6700)
        BY <1>6, <2>2
    <2> QED
        BY <1>8, <1>9, <2>1, <2>3
<1>12. CASE eligible >= MIN_ELIGIBLE_CC_MEMBERS /\ ~(\A c \in Choices3 : counts[c] = 0)
    <2>1. determineConstitutionality(counts, eligible) =
             IF of > 0 /\ 100 * y >= 67 * of THEN "Constitutional" ELSE "Unconstitutional"
        <3>1. ~(eligible < MIN_ELIGIBLE_CC_MEMBERS)
            BY <1>12 DEF MIN_ELIGIBLE_CC_MEMBERS
        <3>2. determineConstitutionality(counts, eligible) =
                 IF eligible - counts["ABSTAIN"] > 0 /\ 100 * counts["YES"] >= 67 * (eligible - counts["ABSTAIN"])
                 THEN "Constitutional" ELSE "Unconstitutional"
            BY <1>12, <3>1, Zenon DEF determineConstitutionality
        <3> QED
            BY <1>1, <1>3, <1>4, <3>2
    <2>2. (determineConstitutionality(counts, eligible) = "Constitutional") <=> Percent(y, of) >= 6700
        BY <1>6, <2>1
    <2> QED
        BY <1>8, <1>9, <1>12, <2>2
<1>13. eligible < MIN_ELIGIBLE_CC_MEMBERS \/ eligible >= MIN_ELIGIBLE_CC_MEMBERS
    BY DEF MIN_ELIGIBLE_CC_MEMBERS
<1> HIDE DEF info
<1> QED
    BY <1>10, <1>11, <1>12, <1>13, Zenon

(* The settled members are in some order.                                    *)
LEMMA SettledOrdered ==
    /\ Cardinality(Settled) \in Nat
    /\ SettledInOrder \in [1 .. Cardinality(Settled) -> Settled]
    /\ \A k, l \in 1 .. Cardinality(Settled) : SettledInOrder[k] = SettledInOrder[l] => k = l
    /\ \A m \in Settled : \E k \in 1 .. Cardinality(Settled) : SettledInOrder[k] = m
<1> DEFINE n == Cardinality(Settled)
<1>1. n \in Nat /\ ExistsBijection(1 .. n, Settled)
    BY FS_CardinalityType, TallyAssumption
<1>2. PICK g \in Bijection(1 .. n, Settled) : TRUE
    BY <1>1 DEF ExistsBijection
<1>3. g \in [1 .. n -> Settled] /\ IsInjective(g)
    BY <1>2 DEF Bijection, Injection
<1>4. SettledInOrder \in [1 .. n -> Settled] /\ IsInjective(SettledInOrder)
    BY <1>3 DEF SettledInOrder, SetToSeq
<1>5. SettledInOrder \in Injection(1 .. n, Settled)
    BY <1>4 DEF Injection
<1>6. IsFiniteSet(1 .. n) /\ Cardinality(1 .. n) = n
    BY <1>1, FS_Interval
<1>7. SettledInOrder \in Surjection(1 .. n, Settled)
    BY <1>5, <1>6, FS_Injection, TallyAssumption
<1> QED
    BY <1>1, <1>4, <1>5, <1>7 DEF Injection, Surjection, IsInjective

(* What the rows are, and which are superseded.                              *)
RowsKnown(votes, size, n) ==
    /\ DOMAIN votes = 1 .. size + n
    /\ \A k \in 1 .. size : votes[k] = SettledRow(SettledInOrder[k])
    /\ \A k \in 1 .. n : votes[size + k] = VoteRow(rows[k])

(* The rows of the committee: the settled members' and the ingested votes.   *)
LEMMA VoteRowsKnown ==
    ASSUME VotesTyped, body = "CC"
    PROVE  RowsKnown(VoteRows, Cardinality(Settled), Len(rows))
<1>1. PICK size \in Nat : size = Cardinality(Settled)
    BY SettledOrdered
<1>2. PICK n \in Nat : n = Len(rows) /\ DOMAIN rows = 1 .. n
    BY DEF VotesTyped
<1> DEFINE s == [k \in DOMAIN SettledInOrder |-> SettledRow(SettledInOrder[k])]
           t == [k \in DOMAIN rows |-> VoteRow(rows[k])]
           S == {SettledRow(SettledInOrder[k]) : k \in 1 .. size} \cup {VoteRow(rows[k]) : k \in 1 .. n}
<1>3. DOMAIN SettledInOrder = 1 .. size
    BY <1>1, SettledOrdered
<1>4. s \in Seq(S) /\ Len(s) = size
    BY <1>1, <1>3
<1>5. t \in Seq(S) /\ Len(t) = n
    BY <1>2
<1>6. \A k \in 1 .. size : s[k] = SettledRow(SettledInOrder[k])
    BY <1>3
<1>7. \A k \in 1 .. n : t[k] = VoteRow(rows[k])
    BY <1>2
<1>8. VoteRows = s \o t
    BY DEF VoteRows
<1> HIDE DEF s, t, S
<1>9. /\ DOMAIN (s \o t) = 1 .. size + n
      /\ \A k \in 1 .. size : (s \o t)[k] = s[k]
      /\ \A k \in 1 .. n : (s \o t)[size + k] = t[k]
    BY <1>4, <1>5
<1> QED
    BY <1>1, <1>2, <1>6, <1>7, <1>8, <1>9 DEF RowsKnown

(* The rows that count: the settled ones, and of each member the last.       *)
LEMMA LatestAre ==
    ASSUME VotesTyped, NEW votes, NEW size \in Nat, NEW n \in Nat, size = Cardinality(Settled), n = Len(rows),
           RowsKnown(votes, size, n)
    PROVE  /\ getLatestCcVotes(votes) \subseteq 1 .. size + n
           /\ 1 .. size \subseteq getLatestCcVotes(votes)
           /\ \A k \in 1 .. n : size + k \in getLatestCcVotes(votes) <=>
                 \A l \in 1 .. n : chain[rows[l]].voter = chain[rows[k]].voter => rows[l] <= rows[k]
<1>1. /\ DOMAIN rows = 1 .. n
      /\ \A k \in 1 .. n : rows[k] \in DOMAIN chain /\ rows[k] \in Nat /\ rows[k] >= 1
                        /\ chain[rows[k]] \in CommitteeVotes
    BY DEF VotesTyped
<1>2. \A k \in 1 .. n : chain[rows[k]].voter \in Members
    BY <1>1 DEF CommitteeVotes
<1>3. \A k \in 1 .. size : /\ votes[k].type = "CC" /\ votes[k].voter = SettledInOrder[k] /\ votes[k].time = 0
                           /\ votes[k].voter \in Settled
    <2> TAKE k \in 1 .. size
    <2>1. votes[k] = SettledRow(SettledInOrder[k])
        BY DEF RowsKnown
    <2>2. SettledInOrder[k] \in Settled
        BY SettledOrdered
    <2> QED
        BY <2>1, <2>2 DEF SettledRow
<1>4. \A k \in 1 .. n : /\ votes[size + k].type = "CC" /\ votes[size + k].time = rows[k]
                        /\ votes[size + k].voter = chain[rows[k]].voter
    <2> TAKE k \in 1 .. n
    <2>1. votes[size + k] = VoteRow(rows[k])
        BY DEF RowsKnown
    <2> QED
        BY <2>1 DEF VoteRow
<1>5. \A i \in 1 .. size + n : i \in 1 .. size \/ \E k \in 1 .. n : i = size + k
    <2> SUFFICES ASSUME NEW i \in 1 .. size + n, i > size PROVE \E k \in 1 .. n : i = size + k
        OBVIOUS
    <2> WITNESS i - size \in 1 .. n
    <2> QED
        OBVIOUS
<1>6. RowsOf(votes, "CC") = 1 .. size + n
    BY <1>3, <1>4, <1>5 DEF RowsOf, RowsKnown
<1>7. Members \cap Settled = {}
    BY TallyAssumption
<1>8. \A k \in 1 .. size : \A j \in 1 .. size + n : ~Supersedes(votes, j, k)
    <2> SUFFICES ASSUME NEW k \in 1 .. size, NEW j \in 1 .. size + n, Supersedes(votes, j, k) PROVE FALSE
        OBVIOUS
    <2>1. votes[j].voter = votes[k].voter
        BY DEF Supersedes
    <2>2. j \in 1 .. size
        <3> SUFFICES ASSUME NEW l \in 1 .. n, j = size + l PROVE FALSE
            BY <1>5
        <3>1. votes[j].voter \in Members
            BY <1>2, <1>4
        <3> QED
            BY <1>3, <1>7, <2>1, <3>1
    <2>3. j = k
        BY <1>3, <2>1, <2>2, SettledOrdered
    <2> QED
        BY <1>3, <2>3 DEF Supersedes
<1>9. ASSUME NEW k \in 1 .. n
      PROVE  (\A j \in 1 .. size + n : ~Supersedes(votes, j, size + k)) <=>
             \A l \in 1 .. n : chain[rows[l]].voter = chain[rows[k]].voter => rows[l] <= rows[k]
    <2>1. \A j \in 1 .. size : ~Supersedes(votes, j, size + k)
        BY <1>2, <1>3, <1>4, <1>7 DEF Supersedes
    <2>2. ASSUME NEW l \in 1 .. n
          PROVE  ~Supersedes(votes, size + l, size + k) <=>
                 (chain[rows[l]].voter = chain[rows[k]].voter => rows[l] <= rows[k])
        <3>1. rows[l] = rows[k] => l = k
            BY <1>1 DEF VotesTyped
        <3>2. PICK u \in Nat : u = rows[l]
            BY <1>1
        <3>3. PICK v \in Nat : v = rows[k]
            BY <1>1
        <3>4. Supersedes(votes, size + l, size + k) <=>
                 /\ chain[rows[l]].voter = chain[rows[k]].voter
                 /\ \/ u > v
                    \/ u = v /\ size + l < size + k
            <4>1. /\ votes[size + l].time = u /\ votes[size + k].time = v
                  /\ votes[size + l].voter = chain[rows[l]].voter /\ votes[size + k].voter = chain[rows[k]].voter
                BY <1>4, <3>2, <3>3
            <4> QED
                BY <4>1 DEF Supersedes
        <3>5. \/ u > v
              \/ u = v /\ size + l < size + k
              \/ u <= v
            OBVIOUS
        <3>6. u <= v => ~(u > v) /\ ~(u = v /\ size + l < size + k)
            BY <3>1, <3>2, <3>3
        <3> QED
            BY <3>2, <3>3, <3>4, <3>5, <3>6
    <2>3. \A l \in 1 .. n : size + l \in 1 .. size + n
        OBVIOUS
    <2> QED
        BY <1>5, <2>1, <2>2, <2>3
<1>10. \A i : i \in getLatestCcVotes(votes) <=>
                i \in 1 .. size + n /\ \A j \in 1 .. size + n : ~Supersedes(votes, j, i)
    BY <1>6 DEF getLatestCcVotes
<1>11. \A k \in 1 .. n : size + k \in 1 .. size + n
    OBVIOUS
<1>12. 1 .. size \subseteq 1 .. size + n
    OBVIOUS
<1> QED
    BY <1>8, <1>9, <1>10, <1>11, <1>12

(* The rows that count for a choice are as many as the members that stand    *)
(* for it: each row to its member.                                           *)
LEMMA CountsAreMembers ==
    ASSUME VotesTyped, NEW votes, NEW size \in Nat, NEW n \in Nat, size = Cardinality(Settled), n = Len(rows),
           RowsKnown(votes, size, n), NEW c \in Choices3
    PROVE  Cardinality({i \in getLatestCcVotes(votes) : votes[i].vote = c}) =
           Cardinality({m \in Members : StandsFor(m, c)}) + (IF c = "YES" THEN Cardinality(Settled) ELSE 0)
<1> DEFINE L == {i \in getLatestCcVotes(votes) : votes[i].vote = c}
           M == {m \in Members : StandsFor(m, c)}
           G == IF c = "YES" THEN Settled ELSE {}
           f == [i \in L |-> votes[i].voter]
<1>1. /\ getLatestCcVotes(votes) \subseteq 1 .. size + n
      /\ 1 .. size \subseteq getLatestCcVotes(votes)
      /\ \A k \in 1 .. n : size + k \in getLatestCcVotes(votes) <=>
            \A l \in 1 .. n : chain[rows[l]].voter = chain[rows[k]].voter => rows[l] <= rows[k]
    BY LatestAre
<1>2. \A i \in 1 .. size + n : i \in 1 .. size \/ \E k \in 1 .. n : i = size + k
    <2> SUFFICES ASSUME NEW i \in 1 .. size + n, i > size PROVE \E k \in 1 .. n : i = size + k
        OBVIOUS
    <2> WITNESS i - size \in 1 .. n
    <2> QED
        OBVIOUS
<1>3. \A k \in 1 .. size : votes[k].vote = "YES" /\ votes[k].voter = SettledInOrder[k] /\ votes[k].voter \in Settled
    <2> TAKE k \in 1 .. size
    <2>1. votes[k] = SettledRow(SettledInOrder[k])
        BY DEF RowsKnown
    <2>2. SettledInOrder[k] \in Settled
        BY SettledOrdered
    <2> QED
        BY <2>1, <2>2 DEF SettledRow
<1>4. \A k \in 1 .. n : /\ rows[k] \in Nat /\ chain[rows[k]] \in CommitteeVotes
                        /\ votes[size + k].vote = chain[rows[k]].vote
                        /\ votes[size + k].voter = chain[rows[k]].voter /\ votes[size + k].voter \in Members
    <2> TAKE k \in 1 .. n
    <2>1. votes[size + k] = VoteRow(rows[k])
        BY DEF RowsKnown
    <2>2. rows[k] \in DOMAIN chain /\ rows[k] \in Nat
        BY DEF VotesTyped
    <2>3. chain[rows[k]] \in CommitteeVotes
        BY <2>2 DEF VotesTyped
    <2> QED
        BY <2>1, <2>2, <2>3 DEF VoteRow, CommitteeVotes
<1>5. Members \cap Settled = {} /\ IsFiniteSet(Members) /\ IsFiniteSet(Settled)
    BY TallyAssumption
<1>6. Ingested = {rows[k] : k \in 1 .. n} /\ \A k, l \in 1 .. n : rows[k] = rows[l] => k = l
    <2>1. DOMAIN rows = 1 .. n
        BY DEF VotesTyped
    <2> QED
        BY <2>1 DEF Ingested, VotesTyped
<1>7. \A k \in 1 .. n, m \in Members :
         size + k \in L /\ votes[size + k].voter = m <=>
            chain[rows[k]] = [voter |-> m, vote |-> c] /\ \A j \in Ingested : chain[j].voter = m => j <= rows[k]
    <2> TAKE k \in 1 .. n, m \in Members
    <2>1. chain[rows[k]] = [voter |-> m, vote |-> c] <=> chain[rows[k]].voter = m /\ chain[rows[k]].vote = c
        BY <1>4 DEF CommitteeVotes
    <2>2. (\A j \in Ingested : chain[j].voter = m => j <= rows[k]) <=>
          (\A l \in 1 .. n : chain[rows[l]].voter = m => rows[l] <= rows[k])
        BY <1>6
    <2>3. size + k \in L <=> size + k \in getLatestCcVotes(votes) /\ chain[rows[k]].vote = c
        BY <1>4
    <2> QED
        BY <1>1, <1>4, <2>1, <2>2, <2>3
<1>8. \A m \in Members : StandsFor(m, c) <=> \E k \in 1 .. n : size + k \in L /\ votes[size + k].voter = m
    <2> TAKE m \in Members
    <2>1. StandsFor(m, c) <=>
             \E k \in 1 .. n : /\ chain[rows[k]] = [voter |-> m, vote |-> c]
                               /\ \A j \in Ingested : chain[j].voter = m => j <= rows[k]
        BY <1>6 DEF StandsFor
    <2> QED
        BY <1>7, <2>1
<1>9. L \subseteq 1 .. size + n
    BY <1>1
<1>10. f \in [L -> M \cup G]
    <2> SUFFICES ASSUME NEW i \in L PROVE votes[i].voter \in M \cup G
        OBVIOUS
    <2>1. CASE i \in 1 .. size
        BY <1>3, <2>1
    <2>2. CASE \E k \in 1 .. n : i = size + k
        BY <1>4, <1>8, <2>2
    <2> QED
        BY <1>2, <1>9, <2>1, <2>2
<1>11. \A i, j \in L : f[i] = f[j] => i = j
    <2> SUFFICES ASSUME NEW i \in L, NEW j \in L, votes[i].voter = votes[j].voter PROVE i = j
        OBVIOUS
    <2>1. CASE i \in 1 .. size /\ j \in 1 .. size
        BY <1>3, <2>1, SettledOrdered
    <2>2. CASE i \in 1 .. size /\ \E k \in 1 .. n : j = size + k
        BY <1>3, <1>4, <1>5, <2>2
    <2>3. CASE j \in 1 .. size /\ \E k \in 1 .. n : i = size + k
        BY <1>3, <1>4, <1>5, <2>3
    <2>4. ASSUME NEW k \in 1 .. n, NEW l \in 1 .. n, i = size + k, j = size + l PROVE i = j
        <3>1. rows[k] <= rows[l] /\ rows[l] <= rows[k]
            BY <1>1, <1>4, <2>4
        <3>2. rows[k] = rows[l]
            BY <1>4, <3>1
        <3> QED
            BY <1>6, <2>4, <3>2
    <2> QED
        BY <1>2, <1>9, <2>1, <2>2, <2>3, <2>4
<1>12. \A m \in M \cup G : \E i \in L : f[i] = m
    <2> SUFFICES ASSUME NEW m \in M \cup G PROVE \E i \in L : votes[i].voter = m
        OBVIOUS
    <2>1. CASE m \in M
        BY <1>8, <2>1
    <2>2. CASE m \in G
        <3>1. PICK k \in 1 .. size : SettledInOrder[k] = m
            BY <2>2, SettledOrdered
        <3>2. k \in L /\ votes[k].voter = m
            BY <1>1, <1>3, <2>2, <3>1
        <3> QED
            BY <3>2
    <2> QED
        BY <2>1, <2>2
<1>13. f \in Bijection(L, M \cup G)
    BY <1>10, <1>11, <1>12, Fun_IsBij
<1>14. IsFiniteSet(L)
    <2>1. IsFiniteSet(1 .. size + n)
        BY FS_Interval
    <2> QED
        BY <1>9, <2>1, FS_Subset
<1> HIDE DEF f, L
<1>15. Cardinality(L) = Cardinality(M \cup G)
    BY <1>13, <1>14, FS_Bijection DEF ExistsBijection
<1>16. IsFiniteSet(M) /\ IsFiniteSet(G) /\ M \cap G = {}
    BY <1>5, FS_Subset, FS_EmptySet
<1>17. Cardinality(M \cup G) = Cardinality(M) + Cardinality(G)
    <2>1. Cardinality(M) \in Nat /\ Cardinality(G) \in Nat
        BY <1>16, FS_CardinalityType
    <2> HIDE DEF M, G
    <2> QED
        <3>1. Cardinality(M \cup G) = Cardinality(M) + Cardinality(G) - Cardinality(M \cap G)
            BY <1>16, FS_Union
        <3>2. Cardinality(M \cap G) = 0
            BY <1>16, FS_EmptySet
        <3> QED
            BY <2>1, <3>1, <3>2
<1>18. Cardinality(G) = IF c = "YES" THEN Cardinality(Settled) ELSE 0
    BY FS_EmptySet
<1> QED
    BY <1>15, <1>17, <1>18 DEF L

(* Of each member of the committee the last ingested vote counts.            *)
LEMMA LastVoteCountsInv == TallyInv => LastVoteCounts
<1> SUFFICES ASSUME TallyInv, body = "CC"
             PROVE  /\ CcTally(Row) = [c \in Choices3 |-> Cardinality({m \in Members : StandsFor(m, c)})
                                                          + (IF c = "YES" THEN Cardinality(Settled) ELSE 0)]
                    /\ (determineConstitutionality(CcTally(Row), proposal.eligible) = "Constitutional") =
                          (proposal.eligible >= MIN_ELIGIBLE_CC_MEMBERS /\ Passes(CcInfo(Row), 67) = TRUE)
    BY DEF LastVoteCounts
<1>1. VotesTyped /\ PowerTyped
    BY DEF TallyInv
<1>2. PICK size \in Nat : size = Cardinality(Settled)
    BY SettledOrdered
<1>3. PICK n \in Nat : n = Len(rows)
    BY <1>1 DEF VotesTyped
<1>4. Row.votes = VoteRows /\ Row.eligible = proposal.eligible
    BY DEF Row
<1>5. RowsKnown(VoteRows, size, n)
    BY <1>1, <1>2, <1>3, VoteRowsKnown
<1>6. CcTally(Row) = [c \in Choices3 |-> Cardinality({i \in getLatestCcVotes(VoteRows) : VoteRows[i].vote = c})]
    BY <1>4 DEF CcTally, tallyCountVotes
<1>7. \A c \in Choices3 :
         Cardinality({i \in getLatestCcVotes(VoteRows) : VoteRows[i].vote = c}) =
         Cardinality({m \in Members : StandsFor(m, c)}) + (IF c = "YES" THEN Cardinality(Settled) ELSE 0)
    BY <1>1, <1>2, <1>3, <1>5, CountsAreMembers
<1>8. CcTally(Row) = [c \in Choices3 |-> Cardinality({m \in Members : StandsFor(m, c)})
                                        + (IF c = "YES" THEN Cardinality(Settled) ELSE 0)]
    BY <1>6, <1>7
<1>9. CcTally(Row) \in [Choices3 -> Nat]
    <2>1. \A c \in Choices3 : Cardinality({m \in Members : StandsFor(m, c)}) \in Nat
        <3> TAKE c \in Choices3
        <3>1. IsFiniteSet({m \in Members : StandsFor(m, c)})
            BY TallyAssumption, FS_Subset
        <3> QED
            BY <3>1, FS_CardinalityType
    <2>2. \A c \in Choices3 : Cardinality({m \in Members : StandsFor(m, c)})
                               + (IF c = "YES" THEN Cardinality(Settled) ELSE 0) \in Nat
        BY <1>2, <2>1
    <2> QED
        BY <1>8, <2>2
<1>10. proposal.eligible \in 1 .. 199
    <2>1. proposal.eligible \in Eligible \cup {7}
        BY <1>1 DEF PowerTyped, MIN_ELIGIBLE_CC_MEMBERS
    <2> QED
        <3>1. CASE proposal.eligible \in Eligible
            BY <3>1, TallyAssumption
        <3>2. CASE proposal.eligible = 7
            BY <3>2
        <3> QED
            BY <2>1, <3>1, <3>2
<1>11. PICK t \in [Choices3 -> Nat] : t = CcTally(Row)
    BY <1>9
<1>12. PICK e \in 1 .. 199 : e = proposal.eligible
    BY <1>10
<1>13. (determineConstitutionality(t, e) = "Constitutional") =
          (e >= MIN_ELIGIBLE_CC_MEMBERS /\ Passes(buildCcVoteInfo(t, e), 67) = TRUE)
    BY VerdictIsOfShare
<1>14. CASE RowsOf(VoteRows, "CC") # {}
    <2>1. CcInfo(Row) = buildCcVoteInfo(t, e)
        BY <1>4, <1>11, <1>12, <1>14 DEF CcInfo
    <2> QED
        BY <1>8, <1>11, <1>12, <1>13, <2>1
<1>15. CASE RowsOf(VoteRows, "CC") = {}
    <2>1. CcInfo(Row) = None
        BY <1>4, <1>15 DEF CcInfo
    <2>2. ~(Passes(None, 67) = TRUE)
        BY NoneAssumption DEF Passes
    <2>3. getLatestCcVotes(VoteRows) = {}
        BY <1>15 DEF getLatestCcVotes
    <2>4. \A c \in Choices3 : t[c] = 0
        BY <1>6, <1>11, <2>3, FS_EmptySet
    <2>5. determineConstitutionality(t, e) # "Constitutional"
        BY <2>4 DEF determineConstitutionality, MIN_ELIGIBLE_CC_MEMBERS
    <2> QED
        BY <1>8, <1>11, <1>12, <2>1, <2>2, <2>5
<1> QED
    BY <1>14, <1>15

(* The shares of a body are at most the whole but for rounding, they are what *)
(* the analytics say, they turn with the threshold, and of each member of the *)
(* committee the last vote counts.                                            *)
THEOREM TallyIsRight == TallySpec => []TallyRight
<1>1. TallyInv => TallyRight
    BY YesShareExactInv, SharesBoundedInv, LastVoteCountsInv DEF TallyInv, TallyRight
<1> QED
    BY <1>1, TallyTypeCorrect, PTL

-------------------------------------------------------------------------------
(* The tally of a linked survey (SurveyTally)                                *)

(* What is on the chain and in the rows: of the response i nothing, or what  *)
(* its voter sent, with or without its label.                                *)
StoredWays(i) == {None, Stored(i, TRUE), Stored(i, FALSE)}
Storables == {[wrapped |-> b,
               payload |-> [r.answer EXCEPT !.responderRole = mapVoterTypeToResponderRole(r.voter.type)]] :
                r \in Responses, b \in BOOLEAN}
SentResponses == {[voter |-> r.voter, answer |-> r.answer, entries |-> r.entries, epoch |-> e] :
            r \in Responses, e \in Nat}
StoredRows == [stored : Storables \cup {None}, epoch : Nat \cup {None},
               votedAt : Nat \cup {None}, power : Nat \cup {None}]

SurveyTyped ==
    /\ surveyEpoch \in Nat
    /\ linked \in SurveyProposals
    /\ responses \in Seq(SentResponses) /\ Len(responses) <= MaxResponses
    /\ onchainVote \in Seq(StoredRows \cup {None}) /\ Len(onchainVote) = Len(responses)
    /\ reading \in BOOLEAN

StoredIsSent == \A i \in DOMAIN responses : onchainVote[i] # None => onchainVote[i].stored \in StoredWays(i)

ReadIsOfSurvey == reading => tally = None /\ Payload.linked /\ Payload.linkValid /\ Payload.detailsValid

(* The invariant.  While no answer is out, SurveyRight says nothing; what an *)
(* answer is computed from is the rest.                                      *)
SurveyInv == SurveyTyped /\ StoredIsSent /\ ReadIsOfSurvey /\ SurveyRight

(* Every voter has a role.                                                   *)
LEMMA RoleIsRole == \A t : mapVoterTypeToResponderRole(t) \in Roles
  BY DEF mapVoterTypeToResponderRole, Roles

(* A response on the chain is one that may be sent, of some epoch.           *)
LEMMA SentKnown ==
    ASSUME responses \in Seq(SentResponses), NEW i \in DOMAIN responses
    PROVE  /\ i \in 1 .. Len(responses)
           /\ \E r \in Responses, e \in Nat :
                 responses[i] = [voter |-> r.voter, answer |-> r.answer, entries |-> r.entries, epoch |-> e]
  BY DEF SentResponses

(* The invariant holds before anything is sent ...                           *)
LEMMA SurveyInvInit == SurveyInit => SurveyInv
  <1> SUFFICES ASSUME SurveyInit PROVE SurveyInv
    OBVIOUS
  <1>1. MaxResponses \in Nat
    BY SurveyAssumption
  <1>2. SurveyTyped
    <2>1. <<>> \in Seq(SentResponses) /\ <<>> \in Seq(StoredRows \cup {None}) /\ Len(<<>>) = 0
      OBVIOUS
    <2> QED
      <3>1. surveyEpoch \in Nat /\ Len(responses) <= MaxResponses /\ Len(onchainVote) = Len(responses)
        BY <1>1, <2>1 DEF SurveyInit
      <3>2. responses \in Seq(SentResponses) /\ onchainVote \in Seq(StoredRows \cup {None})
        BY <2>1 DEF SurveyInit
      <3>3. linked \in SurveyProposals /\ reading \in BOOLEAN
        BY DEF SurveyInit
      <3> QED
        BY <3>1, <3>2, <3>3 DEF SurveyTyped
  <1> QED
    BY <1>2 DEF SurveyInit, SurveyInv, StoredIsSent, ReadIsOfSurvey, SurveyRight, LastValidCounts, FinalIsEarned

(* What every action but an answer leaves: no answer.                         *)
LEMMA NoAnswer == ASSUME tally' = None PROVE SurveyRight'
  BY DEF SurveyRight, LastValidCounts, FinalIsEarned

(* Changing one row to a row of what was sent.                               *)
LEMMA RowChanges ==
    ASSUME SurveyTyped, StoredIsSent, NEW i \in DOMAIN responses, NEW row \in StoredRows,
           row.stored \in StoredWays(i),
           UNCHANGED <<surveyEpoch, linked, responses, reading, tally>>,
           onchainVote' = [onchainVote EXCEPT ![i] = row]
    PROVE  SurveyTyped' /\ StoredIsSent'
  <1>1. i \in DOMAIN onchainVote
    BY DEF SurveyTyped
  <1>2. SurveyTyped'
    BY <1>1 DEF SurveyTyped
  <1>3. StoredIsSent'
    <2> SUFFICES ASSUME NEW k \in DOMAIN responses, onchainVote'[k] # None
                 PROVE  onchainVote'[k].stored \in StoredWays(k)'
      BY DEF StoredIsSent
    <2>1. StoredWays(k)' = StoredWays(k)
      BY DEF StoredWays, Stored
    <2>2. CASE k = i
      BY <1>1, <2>1, <2>2
    <2>3. CASE k # i
      BY <1>1, <2>1, <2>3 DEF StoredIsSent, SurveyTyped
    <2> QED
      BY <2>2, <2>3
  <1> QED
    BY <1>2, <1>3

(* What is stored of a response is typed.                                    *)
LEMMA StoredTyped ==
    ASSUME responses \in Seq(SentResponses), NEW i \in DOMAIN responses, NEW b \in BOOLEAN
    PROVE  Stored(i, b) \in Storables
  <1> PICK r \in Responses, e \in Nat :
         responses[i] = [voter |-> r.voter, answer |-> r.answer, entries |-> r.entries, epoch |-> e]
    BY SentKnown
  <1> QED
    BY DEF Stored, Storables

(* ... and every step but an answer keeps it.                                *)
LEMMA SurveyInvSteps ==
    ASSUME SurveyInv, [SurveyNext]_surveyVars,
           ~ \E placed, inspected \in SUBSET DOMAIN responses, loaded \in SUBSET Loads :
               Answered(placed, inspected, loaded)
    PROVE  SurveyInv'
  <1> USE DEF SurveyInv
  <1>1. ASSUME NEW r \in Responses, Respond(r) PROVE SurveyInv'
    <2> DEFINE sent == [voter |-> r.voter, answer |-> r.answer, entries |-> r.entries, epoch |-> surveyEpoch]
    <2>1. sent \in SentResponses
      BY DEF SentResponses, SurveyTyped
    <2> HIDE DEF sent
    <2>2. responses' = Append(responses, sent) /\ onchainVote' = Append(onchainVote, None)
          /\ Len(responses) < MaxResponses /\ Quiet
          /\ UNCHANGED <<surveyEpoch, linked, reading, tally>>
      BY <1>1 DEF Respond, sent
    <2>3. SurveyTyped'
      BY <2>1, <2>2, SurveyAssumption DEF SurveyTyped
    <2>4. StoredIsSent'
      <3> SUFFICES ASSUME NEW k \in DOMAIN responses', onchainVote'[k] # None
                   PROVE  onchainVote'[k].stored \in StoredWays(k)'
        BY DEF StoredIsSent
      <3>1. k \in DOMAIN responses /\ onchainVote'[k] = onchainVote[k] /\ responses'[k] = responses[k]
        BY <2>2 DEF SurveyTyped
      <3>2. StoredWays(k)' = StoredWays(k)
        BY <3>1 DEF StoredWays, Stored
      <3> QED
        BY <3>1, <3>2 DEF StoredIsSent
    <2>5. ReadIsOfSurvey' /\ SurveyRight'
      BY <2>2, NoAnswer DEF Quiet, ReadIsOfSurvey
    <2> QED
      BY <2>3, <2>4, <2>5
  <1>2. ASSUME NEW i \in DOMAIN responses, NEW b \in BOOLEAN, Frontload(i, b) PROVE SurveyInv'
    <2> DEFINE row == IF onchainVote[i] = None
                      THEN [stored |-> Stored(i, b), epoch |-> None, votedAt |-> None, power |-> None]
                      ELSE [onchainVote[i] EXCEPT !.stored = Stored(i, b)]
    <2>1. i \in DOMAIN onchainVote /\ onchainVote[i] \in StoredRows \cup {None}
      BY DEF SurveyTyped
    <2>2. row \in StoredRows /\ row.stored = Stored(i, b)
      BY <2>1, StoredTyped DEF StoredRows, SurveyTyped
    <2>3. row.stored \in StoredWays(i)
      BY <2>2 DEF StoredWays
    <2>4. onchainVote' = [onchainVote EXCEPT ![i] = row] /\ Quiet
          /\ UNCHANGED <<surveyEpoch, linked, responses, reading, tally>>
      BY <1>2 DEF Frontload
    <2> HIDE DEF row
    <2>5. SurveyTyped' /\ StoredIsSent'
      BY <2>2, <2>3, <2>4, RowChanges
    <2> QED
      BY <2>4, <2>5, NoAnswer DEF Quiet, ReadIsOfSurvey
  <1>3. ASSUME NEW i \in DOMAIN responses, NEW b \in BOOLEAN, IngestVote(i, b) PROVE SurveyInv'
    <2> DEFINE old == IF onchainVote[i] = None THEN None ELSE onchainVote[i].stored
               row == [stored |-> IF b /\ normalizeSurveyResponse(Stored(i, TRUE).payload) # None
                                  THEN Stored(i, FALSE) ELSE old,
                       epoch |-> responses[i].epoch, votedAt |-> i, power |-> StakeAt(responses[i].epoch)]
    <2>1. i \in DOMAIN onchainVote /\ onchainVote[i] \in StoredRows \cup {None}
      BY DEF SurveyTyped
    <2>2. i \in Nat /\ responses[i].epoch \in Nat
      BY SentKnown DEF SurveyTyped
    <2>3. old \in StoredWays(i) /\ old \in Storables \cup {None}
      BY <2>1 DEF StoredIsSent, StoredWays, StoredRows
    <2> HIDE DEF old
    <2>4. row \in StoredRows /\ row.stored \in StoredWays(i)
      <3>1. row.stored \in StoredWays(i) /\ row.stored \in Storables \cup {None}
        BY <2>3, StoredTyped DEF StoredWays, SurveyTyped
      <3>2. StakeAt(responses[i].epoch) \in Nat
        BY <2>2 DEF StakeAt
      <3> QED
        BY <2>2, <3>1, <3>2 DEF StoredRows
    <2>5. onchainVote' = [onchainVote EXCEPT ![i] = row] /\ Quiet
          /\ UNCHANGED <<surveyEpoch, linked, responses, reading, tally>>
      BY <1>3 DEF IngestVote, old
    <2> HIDE DEF row
    <2>6. SurveyTyped' /\ StoredIsSent'
      BY <2>4, <2>5, RowChanges
    <2> QED
      BY <2>5, <2>6, NoAnswer DEF Quiet, ReadIsOfSurvey
  <1>4. ASSUME UNCHANGED <<linked, responses, onchainVote>>, surveyEpoch' \in Nat, reading' \in BOOLEAN
        PROVE  SurveyTyped' /\ StoredIsSent'
    BY <1>4 DEF SurveyTyped, StoredIsSent, StoredWays, Stored
  <1>9. linked' = linked => Payload' = Payload
    BY DEF Payload
  <1>5. CASE SurveyEpochTurns
    BY <1>4, <1>9, <1>5, NoAnswer DEF SurveyEpochTurns, SurveyTyped, ReadIsOfSurvey
  <1>6. CASE Reads
    BY <1>4, <1>9, <1>6, NoAnswer DEF Reads, SurveyTyped, ReadIsOfSurvey, Quiet
  <1>7. CASE Sent
    BY <1>4, <1>9, <1>7, NoAnswer DEF Sent, SurveyTyped, ReadIsOfSurvey
  <1>8. CASE UNCHANGED surveyVars
    <2>1. SurveyTyped' /\ StoredIsSent' /\ ReadIsOfSurvey'
      BY <1>4, <1>9, <1>8 DEF surveyVars, SurveyTyped, ReadIsOfSurvey
    <2>2. SurveyRight'
      BY <1>8 DEF surveyVars, SurveyRight, LastValidCounts, FinalIsEarned, Stands, InTerms, Payload, StakeAt
    <2> QED
      BY <2>1, <2>2
  <1> QED
    BY <1>1, <1>2, <1>3, <1>5, <1>6, <1>7, <1>8 DEF SurveyNext

----------------------------------------------------------------------------
(* What the assumption says of what may be sent holds of what was sent.      *)
LEMMA ResponseKnown ==
    ASSUME SurveyTyped, NEW i \in DOMAIN responses
    PROVE  /\ i \in 1 .. MaxResponses /\ i \in Nat
           /\ responses[i].voter.type \in {"DREP", "SPO", "CC"} /\ responses[i].entries \in {"one", "more"}
           /\ DOMAIN responses[i].answer = {"ok", "specVersion", "surveyTxId", "responderRole", "answers"}
           /\ responses[i].answer.ok
           /\ \A k \in DOMAIN responses[i].answer.answers :
                 responses[i].answer.answers[k].ok /\ responses[i].answer.answers[k] # None
           /\ \A role \in Roles : [responses[i].answer EXCEPT !.responderRole = role] # None
           /\ \A form \in {"id", "cip105", "hash"} : <<responses[i].voter.id, form>> # None
  <1>1. responses \in Seq(SentResponses)
    BY DEF SurveyTyped
  <1>2. PICK r \in Responses, e \in Nat :
          responses[i] = [voter |-> r.voter, answer |-> r.answer, entries |-> r.entries, epoch |-> e]
    BY <1>1, SentKnown
  <1>3. MaxResponses \in Nat
    BY SurveyAssumption
  <1>4. i \in 1 .. MaxResponses /\ i \in Nat
    BY <1>1, <1>3, SentKnown DEF SurveyTyped
  <1>5. responses[i].voter = r.voter /\ responses[i].answer = r.answer /\ responses[i].entries = r.entries
    BY <1>2
  <1>6. /\ r.voter.type \in {"DREP", "SPO", "CC"} /\ r.entries \in {"one", "more"}
        /\ DOMAIN r.answer = {"ok", "specVersion", "surveyTxId", "responderRole", "answers"}
        /\ r.answer.ok /\ \A k \in DOMAIN r.answer.answers :
                             r.answer.answers[k].ok /\ r.answer.answers[k] # None
        /\ \A role \in Roles : [r.answer EXCEPT !.responderRole = role] # None
        /\ \A form \in {"id", "cip105", "hash"} : <<r.voter.id, form>> # None
    BY SurveyAssumption
  <1> HIDE DEF SurveyTyped
  <1> QED
    BY <1>4, <1>5, <1>6, Zenon

(* Two responses under one name are of one body.                             *)
LEMMA NameTellsBody ==
    ASSUME SurveyTyped, NEW i \in DOMAIN responses, NEW j \in DOMAIN responses,
           responses[i].voter.id = responses[j].voter.id
    PROVE  responses[i].voter.type = responses[j].voter.type
  <1>1. responses \in Seq(SentResponses)
    BY DEF SurveyTyped
  <1>2. PICK r \in Responses, e \in Nat :
          responses[i] = [voter |-> r.voter, answer |-> r.answer, entries |-> r.entries, epoch |-> e]
    BY <1>1, SentKnown
  <1>3. PICK s \in Responses, f \in Nat :
          responses[j] = [voter |-> s.voter, answer |-> s.answer, entries |-> s.entries, epoch |-> f]
    BY <1>1, SentKnown
  <1>4. r.voter.id = s.voter.id => r.voter.type = s.voter.type
    BY SurveyAssumption
  <1> QED
    BY <1>2, <1>3, <1>4

(* With a valid link the details are those of the survey.                    *)
LEMMA PayloadKnown ==
    ASSUME linked \in SurveyProposals, Payload.linkValid
    PROVE  /\ Payload.details = linked.surveyDetails
           /\ Payload.details.endEpoch \in Int
           /\ Payload.surveyTxId = linked.linkedSurveyTxId
  <1>1. Payload = validateLinkedSurvey(linked)
    BY DEF Payload, LinkedSurveys
  <1>2. /\ Payload.details = normalizeSurveyDetails(linked.surveyDetails)
        /\ Payload.surveyTxId = linked.linkedSurveyTxId
    BY <1>1 DEF validateLinkedSurvey
  <1>3. normalizeSurveyDetails(linked.surveyDetails) # None
    BY <1>1 DEF validateLinkedSurvey
  <1> QED
    BY <1>2, <1>3 DEF normalizeSurveyDetails

(* Validation reads what was sent, with or without the label.                *)
LEMMA ParsedIsSent ==
    ASSUME SurveyTyped, NEW i \in DOMAIN responses, NEW b \in BOOLEAN, Stored(i, b) # None
    PROVE  /\ ParsedForValidation(Stored(i, b)) = Stored(i, b).payload
           /\ Stored(i, b).payload # None
           /\ Stored(i, b).payload.specVersion = responses[i].answer.specVersion
           /\ Stored(i, b).payload.answers = responses[i].answer.answers
           /\ Stored(i, b).payload.responderRole = mapVoterTypeToResponderRole(responses[i].voter.type)
  <1> DEFINE role == mapVoterTypeToResponderRole(responses[i].voter.type)
             sent == [responses[i].answer EXCEPT !.responderRole = role]
  <1>1. role \in Roles
    BY RoleIsRole
  <1>2. Stored(i, b).payload = sent /\ Stored(i, b).wrapped = b
    BY DEF Stored
  <1> HIDE DEF role
  <1>3. sent # None /\ sent.ok /\ sent.responderRole = role
        /\ sent.answers = responses[i].answer.answers /\ sent.specVersion = responses[i].answer.specVersion
    BY <1>1, ResponseKnown
  <1>4. \A k \in DOMAIN sent.answers : normalizeSurveyAnswer(sent.answers[k]) # None
    BY <1>3, ResponseKnown DEF normalizeSurveyAnswer
  <1> HIDE DEF sent
  <1>5. normalizeSurveyResponse(sent) = sent
    BY <1>1, <1>3, <1>4 DEF normalizeSurveyResponse
  <1>6. CASE b
    <2>1. extractSurveyResponse(Stored(i, b)) = sent
      BY <1>2, <1>5, <1>6 DEF extractSurveyResponse, extractLabel17
    <2> QED
      BY <1>2, <1>3, <2>1 DEF ParsedForValidation, role
  <1>7. CASE ~b
    <2>1. extractSurveyResponse(Stored(i, b)) = None
      BY <1>2, <1>7 DEF extractSurveyResponse, extractLabel17, normalizeSurveyResponse
    <2> QED
      BY <1>2, <1>3, <1>7, <2>1 DEF ParsedForValidation, role
  <1> QED
    BY <1>6, <1>7

----------------------------------------------------------------------------
(* A vote with a weight is the vote but for it.                              *)
SameButWeight(w, v) ==
    /\ w.hash = v.hash /\ w.type = v.type /\ w.voter = v.voter /\ w.epoch = v.epoch
    /\ w.votedAt = v.votedAt /\ w.stored = v.stored /\ w.slot = v.slot /\ w.index = v.index
    /\ w.credential = v.credential /\ w.evidence = v.evidence

(* The fields of a vote, with or without a weight.                           *)
LEMMA VoteKnown ==
    ASSUME NEW i, NEW row, NEW placed, NEW inspected,
           NEW w, SameButWeight(w, EnrichedVote(i, row, placed, inspected))
    PROVE  /\ w.hash = i /\ w.type = responses[i].voter.type /\ w.voter = <<responses[i].voter.id, "id">>
           /\ w.epoch = row.epoch /\ w.votedAt = row.votedAt /\ w.stored = row.stored
           /\ w.slot = (IF i \in placed THEN i ELSE None) /\ w.index = (IF i \in placed THEN 1 ELSE None)
           /\ w.evidence = buildLinkedVoteEvidence(EntriesOf(i, inspected), responses[i].voter)
           /\ w.credential = w.evidence.credential
  BY DEF SameButWeight, EnrichedVote

(* Weights change nothing but the weight.                                    *)
LEMMA WeightedSame ==
    ASSUME NEW i, NEW row, NEW placed, NEW inspected,
           NEW roles, NEW e, NEW now, NEW loaded, NEW provisional
    PROVE  LET v == EnrichedVote(i, row, placed, inspected) IN
           SameButWeight(Weighted(v, roles, e, now, loaded, provisional), v)
  <1> DEFINE v == EnrichedVote(i, row, placed, inspected)
             mode == IF RoleOf(v) \in DOMAIN roles THEN roles[RoleOf(v)] ELSE None
             w == LoadedWeight(v, mode, e, now, loaded, provisional)
  <1>1. Weighted(v, roles, e, now, loaded, provisional) =
          IF mode \in {None, "CredentialBased"} THEN v ELSE [v EXCEPT !.weight = w.weight, !.error = w.error]
    BY DEF Weighted
  <1> HIDE DEF mode, w
  <1>2. SameButWeight([v EXCEPT !.weight = w.weight, !.error = w.error], v)
    BY DEF SameButWeight, EnrichedVote
  <1>3. SameButWeight(v, v)
    BY DEF SameButWeight
  <1> QED
    BY <1>1, <1>2, <1>3

(* The voter as the transaction names it.                                    *)
FormOf(type) == CASE type = "SPO" -> "id" [] type = "DREP" -> "cip105" [] OTHER -> "hash"

(* The evidence of a transaction, inspected or not.                          *)
LEMMA EvidenceKnown ==
    ASSUME SurveyTyped, NEW i \in DOMAIN responses, NEW inspected \in {{}, DOMAIN responses}
    PROVE  LET e == buildLinkedVoteEvidence(EntriesOf(i, inspected), responses[i].voter) IN
           /\ e.role = mapVoterTypeToResponderRole(responses[i].voter.type)
           /\ e.credential # None
           /\ inspected = {} => e.warning /\ e.credential = <<responses[i].voter.id, "id">>
           /\ inspected = DOMAIN responses =>
                 /\ e.valid <=> responses[i].entries = "one" /\ responses[i].voter.type = "SPO"
                 /\ e.credential = <<responses[i].voter.id, FormOf(responses[i].voter.type)>>
  <1> DEFINE e == buildLinkedVoteEvidence(EntriesOf(i, inspected), responses[i].voter)
             id == responses[i].voter.id
             type == responses[i].voter.type
  <1>1. /\ \A form \in {"id", "cip105", "hash"} : <<id, form>> # None
        /\ type \in {"DREP", "SPO", "CC"} /\ responses[i].entries \in {"one", "more"}
    BY ResponseKnown
  <1>2. responses[i].entries # None
    <2>1. None \notin {"one", "more"}
      BY SurveyAssumption
    <2> QED
      BY <1>1, <2>1
  <1>3. CASE inspected = {}
    <2>1. inspected # DOMAIN responses
      BY <1>3
    <2>2. e = [valid |-> TRUE, warning |-> TRUE,
               role |-> mapVoterTypeToResponderRole(type), credential |-> <<id, "id">>]
      BY <1>3 DEF buildLinkedVoteEvidence, EntriesOf
    <2> QED
      BY <1>1, <1>3, <2>1, <2>2
  <1>4. CASE inspected = DOMAIN responses
    <2>1. inspected # {}
      BY <1>4
    <2>2. EntriesOf(i, inspected) = responses[i].entries
      BY <1>4 DEF EntriesOf
    <2>3. parseVoteEntryVoter(responses[i].voter) =
            [role |-> mapVoterTypeToResponderRole(type), credential |-> <<id, FormOf(type)>>]
      BY DEF parseVoteEntryVoter, FormOf
    <2> DEFINE same == [role |-> mapVoterTypeToResponderRole(type), credential |-> <<id, FormOf(type)>>] =
                       [role |-> mapVoterTypeToResponderRole(type), credential |-> <<id, "id">>]
    <2>4. e = [valid |-> responses[i].entries = "one" /\ same,
               warning |-> FALSE, role |-> mapVoterTypeToResponderRole(type), credential |-> <<id, FormOf(type)>>]
      BY <1>2, <2>2, <2>3 DEF buildLinkedVoteEvidence
    <2>5. FormOf(type) \in {"id", "cip105", "hash"} /\ (FormOf(type) = "id" <=> type = "SPO")
      BY <1>1 DEF FormOf
    <2>6. same <=> type = "SPO"
      BY <2>5
    <2>7. e.valid <=> responses[i].entries = "one" /\ type = "SPO"
      <3> HIDE DEF same, e, type
      <3>1. e.valid = (responses[i].entries = "one" /\ same)
        BY <2>4
      <3> QED
        BY <2>6, <3>1
    <2>8. e.role = mapVoterTypeToResponderRole(type) /\ e.credential = <<id, FormOf(type)>>
      BY <2>4
    <2>9. <<id, FormOf(type)>> # None
      BY <1>1, <2>5
    <2> HIDE DEF e, type, id
    <2> QED
      BY <1>4, <2>1, <2>7, <2>8, <2>9 DEF type, id, e
  <1> QED
    BY <1>3, <1>4

----------------------------------------------------------------------------
(* A vote in its terms, with one of this voter's votes alone.                *)
Good(w, enforce) ==
    InTerms(w) /\ (enforce => responses[w.hash].entries = "one" /\ w.type = "SPO")

Valid(w, enforce) ==
    validateSurveyResponse(ParsedForValidation(w.stored), Payload.details, RoleOf(w), Payload.surveyTxId,
                           w.epoch, Payload.roleWeighting, w.hash, IF enforce THEN {w.evidence} ELSE {})

IsVote(w, i, placed, inspected) ==
    i \in Answers(onchainVote) /\ SameButWeight(w, EnrichedVote(i, onchainVote[i], placed, inspected))

(* A row that the tally takes has a response to this survey.                 *)
LEMMA AnswerKnown ==
    ASSUME SurveyTyped, StoredIsSent, NEW i \in Answers(onchainVote)
    PROVE  /\ i \in DOMAIN responses
           /\ onchainVote[i] \in StoredRows
           /\ \E b \in BOOLEAN : onchainVote[i].stored = Stored(i, b) /\ Stored(i, b) # None
           /\ onchainVote[i].stored.payload.surveyTxId = linked.linkedSurveyTxId
  <1>1. i \in DOMAIN onchainVote /\ onchainVote[i] # None /\ onchainVote[i].stored # None
        /\ onchainVote[i].stored.payload.surveyTxId = linked.linkedSurveyTxId
    BY DEF Answers
  <1>2. i \in DOMAIN responses /\ onchainVote[i] \in StoredRows
    BY <1>1 DEF SurveyTyped
  <1>3. onchainVote[i].stored \in StoredWays(i)
    BY <1>1, <1>2 DEF StoredIsSent
  <1> QED
    BY <1>1, <1>2, <1>3 DEF StoredWays

(* The validation of a vote as stored asks just what Stands says.            *)
LEMMA VoteValid ==
    ASSUME SurveyTyped, StoredIsSent, Payload.linkValid,
           NEW i, NEW placed, NEW inspected \in {{}, DOMAIN responses},
           NEW w, IsVote(w, i, placed, inspected),
           NEW enforce \in BOOLEAN, enforce => inspected = DOMAIN responses
    PROVE  Valid(w, enforce) <=> Good(w, enforce)
  <1>1. i \in Answers(onchainVote) /\ SameButWeight(w, EnrichedVote(i, onchainVote[i], placed, inspected))
    BY DEF IsVote
  <1>2. i \in DOMAIN responses
    BY <1>1, AnswerKnown
  <1>3. PICK b \in BOOLEAN : onchainVote[i].stored = Stored(i, b) /\ Stored(i, b) # None
    BY <1>1, AnswerKnown
  <1> DEFINE payload == Stored(i, b).payload
             type == responses[i].voter.type
             answer == responses[i].answer
  <1>4. ParsedForValidation(w.stored) = payload
    BY <1>1, <1>2, <1>3, VoteKnown, ParsedIsSent
  <1>5. /\ payload # None /\ payload.specVersion = answer.specVersion /\ payload.answers = answer.answers
        /\ payload.responderRole = mapVoterTypeToResponderRole(type)
    BY <1>2, <1>3, ParsedIsSent
  <1>6. payload.surveyTxId = linked.linkedSurveyTxId
    BY <1>1, <1>3, AnswerKnown
  <1>7. w.hash = i /\ w.type = type /\ RoleOf(w) = mapVoterTypeToResponderRole(type)
    BY <1>1, VoteKnown DEF RoleOf
  <1>8. linked.linkedSurveyTxId # i
    <2>1. linked.linkedSurveyTxId \notin 1 .. MaxResponses
      BY SurveyAssumption DEF SurveyTyped
    <2> QED
      BY <1>2, <2>1, ResponseKnown
  <1>9. Payload.details = linked.surveyDetails /\ Payload.surveyTxId = linked.linkedSurveyTxId
    BY PayloadKnown DEF SurveyTyped
  <1>10. enforce => /\ payload.responderRole = w.evidence.role /\ w.evidence.credential # None
                    /\ w.evidence.valid <=> responses[i].entries = "one" /\ type = "SPO"
    <2> SUFFICES ASSUME enforce
                 PROVE  /\ payload.responderRole = w.evidence.role /\ w.evidence.credential # None
                        /\ w.evidence.valid <=> responses[i].entries = "one" /\ type = "SPO"
      OBVIOUS
    <2>1. w.evidence = buildLinkedVoteEvidence(EntriesOf(i, inspected), responses[i].voter)
      BY <1>1, VoteKnown
    <2>2. inspected = DOMAIN responses
      OBVIOUS
    <2> QED
      BY <1>2, <1>5, <2>1, <2>2, EvidenceKnown
  <1>11. Valid(w, enforce) <=>
           /\ answer.specVersion = SpecVersion
           /\ enforce => w.evidence.valid
           /\ RoleOf(w) \in DOMAIN Payload.roleWeighting /\ AnswersValid(answer.answers, linked.surveyDetails)
           /\ w.epoch # None => w.epoch <= linked.surveyDetails.endEpoch
    <2> HIDE DEF payload, type, answer
    <2>1. Valid(w, enforce) <=>
           validateSurveyResponse(payload, linked.surveyDetails, RoleOf(w), linked.linkedSurveyTxId, w.epoch,
                                  Payload.roleWeighting, i, IF enforce THEN {w.evidence} ELSE {})
      BY <1>4, <1>7, <1>9 DEF Valid
    <2> QED
      BY <2>1, <1>5, <1>6, <1>7, <1>8, <1>10 DEF validateSurveyResponse
  <1>12. Good(w, enforce) <=>
           /\ answer.specVersion = SpecVersion /\ AnswersValid(answer.answers, linked.surveyDetails)
           /\ w.epoch = None \/ w.epoch <= linked.surveyDetails.endEpoch
           /\ RoleOf(w) \in DOMAIN Payload.roleWeighting
           /\ enforce => responses[i].entries = "one" /\ type = "SPO"
    BY <1>7 DEF Good, InTerms, RoleOf
  <1> HIDE DEF payload, type, answer
  <1> QED
    BY <1>10, <1>11, <1>12

(* Two votes have one key and role if they are one voter's, and are ordered  *)
(* as the chain is.                                                          *)
LEMMA VotesCompared ==
    ASSUME SurveyTyped, StoredIsSent, NEW inspected \in {{}, DOMAIN responses},
           NEW i, NEW w, IsVote(w, i, DOMAIN responses, inspected),
           NEW j, NEW v, IsVote(v, j, DOMAIN responses, inspected)
    PROVE  /\ VoterKey(w) = VoterKey(v) /\ RoleOf(w) = RoleOf(v) <=>
                responses[i].voter.id = responses[j].voter.id
           /\ After(w, v) <=> i > j
  <1>1. i \in Answers(onchainVote) /\ SameButWeight(w, EnrichedVote(i, onchainVote[i], DOMAIN responses, inspected))
    BY DEF IsVote
  <1>2. j \in Answers(onchainVote) /\ SameButWeight(v, EnrichedVote(j, onchainVote[j], DOMAIN responses, inspected))
    BY DEF IsVote
  <1>3. i \in DOMAIN responses /\ onchainVote[i] \in StoredRows /\ i \in Nat
    BY <1>1, AnswerKnown, ResponseKnown
  <1>4. j \in DOMAIN responses /\ onchainVote[j] \in StoredRows /\ j \in Nat
    BY <1>2, AnswerKnown, ResponseKnown
  <1>5. VoterKey(w) = VoterKey(v) /\ RoleOf(w) = RoleOf(v) <=>
          responses[i].voter.id = responses[j].voter.id
    <2> DEFINE I == responses[i].voter
               J == responses[j].voter
    <2>1. w.credential = buildLinkedVoteEvidence(EntriesOf(i, inspected), responses[i].voter).credential
          /\ w.type = I.type
      BY <1>1, VoteKnown
    <2>2. v.credential = buildLinkedVoteEvidence(EntriesOf(j, inspected), responses[j].voter).credential
          /\ v.type = J.type
      BY <1>2, VoteKnown
    <2>3. w.credential # None /\ v.credential # None
      BY <1>3, <1>4, <2>1, <2>2, EvidenceKnown
    <2>4. \/ w.credential = <<I.id, "id">> /\ v.credential = <<J.id, "id">>
          \/ w.credential = <<I.id, FormOf(I.type)>> /\ v.credential = <<J.id, FormOf(J.type)>>
      <3>1. CASE inspected = {}
        BY <1>3, <1>4, <2>1, <2>2, <3>1, EvidenceKnown
      <3>2. CASE inspected = DOMAIN responses
        BY <1>3, <1>4, <2>1, <2>2, <3>2, EvidenceKnown
      <3> QED
        BY <3>1, <3>2
    <2>5. I.id = J.id => I.type = J.type
      BY <1>3, <1>4, NameTellsBody
    <2> HIDE DEF I, J
    <2>6. VoterKey(w) = w.credential /\ VoterKey(v) = v.credential
      BY <2>3 DEF VoterKey
    <2>7. I.id = J.id => w.credential = v.credential /\ RoleOf(w) = RoleOf(v)
      BY <2>1, <2>2, <2>4, <2>5 DEF RoleOf
    <2>8. w.credential = v.credential => I.id = J.id
      BY <2>4
    <2> QED
      BY <2>6, <2>7, <2>8 DEF I, J
  <1>6. After(w, v) <=> i > j
    <2>1. None \notin Int
      BY NoneAssumption
    <2>2. \A k \in Nat : k # None
      BY <2>1
    <2>3. Place(w) = <<i, 1, toNumber(onchainVote[i].votedAt), i>>
      BY <1>1, <1>3, <2>2, VoteKnown DEF Place
    <2>4. Place(v) = <<j, 1, toNumber(onchainVote[j].votedAt), j>>
      BY <1>2, <1>4, <2>2, VoteKnown DEF Place
    <2>5. toNumber(onchainVote[i].votedAt) \in Int /\ toNumber(onchainVote[j].votedAt) \in Int
      BY <1>3, <1>4 DEF StoredRows, toNumber
    <2>6. i > j => After(w, v)
      BY <1>3, <1>4, <2>3, <2>4 DEF After
    <2>7. ASSUME After(w, v) PROVE i > j
      <3>1. PICK k \in 1 .. 4 : /\ Place(w)[k] > Place(v)[k]
                                /\ \A l \in 1 .. k - 1 : Place(w)[l] = Place(v)[l]
        BY <2>7 DEF After
      <3>2. CASE k = 1
        BY <2>3, <2>4, <3>1, <3>2
      <3>3. CASE k # 1
        <4>1. 1 \in 1 .. k - 1
          BY <3>3
        <4>2. i = j
          BY <2>3, <2>4, <3>1, <4>1
        <4>3. Place(w) = Place(v)
          BY <2>3, <2>4, <4>2
        <4>4. Place(w)[k] \in Int
          BY <1>3, <2>3, <2>5
        <4> QED
          BY <3>1, <4>3, <4>4
      <3> QED
        BY <3>2, <3>3
    <2> QED
      BY <2>6, <2>7 DEF After
  <1> QED
    BY <1>5, <1>6

----------------------------------------------------------------------------
(* The last response that counts, of each voter.                             *)
GoodAt(i, placed, inspected, enforce) == Good(EnrichedVote(i, onchainVote[i], placed, inspected), enforce)
LastGood(placed, inspected, enforce) ==
    {i \in Answers(onchainVote) :
        /\ GoodAt(i, placed, inspected, enforce)
        /\ \A j \in Answers(onchainVote) :
              GoodAt(j, placed, inspected, enforce) /\ responses[j].voter.id = responses[i].voter.id => j <= i}

(* These are the votes of the rows with a response.                          *)
AreVotes(W, placed, inspected) ==
    /\ \A w \in W : \E i \in Answers(onchainVote) : IsVote(w, i, placed, inspected)
    /\ \A i \in Answers(onchainVote) : \E w \in W : IsVote(w, i, placed, inspected)

(* Whether a vote stands does not depend on its weight.                      *)
LEMMA GoodSame ==
    ASSUME NEW i, NEW placed, NEW inspected, NEW w, IsVote(w, i, placed, inspected), NEW enforce
    PROVE  Good(w, enforce) <=> GoodAt(i, placed, inspected, enforce)
  BY DEF IsVote, SameButWeight, GoodAt, Good, InTerms

(* What a tally of the votes W counts.                                       *)
Counted(W, enforce) ==
    UNION {KeptVotes(ValidVotes(Payload.surveyTxId, Payload.details, Payload.roleWeighting, W, enforce), r) :
              r \in DOMAIN Payload.roleWeighting}

(* So what is counted are the last votes of each voter that stand.           *)
LEMMA CountedAre ==
    ASSUME SurveyTyped, StoredIsSent, Payload.linkValid,
           NEW inspected \in {{}, DOMAIN responses}, NEW W, AreVotes(W, DOMAIN responses, inspected),
           NEW enforce \in BOOLEAN, enforce => inspected = DOMAIN responses
    PROVE  {v.hash : v \in Counted(W, enforce)} = LastGood(DOMAIN responses, inspected, enforce)
  <1> DEFINE P == DOMAIN responses
             A == Answers(onchainVote)
             V == {w \in W : Valid(w, enforce)}
             counted == Counted(W, enforce)
  <1>1. ValidVotes(Payload.surveyTxId, Payload.details, Payload.roleWeighting, W, enforce) = V
    BY DEF ValidVotes, Valid
  <1>2. \A r, v : v \in KeptVotes(V, r) <=>
           v \in V /\ RoleOf(v) = r /\ \A w \in V : RoleOf(w) = r /\ VoterKey(w) = VoterKey(v) => ~After(w, v)
    BY DEF KeptVotes, dedupeVotes
  <1>3. \A v \in V : RoleOf(v) \in DOMAIN Payload.roleWeighting
    BY DEF Valid, validateSurveyResponse
  <1> HIDE DEF V
  <1>4. counted = UNION {KeptVotes(V, r) : r \in DOMAIN Payload.roleWeighting}
    BY <1>1 DEF Counted
  <1> HIDE DEF counted
  <1>5. \A v : v \in counted <=>
           v \in V /\ \A w \in V : VoterKey(w) = VoterKey(v) /\ RoleOf(w) = RoleOf(v) => ~After(w, v)
    BY <1>2, <1>3, <1>4
  <1>6. ASSUME NEW w \in W, NEW i \in A, IsVote(w, i, P, inspected)
        PROVE  w.hash = i /\ (w \in V <=> GoodAt(i, P, inspected, enforce))
    <2>1. w.hash = i
      BY <1>6, VoteKnown DEF IsVote
    <2>2. Valid(w, enforce) <=> Good(w, enforce)
      BY <1>6, VoteValid
    <2>3. Good(w, enforce) <=> GoodAt(i, P, inspected, enforce)
      BY <1>6, GoodSame
    <2> QED
      BY <2>1, <2>2, <2>3 DEF V
  <1>7. ASSUME NEW w \in W, NEW i \in A, IsVote(w, i, P, inspected),
               NEW v \in W, NEW j \in A, IsVote(v, j, P, inspected)
        PROVE  /\ VoterKey(w) = VoterKey(v) /\ RoleOf(w) = RoleOf(v) <=> responses[i].voter.id = responses[j].voter.id
               /\ After(w, v) <=> ~(i <= j)
    <2>1. i \in Nat /\ j \in Nat
      BY AnswerKnown, ResponseKnown
    <2>2. After(w, v) <=> i > j
      BY <1>7, VotesCompared
    <2> QED
      BY <1>7, <2>1, <2>2, VotesCompared
  <1>8. V \subseteq W
    BY DEF V
  <1> HIDE DEF P, A
  <1>9. ASSUME NEW v \in W, NEW i \in A, IsVote(v, i, P, inspected)
        PROVE  v \in counted <=> i \in LastGood(P, inspected, enforce)
    <2>1. (\A w \in V : VoterKey(w) = VoterKey(v) /\ RoleOf(w) = RoleOf(v) => ~After(w, v)) <=>
          \A j \in A : GoodAt(j, P, inspected, enforce) /\ responses[j].voter.id = responses[i].voter.id => j <= i
      <3>1. ASSUME \A w \in V : VoterKey(w) = VoterKey(v) /\ RoleOf(w) = RoleOf(v) => ~After(w, v),
                   NEW j \in A, GoodAt(j, P, inspected, enforce), responses[j].voter.id = responses[i].voter.id
            PROVE  j <= i
        <4>1. PICK w \in W : IsVote(w, j, P, inspected)
          BY DEF AreVotes, A, P
        <4> QED
          BY <1>6, <1>7, <1>9, <3>1, <4>1
      <3>2. ASSUME \A j \in A :
                         GoodAt(j, P, inspected, enforce) /\ responses[j].voter.id = responses[i].voter.id => j <= i,
                   NEW w \in V, VoterKey(w) = VoterKey(v) /\ RoleOf(w) = RoleOf(v)
            PROVE  ~After(w, v)
        <4>1. PICK j \in A : IsVote(w, j, P, inspected)
          BY <1>8 DEF AreVotes, A, P
        <4> QED
          BY <1>6, <1>7, <1>8, <1>9, <3>2, <4>1
      <3> QED
        BY <3>1, <3>2
    <2>2. v \in V <=> GoodAt(i, P, inspected, enforce)
      BY <1>6, <1>9
    <2>3. i \in LastGood(P, inspected, enforce) <=>
            /\ GoodAt(i, P, inspected, enforce)
            /\ \A j \in A :
                     GoodAt(j, P, inspected, enforce) /\ responses[j].voter.id = responses[i].voter.id => j <= i
      BY DEF LastGood, A
    <2> QED
      BY <1>5, <2>1, <2>2, <2>3
  <1>10. \A v \in counted : \E i \in LastGood(P, inspected, enforce) : v.hash = i
    <2> TAKE v \in counted
    <2>1. v \in W
      BY <1>5, <1>8
    <2>2. PICK i \in A : IsVote(v, i, P, inspected)
      BY <2>1 DEF AreVotes, A, P
    <2> QED
      BY <1>6, <1>9, <2>1, <2>2
  <1>11. \A i \in LastGood(P, inspected, enforce) : \E v \in counted : v.hash = i
    <2> TAKE i \in LastGood(P, inspected, enforce)
    <2>1. i \in A
      BY DEF LastGood, A
    <2>2. PICK v \in W : IsVote(v, i, P, inspected)
      BY <2>1 DEF AreVotes, A, P
    <2> QED
      BY <1>6, <1>9, <2>1, <2>2
  <1> QED
    BY <1>10, <1>11 DEF P, counted

(* The votes of the rows are their votes ...                                 *)
LEMMA EnrichedAre ==
    ASSUME NEW placed, NEW inspected
    PROVE  AreVotes(enrichSurveyTallyVotes(onchainVote, placed, inspected), placed, inspected)
  BY DEF AreVotes, enrichSurveyTallyVotes, IsVote, SameButWeight

(* ... and so they are with weights.                                         *)
LEMMA WeightedAre ==
    ASSUME NEW placed, NEW inspected, NEW roles, NEW e, NEW now, NEW loaded, NEW provisional
    PROVE  AreVotes(ApplyWeights(enrichSurveyTallyVotes(onchainVote, placed, inspected),
                                 roles, e, now, loaded, provisional), placed, inspected)
  <1> DEFINE W(v) == Weighted(v, roles, e, now, loaded, provisional)
             E(i) == EnrichedVote(i, onchainVote[i], placed, inspected)
             votes == enrichSurveyTallyVotes(onchainVote, placed, inspected)
             weighted == ApplyWeights(votes, roles, e, now, loaded, provisional)
  <1>1. \A i : SameButWeight(W(E(i)), E(i))
    BY WeightedSame
  <1>2. votes = {E(i) : i \in Answers(onchainVote)} /\ weighted = {W(v) : v \in votes}
    BY DEF enrichSurveyTallyVotes, ApplyWeights
  <1>3. \A i, w : IsVote(w, i, placed, inspected) <=> i \in Answers(onchainVote) /\ SameButWeight(w, E(i))
    BY DEF IsVote
  <1> HIDE DEF W, E, votes, weighted
  <1> QED
    BY <1>1, <1>2, <1>3 DEF AreVotes, votes, weighted

(* What LastValidCounts asks for are the last votes that stand, too.         *)
LEMMA StandingAre ==
    ASSUME NEW placed, NEW inspected, NEW enforce, NEW W, AreVotes(W, placed, inspected)
    PROVE  {v.hash : v \in {w \in W : Good(w, enforce) /\ \A x \in W :
                               Good(x, enforce) /\ x.voter = w.voter => x.hash <= w.hash}}
           = LastGood(placed, inspected, enforce)
  <1> DEFINE A == Answers(onchainVote)
             S == {w \in W : Good(w, enforce) /\ \A x \in W :
                               Good(x, enforce) /\ x.voter = w.voter => x.hash <= w.hash}
  <1>1. ASSUME NEW w \in W, NEW i \in A, IsVote(w, i, placed, inspected)
        PROVE  w.hash = i /\ w.voter = <<responses[i].voter.id, "id">>
               /\ (Good(w, enforce) <=> GoodAt(i, placed, inspected, enforce))
    BY <1>1, VoteKnown, GoodSame DEF IsVote
  <1>2. \A w \in W : \E i \in A : IsVote(w, i, placed, inspected)
    BY DEF AreVotes
  <1>3. \A i \in A : \E w \in W : IsVote(w, i, placed, inspected)
    BY DEF AreVotes
  <1> HIDE DEF A
  <1>4. ASSUME NEW w \in W, NEW i \in A, IsVote(w, i, placed, inspected)
        PROVE  w \in S <=> i \in LastGood(placed, inspected, enforce)
    <2>1. ASSUME w \in S PROVE i \in LastGood(placed, inspected, enforce)
      <3>1. ASSUME NEW j \in A, GoodAt(j, placed, inspected, enforce),
                   responses[j].voter.id = responses[i].voter.id
            PROVE  j <= i
        <4>1. PICK x \in W : IsVote(x, j, placed, inspected)
          BY <1>3
        <4>2. x.hash = j /\ x.voter = w.voter /\ Good(x, enforce) /\ w.hash = i
          BY <1>1, <1>4, <3>1, <4>1
        <4> QED
          BY <2>1, <4>2
      <3>2. GoodAt(i, placed, inspected, enforce)
        BY <1>1, <1>4, <2>1
      <3> QED
        BY <3>1, <3>2 DEF LastGood, A
    <2>2. ASSUME i \in LastGood(placed, inspected, enforce) PROVE w \in S
      <3>1. /\ GoodAt(i, placed, inspected, enforce)
            /\ \A j \in A :
                     GoodAt(j, placed, inspected, enforce) /\ responses[j].voter.id = responses[i].voter.id => j <= i
        BY <2>2 DEF LastGood, A
      <3>2. ASSUME NEW x \in W, Good(x, enforce), x.voter = w.voter PROVE x.hash <= w.hash
        <4>1. PICK j \in A : IsVote(x, j, placed, inspected)
          BY <1>2
        <4>2. x.hash = j /\ w.hash = i /\ GoodAt(j, placed, inspected, enforce)
              /\ x.voter = <<responses[j].voter.id, "id">> /\ w.voter = <<responses[i].voter.id, "id">>
          BY <1>1, <1>4, <3>2, <4>1
        <4>3. responses[j].voter.id = responses[i].voter.id
          <5>1. <<responses[j].voter.id, "id">> = <<responses[i].voter.id, "id">>
            BY <3>2, <4>2
          <5> HIDE DEF S
          <5> QED
            BY ONLY <5>1
        <4>4. j <= i
          BY <3>1, <4>2, <4>3
        <4> QED
          BY <4>2, <4>4
      <3> QED
        BY <1>1, <1>4, <3>1, <3>2
    <2> QED
      BY <2>1, <2>2
  <1>5. \A i \in LastGood(placed, inspected, enforce) : i \in A
    BY DEF LastGood, A
  <1>6. S \subseteq W
    OBVIOUS
  <1> HIDE DEF S
  <1>7. \A v \in S : \E i \in LastGood(placed, inspected, enforce) : v.hash = i
    BY <1>1, <1>2, <1>4, <1>6
  <1>8. \A i \in LastGood(placed, inspected, enforce) : \E v \in S : v.hash = i
    BY <1>1, <1>3, <1>4, <1>5
  <1> QED
    BY <1>7, <1>8 DEF S

(* A weight with no error is of the epoch it was asked for.                  *)
LEMMA FinalWeights ==
    ASSUME NEW placed, NEW inspected, NEW roles, NEW e, NEW now, NEW loaded,
           NEW votes, votes = enrichSurveyTallyVotes(onchainVote, placed, inspected),
           NEW final, final = applyEndEpochWeights(votes, roles, e, now, loaded),
           PendingWarnings(final) = {}
    PROVE  /\ \A v \in votes : ~v.evidence.warning
           /\ \A w \in final : RoleOf(w) \in DOMAIN roles /\ roles[RoleOf(w)] = "StakeBased" => w.weight = StakeAt(e)
  <1> DEFINE W(v) == Weighted(v, roles, e, now, loaded, FALSE)
  <1>1. final = {W(v) : v \in votes}
    BY DEF applyEndEpochWeights, ApplyWeights
  <1>2. \A w \in final : ~w.evidence.warning /\ ~w.error
    BY DEF PendingWarnings
  <1>3. ASSUME NEW v \in votes
        PROVE  /\ ~v.evidence.warning
               /\ RoleOf(W(v)) \in DOMAIN roles /\ roles[RoleOf(W(v))] = "StakeBased" => W(v).weight = StakeAt(e)
    <2>1. PICK i \in Answers(onchainVote) : v = EnrichedVote(i, onchainVote[i], placed, inspected)
      BY DEF enrichSurveyTallyVotes
    <2>2. SameButWeight(W(v), v)
      BY <2>1, WeightedSame
    <2>3. ~W(v).evidence.warning /\ ~W(v).error
      BY <1>1, <1>2
    <2>4. ~v.evidence.warning /\ W(v).type = v.type
      BY <2>2, <2>3 DEF SameButWeight
    <2>6. RoleOf(W(v)) = RoleOf(v)
      BY <2>4 DEF RoleOf
    <2>7. ASSUME RoleOf(v) \in DOMAIN roles, roles[RoleOf(v)] = "StakeBased" PROVE W(v).weight = StakeAt(e)
      <3> DEFINE l == LoadedWeight(v, "StakeBased", e, now, loaded, FALSE)
      <3>1. None # "StakeBased"
        BY SurveyAssumption
      <3>2. W(v) = [v EXCEPT !.weight = l.weight, !.error = l.error]
        BY <2>7, <3>1 DEF Weighted
      <3>3. l = loadDrepWeights(v, e, loaded, FALSE)
        BY DEF LoadedWeight, loadSpoWeights
      <3> HIDE DEF l, W
      <3>4. W(v).weight = l.weight /\ W(v).error = l.error
        BY <2>1, <3>2 DEF EnrichedVote
      <3>5. ~l.error
        BY <2>3, <3>4
      <3> QED
        BY <3>3, <3>4, <3>5 DEF loadDrepWeights
    <2> HIDE DEF W
    <2> QED
      BY <2>4, <2>6, <2>7
  <1> HIDE DEF W
  <1> QED
    BY <1>1, <1>3

----------------------------------------------------------------------------
(* An answer is right, in each of the three phases.                          *)
LEMMA AnsweredRight ==
    ASSUME SurveyInv, NEW placed \in SUBSET DOMAIN responses, NEW inspected \in SUBSET DOMAIN responses,
           NEW loaded \in SUBSET Loads, Answered(placed, inspected, loaded)
    PROVE  SurveyInv'
  <1> DEFINE d == Payload.details
             roles == Payload.roleWeighting
             votes == enrichSurveyTallyVotes(onchainVote, placed, inspected)
             early == applyProvisionalWeights(votes, roles, surveyEpoch, loaded)
             final == applyEndEpochWeights(votes, roles, d.endEpoch, surveyEpoch, loaded)
             build(vs, phase) == buildSurveyTally(Payload.surveyTxId, d, roles, vs, phase, phase = "finalized")
             full == placed = DOMAIN responses /\ inspected \in {{}, DOMAIN responses}
             is == CASE surveyEpoch < d.endEpoch -> build(early, "provisional")
                     [] surveyEpoch >= d.endEpoch /\ PendingWarnings(final) # {} ->
                          build(early, "finalization_pending")
                     [] OTHER -> build(final, "finalized")
  <1>1. /\ reading /\ tally' = [of |-> votes, full |-> full, is |-> is]
        /\ reading' = FALSE /\ UNCHANGED <<surveyEpoch, linked, responses, onchainVote>>
    BY DEF Answered
  <1>2. SurveyTyped /\ StoredIsSent /\ Payload.linkValid
    BY <1>1 DEF SurveyInv, ReadIsOfSurvey
  <1>3. SurveyTyped' /\ StoredIsSent' /\ ReadIsOfSurvey'
    <2>1. SurveyTyped'
      BY <1>1, <1>2 DEF SurveyTyped
    <2>2. StoredIsSent'
      BY <1>1, <1>2 DEF StoredIsSent, StoredWays, Stored
    <2> QED
      BY <1>1, <2>1, <2>2 DEF ReadIsOfSurvey
  <1>4. d = linked.surveyDetails /\ d.endEpoch \in Int /\ surveyEpoch \in Int
    BY <1>2, PayloadKnown DEF SurveyTyped
  <1>5. AreVotes(votes, placed, inspected) /\ AreVotes(early, placed, inspected) /\ AreVotes(final, placed, inspected)
    BY EnrichedAre, WeightedAre DEF applyProvisionalWeights, applyEndEpochWeights
  <1>6. \A vs, phase : /\ build(vs, phase).phase = phase
                       /\ build(vs, phase).counted = Counted(vs, phase = "finalized")
    BY DEF buildSurveyTally, Counted
  <1> DEFINE enforce == is.phase = "finalized"
  <1>7. PICK vs : AreVotes(vs, placed, inspected) /\ is.counted = Counted(vs, enforce)
                  /\ (enforce => vs = final /\ surveyEpoch >= d.endEpoch /\ PendingWarnings(final) = {})
    <2> HIDE DEF build, votes, early, final, d
    <2>1. CASE surveyEpoch < d.endEpoch
      <3>1. is = build(early, "provisional")
        BY <1>4, <2>1
      <3> HIDE DEF is
      <3>2. is.phase = "provisional" /\ is.counted = Counted(early, "provisional" = "finalized")
        BY <1>6, <3>1
      <3>3. ("provisional" = "finalized") = FALSE /\ enforce = FALSE
        BY <3>2
      <3> QED
        BY <1>5, <3>2, <3>3
    <2>2. CASE surveyEpoch >= d.endEpoch /\ PendingWarnings(final) # {}
      <3>1. is = build(early, "finalization_pending")
        BY <1>4, <2>2
      <3> HIDE DEF is
      <3>2. is.phase = "finalization_pending" /\ is.counted = Counted(early, "finalization_pending" = "finalized")
        BY <1>6, <3>1
      <3>3. ("finalization_pending" = "finalized") = FALSE /\ enforce = FALSE
        BY <3>2
      <3> QED
        BY <1>5, <3>2, <3>3
    <2>3. CASE surveyEpoch >= d.endEpoch /\ PendingWarnings(final) = {}
      <3>1. is = build(final, "finalized")
        BY <1>4, <2>3
      <3> HIDE DEF is
      <3>2. is.phase = "finalized" /\ is.counted = Counted(final, "finalized" = "finalized")
        BY <1>6, <3>1
      <3>3. ("finalized" = "finalized") = TRUE /\ enforce = TRUE
        BY <3>2
      <3> QED
        BY <1>5, <2>3, <3>2, <3>3
    <2> QED
      BY <1>4, <2>1, <2>2, <2>3
  <1>8. enforce => /\ \A v \in votes : ~v.evidence.warning
                   /\ \A w \in final : RoleOf(w) \in DOMAIN roles /\ roles[RoleOf(w)] = "StakeBased" =>
                                         w.weight = StakeAt(d.endEpoch)
    BY <1>7, FinalWeights
  <1>9. \A ws, f : Counted(ws, f) \subseteq ws /\ \A v \in Counted(ws, f) : RoleOf(v) \in DOMAIN roles
    BY DEF Counted, KeptVotes, dedupeVotes, ValidVotes
  <1>10. full => {v.hash : v \in is.counted} = LastGood(placed, inspected, enforce)
    <2> SUFFICES ASSUME full PROVE {v.hash : v \in is.counted} = LastGood(placed, inspected, enforce)
      OBVIOUS
    <2> HIDE DEF is
    <2>1. CASE enforce => inspected = DOMAIN responses
      <3>1. placed = DOMAIN responses /\ inspected \in {{}, DOMAIN responses}
        OBVIOUS
      <3>2. AreVotes(vs, DOMAIN responses, inspected) /\ is.counted = Counted(vs, enforce) /\ enforce \in BOOLEAN
        BY <1>7, <3>1
      <3> HIDE DEF enforce, full
      <3>3. {v.hash : v \in Counted(vs, enforce)} = LastGood(DOMAIN responses, inspected, enforce)
        BY <1>2, <2>1, <3>1, <3>2, CountedAre
      <3> QED
        BY <3>1, <3>2, <3>3
    <2>2. CASE enforce /\ inspected = {}
      <3>1. Answers(onchainVote) = {}
        <4> SUFFICES ASSUME NEW i \in Answers(onchainVote) PROVE FALSE
          OBVIOUS
        <4>1. PICK v \in votes : IsVote(v, i, placed, inspected)
          BY <1>5 DEF AreVotes
        <4>2. v.evidence = buildLinkedVoteEvidence(EntriesOf(i, inspected), responses[i].voter)
          BY <4>1, VoteKnown DEF IsVote
        <4>3. v.evidence.warning
          BY <1>2, <2>2, <4>2, AnswerKnown, EvidenceKnown
        <4> QED
          BY <1>8, <2>2, <4>1, <4>3
      <3>2. vs = {}
        BY <1>7, <3>1 DEF AreVotes
      <3>3. is.counted = {}
        <4> QED
          BY <1>7, <1>9, <3>2
      <3> QED
        BY <3>1, <3>3 DEF LastGood
    <2> QED
      BY <2>1, <2>2
  <1> HIDE DEF is, votes
  <1>11. LastValidCounts'
    <2>1. \A v : Stands(v)' <=> Good(v, enforce)
      BY <1>1 DEF Stands, Good, InTerms, Payload, enforce
    <2>2. {v.hash : v \in {w \in votes : Good(w, enforce) /\ \A x \in votes :
                               Good(x, enforce) /\ x.voter = w.voter => x.hash <= w.hash}}
           = LastGood(placed, inspected, enforce)
      BY <1>5, StandingAre
    <2> QED
      BY <1>1, <1>10, <2>1, <2>2 DEF LastValidCounts
  <1>12. FinalIsEarned'
    <2> SUFFICES ASSUME enforce
                 PROVE  /\ surveyEpoch >= d.endEpoch
                        /\ \A v \in votes : ~v.evidence.warning
                        /\ \A v \in is.counted : roles[RoleOf(v)] = "StakeBased" => v.weight = StakeAt(d.endEpoch)
      BY <1>1, <1>4 DEF FinalIsEarned, Payload, RoleOf
    <2> QED
      BY <1>7, <1>8, <1>9
  <1> QED
    BY <1>3, <1>11, <1>12 DEF SurveyInv, SurveyRight

(* So every step keeps the invariant.                                        *)
LEMMA SurveyInvNext == SurveyInv /\ [SurveyNext]_surveyVars => SurveyInv'
  BY SurveyInvSteps, AnsweredRight

(* The tally of a survey counts of each responder the last response that is  *)
(* valid, and a finalized one hides no failed request.                       *)
THEOREM SurveyIsRight == SurveySpec => []SurveyRight
  <1>1. SurveyInv => SurveyRight
    BY DEF SurveyInv
  <1> QED
    BY SurveyInvInit, SurveyInvNext, <1>1, PTL DEF SurveySpec

================================================================================
