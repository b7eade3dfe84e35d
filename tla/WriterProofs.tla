------------------------------ MODULE WriterProofs ------------------------------
(***************************************************************************)
(* Proofs of what is written of delegations, DReps and voters:             *)
(*   - two processes never write delegations at once, for any number of    *)
(*     them, of runs and of connections, as long as no session is lost     *)
(*     under a run: however often the lock is given back on the wrong      *)
(*     connection, a session has it as often as runs rely on it, and only  *)
(*     one session has it;                                                 *)
(*   - the marks of inventory, snapshot and lifecycle are earned for any   *)
(*     number of DReps, certificates, epochs and faults, and with the jobs *)
(*     side by side: what a run marks is an epoch that was over when it    *)
(*     began, so that no certificate is added to what it has to store; and *)
(*     at each of its places, what it has still to do and what is stored   *)
(*     make up all of it;                                                  *)
(*   - the stored power of a voter is replaced by what a run knows of its  *)
(*     epoch: what it found is the epoch's, and what it found empty has    *)
(*     none in it.                                                         *)
(***************************************************************************)
EXTENDS WriterLock, DrepRegistry, VoterPower, FiniteSetTheorems, TLAPS

-------------------------------------------------------------------------------
(* The writer lock *)

Users(c) == {r \in Runs : Writing(r) /\ session[r] = c}

OwnSession == \A r \in Runs :
    Writing(r) => session[r] \in Sessions /\ session[r][1] = r[1]

IInv == TypeOK /\ OneSession /\ OwnSession /\ Covered

-------------------------------------------------------------------------------
(* The users of a session are finitely many: their number grows by one when  *)
(* a run takes the lock and shrinks by one when it gives it back.            *)
LEMMA UsersFinite == \A c \in Sessions :
    IsFiniteSet(Users(c)) /\ Cardinality(Users(c)) \in Nat
<1>1. IsFiniteSet(Runs)
  BY FS_Product, ParametersAssumption DEF Runs
<1>2. ASSUME NEW c \in Sessions PROVE IsFiniteSet(Users(c))
  BY <1>1, FS_Subset DEF Users
<1> QED
  BY <1>2, FS_CardinalityType

(* Every action keeps the types. *)
LEMMA TypeStep == TypeOK /\ [Next]_vars => TypeOK'
<1> SUFFICES ASSUME TypeOK, [Next]_vars PROVE TypeOK'
  OBVIOUS
<1> USE DEF TypeOK
<1>1. ASSUME NEW r \in Runs, Begin(r) PROVE TypeOK'
  BY <1>1 DEF Begin, Places, Results, Outcomes
<1>2. ASSUME NEW r \in Runs, Acquire(r) PROVE TypeOK'
  BY <1>2 DEF Acquire, Places, Results, Outcomes
<1>3. ASSUME NEW r \in Runs, Work(r) PROVE TypeOK'
  BY <1>3 DEF Work, Places, Results, Outcomes
<1>4. ASSUME NEW r \in Runs, Release(r) PROVE TypeOK'
  <2>1. /\ pc' \in [Runs -> Places] /\ session' \in [Runs -> Sessions \cup {NoSession}]
        /\ first' = first /\ last' = last /\ recorded' = recorded /\ job' = job
    BY <1>4 DEF Release, Places, Results, Outcomes
  <2>2. held' \in [Sessions -> Nat]
    BY <1>4 DEF Release, Unlocked
  <2> QED BY <2>1, <2>2
<1>5. ASSUME NEW r \in Runs, Retry(r) PROVE TypeOK'
  BY <1>5 DEF Retry, Places, Results, Outcomes
<1>6. ASSUME NEW r \in Runs, Record(r) PROVE TypeOK'
  BY <1>6 DEF Record, Outcome, Places, Results, Outcomes
<1>7. ASSUME NEW r \in Runs, Ends(r) PROVE TypeOK'
  BY <1>7 DEF Ends, Places, Results, Outcomes
<1>8. ASSUME NEW c \in Sessions, SessionEnds(c) PROVE TypeOK'
  BY <1>8 DEF SessionEnds, run
<1>9. ASSUME NEW p \in Processes, Crash(p) PROVE TypeOK'
  BY <1>9 DEF Crash, Places, Results, Outcomes
<1>10. CASE UNCHANGED vars
  BY <1>10 DEF vars, run
<1> QED
  BY <1>1, <1>2, <1>3, <1>4, <1>5, <1>6, <1>7, <1>8, <1>9, <1>10 DEF Next

(* A step that leaves the lock and who uses it alone keeps the invariant.    *)
LEMMA UsersSame ==
    ASSUME IInv, TypeOK', held' = held,
           \A r \in Runs : Writing(r)' = Writing(r),
           \A r \in Runs : Writing(r) => session'[r] = session[r]
    PROVE  (OneSession /\ OwnSession /\ Covered)'
<1>1. \A c \in Sessions : Users(c)' = Users(c)
  BY DEF Users
<1>2. Covered'
  BY <1>1 DEF IInv, Covered, Users
<1> QED
  BY <1>2 DEF IInv, OneSession, OwnSession

-------------------------------------------------------------------------------
(* Taking and giving back the lock *)

LEMMA AcquireStep ==
    ASSUME IInv, TypeOK', NEW r \in Runs, Acquire(r)
    PROVE  (OneSession /\ OwnSession /\ Covered)'
<1>1. PICK c \in Sessions :
        /\ pc[r] = "acquire" /\ c[1] = r[1]
        /\ IF Granted(c)
           THEN /\ held' = [held EXCEPT ![c] = @ + 1]
                /\ pc' = [pc EXCEPT ![r] = "work"]
                /\ session' = [session EXCEPT ![r] = c]
           ELSE /\ pc' = [pc EXCEPT ![r] = "next"]
                /\ UNCHANGED <<held, session>>
  BY DEF Acquire
<1>2. CASE ~Granted(c)
  <2>1. held' = held /\ session' = session /\ pc' = [pc EXCEPT ![r] = "next"]
    BY <1>1, <1>2
  <2>2. \A s \in Runs : Writing(s)' = Writing(s)
    BY <1>1, <2>1 DEF Writing, IInv, TypeOK
  <2>3. \A s \in Runs : Writing(s) => session'[s] = session[s]
    BY <1>1, <2>1 DEF Writing, IInv, TypeOK
  <2> QED
    BY <2>1, <2>2, <2>3, UsersSame
<1>3. CASE Granted(c)
  <2>1. held' = [held EXCEPT ![c] = @ + 1]
    BY <1>1, <1>3
  <2>2. pc' = [pc EXCEPT ![r] = "work"] /\ session' = [session EXCEPT ![r] = c]
    BY <1>1, <1>3
  <2>3. OneSession'
    BY <1>3, <2>1 DEF OneSession, Granted, IInv, TypeOK
  <2>4. \A s \in Runs \ {r} : pc'[s] = pc[s] /\ session'[s] = session[s]
    BY <2>2 DEF IInv, TypeOK
  <2>5. session'[r] = c /\ Writing(r)' /\ ~Writing(r)
    BY <1>1, <2>2 DEF Writing, IInv, TypeOK
  <2>6. OwnSession'
    BY <1>1, <2>4, <2>5 DEF OwnSession, IInv, Writing
  <2>7. Users(c)' = Users(c) \cup {r} /\ r \notin Users(c)
    BY <2>4, <2>5 DEF Users, Writing
  <2>8. \A d \in Sessions \ {c} : Users(d)' = Users(d)
    BY <2>4, <2>5 DEF Users, Writing
  <2>9. Cardinality(Users(c)') = Cardinality(Users(c)) + 1
    BY <2>7, UsersFinite, FS_AddElement
  <2>10. ASSUME NEW d \in Sessions PROVE Cardinality(Users(d)') <= held'[d]
    <3>1. Cardinality(Users(d)) <= held[d] /\ held[d] \in Nat
      BY DEF IInv, Covered, Users, TypeOK
    <3>2. CASE d = c
      BY <3>1, <3>2, <2>9, <2>1, UsersFinite DEF IInv, TypeOK
    <3>3. CASE d # c
      BY <3>1, <3>3, <2>8, <2>1 DEF IInv, TypeOK
    <3> QED BY <3>2, <3>3
  <2>11. Covered'
    BY <2>10 DEF Covered, Users
  <2> QED BY <2>3, <2>6, <2>11
<1> QED BY <1>2, <1>3

(* Unlocking on another session than the run's changes nothing, as only that *)
(* of the run has the lock.                                                  *)
LEMMA ReleaseStep ==
    ASSUME IInv, TypeOK', NEW r \in Runs, Release(r)
    PROVE  (OneSession /\ OwnSession /\ Covered)'
<1>1. /\ pc[r] = "release" /\ pc' = [pc EXCEPT ![r] = "next"]
      /\ session' = [session EXCEPT ![r] = NoSession]
  BY DEF Release
<1>2. /\ Writing(r) /\ ~Writing(r)'
      /\ \A s \in Runs \ {r} : pc'[s] = pc[s] /\ session'[s] = session[s]
  BY <1>1 DEF Writing, IInv, TypeOK
<1>3. PICK e \in Sessions : e = session[r] /\ r \in Users(e)
  BY <1>2 DEF IInv, OwnSession, Users
<1>4. Users(e)' = Users(e) \ {r} /\ \A d \in Sessions \ {e} : Users(d)' = Users(d)
  BY <1>2, <1>3 DEF Users, Writing
<1>5. Cardinality(Users(e)') = Cardinality(Users(e)) - 1 /\ Cardinality(Users(e)) \in Nat
  BY <1>3, <1>4, UsersFinite, FS_RemoveElement
<1>6. Cardinality(Users(e)) >= 1
  BY <1>3, UsersFinite, FS_RemoveElement, FS_CardinalityType, FS_EmptySet
<1>7. held[e] > 0 /\ \A d \in Sessions \ {e} : held[d] = 0
  BY <1>3, <1>5, <1>6 DEF IInv, OneSession, Covered, TypeOK, Users
<1>8. /\ \A d \in Sessions \ {e} : held'[d] = held[d]
      /\ held'[e] \in {held[e], held[e] - 1}
  BY <1>3, <1>7 DEF Release, Unlocked, IInv, TypeOK
<1>9. OneSession'
  BY <1>3, <1>7, <1>8 DEF OneSession
<1>10. OwnSession'
  BY <1>2 DEF OwnSession, IInv, Writing
<1>11. ASSUME NEW d \in Sessions PROVE Cardinality(Users(d)') <= held'[d]
  <2>1. Cardinality(Users(d)) <= held[d] /\ held[d] \in Nat
    BY DEF IInv, Covered, Users, TypeOK
  <2>2. CASE d = e
    BY <2>1, <2>2, <1>5, <1>8
  <2>3. CASE d # e
    BY <2>1, <2>3, <1>4, <1>8
  <2> QED BY <2>2, <2>3
<1>12. Covered'
  BY <1>11 DEF Covered, Users
<1> QED BY <1>9, <1>10, <1>12

(* A session ends that no run relies on; with a process end its sessions and *)
(* the runs that rely on them.                                               *)
LEMMA EndStep ==
    ASSUME ~Losses, IInv, TypeOK',
           (\E c \in Sessions : SessionEnds(c)) \/ (\E p \in Processes : Crash(p))
    PROVE  (OneSession /\ OwnSession /\ Covered)'
<1>1. ASSUME NEW c \in Sessions, SessionEnds(c) PROVE (OneSession /\ OwnSession /\ Covered)'
  <2>1. held' = [held EXCEPT ![c] = 0] /\ pc' = pc /\ session' = session
    BY <1>1 DEF SessionEnds, run
  <2>2. Users(c) = {}
    BY <1>1 DEF SessionEnds, Users
  <2>3. \A d \in Sessions : Users(d)' = Users(d)
    BY <2>1 DEF Users, Writing
  <2>4. ASSUME NEW d \in Sessions PROVE Cardinality(Users(d)') <= held'[d]
    <3>1. CASE d = c
      BY <3>1, <2>1, <2>2, <2>3, FS_EmptySet DEF IInv, TypeOK
    <3>2. CASE d # c
      BY <3>2, <2>1, <2>3 DEF IInv, TypeOK, Covered, Users
    <3> QED BY <3>1, <3>2
  <2>5. OneSession' /\ OwnSession'
    BY <2>1 DEF IInv, TypeOK, OneSession, OwnSession, Writing
  <2> QED BY <2>4, <2>5 DEF Covered, Users
<1>2. ASSUME NEW p \in Processes, Crash(p) PROVE (OneSession /\ OwnSession /\ Covered)'
  <2>1. /\ held' = [c \in Sessions |-> IF c[1] = p THEN 0 ELSE held[c]]
        /\ pc' = [r \in Runs |-> IF r[1] = p THEN "idle" ELSE pc[r]]
        /\ session' = [r \in Runs |-> IF r[1] = p THEN NoSession ELSE session[r]]
    BY <1>2 DEF Crash
  <2>2. \A r \in Runs : Writing(r)' <=> (r[1] # p /\ Writing(r))
    BY <2>1 DEF Writing
  <2>3. \A c \in Sessions : Users(c)' = IF c[1] = p THEN {} ELSE Users(c)
    BY <2>1, <2>2 DEF Users, IInv, OwnSession
  <2>4. ASSUME NEW c \in Sessions PROVE Cardinality(Users(c)') <= held'[c]
    <3>1. CASE c[1] = p
      <4>1. Users(c)' = {} /\ held'[c] = 0
        BY <3>1, <2>1, <2>3
      <4> QED BY <4>1, FS_EmptySet
    <3>2. CASE c[1] # p
      BY <3>2, <2>1, <2>3 DEF IInv, Covered, Users
    <3> QED BY <3>1, <3>2
  <2>5. OneSession'
    BY <2>1 DEF IInv, TypeOK, OneSession
  <2>6. OwnSession'
    BY <2>1, <2>2 DEF IInv, OwnSession
  <2> QED BY <2>4, <2>5, <2>6 DEF Covered, Users
<1> QED BY <1>1, <1>2

-------------------------------------------------------------------------------
LEMMA InductiveStep == ~Losses /\ IInv /\ [Next]_vars => IInv'
<1> SUFFICES ASSUME ~Losses, IInv, [Next]_vars PROVE IInv'
  OBVIOUS
<1>1. TypeOK'
  BY TypeStep DEF IInv
<1> DEFINE Rest == (OneSession /\ OwnSession /\ Covered)'
<1>2. ASSUME NEW r \in Runs, Begin(r) \/ Work(r) \/ Retry(r) \/ Record(r) \/ Ends(r)
      PROVE  Rest
  <2>1. held' = held
    BY <1>2 DEF Begin, Work, Retry, Record, Ends
  <2>2. \A s \in Runs : Writing(s)' = Writing(s)
    BY <1>2 DEF Begin, Work, Retry, Record, Ends, Writing, IInv, TypeOK
  <2>3. \A s \in Runs : Writing(s) => session'[s] = session[s]
    BY <1>2 DEF Begin, Work, Retry, Record, Ends, Writing, IInv, TypeOK
  <2> QED
    BY <1>1, <2>1, <2>2, <2>3, UsersSame
<1>3. ASSUME UNCHANGED vars PROVE Rest
  <2>1. /\ \A s \in Runs : Writing(s)' = Writing(s)
        /\ \A s \in Runs : Writing(s) => session'[s] = session[s]
        /\ held' = held
    BY <1>3 DEF vars, run, Writing
  <2> QED
    BY <1>1, <2>1, UsersSame
<1>4. Rest
  BY <1>1, <1>2, <1>3, AcquireStep, ReleaseStep, EndStep DEF Next
<1> QED
  BY <1>1, <1>4 DEF IInv

LEMMA Start == Init => IInv
<1> SUFFICES ASSUME Init PROVE IInv
  OBVIOUS
<1>1. TypeOK
  BY DEF Init, TypeOK, Places, Results, Outcomes
<1>2. \A r \in Runs : ~Writing(r)
  BY DEF Init, Writing
<1>3. \A c \in Sessions : Cardinality(Users(c)) <= held[c]
  <2>1. \A c \in Sessions : Users(c) = {} /\ held[c] = 0
    BY <1>2 DEF Users, Init
  <2> QED BY <2>1, FS_EmptySet
<1> QED
  BY <1>1, <1>2, <1>3 DEF IInv, OneSession, OwnSession, Covered, Users, Init

(* The types, for all parameters. *)
THEOREM TypeCorrect == Spec => []TypeOK
<1>1. Init => TypeOK
  BY Start DEF IInv
<1> QED
  BY <1>1, TypeStep, PTL DEF Spec

(* A session has the lock as often as runs rely on it, and only one has it   *)
(* (tryAcquireDelegationWriterLock, releaseDelegationWriterLock).            *)
THEOREM LockCovers == ~Losses /\ Spec => [](OneSession /\ Covered)
<1>1. IInv => OneSession /\ Covered
  BY DEF IInv
<1>2. ASSUME ~Losses PROVE Spec => [](OneSession /\ Covered)
  <2>1. IInv /\ [Next]_vars => IInv'
    BY <1>2, InductiveStep
  <2> QED
    BY <1>1, <2>1, Start, PTL DEF Spec
<1> QED
  BY <1>2

(* Two processes never write delegations at once. *)
THEOREM Exclusion == ~Losses /\ Spec => []OneProcess
<1>1. IInv => OneProcess
  <2> SUFFICES ASSUME IInv, NEW r \in Runs, NEW s \in Runs, Writing(r), Writing(s)
               PROVE  r[1] = s[1]
    BY DEF OneProcess
  <2>1. ASSUME NEW t \in Runs, Writing(t)
        PROVE  /\ session[t] \in Sessions /\ session[t][1] = t[1]
               /\ held[session[t]] > 0
    <3> DEFINE e == session[t]
    <3>1. e \in Sessions /\ e[1] = t[1] /\ t \in Users(e)
      BY <2>1 DEF IInv, OwnSession, Users
    <3>2. Cardinality(Users(e)) # 0 /\ Cardinality(Users(e)) \in Nat
      BY <3>1, UsersFinite, FS_EmptySet
    <3>3. Cardinality(Users(e)) <= held[e] /\ held[e] \in Nat
      BY <3>1 DEF IInv, Covered, Users, TypeOK
    <3> QED BY <3>1, <3>2, <3>3
  <2>2. session[r] = session[s]
    BY <2>1 DEF IInv, OneSession
  <2> QED
    BY <2>1, <2>2
<1>2. ASSUME ~Losses PROVE Spec => []OneProcess
  <2>1. IInv /\ [Next]_vars => IInv'
    BY <1>2, InductiveStep
  <2> QED
    BY <1>1, <2>1, Start, PTL DEF Spec
<1> QED
  BY <1>2

-------------------------------------------------------------------------------
(* The registry of DReps *)

RegistryPlaces == {"idle", "list", "each", "lookup", "read", "rows"}
RegistryRuns == [pc : RegistryPlaces, epoch : Int, ids : SUBSET Registrable, failed : SUBSET Registrable,
         fetched : BOOLEAN, snapshot : BOOLEAN]

RegistryTypeOK ==
    /\ epochNo \in Int
    /\ certs \subseteq [drep : Registrable, epoch : Int]
    /\ info \in [Registrable -> {None, "bare", "filled"}]
    /\ marks \in [Marks -> SUBSET Int]
    /\ worker \in [Kinds -> RegistryRuns]

(* RegistryRuns work on epochs that are over, and those alone are marked.            *)
EpochsOver ==
    /\ \A c \in certs : c.epoch <= epochNo
    /\ \A k \in Marks : \A e \in marks[k] : e < epochNo
    /\ \A k \in Kinds : worker[k].pc # "idle" => worker[k].epoch < epochNo

Due(k) == {c \in certs : c.epoch <= worker[k].epoch}

(* What the inventory has still to do, or has done.                          *)
InventoryAccounts == \A c \in Due("inventory") :
    /\ worker["inventory"].pc = "each" => c.drep \in worker["inventory"].ids
    /\ worker["inventory"].pc \in {"lookup", "read"} => c.drep \in Stored
    /\ worker["inventory"].pc = "rows" =>
         \/ c.drep \in worker["inventory"].ids
         \/ [drep |-> c.drep, epoch |-> worker["inventory"].epoch] \in snapshots

(* What the lifecycle sync has still to do, has done, or failed to do.       *)
LifecycleAccounts == \A c \in Due("lifecycle") :
    worker["lifecycle"].pc = "each" =>
        \/ c.drep \in worker["lifecycle"].ids \/ c.drep \in worker["lifecycle"].failed
        \/ c \in events

RegistryInv == RegistryTypeOK /\ EpochsOver /\ InventoryAccounts /\ LifecycleAccounts /\ EpochMarksEarned

-------------------------------------------------------------------------------
(* A row of Drep is never taken away. *)
LEMMA RowsStay ==
    ASSUME RegistryTypeOK, [RegistryNext]_registryVars
    PROVE  Stored \subseteq Stored'
<1>1. CASE CreateMissing
  BY <1>1, RegistryAssumption DEF CreateMissing, Stored, RegistryTypeOK
<1>2. CASE LookUpInfo
  BY <1>2, RegistryAssumption DEF LookUpInfo, Stored, RegistryTypeOK
<1>3. ASSUME NEW d \in Registrable, InfoRow(d) PROVE Stored \subseteq Stored'
  BY <1>3, RegistryAssumption DEF InfoRow, Stored, RegistryTypeOK
<1>4. ASSUME NEW d \in Registrable, EnsureDrep(d) PROVE Stored \subseteq Stored'
  BY <1>4, RegistryAssumption DEF EnsureDrep, Stored, RegistryTypeOK
<1>5. ASSUME info' = info PROVE Stored \subseteq Stored'
  BY <1>5 DEF Stored
<1>6. ASSUME ~CreateMissing, ~LookUpInfo,
             ~\E d \in Registrable : InfoRow(d) \/ EnsureDrep(d)
      PROVE  info' = info
  BY <1>6 DEF RegistryNext, BeginInventory, BeginInfo, BeginLifecycle, BeginStep, MarkSnapshot,
     MarkInfo, MarkLifecycle, RegistryEpochTurns, ListDreps, ReadTable, StepDies, SnapshotRow,
     LifecycleOf, Certify, registryVars
<1> QED
  BY <1>1, <1>2, <1>3, <1>4, <1>5, <1>6

(* What a step makes of the run of a job: the record stays one of RegistryRuns, and   *)
(* the fields that are not assigned keep their values.                       *)
LEMMA Moved ==
    ASSUME NEW w \in RegistryRuns, NEW p \in RegistryPlaces, NEW v, v = [w EXCEPT !.pc = p]
    PROVE  v \in RegistryRuns /\ v.pc = p /\ v.epoch = w.epoch /\ v.ids = w.ids /\ v.failed = w.failed
BY DEF RegistryRuns

(* The run of a job that takes a DRep off its list. *)
LEMMA Shortened ==
    ASSUME NEW w \in RegistryRuns, NEW d \in Registrable, NEW v, v = [w EXCEPT !.ids = @ \ {d}]
    PROVE  /\ v \in RegistryRuns /\ v.pc = w.pc /\ v.epoch = w.epoch /\ v.ids = w.ids \ {d}
           /\ v.failed = w.failed
BY DEF RegistryRuns

(* The run of the lifecycle sync that notes what came of a DRep. *)
LEMMA Noted ==
    ASSUME NEW w \in RegistryRuns, NEW c \in BOOLEAN, NEW v, v = [w EXCEPT !.fetched = c]
    PROVE  /\ v \in RegistryRuns /\ v.pc = w.pc /\ v.epoch = w.epoch /\ v.ids = w.ids
           /\ v.failed = w.failed
BY DEF RegistryRuns

(* A run that is over. *)
LEMMA Freed == Free \in RegistryRuns /\ Free.pc = "idle"
<1>1. Free \in RegistryRuns
  BY DEF RegistryRuns, Free, RegistryPlaces
<1>2. Free.pc = "idle"
  BY DEF Free
<1> QED
  BY <1>1, <1>2

(* A step changes the run of one job. *)
LEMMA MoveTyped ==
    ASSUME worker \in [Kinds -> RegistryRuns], NEW k \in Kinds, NEW w \in RegistryRuns, Goes(k, w)
    PROVE  /\ worker' \in [Kinds -> RegistryRuns] /\ worker'[k] = w
           /\ \A o \in Kinds \ {k} : worker'[o] = worker[o]
BY DEF Goes

(* What LifecycleOf makes of the run: its DRep leaves the list, and is among *)
(* the failed unless its certificates are stored.                            *)
LEMMA LifecycleMove ==
    ASSUME RegistryTypeOK, NEW d \in Registrable, LifecycleOf(d)
    PROVE  \E v \in RegistryRuns :
             /\ Goes("lifecycle", v)
             /\ v.pc = worker["lifecycle"].pc /\ v.epoch = worker["lifecycle"].epoch
             /\ v.ids = worker["lifecycle"].ids \ {d}
             /\ \/ /\ v.failed = worker["lifecycle"].failed
                   /\ events' = events \cup {c \in certs : c.drep = d}
                \/ v.failed = worker["lifecycle"].failed \cup {d} /\ UNCHANGED events
<1>1. PICK w \in RegistryRuns : w = worker["lifecycle"]
  BY DEF RegistryTypeOK, Kinds
<1>2. PICK r : r = [w EXCEPT !.ids = @ \ {d}]
  OBVIOUS
<1>3. /\ r \in RegistryRuns /\ r.pc = w.pc /\ r.epoch = w.epoch /\ r.ids = w.ids \ {d}
      /\ r.failed = w.failed
  BY <1>2, Shortened
<1>4. PICK updates : updates = {c \in certs : c.drep = d}
  OBVIOUS
<1>5. ASSUME events' = events \cup updates,
             Goes("lifecycle", [r EXCEPT !.fetched = @ \/ updates # {}])
      PROVE  \E v \in RegistryRuns :
               /\ Goes("lifecycle", v) /\ v.pc = r.pc /\ v.epoch = r.epoch /\ v.ids = r.ids
               /\ v.failed = r.failed
  <2>1. PICK c \in BOOLEAN : c = (r.fetched \/ updates # {})
    OBVIOUS
  <2>2. Goes("lifecycle", [r EXCEPT !.fetched = c])
    BY <1>5, <2>1, Zenon
  <2>3. PICK v : v = [r EXCEPT !.fetched = c]
    OBVIOUS
  <2>4. v \in RegistryRuns /\ v.pc = r.pc /\ v.epoch = r.epoch /\ v.ids = r.ids /\ v.failed = r.failed
    BY <1>3, <2>3, Noted
  <2> QED BY <2>2, <2>3, <2>4, Zenon
<1>6. ASSUME NEW fetched, fetched \in {FALSE, updates # {}},
             Goes("lifecycle", [r EXCEPT !.failed = @ \cup {d}, !.fetched = @ \/ fetched])
      PROVE  \E v \in RegistryRuns :
               /\ Goes("lifecycle", v) /\ v.pc = r.pc /\ v.epoch = r.epoch /\ v.ids = r.ids
               /\ v.failed = r.failed \cup {d}
  <2>1. PICK c \in BOOLEAN : c = (r.fetched \/ fetched)
    OBVIOUS
  <2>2. Goes("lifecycle", [r EXCEPT !.failed = @ \cup {d}, !.fetched = c])
    BY <1>6, <2>1, Zenon
  <2>3. PICK v : v = [r EXCEPT !.failed = @ \cup {d}, !.fetched = c]
    OBVIOUS
  <2>4. /\ v \in RegistryRuns /\ v.pc = r.pc /\ v.epoch = r.epoch /\ v.ids = r.ids
        /\ v.failed = r.failed \cup {d}
    BY <1>3, <2>3 DEF RegistryRuns
  <2> QED BY <2>2, <2>3, <2>4, Zenon
<1>7. \/ /\ events' = events \cup updates
         /\ Goes("lifecycle", [r EXCEPT !.fetched = @ \/ updates # {}])
      \/ /\ UNCHANGED events
         /\ \E fetched \in {FALSE, updates # {}} :
               Goes("lifecycle", [r EXCEPT !.failed = @ \cup {d}, !.fetched = @ \/ fetched])
  BY <1>1, <1>2, <1>4, Zenon DEF LifecycleOf
<1>8. CASE events' = events \cup updates /\ \E v \in RegistryRuns :
               /\ Goes("lifecycle", v) /\ v.pc = r.pc /\ v.epoch = r.epoch /\ v.ids = r.ids
               /\ v.failed = r.failed
  BY <1>8, <1>1, <1>3, <1>4, Zenon
<1>9. CASE UNCHANGED events /\ \E v \in RegistryRuns :
               /\ Goes("lifecycle", v) /\ v.pc = r.pc /\ v.epoch = r.epoch /\ v.ids = r.ids
               /\ v.failed = r.failed \cup {d}
  BY <1>9, <1>1, <1>3, <1>4, Zenon
<1> QED
  BY <1>5, <1>6, <1>7, <1>8, <1>9, Zenon

-------------------------------------------------------------------------------
Others(k) == \A o \in Kinds \ {k} : worker'[o] = worker[o]

(* A step of a job that begins. *)
LEMMA BeginMove ==
    ASSUME RegistryTypeOK, NEW k \in Kinds, NEW begins \in RegistryPlaces, BeginStep(k, begins)
    PROVE  /\ worker' \in [Kinds -> RegistryRuns] /\ Others(k)
           /\ worker'[k].pc = begins /\ worker'[k].epoch = epochNo - 1
<1>0. PICK e \in Int : e = epochNo - 1
  BY DEF RegistryTypeOK
<1>1. PICK b \in BOOLEAN : b = (epochNo - 1 \notin marks["drepSnapshotSyncedAt"])
  BY Zenon
<1>2. PICK v : v = [Free EXCEPT !.pc = begins, !.epoch = e, !.snapshot = b]
  OBVIOUS
<1>3. v \in RegistryRuns /\ v.pc = begins /\ v.epoch = e
  BY <1>2 DEF RegistryRuns, Free
<1>4. Goes(k, v)
  BY <1>0, <1>1, <1>2, Zenon DEF BeginStep
<1>5. worker' \in [Kinds -> RegistryRuns] /\ worker'[k] = v /\ Others(k)
  BY <1>3, <1>4, MoveTyped DEF RegistryTypeOK, Others
<1> QED
  BY <1>0, <1>3, <1>5

(* A step of a job that takes a list. *)
LEMMA LoadMove ==
    ASSUME RegistryTypeOK, NEW k \in Kinds, NEW p \in RegistryPlaces, NEW I \in SUBSET Registrable,
           Goes(k, [worker[k] EXCEPT !.pc = p, !.ids = I])
    PROVE  /\ worker' \in [Kinds -> RegistryRuns] /\ Others(k)
           /\ worker'[k].pc = p /\ worker'[k].epoch = worker[k].epoch /\ worker'[k].ids = I
<1>1. PICK v : v = [worker[k] EXCEPT !.pc = p, !.ids = I]
  OBVIOUS
<1>2. v \in RegistryRuns /\ v.pc = p /\ v.epoch = worker[k].epoch /\ v.ids = I
  <2>1. PICK w \in RegistryRuns : w = worker[k]
    BY DEF RegistryTypeOK
  <2> QED BY <1>1, <2>1 DEF RegistryRuns
<1>3. worker' \in [Kinds -> RegistryRuns] /\ worker'[k] = v /\ Others(k)
  BY <1>1, <1>2, MoveTyped DEF RegistryTypeOK, Others
<1> QED
  BY <1>2, <1>3

(* A step of a job that goes on to another place. *)
LEMMA ToMove ==
    ASSUME RegistryTypeOK, NEW k \in Kinds, NEW p \in RegistryPlaces, To(k, p)
    PROVE  /\ worker' \in [Kinds -> RegistryRuns] /\ Others(k)
           /\ worker'[k].pc = p /\ worker'[k].epoch = worker[k].epoch
<1>1. PICK v : v = [worker[k] EXCEPT !.pc = p]
  OBVIOUS
<1>2. v \in RegistryRuns /\ v.pc = p /\ v.epoch = worker[k].epoch
  BY <1>1, Moved DEF RegistryTypeOK
<1>3. worker' \in [Kinds -> RegistryRuns] /\ worker'[k] = v /\ Others(k)
  BY <1>1, <1>2, MoveTyped DEF RegistryTypeOK, Others, To
<1> QED
  BY <1>2, <1>3

(* A step of a job that is done with a DRep. *)
LEMMA DoneMove ==
    ASSUME RegistryTypeOK, NEW k \in Kinds, NEW d \in Registrable, Done(k, d)
    PROVE  /\ worker' \in [Kinds -> RegistryRuns] /\ Others(k)
           /\ worker'[k].pc = worker[k].pc /\ worker'[k].epoch = worker[k].epoch
           /\ worker'[k].ids = worker[k].ids \ {d}
<1>1. PICK v : v = [worker[k] EXCEPT !.ids = @ \ {d}]
  OBVIOUS
<1>2. /\ v \in RegistryRuns /\ v.pc = worker[k].pc /\ v.epoch = worker[k].epoch
      /\ v.ids = worker[k].ids \ {d}
  BY <1>1, Shortened DEF RegistryTypeOK
<1>3. worker' \in [Kinds -> RegistryRuns] /\ worker'[k] = v /\ Others(k)
  BY <1>1, <1>2, MoveTyped DEF RegistryTypeOK, Others, Done
<1> QED
  BY <1>2, <1>3

(* A run that dies. *)
LEMMA FreeMove ==
    ASSUME RegistryTypeOK, NEW k \in Kinds, Goes(k, Free)
    PROVE  worker' \in [Kinds -> RegistryRuns] /\ Others(k) /\ worker'[k].pc = "idle"
BY Freed, MoveTyped DEF RegistryTypeOK, Others

-------------------------------------------------------------------------------
(* A run keeps the epoch it began with, the one before the current.          *)
EpochKept ==
    /\ worker' \in [Kinds -> RegistryRuns]
    /\ \A k \in Kinds :
         \/ worker'[k].pc = "idle" \/ worker'[k].epoch = epochNo - 1
         \/ worker[k].pc # "idle" /\ worker'[k].epoch = worker[k].epoch

(* Every action keeps the epochs of the runs. *)
LEMMA EpochKeptStep == RegistryTypeOK /\ [RegistryNext]_registryVars => EpochKept
<1> SUFFICES ASSUME RegistryTypeOK, [RegistryNext]_registryVars PROVE EpochKept
  OBVIOUS
<1>1. ASSUME NEW k \in Kinds, worker' \in [Kinds -> RegistryRuns], Others(k),
             \/ worker'[k].pc = "idle" \/ worker'[k].epoch = epochNo - 1
             \/ worker[k].pc # "idle" /\ worker'[k].epoch = worker[k].epoch
      PROVE  EpochKept
  BY <1>1 DEF EpochKept, Others
<1>2. ASSUME UNCHANGED worker PROVE EpochKept
  BY <1>2 DEF EpochKept, RegistryTypeOK
<1> DEFINE I == "inventory"
<1>3. I \in Kinds /\ "info" \in Kinds /\ "lifecycle" \in Kinds
  BY DEF Kinds
<1>4. ASSUME NEW k \in Kinds, NEW begins \in RegistryPlaces, BeginStep(k, begins) PROVE EpochKept
  BY <1>1, <1>4, BeginMove
<1>5. CASE BeginInventory
  <2>1. BeginStep(I, "list") \/ BeginStep(I, "read")
    BY <1>5 DEF BeginInventory
  <2> QED BY <1>3, <1>4, <2>1 DEF RegistryPlaces
<1>6. CASE BeginInfo \/ BeginLifecycle
  <2>1. BeginStep("info", "read") \/ BeginStep("lifecycle", "list")
    BY <1>6 DEF BeginInfo, BeginLifecycle
  <2> QED BY <1>3, <1>4, <2>1 DEF RegistryPlaces
<1>7. CASE CreateMissing
  <2>1. PICK missing \in SUBSET Registrable : missing = worker[I].ids \ Stored
    BY <1>3 DEF RegistryTypeOK, RegistryRuns
  <2>2. Goes(I, [worker[I] EXCEPT !.pc = "lookup", !.ids = missing]) /\ worker[I].pc = "each"
    BY <1>7, <2>1, Zenon DEF CreateMissing
  <2>3. /\ worker' \in [Kinds -> RegistryRuns] /\ Others(I)
        /\ worker'[I].pc = "lookup" /\ worker'[I].epoch = worker[I].epoch
    BY <1>3, <2>2, LoadMove DEF RegistryPlaces
  <2> QED BY <1>1, <1>3, <2>2, <2>3
<1>8. ASSUME NEW k \in Kinds, NEW p \in RegistryPlaces, To(k, p), worker[k].pc # "idle" PROVE EpochKept
  BY <1>1, <1>8, ToMove
<1>9. CASE LookUpInfo
  <2>1. To(I, "read") \/ To(I, "idle")
    BY <1>9, Zenon DEF LookUpInfo
  <2> QED BY <1>3, <1>8, <1>9, <2>1 DEF RegistryPlaces, LookUpInfo
<1>10. CASE MarkSnapshot \/ MarkInfo \/ MarkLifecycle
  BY <1>3, <1>8, <1>10 DEF RegistryPlaces, MarkSnapshot, MarkInfo, MarkLifecycle
<1>11. ASSUME NEW k \in Kinds, ListDreps(k) \/ ReadTable(k) PROVE EpochKept
  <2>1. PICK p \in RegistryPlaces, J \in SUBSET Registrable :
          Goes(k, [worker[k] EXCEPT !.pc = p, !.ids = J])
    <3>1. Listed \in SUBSET Registrable /\ Stored \in SUBSET Registrable
      BY DEF Listed, Stored, RegistryTypeOK
    <3> QED BY <1>11, <3>1, Zenon DEF ListDreps, ReadTable, RegistryPlaces
  <2>2. worker' \in [Kinds -> RegistryRuns] /\ Others(k) /\ worker'[k].epoch = worker[k].epoch
    BY <2>1, LoadMove
  <2> QED BY <1>1, <1>11, <2>2 DEF ListDreps, ReadTable
<1>12. ASSUME NEW k \in Kinds, StepDies(k) PROVE EpochKept
  BY <1>1, <1>12, FreeMove DEF StepDies
<1>13. ASSUME NEW d \in Registrable, SnapshotRow(d) \/ InfoRow(d) PROVE EpochKept
  <2>1. PICK k \in Kinds : Done(k, d) /\ worker[k].pc = "rows"
    BY <1>3, <1>13 DEF SnapshotRow, InfoRow
  <2>2. /\ worker' \in [Kinds -> RegistryRuns] /\ Others(k) /\ worker'[k].epoch = worker[k].epoch
    BY <2>1, DoneMove
  <2> QED BY <1>1, <2>1, <2>2
<1>14. ASSUME NEW d \in Registrable, LifecycleOf(d) PROVE EpochKept
  <2>1. PICK v \in RegistryRuns : Goes("lifecycle", v) /\ v.epoch = worker["lifecycle"].epoch
    BY <1>14, LifecycleMove
  <2>2. worker' \in [Kinds -> RegistryRuns] /\ worker'["lifecycle"] = v /\ Others("lifecycle")
    BY <1>3, <2>1, MoveTyped DEF RegistryTypeOK, Others
  <2> QED BY <1>1, <1>3, <1>14, <2>1, <2>2 DEF LifecycleOf
<1>15. CASE RegistryEpochTurns \/ (\E d \in Registrable : Certify(d) \/ EnsureDrep(d))
            \/ UNCHANGED registryVars
  BY <1>2, <1>15 DEF RegistryEpochTurns, Certify, EnsureDrep, registryVars
<1> QED
  BY <1>5, <1>6, <1>7, <1>9, <1>10, <1>11, <1>12, <1>13, <1>14, <1>15 DEF RegistryNext

-------------------------------------------------------------------------------
(* What is new: certificates of the current epoch, and marks of the epochs   *)
(* of runs that are under way.                                               *)
Additions ==
    /\ epochNo' \in Int /\ epochNo' >= epochNo
    /\ certs' \subseteq [drep : Registrable, epoch : Int]
    /\ \A c \in certs' : c \in certs \/ c.epoch = epochNo
    /\ marks' \in [Marks -> SUBSET Int]
    /\ \A m \in Marks : \A e \in marks'[m] :
         e \in marks[m] \/ \E k \in Kinds : worker[k].pc # "idle" /\ e = worker[k].epoch

(* Every action adds nothing else. *)
LEMMA AdditionsStep == RegistryTypeOK /\ [RegistryNext]_registryVars => Additions
<1> SUFFICES ASSUME RegistryTypeOK, [RegistryNext]_registryVars PROVE Additions
  OBVIOUS
<1>1. ASSUME UNCHANGED <<epochNo, certs, marks>> PROVE Additions
  BY <1>1 DEF Additions, RegistryTypeOK
<1>2. ASSUME NEW k \in Kinds, NEW m \in Marks, worker[k].pc # "idle", Marked(k, m),
             UNCHANGED <<epochNo, certs>>
      PROVE  Additions
  <2>1. PICK e \in Int : e = worker[k].epoch
    BY DEF RegistryTypeOK, RegistryRuns
  <2>2. marks' = [marks EXCEPT ![m] = @ \cup {e}]
    BY <1>2, <2>1, Zenon DEF Marked
  <2>3. marks' \in [Marks -> SUBSET Int]
    BY <2>2 DEF RegistryTypeOK
  <2>4. \A o \in Marks : \A f \in marks'[o] : f \in marks[o] \/ f = e
    BY <2>2 DEF RegistryTypeOK
  <2> QED BY <1>2, <2>1, <2>3, <2>4 DEF Additions, RegistryTypeOK
<1>3. CASE LookUpInfo \/ MarkSnapshot \/ MarkInfo \/ MarkLifecycle
  <2>1. \/ UNCHANGED marks
        \/ \E k \in Kinds, m \in Marks : worker[k].pc # "idle" /\ Marked(k, m)
    BY <1>3, Zenon DEF LookUpInfo, MarkSnapshot, MarkInfo, MarkLifecycle, Kinds, Marks
  <2>2. UNCHANGED <<epochNo, certs>>
    BY <1>3 DEF LookUpInfo, MarkSnapshot, MarkInfo, MarkLifecycle
  <2> QED BY <1>1, <1>2, <2>1, <2>2
<1>4. CASE RegistryEpochTurns
  BY <1>4 DEF RegistryEpochTurns, Additions, RegistryTypeOK
<1>5. ASSUME NEW d \in Registrable, Certify(d) PROVE Additions
  BY <1>5 DEF Certify, Additions, RegistryTypeOK
<1>6. CASE UNCHANGED registryVars
  BY <1>1, <1>6 DEF registryVars
<1>7. CASE \/ BeginInventory \/ BeginInfo \/ BeginLifecycle \/ CreateMissing
           \/ \E k \in Kinds : ListDreps(k) \/ ReadTable(k) \/ StepDies(k)
           \/ \E d \in Registrable : SnapshotRow(d) \/ InfoRow(d) \/ LifecycleOf(d) \/ EnsureDrep(d)
  BY <1>1, <1>7 DEF BeginInventory, BeginInfo, BeginLifecycle, BeginStep, CreateMissing,
     ListDreps, ReadTable, StepDies, SnapshotRow, InfoRow, LifecycleOf, EnsureDrep
<1> QED
  BY <1>3, <1>4, <1>5, <1>6, <1>7 DEF RegistryNext

(* Every action keeps the types. *)
LEMMA RegistryTypeStep == RegistryTypeOK /\ [RegistryNext]_registryVars => RegistryTypeOK'
<1> SUFFICES ASSUME RegistryTypeOK, [RegistryNext]_registryVars PROVE RegistryTypeOK'
  OBVIOUS
<1>1. Additions /\ EpochKept
  BY AdditionsStep, EpochKeptStep
<1>2. info' \in [Registrable -> {None, "bare", "filled"}]
  <2>1. CASE CreateMissing \/ LookUpInfo
    BY <2>1 DEF CreateMissing, LookUpInfo, RegistryTypeOK
  <2>2. CASE \E d \in Registrable : InfoRow(d) \/ EnsureDrep(d)
    BY <2>2 DEF InfoRow, EnsureDrep, RegistryTypeOK
  <2>3. CASE info' = info
    BY <2>3 DEF RegistryTypeOK
  <2> QED
    BY <2>1, <2>2, <2>3 DEF RegistryNext, BeginInventory, BeginInfo, BeginLifecycle, BeginStep,
       MarkSnapshot, MarkInfo, MarkLifecycle, RegistryEpochTurns, ListDreps, ReadTable, StepDies,
       SnapshotRow, LifecycleOf, Certify, registryVars
<1> QED
  BY <1>1, <1>2 DEF RegistryTypeOK, Additions, EpochKept

(* RegistryRuns go on with epochs that are over. *)
LEMMA OverStep ==
    RegistryTypeOK /\ EpochsOver /\ [RegistryNext]_registryVars => EpochsOver'
<1> SUFFICES ASSUME RegistryTypeOK, EpochsOver, [RegistryNext]_registryVars PROVE EpochsOver'
  OBVIOUS
<1>1. Additions /\ EpochKept /\ RegistryTypeOK'
  BY AdditionsStep, EpochKeptStep, RegistryTypeStep
<1>2. \A c \in certs' : c.epoch <= epochNo'
  BY <1>1 DEF Additions, EpochsOver, RegistryTypeOK
<1>3. \A k \in Marks : \A e \in marks'[k] : e < epochNo'
  <2> SUFFICES ASSUME NEW k \in Marks, NEW e \in marks'[k] PROVE e < epochNo'
    OBVIOUS
  <2>1. e \in Int /\ epochNo \in Int /\ epochNo' \in Int /\ epochNo' >= epochNo
    BY <1>1 DEF Additions, RegistryTypeOK
  <2>2. e < epochNo
    BY <1>1, Zenon DEF Additions, EpochsOver
  <2> QED BY <2>1, <2>2
<1>4. \A k \in Kinds : worker'[k].pc # "idle" => worker'[k].epoch < epochNo'
  <2> SUFFICES ASSUME NEW k \in Kinds, worker'[k].pc # "idle" PROVE worker'[k].epoch < epochNo'
    OBVIOUS
  <2>1. /\ epochNo \in Int /\ epochNo' \in Int /\ epochNo' >= epochNo
        /\ worker'[k].epoch \in Int
    BY <1>1 DEF Additions, RegistryTypeOK, RegistryRuns
  <2>2. worker'[k].epoch = epochNo - 1 \/ worker'[k].epoch < epochNo
    BY <1>1, Zenon DEF EpochKept, EpochsOver
  <2> QED BY <2>1, <2>2
<1> QED
  BY <1>2, <1>3, <1>4 DEF EpochsOver

-------------------------------------------------------------------------------
(* Rows of snapshots and events are never taken away either. *)
LEMMA TablesGrow ==
    [RegistryNext]_registryVars => snapshots \subseteq snapshots' /\ events \subseteq events'
BY DEF RegistryNext, BeginInventory, BeginInfo, BeginLifecycle, BeginStep, CreateMissing, LookUpInfo,
   MarkSnapshot, MarkInfo, MarkLifecycle, RegistryEpochTurns, ListDreps, ReadTable, StepDies,
   SnapshotRow, InfoRow, LifecycleOf, Certify, EnsureDrep, registryVars

(* No certificate falls due for a run that is under way. *)
LEMMA DueStays ==
    ASSUME RegistryTypeOK, EpochsOver, Additions, NEW k \in Kinds,
           worker[k].pc # "idle" \/ worker'[k].epoch = epochNo - 1,
           worker'[k].epoch \in {worker[k].epoch, epochNo - 1}
    PROVE  \A c \in Due(k)' : c \in certs /\ c.epoch <= worker'[k].epoch
<1>1. worker[k].epoch \in Int /\ epochNo \in Int
  BY DEF RegistryTypeOK, RegistryRuns
<1>2. worker'[k].epoch < epochNo
  BY <1>1 DEF EpochsOver
<1> SUFFICES ASSUME NEW c \in Due(k)' PROVE c \in certs /\ c.epoch <= worker'[k].epoch
  OBVIOUS
<1>3. c \in certs' /\ c.epoch <= worker'[k].epoch
  BY DEF Due
<1> QED
  BY <1>1, <1>2, <1>3 DEF Additions

(* Every action keeps the account of the inventory. *)
LEMMA InventoryStep ==
    RegistryTypeOK /\ EpochsOver /\ InventoryAccounts /\ EpochMarksEarned
        /\ [RegistryNext]_registryVars => InventoryAccounts'
<1> SUFFICES ASSUME RegistryTypeOK, EpochsOver, InventoryAccounts, EpochMarksEarned,
                    [RegistryNext]_registryVars
             PROVE  InventoryAccounts'
  OBVIOUS
<1> DEFINE I == "inventory"
<1>1. /\ Additions /\ Stored \subseteq Stored' /\ snapshots \subseteq snapshots'
      /\ I \in Kinds /\ worker[I].epoch \in Int /\ epochNo \in Int
  BY AdditionsStep, RowsStay, TablesGrow DEF Kinds, RegistryTypeOK, RegistryRuns
<1>2. ASSUME worker'[I].pc \in {"idle", "list"} PROVE InventoryAccounts'
  BY <1>2 DEF InventoryAccounts
<1>3. ASSUME worker'[I] = worker[I] PROVE InventoryAccounts'
  <2>1. CASE worker[I].pc = "idle"
    BY <1>2, <1>3, <2>1
  <2>2. CASE worker[I].pc # "idle"
    <3>1. \A c \in Due(I)' : c \in Due(I)
      BY <1>1, <1>3, <2>2, DueStays DEF Due
    <3> QED BY <1>1, <1>3, <3>1 DEF InventoryAccounts
  <2> QED BY <2>1, <2>2
<1>4. ASSUME NEW k \in Kinds, k # I, Others(k) PROVE InventoryAccounts'
  BY <1>1, <1>3, <1>4 DEF Others
<1>5. CASE BeginInventory
  <2>1. CASE BeginStep(I, "list")
    BY <1>1, <1>2, <2>1, BeginMove DEF RegistryPlaces
  <2>2. CASE epochNo - 1 \in marks["drepsSyncedAt"] /\ BeginStep(I, "read")
    <3>1. worker'[I].pc = "read" /\ worker'[I].epoch = epochNo - 1
      BY <1>1, <2>2, BeginMove DEF RegistryPlaces
    <3>2. \A c \in Due(I)' : c.drep \in Stored
      BY <1>1, <2>2, <3>1, DueStays DEF EpochMarksEarned
    <3> QED BY <1>1, <3>1, <3>2 DEF InventoryAccounts
  <2> QED BY <1>5, <2>1, <2>2 DEF BeginInventory
<1>6. CASE ListDreps(I)
  <2>1. Listed \in SUBSET Registrable
    BY DEF Listed, RegistryTypeOK
  <2>2. /\ worker[I].pc = "list" /\ worker'[I].pc = "each" /\ worker'[I].ids = Listed
        /\ worker'[I].epoch = worker[I].epoch
    BY <1>1, <1>6, <2>1, LoadMove DEF ListDreps, RegistryPlaces
  <2>3. \A c \in Due(I)' : c.drep \in Listed
    BY <1>1, <2>2, DueStays DEF Listed
  <2> QED BY <2>2, <2>3 DEF InventoryAccounts
<1>7. CASE CreateMissing
  <2>1. PICK missing \in SUBSET Registrable : missing = worker[I].ids \ Stored
    BY <1>1 DEF RegistryTypeOK, RegistryRuns
  <2>2. /\ Goes(I, [worker[I] EXCEPT !.pc = "lookup", !.ids = missing]) /\ worker[I].pc = "each"
        /\ info' = [d \in Registrable |-> IF d \in missing THEN "bare" ELSE info[d]]
    BY <1>7, <2>1, Zenon DEF CreateMissing
  <2>3. worker'[I].pc = "lookup" /\ worker'[I].epoch = worker[I].epoch
    BY <1>1, <2>2, LoadMove DEF RegistryPlaces
  <2>4. missing \subseteq Stored'
    BY <2>2, RegistryAssumption DEF Stored
  <2>5. \A c \in Due(I)' : c \in Due(I)
    BY <1>1, <2>2, <2>3, DueStays DEF Due
  <2>6. \A c \in Due(I)' : c.drep \in Stored'
    BY <1>1, <2>1, <2>2, <2>4, <2>5 DEF InventoryAccounts
  <2> QED BY <2>3, <2>6 DEF InventoryAccounts
<1>8. CASE LookUpInfo
  <2>1. (To(I, "read") \/ To(I, "idle")) /\ worker[I].pc = "lookup"
    BY <1>8, Zenon DEF LookUpInfo
  <2>2. worker'[I].pc \in {"read", "idle"} /\ worker'[I].epoch = worker[I].epoch
    BY <1>1, <2>1, ToMove DEF RegistryPlaces
  <2>3. \A c \in Due(I)' : c \in Due(I)
    BY <1>1, <2>1, <2>2, DueStays DEF Due
  <2>4. \A c \in Due(I)' : c.drep \in Stored'
    BY <1>1, <2>1, <2>3 DEF InventoryAccounts
  <2> QED BY <2>2, <2>4 DEF InventoryAccounts
<1>9. CASE ReadTable(I)
  <2>1. Stored \in SUBSET Registrable
    BY DEF Stored
  <2>2. /\ worker[I].pc = "read" /\ worker'[I].pc = "rows" /\ worker'[I].ids = Stored
        /\ worker'[I].epoch = worker[I].epoch
    BY <1>1, <1>9, <2>1, LoadMove DEF ReadTable, RegistryPlaces
  <2>3. \A c \in Due(I)' : c \in Due(I)
    BY <1>1, <2>2, DueStays DEF Due
  <2>4. \A c \in Due(I)' : c.drep \in worker'[I].ids
    BY <2>2, <2>3 DEF InventoryAccounts
  <2> QED BY <2>2, <2>4 DEF InventoryAccounts
<1>10. ASSUME NEW d \in Registrable, SnapshotRow(d) PROVE InventoryAccounts'
  <2>1. /\ worker[I].pc = "rows" /\ worker'[I].pc = "rows"
        /\ worker'[I].ids = worker[I].ids \ {d} /\ worker'[I].epoch = worker[I].epoch
        /\ [drep |-> d, epoch |-> worker[I].epoch] \in snapshots'
    BY <1>1, <1>10, DoneMove DEF SnapshotRow
  <2>2. \A c \in Due(I)' : c \in Due(I)
    BY <1>1, <2>1, DueStays DEF Due
  <2>3. \A c \in Due(I)' : \/ c.drep \in worker'[I].ids
                           \/ [drep |-> c.drep, epoch |-> worker'[I].epoch] \in snapshots'
    BY <1>1, <2>1, <2>2 DEF InventoryAccounts
  <2> QED BY <2>1, <2>3 DEF InventoryAccounts
<1>11. CASE MarkSnapshot
  BY <1>1, <1>2, <1>11, ToMove DEF MarkSnapshot, RegistryPlaces
<1>12. CASE StepDies(I)
  BY <1>1, <1>2, <1>12, FreeMove DEF StepDies
<1>13. "info" \in Kinds /\ "lifecycle" \in Kinds
  BY DEF Kinds
<1>14. CASE BeginInfo \/ BeginLifecycle
  <2>1. Others("info") \/ Others("lifecycle")
    BY <1>13, <1>14, BeginMove DEF BeginInfo, BeginLifecycle, RegistryPlaces
  <2> QED BY <1>4, <1>13, <2>1
<1>15. CASE MarkInfo \/ MarkLifecycle
  <2>1. Others("info") \/ Others("lifecycle")
    BY <1>13, <1>15, ToMove DEF MarkInfo, MarkLifecycle, RegistryPlaces
  <2> QED BY <1>4, <1>13, <2>1
<1>16. ASSUME NEW k \in Kinds, k # I, ListDreps(k) \/ ReadTable(k) \/ StepDies(k)
       PROVE  InventoryAccounts'
  <2>1. worker'[I] = worker[I]
    BY <1>1, <1>16 DEF ListDreps, ReadTable, StepDies, Goes, RegistryTypeOK
  <2> QED BY <1>3, <2>1
<1>17. ASSUME NEW d \in Registrable, InfoRow(d) PROVE InventoryAccounts'
  BY <1>4, <1>13, <1>17, DoneMove DEF InfoRow
<1>18. ASSUME NEW d \in Registrable, LifecycleOf(d) PROVE InventoryAccounts'
  <2>1. PICK v \in RegistryRuns : Goes("lifecycle", v)
    BY <1>18, LifecycleMove
  <2>2. worker'[I] = worker[I]
    BY <1>1, <2>1 DEF Goes, RegistryTypeOK
  <2> QED BY <1>3, <2>2
<1>19. CASE RegistryEpochTurns \/ (\E d \in Registrable : Certify(d) \/ EnsureDrep(d))
            \/ UNCHANGED registryVars
  BY <1>3, <1>19 DEF RegistryEpochTurns, Certify, EnsureDrep, registryVars
<1> QED
  BY <1>5, <1>6, <1>7, <1>8, <1>9, <1>10, <1>11, <1>12, <1>14, <1>15, <1>16, <1>17, <1>18, <1>19
  DEF RegistryNext

(* Every action keeps the account of the lifecycle sync. *)
LEMMA LifecycleStep ==
    RegistryTypeOK /\ EpochsOver /\ LifecycleAccounts /\ [RegistryNext]_registryVars
        => LifecycleAccounts'
<1> SUFFICES ASSUME RegistryTypeOK, EpochsOver, LifecycleAccounts, [RegistryNext]_registryVars
             PROVE  LifecycleAccounts'
  OBVIOUS
<1> DEFINE L == "lifecycle"
<1>1. /\ Additions /\ events \subseteq events'
      /\ L \in Kinds /\ worker[L].epoch \in Int /\ epochNo \in Int
  BY AdditionsStep, TablesGrow DEF Kinds, RegistryTypeOK, RegistryRuns
<1>2. ASSUME worker'[L].pc \in {"idle", "list"} PROVE LifecycleAccounts'
  BY <1>2 DEF LifecycleAccounts
<1>3. ASSUME worker'[L] = worker[L] PROVE LifecycleAccounts'
  <2>1. CASE worker[L].pc = "idle"
    BY <1>2, <1>3, <2>1
  <2>2. CASE worker[L].pc # "idle"
    <3>1. \A c \in Due(L)' : c \in Due(L)
      BY <1>1, <1>3, <2>2, DueStays DEF Due
    <3> QED BY <1>1, <1>3, <3>1 DEF LifecycleAccounts
  <2> QED BY <2>1, <2>2
<1>4. "info" \in Kinds /\ "inventory" \in Kinds
  BY DEF Kinds
<1>5. CASE BeginLifecycle
  BY <1>1, <1>2, <1>5, BeginMove DEF BeginLifecycle, RegistryPlaces
<1>6. CASE ListDreps(L)
  <2>1. Listed \in SUBSET Registrable
    BY DEF Listed, RegistryTypeOK
  <2>2. /\ worker[L].pc = "list" /\ worker'[L].ids = Listed
        /\ worker'[L].epoch = worker[L].epoch
    BY <1>1, <1>6, <2>1, LoadMove DEF ListDreps, RegistryPlaces
  <2>3. \A c \in Due(L)' : c.drep \in Listed
    BY <1>1, <2>2, DueStays DEF Listed
  <2> QED BY <2>2, <2>3 DEF LifecycleAccounts
<1>7. ASSUME NEW d \in Registrable, LifecycleOf(d) PROVE LifecycleAccounts'
  <2>1. PICK v \in RegistryRuns :
          /\ Goes(L, v) /\ v.epoch = worker[L].epoch /\ v.ids = worker[L].ids \ {d}
          /\ \/ v.failed = worker[L].failed /\ events' = events \cup {c \in certs : c.drep = d}
             \/ v.failed = worker[L].failed \cup {d}
    BY <1>7, LifecycleMove
  <2>2. worker'[L] = v
    BY <1>1, <2>1, MoveTyped DEF RegistryTypeOK
  <2>3. worker[L].pc = "each"
    BY <1>7 DEF LifecycleOf
  <2>4. \A c \in Due(L)' : c \in Due(L) /\ c \in certs
    BY <1>1, <2>1, <2>2, <2>3, DueStays DEF Due
  <2>5. \A c \in Due(L)' : c.drep \in v.ids \/ c.drep \in v.failed \/ c \in events'
    BY <1>1, <2>1, <2>3, <2>4 DEF LifecycleAccounts
  <2> QED BY <2>2, <2>5 DEF LifecycleAccounts
<1>8. CASE MarkLifecycle
  BY <1>1, <1>2, <1>8, ToMove DEF MarkLifecycle, RegistryPlaces
<1>9. CASE StepDies(L)
  BY <1>1, <1>2, <1>9, FreeMove DEF StepDies
<1>10. ASSUME NEW k \in Kinds, k # L, Others(k) PROVE LifecycleAccounts'
  BY <1>1, <1>3, <1>10 DEF Others
<1>11. CASE BeginInventory \/ BeginInfo
  <2>1. Others("inventory") \/ Others("info")
    BY <1>4, <1>11, BeginMove DEF BeginInventory, BeginInfo, RegistryPlaces
  <2> QED BY <1>4, <1>10, <2>1
<1>12. CASE LookUpInfo \/ MarkSnapshot \/ MarkInfo
  <2>1. \E k \in Kinds \ {L}, p \in RegistryPlaces : To(k, p)
    BY <1>4, <1>12, Zenon DEF LookUpInfo, MarkSnapshot, MarkInfo, RegistryPlaces
  <2> QED BY <1>10, <2>1, ToMove
<1>13. CASE CreateMissing
  <2>1. worker'[L] = worker[L]
    BY <1>1, <1>13 DEF CreateMissing, Goes, RegistryTypeOK
  <2> QED BY <1>3, <2>1
<1>14. ASSUME NEW k \in Kinds, ReadTable(k) \/ (k # L /\ (ListDreps(k) \/ StepDies(k)))
       PROVE  LifecycleAccounts'
  <2>1. worker'[L] = worker[L]
    BY <1>1, <1>14 DEF ListDreps, ReadTable, StepDies, Goes, RegistryTypeOK
  <2> QED BY <1>3, <2>1
<1>15. ASSUME NEW d \in Registrable, SnapshotRow(d) \/ InfoRow(d) PROVE LifecycleAccounts'
  <2>1. Others("inventory") \/ Others("info")
    BY <1>4, <1>15, DoneMove DEF SnapshotRow, InfoRow
  <2> QED BY <1>4, <1>10, <2>1
<1>16. CASE RegistryEpochTurns \/ (\E d \in Registrable : Certify(d) \/ EnsureDrep(d))
            \/ UNCHANGED registryVars
  BY <1>3, <1>16 DEF RegistryEpochTurns, Certify, EnsureDrep, registryVars
<1> QED
  BY <1>5, <1>6, <1>7, <1>8, <1>9, <1>11, <1>12, <1>13, <1>14, <1>15, <1>16 DEF RegistryNext

-------------------------------------------------------------------------------
(* A run marks its epoch when its account is closed, and no certificate is   *)
(* added to an epoch that is marked.                                         *)
LEMMA MarksStep == RegistryInv /\ [RegistryNext]_registryVars => EpochMarksEarned'
<1> SUFFICES ASSUME RegistryInv, [RegistryNext]_registryVars PROVE EpochMarksEarned'
  OBVIOUS
<1> DEFINE I == "inventory"  L == "lifecycle"
<1>1. /\ Additions /\ Stored \subseteq Stored' /\ snapshots \subseteq snapshots'
      /\ events \subseteq events' /\ I \in Kinds /\ L \in Kinds /\ epochNo \in Int
      /\ \A m \in Marks : \A e \in marks[m] : e \in Int /\ e < epochNo
      /\ {"drepsSyncedAt", "drepSnapshotSyncedAt", "drepLifecycleSyncedAt"} \subseteq Marks
  BY AdditionsStep, RowsStay, TablesGrow DEF RegistryInv, Kinds, RegistryTypeOK, EpochsOver, Marks
<1>2. \A m \in Marks : \A e \in marks[m] : \A c \in certs' : c.epoch <= e => c \in certs
  BY <1>1 DEF Additions
<1>3. ASSUME UNCHANGED marks PROVE EpochMarksEarned'
  BY <1>1, <1>2, <1>3 DEF RegistryInv, EpochMarksEarned
<1>4. ASSUME NEW k \in Kinds, NEW m \in Marks, Marked(k, m), NEW o \in Marks, NEW f \in marks'[o]
      PROVE  f \in marks[o] \/ (o = m /\ f = worker[k].epoch)
  BY <1>4 DEF Marked, RegistryInv, RegistryTypeOK
<1>5. ASSUME NEW k \in Kinds, UNCHANGED certs PROVE \A c \in certs' : c.epoch <= worker[k].epoch => c \in Due(k)
  BY <1>5 DEF Due
<1>6. CASE LookUpInfo
  <2>1. Marked(I, "drepsSyncedAt") /\ worker[I].pc = "lookup" /\ UNCHANGED certs
    BY <1>6, Zenon DEF LookUpInfo
  <2>2. \A c \in Due(I) : c.drep \in Stored
    BY <2>1 DEF RegistryInv, InventoryAccounts
  <2> QED BY <1>1, <1>2, <1>4, <1>5, <2>1, <2>2 DEF RegistryInv, EpochMarksEarned
<1>7. CASE MarkSnapshot
  <2>1. /\ Marked(I, "drepSnapshotSyncedAt") /\ worker[I].pc = "rows" /\ worker[I].ids = {}
        /\ UNCHANGED certs
    BY <1>7 DEF MarkSnapshot
  <2>2. \A c \in Due(I) : [drep |-> c.drep, epoch |-> worker[I].epoch] \in snapshots
    BY <2>1 DEF RegistryInv, InventoryAccounts
  <2> QED BY <1>1, <1>2, <1>4, <1>5, <2>1, <2>2 DEF RegistryInv, EpochMarksEarned
<1>8. CASE MarkInfo
  <2>1. Marked("info", "drepInfoSyncedAt") /\ "info" \in Kinds /\ "drepInfoSyncedAt" \in Marks
    BY <1>8 DEF MarkInfo, Kinds, Marks
  <2> QED BY <1>1, <1>2, <1>4, <2>1 DEF RegistryInv, EpochMarksEarned
<1>9. CASE MarkLifecycle
  <2>1. CASE UNCHANGED marks
    BY <1>3, <2>1
  <2>2. CASE LifecycleMeaningful /\ Marked(L, "drepLifecycleSyncedAt")
    <3>1. worker[L].pc = "each" /\ worker[L].ids = {} /\ worker[L].failed = {} /\ UNCHANGED certs
      BY <1>9, <2>2 DEF MarkLifecycle, LifecycleMeaningful
    <3>2. \A c \in Due(L) : c \in events
      BY <3>1 DEF RegistryInv, LifecycleAccounts
    <3> QED BY <1>1, <1>2, <1>4, <1>5, <2>2, <3>1, <3>2 DEF RegistryInv, EpochMarksEarned
  <2> QED BY <1>9, <2>1, <2>2 DEF MarkLifecycle
<1> QED
  BY <1>3, <1>6, <1>7, <1>8, <1>9 DEF RegistryNext, BeginInventory, BeginInfo, BeginLifecycle,
     BeginStep, CreateMissing, RegistryEpochTurns, ListDreps, ReadTable, StepDies, SnapshotRow,
     InfoRow, LifecycleOf, Certify, EnsureDrep, registryVars

-------------------------------------------------------------------------------
(* The tables and the runs before anything happened. *)
LEMMA InitHolds == RegistryInit => RegistryInv
<1> SUFFICES ASSUME RegistryInit PROVE RegistryInv
  OBVIOUS
<1>1. \A k \in Kinds : worker[k].pc = "idle"
  BY Freed DEF RegistryInit
<1>2. RegistryTypeOK
  BY Freed DEF RegistryInit, RegistryTypeOK
<1>3. EpochsOver /\ InventoryAccounts /\ LifecycleAccounts /\ EpochMarksEarned
  BY <1>1 DEF RegistryInit, EpochsOver, InventoryAccounts, LifecycleAccounts, EpochMarksEarned,
     Due, Marks
<1> QED
  BY <1>2, <1>3 DEF RegistryInv

(* The accounts and the epochs hold together, whatever the jobs do. *)
THEOREM AccountsHold == RegistrySpec => []RegistryInv
<1>1. RegistryInv /\ [RegistryNext]_registryVars => RegistryInv'
  BY RegistryTypeStep, OverStep, InventoryStep, LifecycleStep, MarksStep DEF RegistryInv
<1> QED
  BY <1>1, InitHolds, PTL DEF RegistrySpec

(* The marks of inventory, snapshot and lifecycle are earned. *)
THEOREM MarksAreEarned == RegistrySpec => []EpochMarksEarned
<1>1. RegistryInv => EpochMarksEarned
  BY DEF RegistryInv
<1> QED
  BY <1>1, AccountsHold, PTL

-------------------------------------------------------------------------------
(* The power of voters *)

VoterRow == [amount : Nat, of : Int]

VoterTypeOK ==
    /\ at \in 0 .. LastVotingEpoch /\ ready = 0 .. at
    /\ power \in [Voters -> {NoRow} \cup VoterRow]
    /\ known \subseteq [voter : Voters, epoch : Int, amount : Nat]
    /\ ensuring \in {NoRow} \cup [voter : Voters, amount : Nat, of : Int]

(* Whatever a run found is the power of its epoch, and whom it found empty   *)
(* has none in it.                                                           *)
FoundIsTrue ==
    /\ bulk.epoch \in 0 .. at
    /\ bulk.role \subseteq Voters /\ DOMAIN bulk.old \subseteq Voters
    /\ \A v \in DOMAIN bulk.got : v \in Voters /\ bulk.got[v] = Stake[v][bulk.epoch]
    /\ \A v \in bulk.empty : v \in Voters /\ Stake[v][bulk.epoch] = 0

VoterInv == VoterTypeOK /\ FoundIsTrue

(* The step of PowerKept. *)
RowsKept == \A v \in Voters : power[v] # NoRow =>
    /\ power'[v].of >= power[v].of \/ (bulk.pc = "update" /\ power'[v].of = bulk.epoch)
    /\ power'[v].amount = 0 /\ power[v].amount > 0 => Stake[v][power'[v].of] = 0

(* A run that rests, and one that begins with a role, has found nothing yet. *)
LEMMA NothingFound ==
    ASSUME VoterTypeOK, bulk.epoch \in 0 .. at, NEW role \in {VotingDreps, VotingPools},
           NEW e \in 0 .. at, NEW old, DOMAIN old \subseteq Voters,
           bulk' = [pc |-> "bulk", epoch |-> e, role |-> role, old |-> old, got |-> <<>>,
                    empty |-> {}] \/ bulk' = Resting,
           at' = at
    PROVE  FoundIsTrue'
<1>1. DOMAIN <<>> = {}
  OBVIOUS
<1>2. at \in Nat /\ 0 \in 0 .. at
  BY DEF VoterTypeOK
<1> QED
  BY <1>1, <1>2 DEF FoundIsTrue, Resting, Voters

(* The rows a role starts from are those of voters. *)
LEMMA ReadOfVoters == \A role \in {VotingDreps, VotingPools} : DOMAIN ReadVoters(role) \subseteq Voters
BY DEF ReadVoters, Voters

(* The end of a role, and of a run, leaves nothing found. *)
LEMMA RoleEnding == VoterTypeOK /\ FoundIsTrue /\ RoleEnds /\ at' = at => FoundIsTrue'
<1> SUFFICES ASSUME VoterTypeOK, FoundIsTrue, RoleEnds, at' = at PROVE FoundIsTrue'
  OBVIOUS
<1>1. bulk.epoch \in 0 .. at
  BY DEF FoundIsTrue
<1>2. CASE bulk.role = VotingDreps
  <2>1. bulk' = [pc |-> "bulk", epoch |-> bulk.epoch, role |-> VotingPools,
                 old |-> ReadVoters(VotingPools), got |-> <<>>, empty |-> {}]
    BY <1>2 DEF RoleEnds, Resting
  <2> QED
    BY <2>1, <1>1, ReadOfVoters, NothingFound
<1>3. CASE bulk.role # VotingDreps
  <2>1. bulk' = Resting
    BY <1>3 DEF RoleEnds
  <2> QED
    BY <2>1, <1>1, ReadOfVoters, NothingFound
<1> QED
  BY <1>2, <1>3

(* What Koios reports of an epoch that began is all there is of it.          *)
LEMMA ReportedWhole ==
    ASSUME VoterTypeOK, NEW v \in Voters, NEW e \in 0 .. at, ~Reported(v, e)
    PROVE  Stake[v][e] = 0
<1>1. e \in 0 .. LastVotingEpoch /\ e \in ready
  BY VoterAssumption DEF VoterTypeOK
<1>2. Stake[v][e] \in Nat
  BY <1>1, VoterAssumption
<1> QED
  BY <1>1, <1>2 DEF Reported

(* The types of rows, cache and clock. *)
LEMMA VoterTypeStep == ~Late /\ VoterInv /\ [VoterNext]_voterVars => VoterTypeOK'
<1> SUFFICES ASSUME ~Late, VoterInv, [VoterNext]_voterVars PROVE VoterTypeOK'
  OBVIOUS
<1> USE DEF VoterInv, VoterTypeOK
<1>1. CASE UNCHANGED <<at, ready, power, known, ensuring>>
  BY <1>1
<1>2. CASE UpdateChunk
  <2>1. UNCHANGED <<at, ready, known, ensuring>>
    BY <1>2 DEF UpdateChunk
  <2>2. CASE UNCHANGED power
    BY <2>1, <2>2
  <2>3. ASSUME NEW v \in RowsToUpdate,
               power' = [power EXCEPT ![v] = [amount |-> NextAmount(v), of |-> bulk.epoch]]
        PROVE  VoterTypeOK'
    <3>1. v \in Voters
      BY DEF RowsToUpdate, FoundIsTrue
    <3>2. bulk.epoch \in Int /\ bulk.epoch \in 0 .. LastVotingEpoch
      BY VoterAssumption DEF FoundIsTrue
    <3>3. Stake[v][bulk.epoch] \in Nat
      BY <3>1, <3>2, VoterAssumption
    <3>4. NextAmount(v) \in Nat
      BY <3>3 DEF NextAmount, FoundIsTrue
    <3>5. [amount |-> NextAmount(v), of |-> bulk.epoch] \in VoterRow
      BY <3>2, <3>4 DEF VoterRow
    <3> QED
      BY <2>1, <2>3, <3>1, <3>5
  <2> QED
    BY <1>2, <2>2, <2>3 DEF UpdateChunk
<1>3. ASSUME NEW v \in Voters, CreateWithZero(v) PROVE VoterTypeOK'
  BY <1>3 DEF CreateWithZero, VoterRow, Never
<1>4. ASSUME NEW v \in Voters, AskPower(v) PROVE VoterTypeOK'
  <2> DEFINE fresh == [voter |-> v, epoch |-> at,
                       amount |-> IF Reported(v, at) THEN Stake[v][at] ELSE 0]
  <2>1. Stake[v][at] \in Nat
    BY VoterAssumption
  <2>2. fresh \in [voter : Voters, epoch : Int, amount : Nat]
    BY <2>1
  <2>3. PICK k \in [voter : Voters, epoch : Int, amount : Nat] :
            /\ known' = known \cup {k}
            /\ ensuring' = [voter |-> v, amount |-> k.amount, of |-> k.epoch]
    BY <1>4, <2>2 DEF AskPower
  <2> QED
    BY <1>4, <2>3 DEF AskPower
<1>5. CASE Ensure
  <2>1. PICK r \in {NoRow} \cup VoterRow : power' = [power EXCEPT ![ensuring.voter] = r]
    BY <1>5 DEF Ensure, EnsuredRow, VoterRow
  <2> QED
    BY <1>5, <2>1 DEF Ensure
<1>6. CASE EnsureFails
  BY <1>6 DEF EnsureFails
<1>7. CASE ClearCaches
  BY <1>7 DEF ClearCaches
<1>8. CASE VotingEpochTurns
  <2>1. at' = at + 1 /\ at' \in 0 .. LastVotingEpoch
    BY <1>8, VoterAssumption DEF VotingEpochTurns
  <2>2. ready' = 0 .. (at + 1)
    <3>1. ready' = ready \cup {at + 1}
      BY <1>8, VoterAssumption DEF VotingEpochTurns
    <3>2. at \in Nat => (0 .. at) \cup {at + 1} = 0 .. (at + 1)
      OBVIOUS
    <3> QED
      BY <3>1, <3>2
  <2> QED
    BY <1>8, <2>1, <2>2 DEF VotingEpochTurns
<1>9. CASE Late /\ HistoryComes
  BY <1>9
<1> QED
  BY <1>1, <1>2, <1>3, <1>4, <1>5, <1>6, <1>7, <1>8, <1>9
     DEF VoterNext, voterVars, SyncBegins, BulkFetch, ConfirmMissing, SyncStops

(* The list and the confirmations tell what is true of the run's epoch.      *)
LEMMA FoundStep == ~Late /\ VoterInv /\ [VoterNext]_voterVars => FoundIsTrue'
<1> SUFFICES ASSUME ~Late, VoterInv, [VoterNext]_voterVars PROVE FoundIsTrue'
  OBVIOUS
<1> USE DEF VoterInv
<1>0. bulk.epoch \in 0 .. at /\ at \in Nat
  BY DEF FoundIsTrue, VoterTypeOK
<1>1. CASE SyncBegins
  <2>1. bulk' = [pc |-> "bulk", epoch |-> at, role |-> VotingDreps,
                 old |-> ReadVoters(VotingDreps), got |-> <<>>, empty |-> {}] /\ at' = at
    BY <1>1 DEF SyncBegins, Resting
  <2>2. at \in 0 .. at
    BY <1>0
  <2> QED
    BY <2>1, <2>2, <1>0, ReadOfVoters, NothingFound
<1>2. CASE BulkFetch
  <2>1. at' = at
    BY <1>2 DEF BulkFetch
  <2>2. CASE RoleEnds
    BY <2>1, <2>2, RoleEnding
  <2>3. ASSUME NEW listed \in SUBSET bulk.role,
               bulk' = [bulk EXCEPT !.pc = "confirm",
                                    !.got = [v \in listed |-> Stake[v][bulk.epoch]]]
        PROVE  FoundIsTrue'
    <3>1. /\ bulk'.epoch = bulk.epoch /\ bulk'.role = bulk.role /\ bulk'.old = bulk.old
          /\ bulk'.got = [v \in listed |-> Stake[v][bulk.epoch]] /\ bulk'.empty = bulk.empty
      BY <2>3
    <3> QED
      BY <2>1, <3>1 DEF FoundIsTrue
  <2> QED
    BY <1>2, <2>2, <2>3 DEF BulkFetch
<1>3. CASE ConfirmMissing
  <2>1. PICK answers \in SUBSET (DOMAIN bulk.old \ DOMAIN bulk.got) : bulk' = Confirmed(answers)
    BY <1>3 DEF ConfirmMissing
  <2> DEFINE found == {v \in answers : Reported(v, bulk.epoch)}
  <2>2. /\ bulk'.epoch = bulk.epoch /\ bulk'.role = bulk.role /\ bulk'.old = bulk.old
        /\ bulk'.got = [v \in DOMAIN bulk.got \cup found |-> Stake[v][bulk.epoch]]
        /\ bulk'.empty = answers \ found
    BY <2>1 DEF Confirmed
  <2>3. \A v \in answers : v \in Voters
    BY DEF FoundIsTrue
  <2>4. \A v \in answers \ found : Stake[v][bulk.epoch] = 0
    BY <2>3, <1>0, ReportedWhole
  <2>5. at' = at
    BY <1>3 DEF ConfirmMissing
  <2> QED
    BY <2>2, <2>3, <2>4, <2>5 DEF FoundIsTrue
<1>4. CASE UpdateChunk
  <2>1. at' = at
    BY <1>4 DEF UpdateChunk
  <2>2. CASE RoleEnds
    BY <2>1, <2>2, RoleEnding
  <2>3. ASSUME NEW v \in RowsToUpdate, bulk' = [bulk EXCEPT !.old[v] = NextAmount(v)]
        PROVE  FoundIsTrue'
    <3>1. /\ bulk'.epoch = bulk.epoch /\ bulk'.role = bulk.role
          /\ bulk'.old = [bulk.old EXCEPT ![v] = NextAmount(v)]
          /\ bulk'.got = bulk.got /\ bulk'.empty = bulk.empty
      BY <2>3
    <3> QED
      BY <2>1, <3>1 DEF FoundIsTrue
  <2> QED
    BY <1>4, <2>2, <2>3 DEF UpdateChunk
<1>5. CASE SyncStops
  BY <1>0, <1>5, ReadOfVoters, NothingFound DEF SyncStops
<1>6. CASE VotingEpochTurns
  BY <1>0, <1>6 DEF VotingEpochTurns, FoundIsTrue
<1>7. CASE UNCHANGED <<at, bulk>>
  BY <1>7 DEF FoundIsTrue
<1> QED
  BY <1>1, <1>2, <1>3, <1>4, <1>5, <1>6, <1>7
     DEF VoterNext, voterVars, CreateWithZero, AskPower, Ensure, EnsureFails, ClearCaches, HistoryComes

(* At the beginning there are no rows and no run. *)
LEMMA VoterStart == VoterInit => VoterInv
<1> SUFFICES ASSUME VoterInit PROVE VoterInv
  OBVIOUS
<1>1. VoterTypeOK
  BY VoterAssumption DEF VoterInit, VoterTypeOK
<1>2. DOMAIN <<>> = {}
  OBVIOUS
<1> QED
  BY <1>1, <1>2 DEF VoterInv, VoterInit, FoundIsTrue, Resting

(* The rows that stand are replaced by the updates of a run alone.           *)
LEMMA PowerStep == VoterInv /\ [VoterNext]_voterVars => RowsKept
<1> SUFFICES ASSUME VoterInv, [VoterNext]_voterVars, NEW v \in Voters, power[v] # NoRow
             PROVE  /\ power'[v].of >= power[v].of \/ (bulk.pc = "update" /\ power'[v].of = bulk.epoch)
                    /\ power'[v].amount = 0 /\ power[v].amount > 0 => Stake[v][power'[v].of] = 0
  BY DEF RowsKept
<1>0. power \in [Voters -> {NoRow} \cup VoterRow] /\ power[v].of \in Int
  BY DEF VoterInv, VoterTypeOK, VoterRow
<1>1. CASE power'[v] = power[v]
  BY <1>0, <1>1
<1>2. CASE UpdateChunk /\ power'[v] # power[v]
  <2>1. PICK w \in RowsToUpdate :
            power' = [power EXCEPT ![w] = [amount |-> NextAmount(w), of |-> bulk.epoch]]
    BY <1>2 DEF UpdateChunk
  <2>2. w = v /\ power'[v] = [amount |-> NextAmount(v), of |-> bulk.epoch] /\ bulk.pc = "update"
    BY <1>0, <1>2, <2>1 DEF UpdateChunk
  <2>3. NextAmount(v) = 0 => Stake[v][bulk.epoch] = 0
    BY <2>1, <2>2 DEF RowsToUpdate, NextAmount, VoterInv, FoundIsTrue
  <2> QED
    BY <2>2, <2>3
<1>3. ~UpdateChunk => power'[v] = power[v]
  BY <1>0 DEF VoterNext, SyncBegins, BulkFetch, ConfirmMissing, SyncStops, CreateWithZero, AskPower,
              Ensure, EnsuredRow, EnsureFails, ClearCaches, VotingEpochTurns, HistoryComes,
              voterVars
<1> QED
  BY <1>1, <1>2, <1>3

(* Whatever a run found of an epoch is true of it (syncAllVoterVotingPower). *)
THEOREM FoundPowersAreTrue == ~Late /\ VoterSpec => []VoterInv
<1> SUFFICES ASSUME ~Late PROVE VoterSpec => []VoterInv
  OBVIOUS
<1>1. VoterInit => VoterInv
  BY VoterStart
<1>2. VoterInv /\ [VoterNext]_voterVars => VoterInv'
  BY VoterTypeStep, FoundStep DEF VoterInv
<1> QED
  BY <1>1, <1>2, PTL DEF VoterSpec

(* PowerKept, for any voters, powers and epochs: a stored power becomes 0    *)
(* only for a voter that has none in the epoch, and one of a later epoch is  *)
(* replaced only by a run that began before (voterPowerSync.service.ts), if  *)
(* Koios has the powers of an epoch from its start.                          *)
THEOREM PowerIsKept == ~Late /\ VoterSpec => PowerKept
<1>1. VoterInv /\ [VoterNext]_voterVars => [RowsKept]_voterVars
  BY PowerStep
<1>2. ~Late /\ VoterSpec => [][RowsKept]_voterVars
  BY <1>1, FoundPowersAreTrue, PTL DEF VoterSpec
<1> QED
  BY <1>2 DEF PowerKept, RowsKept
================================================================================
