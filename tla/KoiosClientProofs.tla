--------------------------- MODULE KoiosClientProofs ---------------------------
(***************************************************************************)
(* The cooldowns that containers share, for any containers and kinds of    *)
(* cooldown; what is lost when a list changes while it is read page by     *)
(* page; and the gate, the limiters and the retries of a request.          *)
(*                                                                         *)
(* NothingUnpublished needs two facts to be inductive: what a container    *)
(* published last is in the row or on its way there, or lost (so that the  *)
(* throttle may skip it); and what a pull has read is still in the row (so *)
(* that applying it leaves nothing to publish).                            *)
(*                                                                         *)
(* The rows a pass has not got, although it went past their place, are the *)
(* hidden ones.  A row that comes in pushes others back, where they are    *)
(* read again or later; one that leaves pulls the first unread row over    *)
(* the place where the next page begins, so it hides one row at most.      *)
(*                                                                         *)
(* Of the cooldowns that a caller has looked at since it was granted, each *)
(* is over or grew since; and what it sleeps through is over when it wakes *)
(* up, or grew since (GateInv).  A limiter's queue is empty, or somebody   *)
(* holds the limiter or is on the way in, and will wake the head (LInv).   *)
(***************************************************************************)
EXTENDS SharedCooldown, KoiosPaging, KoiosRequests, FiniteSetTheorems, SequenceTheorems, TLAPS

-------------------------------------------------------------------------------
(* Snapshot s of container c is in row r, or in a merge of ms that is      *)
(* under way, or lo says that it was lost.                                 *)
DeliveredIn(c, s, r, ms, lo) ==
    \A k \in Kinds :
        \/ r[k] >= s[k]
        \/ \E m \in ms : m.by = c /\ m.of[k] >= s[k]
        \/ lo[c]
Delivered(c, s) == DeliveredIn(c, s, row, merges, lost)

IInv ==
    /\ TypeOK
    /\ \A c \in Containers : Delivered(c, until[c])
    /\ \A c \in Containers : Delivered(c, lastPublished[c])
    /\ \A c \in Containers : Covers(row, snapshot[c])

(* The maximum of two snapshots is one, and covers both. *)
LEMMA LaterCovers ==
    ASSUME NEW s \in Snapshots, NEW t \in Snapshots
    PROVE  /\ Later(s, t) \in Snapshots
           /\ Covers(Later(s, t), s)
           /\ Covers(Later(s, t), t)
BY BoundsAssumption DEF Later, Covers, Snapshots, Moments

LEMMA NeverIsSnapshot == Never \in Snapshots
BY BoundsAssumption DEF Never, Snapshots, Moments

(* Every step keeps the types. *)
LEMMA TypeStep == TypeOK /\ [Next]_vars => TypeOK'
<1> SUFFICES ASSUME TypeOK, [Next]_vars PROVE TypeOK'
  OBVIOUS
<1> USE BoundsAssumption
<1>1. ASSUME NEW c \in Containers, NEW k \in Kinds, NEW moment \in Moments \ {0},
             Signal(c, k, moment)
      PROVE  TypeOK'
  <2>1. until' \in [Containers -> Snapshots]
    BY <1>1 DEF Signal, TypeOK, Snapshots, Moments
  <2>2. until'[c] \in Snapshots
    BY <2>1
  <2>4. [by |-> c, of |-> until'[c]] \in [by : Containers, of : Snapshots]
    BY <2>2
  <2>5. Publish(c, until'[c])
    BY <1>1 DEF Signal
  <2>3. /\ lastPublished' \in [Containers -> Snapshots]
        /\ published' \in [Containers -> BOOLEAN]
        /\ merges' \subseteq [by : Containers, of : Snapshots]
    <3>1. CASE UNCHANGED publishing
      BY <3>1 DEF publishing, TypeOK
    <3>2. CASE /\ lastPublished' = [lastPublished EXCEPT ![c] = until'[c]]
               /\ published' = [published EXCEPT ![c] = TRUE]
               /\ merges' = merges \cup {[by |-> c, of |-> until'[c]]}
      BY <3>2, <2>2, <2>4 DEF TypeOK
    <3> QED
      BY <2>5, <3>1, <3>2 DEF Publish
  <2> QED
    BY <1>1, <2>1, <2>3 DEF Signal, TypeOK, pulling, publishing
<1>2. ASSUME NEW m \in merges, Merge(m) \/ MergeUnacknowledged(m) \/ MergeFails(m)
      PROVE  TypeOK'
  <2>1. m \in [by : Containers, of : Snapshots] /\ m.of \in Snapshots
    BY DEF TypeOK
  <2>2. Later(row, m.of) \in Snapshots
    BY <2>1, LaterCovers DEF TypeOK
  <2>3. CASE Merge(m)
    BY <2>1, <2>2, <2>3 DEF Merge, TypeOK, pulling
  <2>4. CASE MergeUnacknowledged(m)
    BY <2>1, <2>2, <2>4 DEF MergeUnacknowledged, Fault, TypeOK, pulling, publishing
  <2>5. CASE MergeFails(m)
    BY <2>1, <2>5 DEF MergeFails, Fault, TypeOK, pulling
  <2> QED
    BY <1>2, <2>3, <2>4, <2>5
<1>3. ASSUME NEW c \in Containers, StartPull(c) \/ Read(c) \/ PullFails(c)
      PROVE  TypeOK'
  <2>1. CASE StartPull(c)
    BY <2>1 DEF StartPull, TypeOK, publishing
  <2>2. CASE Read(c)
    BY <2>2 DEF Read, TypeOK, publishing
  <2>3. CASE PullFails(c)
    BY <2>3 DEF PullFails, Fault, TypeOK, publishing
  <2> QED
    BY <1>3, <2>1, <2>2, <2>3
<1>4. ASSUME NEW c \in Containers, Apply(c)
      PROVE  TypeOK'
  <2>1. Later(until[c], snapshot[c]) \in Snapshots
    BY LaterCovers DEF TypeOK
  <2> QED
    BY <1>4, <2>1, NeverIsSnapshot DEF Apply, TypeOK, publishing
<1>5. ASSUME NEW c \in Containers, PullIntervalOver(c) \/ PublishIntervalOver(c)
      PROVE  TypeOK'
  BY <1>5 DEF PullIntervalOver, PublishIntervalOver, TypeOK, pulling, publishing
<1>6. ASSUME NEW c \in Containers, Restart(c)
      PROVE  TypeOK'
  BY <1>6, NeverIsSnapshot DEF Restart, Fault, TypeOK
<1>7. ASSUME UNCHANGED vars PROVE TypeOK'
  BY <1>7 DEF vars, TypeOK
<1> QED
  BY <1>1, <1>2, <1>3, <1>4, <1>5, <1>6, <1>7 DEF Next

(* The row only ever grows. *)
LEMMA RowGrows == TypeOK /\ [Next]_vars => Covers(row', row)
<1> SUFFICES ASSUME TypeOK, [Next]_vars PROVE Covers(row', row)
  OBVIOUS
<1>1. CASE \E m \in merges : Merge(m) \/ MergeUnacknowledged(m)
  <2> PICK m \in merges : Merge(m) \/ MergeUnacknowledged(m)
    BY <1>1
  <2>1. m.of \in Snapshots /\ row \in Snapshots
    BY DEF TypeOK
  <2>2. row' = Later(row, m.of)
    BY DEF Merge, MergeUnacknowledged
  <2> QED
    BY <2>1, <2>2, LaterCovers
<1>2. CASE row' = row
  <2>1. \A k \in Kinds : row[k] \in Nat
    BY BoundsAssumption DEF TypeOK, Snapshots, Moments
  <2> QED
    BY <1>2, <2>1 DEF Covers
<1> QED
  BY <1>1, <1>2
     DEF Next, vars, Signal, MergeFails, StartPull, Read, Apply, PullFails,
         PullIntervalOver, PublishIntervalOver, Restart

(* What is delivered stays delivered while the row grows and no merge of   *)
(* that container is dropped without a trace.                              *)
LEMMA StaysDelivered ==
    ASSUME TypeOK, TypeOK', Covers(row', row),
           NEW c \in Containers, NEW s \in Snapshots, Delivered(c, s),
           lost[c] => lost'[c],
           \A m \in merges : m.by = c => m \in merges' \/ lost'[c] \/ Covers(row', m.of)
    PROVE  DeliveredIn(c, s, row', merges', lost')
<1> SUFFICES ASSUME NEW k \in Kinds
             PROVE  \/ row'[k] >= s[k]
                    \/ \E m \in merges' : m.by = c /\ m.of[k] >= s[k]
                    \/ lost'[c]
  BY DEF DeliveredIn
<1>1. row[k] \in Nat /\ row'[k] \in Nat /\ s[k] \in Nat /\ row'[k] >= row[k]
  BY BoundsAssumption DEF TypeOK, Snapshots, Moments, Covers
<1>2. CASE row[k] >= s[k]
  BY <1>1, <1>2
<1>3. CASE \E m \in merges : m.by = c /\ m.of[k] >= s[k]
  <2> PICK m \in merges : m.by = c /\ m.of[k] >= s[k]
    BY <1>3
  <2>1. m.of[k] \in Nat
    BY BoundsAssumption DEF TypeOK, Snapshots, Moments
  <2>2. CASE Covers(row', m.of)
    BY <1>1, <2>1, <2>2 DEF Covers
  <2> QED
    BY <2>2
<1> QED
  BY <1>2, <1>3 DEF Delivered, DeliveredIn

(* Dropping no merge and moving nothing but these keeps all deliveries.    *)
LEMMA SignalKeeps ==
    ASSUME IInv, TypeOK', Covers(row', row),
           NEW c \in Containers, NEW k \in Kinds, NEW moment \in Moments \ {0},
           Signal(c, k, moment)
    PROVE  IInv'
<1> DEFINE s == until'[c]
<1>1. s \in Snapshots /\ Publish(c, s) /\ row' = row /\ lost' = lost
      /\ snapshot' = snapshot
  BY DEF Signal, TypeOK, pulling
<1>2. merges \subseteq merges'
  BY <1>1 DEF Publish, publishing
<1>3. \A d \in Containers : Delivered(d, lastPublished[d])'
  <2> SUFFICES ASSUME NEW d \in Containers PROVE Delivered(d, lastPublished[d])'
    OBVIOUS
  <2>1. Delivered(d, lastPublished[d]) /\ lastPublished[d] \in Snapshots
    BY DEF IInv, TypeOK
  <2>2. CASE lastPublished'[d] = lastPublished[d]
    BY <1>1, <1>2, <2>1, <2>2 DEF Delivered, DeliveredIn
  <2>3. CASE lastPublished'[d] # lastPublished[d]
    <3>1. d = c /\ lastPublished'[d] = s /\ [by |-> c, of |-> s] \in merges'
      BY <1>1, <2>3 DEF Publish, publishing, IInv, TypeOK
    <3>2. \A j \in Kinds : s[j] >= s[j]
      BY <1>1, BoundsAssumption DEF Snapshots, Moments
    <3> QED
      BY <3>1, <3>2 DEF Delivered, DeliveredIn
  <2> QED
    BY <2>2, <2>3
<1>4. \A d \in Containers : Delivered(d, until[d])'
  <2> SUFFICES ASSUME NEW d \in Containers PROVE Delivered(d, until[d])'
    OBVIOUS
  <2>1. CASE d = c
    <3>1. lastPublished'[c] = s
      BY <1>1 DEF Publish, publishing, IInv, TypeOK
    <3> QED
      BY <1>3, <2>1, <3>1 DEF Delivered
  <2>2. CASE d # c
    <3>1. until'[d] = until[d]
      BY <2>2 DEF Signal, IInv, TypeOK
    <3> QED
      BY <1>1, <1>2, <3>1 DEF Delivered, DeliveredIn, IInv
  <2> QED
    BY <2>1, <2>2
<1> QED
  BY <1>1, <1>3, <1>4 DEF IInv, Covers

(* The steps that move neither what is known nor what was published.       *)
LEMMA MergeKeeps ==
    ASSUME IInv, TypeOK', Covers(row', row), NEW m \in merges,
           Merge(m) \/ MergeUnacknowledged(m) \/ MergeFails(m)
    PROVE  IInv'
<1>1. /\ until' = until /\ lastPublished' = lastPublished /\ snapshot' = snapshot
      /\ \A c \in Containers : lost[c] => lost'[c]
  BY DEF Merge, MergeUnacknowledged, MergeFails, pulling, publishing, IInv, TypeOK
<1>2. Covers(row', m.of) \/ m \in merges' \/ lost'[m.by]
  <2>1. m.of \in Snapshots /\ m.by \in Containers
    BY DEF IInv, TypeOK
  <2> QED
    BY <2>1, LaterCovers DEF Merge, MergeUnacknowledged, MergeFails, publishing, IInv, TypeOK
<1>3. \A n \in merges : n # m => n \in merges'
  BY DEF Merge, MergeUnacknowledged, MergeFails, publishing
<1>4. ASSUME NEW c \in Containers, NEW s \in Snapshots, Delivered(c, s)
      PROVE  DeliveredIn(c, s, row', merges', lost')
  <2>1. \A n \in merges : n.by = c => n \in merges' \/ lost'[c] \/ Covers(row', n.of)
    BY <1>2, <1>3
  <2> QED
    BY <1>1, <1>4, <2>1, StaysDelivered DEF IInv
<1>5. \A c \in Containers : Delivered(c, until[c])' /\ Delivered(c, lastPublished[c])'
  <2>1. \A c \in Containers :
           /\ until[c] \in Snapshots /\ Delivered(c, until[c])
           /\ lastPublished[c] \in Snapshots /\ Delivered(c, lastPublished[c])
    BY DEF IInv, TypeOK
  <2> QED
    BY <1>1, <1>4, <2>1 DEF Delivered
<1>6. \A c \in Containers : Covers(row', snapshot[c])
  BY BoundsAssumption DEF Covers, IInv, TypeOK, Snapshots, Moments
<1> QED
  BY <1>1, <1>5, <1>6 DEF IInv, Covers

(* A pull brings only what is in the row, so nothing new to publish.       *)
LEMMA PullKeeps ==
    ASSUME IInv, TypeOK', NEW c \in Containers,
           StartPull(c) \/ Read(c) \/ Apply(c) \/ PullFails(c)
    PROVE  IInv'
<1>1. /\ row' = row /\ lost' = lost /\ merges' = merges /\ lastPublished' = lastPublished
  BY DEF StartPull, Read, Apply, PullFails, publishing
<1>2. \A d \in Containers : Covers(row', snapshot'[d])
  <2> SUFFICES ASSUME NEW d \in Containers PROVE Covers(row', snapshot'[d])
    OBVIOUS
  <2>1. snapshot'[d] \in {snapshot[d], row, Never}
    BY DEF StartPull, Read, Apply, PullFails, IInv, TypeOK
  <2>2. Covers(row, row) /\ Covers(row, Never) /\ Covers(row, snapshot[d])
    BY BoundsAssumption DEF Covers, Never, IInv, TypeOK, Snapshots, Moments
  <2> QED
    BY <1>1, <2>1, <2>2
<1>3. \A d \in Containers : Delivered(d, lastPublished[d])'
  BY <1>1 DEF IInv, Delivered, DeliveredIn
<1>4. \A d \in Containers : Delivered(d, until[d])'
  <2> SUFFICES ASSUME NEW d \in Containers, NEW k \in Kinds
               PROVE  \/ row[k] >= until'[d][k]
                      \/ \E m \in merges : m.by = d /\ m.of[k] >= until'[d][k]
                      \/ lost[d]
    BY <1>1 DEF Delivered, DeliveredIn
  <2>1. until'[d] = until[d] \/ until'[d] = Later(until[d], snapshot[d])
    BY DEF StartPull, Read, Apply, PullFails, IInv, TypeOK
  <2>2. until'[d][k] \in {until[d][k], snapshot[d][k]}
    BY <2>1 DEF Later
  <2>3. row[k] >= snapshot[d][k]
    BY DEF IInv, Covers
  <2>4. \/ row[k] >= until[d][k]
        \/ \E m \in merges : m.by = d /\ m.of[k] >= until[d][k]
        \/ lost[d]
    BY DEF IInv, Delivered, DeliveredIn
  <2> QED
    BY <2>2, <2>3, <2>4
<1> QED
  BY <1>2, <1>3, <1>4 DEF IInv

(* A container that restarts knows of nothing that it should publish.      *)
LEMMA RestartKeeps ==
    ASSUME IInv, TypeOK', NEW c \in Containers, Restart(c)
    PROVE  IInv'
<1>1. /\ row' = row /\ lost' = lost
      /\ merges' = {m \in merges : m.by # c}
  BY DEF Restart
<1>2. \A d \in Containers :
         IF d = c
         THEN until'[d] = Never /\ lastPublished'[d] = Never /\ snapshot'[d] = Never
         ELSE /\ until'[d] = until[d] /\ lastPublished'[d] = lastPublished[d]
              /\ snapshot'[d] = snapshot[d]
  BY DEF Restart, IInv, TypeOK
<1>3. Covers(row, Never)
  BY BoundsAssumption DEF Covers, Never, IInv, TypeOK, Snapshots, Moments
<1>4. \A d \in Containers : Covers(row', snapshot'[d])
  BY <1>1, <1>2, <1>3 DEF IInv
<1>5. ASSUME NEW d \in Containers PROVE DeliveredIn(d, Never, row', merges', lost')
  BY <1>1, <1>3 DEF DeliveredIn, Covers
<1>6. ASSUME NEW d \in Containers \ {c}, NEW s \in Snapshots, Delivered(d, s)
      PROVE  DeliveredIn(d, s, row', merges', lost')
  BY <1>1, <1>6 DEF Delivered, DeliveredIn
<1>7. \A d \in Containers : Delivered(d, until[d])' /\ Delivered(d, lastPublished[d])'
  <2>1. \A d \in Containers :
           /\ until[d] \in Snapshots /\ Delivered(d, until[d])
           /\ lastPublished[d] \in Snapshots /\ Delivered(d, lastPublished[d])
    BY DEF IInv, TypeOK
  <2> QED
    BY <1>2, <1>5, <1>6, <2>1 DEF Delivered
<1> QED
  BY <1>4, <1>7 DEF IInv

LEMMA Inductive == IInv /\ [Next]_vars => IInv'
<1> SUFFICES ASSUME IInv, [Next]_vars PROVE IInv'
  OBVIOUS
<1>1. TypeOK /\ TypeOK' /\ Covers(row', row)
  BY TypeStep, RowGrows DEF IInv
<1>2. CASE \E c \in Containers, k \in Kinds, moment \in Moments \ {0} : Signal(c, k, moment)
  BY <1>1, <1>2, SignalKeeps
<1>3. CASE \E m \in merges : Merge(m) \/ MergeUnacknowledged(m) \/ MergeFails(m)
  BY <1>1, <1>3, MergeKeeps
<1>4. CASE \E c \in Containers : StartPull(c) \/ Read(c) \/ Apply(c) \/ PullFails(c)
  BY <1>1, <1>4, PullKeeps
<1>5. CASE \E c \in Containers : PullIntervalOver(c) \/ PublishIntervalOver(c)
  BY <1>1, <1>5
     DEF PullIntervalOver, PublishIntervalOver, pulling, publishing, IInv,
         Delivered, DeliveredIn, Covers
<1>6. CASE \E c \in Containers : Restart(c)
  BY <1>1, <1>6, RestartKeeps
<1>7. CASE UNCHANGED vars
  BY <1>1, <1>7 DEF vars, IInv, Delivered, DeliveredIn, Covers
<1> QED
  BY <1>2, <1>3, <1>4, <1>5, <1>6, <1>7 DEF Next

LEMMA Initial == Init => IInv
<1> SUFFICES ASSUME Init PROVE IInv
  OBVIOUS
<1>1. TypeOK
  BY NeverIsSnapshot, BoundsAssumption DEF Init, TypeOK
<1>2. Covers(Never, Never)
  BY DEF Covers, Never
<1> QED
  BY <1>1, <1>2 DEF Init, IInv, Delivered, DeliveredIn, Covers

(* The types, for any containers and kinds of cooldown. *)
THEOREM TypeCorrect == Spec => []TypeOK
<1>1. IInv => TypeOK
  BY DEF IInv
<1> QED
  BY <1>1, Initial, Inductive, PTL DEF Spec

(* The throttles of publishKoiosSharedCooldown swallow no cooldown.        *)
THEOREM NothingUnpublishedHolds == Spec => []NothingUnpublished
<1>1. IInv => NothingUnpublished
  BY DEF IInv, NothingUnpublished, Delivered, DeliveredIn
<1> QED
  BY <1>1, Initial, Inductive, PTL DEF Spec

(* mergeKoiosSharedCooldown never shortens a cooldown in the row, and a    *)
(* container forgets one only when it restarts.                            *)
THEOREM NeverShortenedHolds == Spec => NeverShortened
<1>1. TypeOK /\ [Next]_vars
      => [/\ Covers(row', row)
          /\ \A c \in Containers : Covers(until'[c], until[c]) \/ Restart(c)]_vars
  <2> SUFFICES ASSUME TypeOK, Next, NEW c \in Containers, ~Restart(c)
               PROVE  Covers(until'[c], until[c])
    BY RowGrows
  <2> DEFINE grows == \A k \in Kinds : until'[c][k] >= until[c][k]
  <2>1. \A k \in Kinds : until[c][k] \in Nat /\ snapshot[c][k] \in Nat
    BY BoundsAssumption DEF TypeOK, Snapshots, Moments
  <2>2. CASE until'[c] = until[c]
    BY <2>1, <2>2 DEF Covers
  <2>3. CASE Apply(c)
    <3>1. until'[c] = Later(until[c], snapshot[c])
      BY <2>3 DEF Apply, TypeOK
    <3> QED
      BY <3>1, LaterCovers DEF TypeOK
  <2>4. CASE \E k \in Kinds, moment \in Moments \ {0} : Signal(c, k, moment)
    <3> PICK k \in Kinds, moment \in Moments \ {0} : Signal(c, k, moment)
      BY <2>4
    <3>1. \A j \in Kinds :
             until'[c][j] = IF j # k \/ until[c][j] >= moment THEN until[c][j] ELSE moment
      BY DEF Signal, TypeOK, Snapshots
    <3> QED
      BY <2>1, <3>1, BoundsAssumption DEF Covers, Moments
  <2> QED
    BY <2>2, <2>3, <2>4
       DEF Next, Signal, Merge, MergeUnacknowledged, MergeFails, StartPull, Read, Apply,
           PullFails, PullIntervalOver, PublishIntervalOver, Restart, TypeOK
<1> QED
  BY <1>1, TypeCorrect, PTL DEF Spec, NeverShortened

-------------------------------------------------------------------------------
(* Reading page by page. *)

USE ParametersAssumption, ListsAssumption

(* What a row that comes in, and one that leaves, does to the list.        *)
LEMMA WithRows ==
    ASSUME NEW s \in Seq(Row), Distinct(s), NEW r \in Row \ Range(s),
           NEW i \in 1 .. Len(s) + 1, NEW w, w = With(s, i, r)
    PROVE  /\ w \in Seq(Row) /\ Len(w) = Len(s) + 1
           /\ \A j \in 1 .. Len(s) + 1 :
                 w[j] = IF j < i THEN s[j] ELSE IF j = i THEN r ELSE s[j - 1]
           /\ Distinct(w)
           /\ Range(s) \subseteq Range(w)
<1>1. /\ w \in Seq(Row) /\ Len(w) = Len(s) + 1 /\ DOMAIN w = 1 .. Len(s) + 1
      /\ \A j \in 1 .. Len(s) + 1 :
            w[j] = IF j < i THEN s[j] ELSE IF j = i THEN r ELSE s[j - 1]
  BY DEF With
<1>2. \A j \in 1 .. Len(s) : s[j] \in Range(s) /\ s[j] # r
  BY DEF Range
<1>3. \A j, k \in 1 .. Len(s) : s[j] = s[k] => j = k
  BY DEF Distinct
<1>4. ASSUME NEW j \in DOMAIN w, NEW k \in DOMAIN w, w[j] = w[k], j < k PROVE FALSE
  <2> DEFINE old(n) == IF n < i THEN n ELSE n - 1
  <2>1. j # i => old(j) \in 1 .. Len(s) /\ w[j] = s[old(j)]
    BY <1>1
  <2>2. k # i => old(k) \in 1 .. Len(s) /\ w[k] = s[old(k)]
    BY <1>1
  <2>3. j # i /\ k # i => old(j) # old(k)
    BY <1>1, <1>4
  <2>4. w[i] = r
    BY <1>1
  <2> HIDE DEF old
  <2> QED
    BY <1>2, <1>3, <1>4, <2>1, <2>2, <2>3, <2>4
<1>5. Distinct(w)
  <2> SUFFICES ASSUME NEW j \in DOMAIN w, NEW k \in DOMAIN w, w[j] = w[k] PROVE j = k
    BY DEF Distinct
  <2>1. j \in Int /\ k \in Int
    BY <1>1
  <2> QED
    BY <1>4, <2>1
<1>6. ASSUME NEW j \in 1 .. Len(s) PROVE s[j] \in Range(w)
  <2>1. CASE j < i
    <3>1. j \in DOMAIN w /\ w[j] = s[j]
      BY <1>1, <2>1
    <3> QED
      BY <3>1 DEF Range
  <2>2. CASE j >= i
    <3>1. j + 1 \in DOMAIN w /\ w[j + 1] = s[j]
      BY <1>1, <2>2
    <3> QED
      BY <3>1 DEF Range
  <2> QED
    BY <2>1, <2>2
<1> QED
  BY <1>1, <1>5, <1>6 DEF Range

LEMMA WithoutRows ==
    ASSUME NEW s \in Seq(Row), Distinct(s), NEW i \in 1 .. Len(s), NEW w, w = Without(s, i)
    PROVE  /\ w \in Seq(Row) /\ Len(w) = Len(s) - 1
           /\ \A j \in 1 .. Len(s) - 1 : w[j] = IF j < i THEN s[j] ELSE s[j + 1]
           /\ Distinct(w)
           /\ Range(s) \ {s[i]} \subseteq Range(w)
<1>1. /\ w \in Seq(Row) /\ Len(w) = Len(s) - 1 /\ DOMAIN w = 1 .. Len(s) - 1
      /\ \A j \in 1 .. Len(s) - 1 : w[j] = IF j < i THEN s[j] ELSE s[j + 1]
  BY DEF Without
<1>3. \A j, k \in 1 .. Len(s) : s[j] = s[k] => j = k
  BY DEF Distinct
<1>5. Distinct(w)
  <2> SUFFICES ASSUME NEW j \in DOMAIN w, NEW k \in DOMAIN w, w[j] = w[k] PROVE j = k
    BY DEF Distinct
  <2> DEFINE old(n) == IF n < i THEN n ELSE n + 1
  <2>1. old(j) \in 1 .. Len(s) /\ w[j] = s[old(j)] /\ old(k) \in 1 .. Len(s) /\ w[k] = s[old(k)]
    BY <1>1
  <2>2. old(j) = old(k) => j = k
    BY <1>1
  <2> HIDE DEF old
  <2> QED
    BY <1>3, <2>1, <2>2
<1>6. ASSUME NEW j \in 1 .. Len(s), j # i PROVE s[j] \in Range(w)
  <2>1. CASE j < i
    <3>1. j \in DOMAIN w /\ w[j] = s[j]
      BY <1>1, <2>1
    <3> QED
      BY <3>1 DEF Range
  <2>2. CASE j > i
    <3>1. j - 1 \in DOMAIN w /\ w[j - 1] = s[j]
      BY <1>1, <2>2
    <3> QED
      BY <3>1 DEF Range
  <2> QED
    BY <1>6, <2>1, <2>2
<1>7. Range(s) \ {s[i]} \subseteq Range(w)
  <2> SUFFICES ASSUME NEW x \in Range(s) \ {s[i]} PROVE x \in Range(w)
    OBVIOUS
  <2>1. PICK j \in 1 .. Len(s) : s[j] = x
    BY DEF Range
  <2> QED
    BY <1>6, <2>1
<1> QED
  BY <1>1, <1>5, <1>7

(* Every step keeps the types; the rows of the list stay distinct.         *)
LEMMA PagingTypeInit == PagingInit => PagingTypeOK
BY DEF PagingInit, PagingTypeOK, Range, Distinct

LEMMA PagingTypeStep == PagingTypeOK /\ [PagingNext]_pagingVars => PagingTypeOK'
<1> SUFFICES ASSUME PagingTypeOK, [PagingNext]_pagingVars PROVE PagingTypeOK'
  OBVIOUS
<1> USE DEF PagingTypeOK
<1>1. ASSUME NEW r \in Row, NEW i \in 1 .. Len(rows) + 1, Insert(r, i) PROVE PagingTypeOK'
  <2>1. rows' \in Seq(Row) /\ Distinct(rows') /\ Range(rows) \subseteq Range(rows')
    BY <1>1, WithRows DEF Insert
  <2> QED
    BY <1>1, <2>1 DEF Insert, local
<1>2. ASSUME NEW i \in DOMAIN rows, Remove(i) PROVE PagingTypeOK'
  <2>1. /\ rows' \in Seq(Row) /\ Distinct(rows')
        /\ Range(rows) \ {rows[i]} \subseteq Range(rows')
    BY <1>2, WithoutRows DEF Remove
  <2> QED
    BY <1>2, <2>1 DEF Remove, local
<1>3. ASSUME NEW limit \in Limits,
             NextPage(limit) \/ EndPassOne(limit) \/ EndPassTwo(limit)
      PROVE  PagingTypeOK'
  <2>1. Page(limit) \subseteq Row /\ PageLen(limit) \in Nat
    <3>1. Len(rows) \in Nat /\ offset \in Nat /\ limit \in Nat /\ \A i \in 1..Len(rows) : rows[i] \in Row
      OBVIOUS
    <3>2. PageEnd(limit) \in Nat /\ PageEnd(limit) <= Len(rows)
      BY <3>1 DEF PageEnd, Smaller
    <3> QED BY <3>1, <3>2 DEF Page, PageLen
  <2>2. CASE NextPage(limit)
    BY <2>1, <2>2 DEF NextPage, remote, Range
  <2>3. CASE EndPassOne(limit)
    BY <2>1, <2>3 DEF EndPassOne, SecondPass, Range
  <2>4. CASE EndPassTwo(limit)
    BY <2>1, <2>4 DEF EndPassTwo, remote, Range
  <2> QED
    BY <1>3, <2>2, <2>3, <2>4
<1>4. CASE UNCHANGED pagingVars
  BY <1>4 DEF pagingVars, remote, local, Range, Distinct
<1> QED
  BY <1>1, <1>2, <1>3, <1>4 DEF PagingNext

(* The state of the paging and of the list is always well typed.           *)
THEOREM PagingTypeCorrect == PagingSpec => []PagingTypeOK
BY PagingTypeInit, PagingTypeStep, PTL DEF PagingSpec

-------------------------------------------------------------------------------
(* What is hidden: in pass one, the kept rows before the place of the next *)
(* page that it has not got; after it, all kept rows that it has not got.  *)
Before(s, n) == {x \in Range(s) : \E j \in DOMAIN s : j <= n /\ s[j] = x}
Hidden ==
    IF pass = 1 THEN (Before(rows, offset) \cap kept) \ one ELSE kept \ one

(* No more rows are hidden than have left the list. *)
HiddenBound == Cardinality(Hidden) <= gone[1]

LEMMA RangeFinite ==
    ASSUME NEW S, NEW s \in Seq(S)
    PROVE  IsFiniteSet(Range(s))
<1>1. s \in Surjection(DOMAIN s, Range(s))
  BY DEF Surjection, Range
<1>2. DOMAIN s = 1 .. Len(s) /\ Len(s) \in Nat
  OBVIOUS
<1>3. IsFiniteSet(DOMAIN s)
  BY <1>2, FS_Interval
<1> QED
  BY <1>1, <1>3, FS_Surjection

(* A set that a finite one holds, but for one element, is hardly larger.   *)
LEMMA OneMore ==
    ASSUME NEW S, IsFiniteSet(S), NEW T, NEW x, T \subseteq S \cup {x}
    PROVE  Cardinality(T) \in Nat /\ Cardinality(S) \in Nat /\ Cardinality(T) <= Cardinality(S) + 1
<1>1. IsFiniteSet(S \cup {x}) /\ Cardinality(S \cup {x}) <= Cardinality(S) + 1 /\ Cardinality(S) \in Nat
  <2>1. /\ IsFiniteSet(S \cup {x}) /\ Cardinality(S) \in Nat
        /\ Cardinality(S \cup {x}) = IF x \in S THEN Cardinality(S) ELSE Cardinality(S) + 1
    BY FS_AddElement, FS_CardinalityType
  <2> QED
    BY <2>1
<1>2. IsFiniteSet(T) /\ Cardinality(T) <= Cardinality(S \cup {x}) /\ Cardinality(T) \in Nat
      /\ Cardinality(S \cup {x}) \in Nat
  BY <1>1, FS_Subset, FS_CardinalityType
<1> QED
  BY <1>1, <1>2

LEMMA NoMore ==
    ASSUME NEW S, IsFiniteSet(S), NEW T, T \subseteq S
    PROVE  Cardinality(T) \in Nat /\ Cardinality(S) \in Nat /\ Cardinality(T) <= Cardinality(S)
BY FS_Subset, FS_CardinalityType

LEMMA HiddenInit == PagingInit => HiddenBound
<1> SUFFICES ASSUME PagingInit PROVE HiddenBound
  OBVIOUS
<1>1. Hidden = {}
  BY DEF PagingInit, Hidden, Before, Range
<1> QED
  BY <1>1, FS_EmptySet DEF PagingInit, HiddenBound

(* The hidden rows are finitely many, as they are rows of the list.        *)
LEMMA HiddenFinite == PagingTypeOK => IsFiniteSet(Hidden) /\ IsFiniteSet(kept)
<1> SUFFICES ASSUME PagingTypeOK PROVE IsFiniteSet(Hidden) /\ IsFiniteSet(kept)
  OBVIOUS
<1>1. IsFiniteSet(Range(rows))
  BY RangeFinite DEF PagingTypeOK
<1>2. IsFiniteSet(kept)
  BY <1>1, FS_Subset DEF PagingTypeOK
<1>3. Hidden \subseteq kept
  BY DEF Hidden
<1> QED
  BY <1>2, <1>3, FS_Subset

(* What is before the place of the next page: a row that comes in pushes   *)
(* rows out of that part and into it only itself.                          *)
LEMMA InsertBefore ==
    ASSUME PagingTypeOK, NEW r \in Row, NEW i \in 1 .. Len(rows) + 1, Insert(r, i)
    PROVE  Before(rows', offset) \ {r} \subseteq Before(rows, offset)
<1> USE DEF PagingTypeOK
<1>1. /\ Len(rows') = Len(rows) + 1 /\ DOMAIN rows' = 1 .. Len(rows) + 1
      /\ \A j \in 1 .. Len(rows) + 1 :
            rows'[j] = IF j < i THEN rows[j] ELSE IF j = i THEN r ELSE rows[j - 1]
  BY WithRows DEF Insert
<1> SUFFICES ASSUME NEW x \in Before(rows', offset) \ {r} PROVE x \in Before(rows, offset)
  OBVIOUS
<1>2. PICK j \in DOMAIN rows' : j <= offset /\ rows'[j] = x
  BY DEF Before
<1>3. CASE j < i
  <2>1. j \in DOMAIN rows /\ rows[j] = x
    BY <1>1, <1>2, <1>3
  <2> QED
    BY <1>2, <2>1 DEF Before, Range
<1>4. CASE j > i
  <2>1. j - 1 \in DOMAIN rows /\ rows[j - 1] = x /\ j - 1 <= offset
    BY <1>1, <1>2, <1>4
  <2> QED
    BY <2>1 DEF Before, Range
<1>5. j # i
  BY <1>1, <1>2
<1> QED
  BY <1>1, <1>2, <1>3, <1>4, <1>5

(* A row that leaves pulls the first one of the next page into it.         *)
LEMMA RemoveBefore ==
    ASSUME PagingTypeOK, NEW i \in DOMAIN rows, Remove(i)
    PROVE  Before(rows', offset) \subseteq Before(rows, offset) \cup {rows[offset + 1]}
<1> USE DEF PagingTypeOK
<1>1. /\ DOMAIN rows' = 1 .. Len(rows) - 1
      /\ \A j \in 1 .. Len(rows) - 1 : rows'[j] = IF j < i THEN rows[j] ELSE rows[j + 1]
  <2>1. rows' \in Seq(Row) /\ Len(rows') = Len(rows) - 1
        /\ \A j \in 1 .. Len(rows) - 1 : rows'[j] = IF j < i THEN rows[j] ELSE rows[j + 1]
    <3>1. i \in 1 .. Len(rows) /\ rows' = Without(rows, i)
      BY DEF Remove
    <3> QED
      BY <3>1, WithoutRows
  <2> QED
    BY <2>1
<1> DEFINE next == rows[offset + 1]
<1> SUFFICES ASSUME NEW x \in Before(rows', offset), x # next PROVE x \in Before(rows, offset)
  OBVIOUS
<1>2. PICK j \in DOMAIN rows' : j <= offset /\ rows'[j] = x
  BY DEF Before
<1>3. CASE j < i
  <2>1. j \in DOMAIN rows /\ rows[j] = x
    BY <1>1, <1>2, <1>3
  <2> QED
    BY <1>2, <2>1 DEF Before, Range
<1>4. CASE j >= i
  <2>1. j + 1 \in DOMAIN rows /\ rows[j + 1] = x
    BY <1>1, <1>2, <1>4
  <2>2. j # offset
    BY <2>1
  <2>3. j + 1 <= offset
    BY <1>1, <1>2, <2>2
  <2> QED
    BY <2>1, <2>3 DEF Before, Range
<1> QED
  BY <1>1, <1>2, <1>3, <1>4

(* A full page is what follows, and one that is not full is all the rest.  *)
LEMMA PageFollows ==
    ASSUME PagingTypeOK, NEW limit \in Limits
    PROVE  /\ Before(rows, offset + limit) \subseteq Before(rows, offset) \cup Page(limit)
           /\ PageLen(limit) < limit => Range(rows) \subseteq Before(rows, offset) \cup Page(limit)
           /\ PageLen(limit) < limit => offset + PageLen(limit) >= Len(rows)
<1> USE DEF PagingTypeOK
<1>1. ASSUME NEW x \in Before(rows, offset + limit), x \notin Before(rows, offset)
      PROVE  x \in Page(limit)
  <2>1. PICK j \in DOMAIN rows : j <= offset + limit /\ rows[j] = x
    BY DEF Before
  <2>2. j > offset
    BY <1>1, <2>1 DEF Before, Range
  <2>3. j \in offset + 1 .. PageEnd(limit)
    BY <2>1, <2>2 DEF PageEnd, Smaller
  <2> QED
    BY <2>1, <2>3 DEF Page
<1>2. ASSUME PageLen(limit) < limit, Len(rows) > offset PROVE PageEnd(limit) = Len(rows)
  <2>1. limit \in Nat \ {0} /\ Len(rows) \in Nat
    OBVIOUS
  <2>2. CASE offset + limit <= Len(rows)
    BY <1>2, <2>1, <2>2 DEF PageLen, PageEnd, Smaller
  <2> QED
    BY <1>2, <2>1, <2>2 DEF PageEnd, Smaller
<1>3. ASSUME PageLen(limit) < limit, NEW x \in Range(rows), x \notin Before(rows, offset)
      PROVE  x \in Page(limit)
  <2>1. PICK j \in DOMAIN rows : rows[j] = x
    BY DEF Range
  <2>2. j > offset
    BY <1>3, <2>1 DEF Before, Range
  <2>3. PageEnd(limit) = Len(rows)
    BY <1>2, <1>3, <2>2
  <2> QED
    BY <2>1, <2>2, <2>3 DEF Page
<1>4. ASSUME PageLen(limit) < limit PROVE offset + PageLen(limit) >= Len(rows)
  <2>1. CASE Len(rows) > offset
    BY <1>2, <1>4, <2>1 DEF PageLen
  <2>2. CASE Len(rows) <= offset
    <3>1. PageEnd(limit) <= offset
      BY <2>2 DEF PageEnd, Smaller
    <3> QED
      BY <2>2, <3>1 DEF PageLen
  <2> QED
    BY <2>1, <2>2
<1> QED
  BY <1>1, <1>3, <1>4

(* A row that comes in hides none: it is not one of the kept rows.         *)
LEMMA InsertHides ==
    ASSUME PagingTypeOK, HiddenBound, NEW r \in Row, NEW i \in 1 .. Len(rows) + 1, Insert(r, i)
    PROVE  HiddenBound'
<1>1. UNCHANGED <<kept, gone, pass, offset, one>> /\ r \notin kept
  BY DEF Insert, local, PagingTypeOK
<1>2. Hidden' \subseteq Hidden
  BY <1>1, InsertBefore DEF Hidden
<1>3. Cardinality(Hidden') <= Cardinality(Hidden) /\ Cardinality(Hidden') \in Nat
      /\ Cardinality(Hidden) \in Nat
  BY <1>2, HiddenFinite, NoMore
<1> QED
  BY <1>1, <1>3 DEF HiddenBound, PagingTypeOK

(* A row that leaves hides at most the first one of the next page.         *)
LEMMA RemoveHides ==
    ASSUME PagingTypeOK, HiddenBound, NEW i \in DOMAIN rows, Remove(i)
    PROVE  HiddenBound'
<1>1. UNCHANGED <<pass, offset, one>> /\ kept' \subseteq kept
  BY DEF Remove, local
<1>2. CASE pass = 1
  <2>1. PICK next : next = rows[offset + 1]
    OBVIOUS
  <2>2. Hidden' \subseteq Hidden \cup {next}
    BY <1>1, <1>2, <2>1, RemoveBefore DEF Hidden
  <2>3. /\ Cardinality(Hidden') \in Nat /\ Cardinality(Hidden) \in Nat
        /\ Cardinality(Hidden') <= Cardinality(Hidden) + 1
    BY <2>2, HiddenFinite, OneMore
  <2>4. gone'[1] = gone[1] + 1
    BY <1>2 DEF Remove, PagingTypeOK
  <2> QED
    BY <2>3, <2>4 DEF HiddenBound, PagingTypeOK
<1>3. CASE pass # 1
  <2>1. Hidden' \subseteq Hidden
    BY <1>1, <1>3 DEF Hidden
  <2>2. Cardinality(Hidden') <= Cardinality(Hidden) /\ Cardinality(Hidden') \in Nat
        /\ Cardinality(Hidden) \in Nat
    BY <2>1, HiddenFinite, NoMore
  <2>3. gone'[1] = gone[1]
    BY <1>3 DEF Remove, PagingTypeOK
  <2> QED
    BY <2>2, <2>3 DEF HiddenBound, PagingTypeOK
<1> QED
  BY <1>2, <1>3

(* A page brings what follows the part before it, so none is hidden.       *)
LEMMA PageHides ==
    ASSUME PagingTypeOK, HiddenBound, NEW limit \in Limits,
           NextPage(limit) \/ EndPassOne(limit) \/ EndPassTwo(limit)
    PROVE  HiddenBound'
<1>1. CASE pass = 1 /\ NextPage(limit)
  <2>1. Hidden' \subseteq Hidden /\ gone' = gone
    BY <1>1, PageFollows DEF Hidden, NextPage, remote
  <2> QED
    BY <2>1, HiddenFinite, NoMore DEF HiddenBound, PagingTypeOK
<1>2. CASE EndPassOne(limit)
  <2>1. /\ pass = 1 /\ pass' # 1 /\ one' = one \cup Page(limit) /\ kept' = kept /\ gone' = gone
        /\ PageLen(limit) < limit
    BY <1>2 DEF EndPassOne
  <2>2. Hidden' \subseteq Hidden
    BY <2>1, PageFollows DEF Hidden, PagingTypeOK
  <2> QED
    BY <2>1, <2>2, HiddenFinite, NoMore DEF HiddenBound, PagingTypeOK
<1>3. CASE pass # 1 /\ (NextPage(limit) \/ EndPassTwo(limit))
  <2>1. pass' # 1 /\ one' = one /\ kept' = kept /\ gone' = gone
    BY <1>3 DEF NextPage, EndPassTwo, remote, PagingTypeOK
  <2> QED
    BY <1>3, <2>1 DEF HiddenBound, Hidden
<1>4. ~(pass = 1 /\ EndPassTwo(limit))
  BY DEF EndPassTwo
<1> QED
  BY <1>1, <1>2, <1>3, <1>4

LEMMA HiddenStep == PagingTypeOK /\ HiddenBound /\ [PagingNext]_pagingVars => HiddenBound'
<1> SUFFICES ASSUME PagingTypeOK, HiddenBound, [PagingNext]_pagingVars PROVE HiddenBound'
  OBVIOUS
<1>1. CASE UNCHANGED pagingVars
  BY <1>1 DEF pagingVars, remote, local, HiddenBound, Hidden, Before
<1> QED
  BY <1>1, InsertHides, RemoveHides, PageHides DEF PagingNext

(* When all is read, at most as many of the rows that were in the list all *)
(* the time are missing as left it during the first pass.                  *)
LEMMA BoundImplies == PagingTypeOK /\ HiddenBound => LossBound
<1> SUFFICES ASSUME PagingTypeOK, HiddenBound, pass = 3
             PROVE  Cardinality(kept \ Result) <= gone[1]
  BY DEF LossBound
<1>1. kept \ Result \subseteq Hidden
  BY DEF Result, Hidden
<1>2. /\ Cardinality(kept \ Result) <= Cardinality(Hidden)
      /\ Cardinality(kept \ Result) \in Nat /\ Cardinality(Hidden) \in Nat
  BY <1>1, HiddenFinite, NoMore
<1> QED
  BY <1>2 DEF HiddenBound, PagingTypeOK

(* Each row that leaves the list while koiosGetAll reads it can hide one    *)
(* other, and no more, whatever the pages and the other changes are.       *)
THEOREM LossBounded == PagingSpec => []LossBound
<1>1. PagingSpec => [](PagingTypeOK /\ HiddenBound)
  BY PagingTypeInit, PagingTypeStep, HiddenInit, HiddenStep, PTL DEF PagingSpec
<1> QED
  BY <1>1, BoundImplies, PTL

(* If none leaves, none is missing.                                        *)
LEMMA LossImplies == PagingTypeOK /\ LossBound => AllRows
<1> SUFFICES ASSUME PagingTypeOK, LossBound, pass = 3, gone[1] = 0
             PROVE  kept \subseteq Result
  BY DEF AllRows
<1>1. IsFiniteSet(kept \ Result)
  BY HiddenFinite, FS_Subset
<1>2. Cardinality(kept \ Result) = 0
  BY <1>1, FS_CardinalityType DEF LossBound
<1> QED
  BY <1>1, <1>2, FS_EmptySet

(* koiosGetAll gets all rows of a list that none leaves meanwhile.          *)
THEOREM AllRowsRead == PagingSpec => []AllRows
BY PagingTypeCorrect, LossBounded, LossImplies, PTL

-------------------------------------------------------------------------------
(* What the second pass has not got although it went past its place.       *)
TailHidden ==
    IF pass = 3 THEN tail \ two ELSE (Before(rows, offset) \cap tail) \ two
TailHiddenBound ==
    /\ pass = 1 => tail = {}
    /\ Cardinality(TailHidden) <= gone[2]

(* They are finitely many, as they are rows of the list.                   *)
LEMMA TailFinite == PagingTypeOK => IsFiniteSet(TailHidden) /\ IsFiniteSet(tail)
<1> SUFFICES ASSUME PagingTypeOK PROVE IsFiniteSet(TailHidden) /\ IsFiniteSet(tail)
  OBVIOUS
<1>1. IsFiniteSet(Range(rows))
  BY RangeFinite DEF PagingTypeOK
<1>2. IsFiniteSet(tail)
  BY <1>1, FS_Subset DEF PagingTypeOK
<1>3. TailHidden \subseteq tail
  BY DEF TailHidden
<1> QED
  BY <1>2, <1>3, FS_Subset

(* A step by which no row is hidden anew. *)
LEMMA TailNoMore ==
    ASSUME PagingTypeOK, TailHiddenBound, TailHidden' \subseteq TailHidden, gone' = gone,
           pass' = 1 => tail' = {}
    PROVE  TailHiddenBound'
<1>1. Cardinality(TailHidden') <= Cardinality(TailHidden) /\ Cardinality(TailHidden') \in Nat
      /\ Cardinality(TailHidden) \in Nat
  BY TailFinite, NoMore
<1> QED
  BY <1>1 DEF TailHiddenBound, PagingTypeOK

(* In the second pass, too, a row that leaves hides one at most.           *)
LEMMA TailRemove ==
    ASSUME PagingTypeOK, TailHiddenBound, NEW i \in DOMAIN rows, Remove(i)
    PROVE  TailHiddenBound'
<1>1. UNCHANGED <<pass, offset, two>> /\ tail' \subseteq tail /\ pass \in {1, 2}
  BY DEF Remove, local, PagingTypeOK
<1>2. CASE pass = 1
  <2>1. tail' = {} /\ TailHidden' = {} /\ TailHidden = {}
    BY <1>1, <1>2 DEF TailHiddenBound, TailHidden
  <2>2. gone'[2] = gone[2]
    BY <1>2 DEF Remove, PagingTypeOK
  <2> QED
    BY <2>1, <2>2 DEF TailHiddenBound
<1>3. CASE pass = 2
  <2>1. PICK next : next = rows[offset + 1]
    OBVIOUS
  <2>2. TailHidden' \subseteq TailHidden \cup {next}
    BY <1>1, <1>3, <2>1, RemoveBefore DEF TailHidden
  <2>3. /\ Cardinality(TailHidden') \in Nat /\ Cardinality(TailHidden) \in Nat
        /\ Cardinality(TailHidden') <= Cardinality(TailHidden) + 1
    BY <2>2, TailFinite, OneMore
  <2>4. gone'[2] = gone[2] + 1
    BY <1>3 DEF Remove, PagingTypeOK
  <2> QED
    BY <1>1, <1>3, <2>3, <2>4 DEF TailHiddenBound, PagingTypeOK
<1> QED
  BY <1>1, <1>2, <1>3

(* The second pass begins before the rows it is to read; when there is     *)
(* none, there are none.                                                   *)
LEMMA TailBegins ==
    ASSUME PagingTypeOK, TailHiddenBound, NEW limit \in Limits, EndPassOne(limit)
    PROVE  TailHiddenBound'
<1> USE DEF PagingTypeOK
<1>1. /\ pass = 1 /\ PageLen(limit) < limit /\ end' = end + PageLen(limit) /\ gone' = gone
      /\ rows' = rows /\ two' = two /\ pass' \in {2, 3} /\ end = offset
      /\ tail' = {rows[i] : i \in {j \in DOMAIN rows : j > end' - Overlap}}
  BY DEF EndPassOne
<1>2. end' >= Len(rows) /\ end' \in Nat /\ Len(rows) \in Nat
  <2>1. PageLen(limit) \in Nat
    BY DEF PageLen, PageEnd, Smaller
  <2> QED
    BY <1>1, <2>1, PageFollows
<1>3. CASE pass' = 3
  <2>1. Overlap = 0 \/ end' = 0
    BY <1>3 DEF EndPassOne
  <2>2. tail' = {}
    BY <1>1, <1>2, <2>1
  <2>3. TailHidden' = {}
    BY <1>3, <2>2 DEF TailHidden
  <2> QED
    BY <1>1, <1>3, <2>3, TailNoMore
<1>4. CASE pass' = 2
  <2>1. offset' = SecondPass(end') /\ offset' \in Nat
    BY <1>2, <1>4 DEF EndPassOne, SecondPass
  <2>2. ASSUME NEW x \in Before(rows, offset') \cap tail' PROVE FALSE
    <3>1. PICK j \in DOMAIN rows : j <= offset' /\ rows[j] = x
      BY <2>2 DEF Before
    <3>2. PICK k \in DOMAIN rows : k > end' - Overlap /\ rows[k] = x
      BY <1>1, <2>2
    <3>3. j = k
      BY <3>1, <3>2 DEF Distinct
    <3> QED
      BY <1>2, <2>1, <3>1, <3>2, <3>3 DEF SecondPass
  <2>3. TailHidden' = {}
    BY <1>1, <1>4, <2>2 DEF TailHidden
  <2> QED
    BY <1>1, <1>4, <2>3, TailNoMore
<1> QED
  BY <1>1, <1>3, <1>4

(* Every step keeps the bound of the second pass.                          *)
LEMMA TailStep == PagingTypeOK /\ TailHiddenBound /\ [PagingNext]_pagingVars => TailHiddenBound'
<1> SUFFICES ASSUME PagingTypeOK, TailHiddenBound, [PagingNext]_pagingVars PROVE TailHiddenBound'
  OBVIOUS
<1>1. CASE UNCHANGED pagingVars
  BY <1>1 DEF pagingVars, remote, local, TailHiddenBound, TailHidden, Before
<1>2. ASSUME NEW r \in Row, NEW i \in 1 .. Len(rows) + 1, Insert(r, i) PROVE TailHiddenBound'
  <2>1. UNCHANGED <<tail, gone, pass, offset, two>> /\ r \notin tail
    BY <1>2 DEF Insert, local, PagingTypeOK
  <2>2. TailHidden' \subseteq TailHidden
    BY <1>2, <2>1, InsertBefore DEF TailHidden
  <2> QED
    BY <2>1, <2>2, TailNoMore DEF TailHiddenBound
<1>3. ASSUME NEW limit \in Limits, NextPage(limit) PROVE TailHiddenBound'
  <2>1. /\ UNCHANGED <<tail, gone, pass, rows>> /\ offset' = offset + limit
        /\ (pass = 1 /\ two' = two) \/ (pass = 2 /\ two' = two \cup Page(limit))
    BY <1>3 DEF NextPage, remote, PagingTypeOK
  <2>2. TailHidden' \subseteq TailHidden
    BY <2>1, PageFollows DEF TailHidden, TailHiddenBound
  <2> QED
    BY <2>1, <2>2, TailNoMore DEF TailHiddenBound
<1>4. ASSUME NEW limit \in Limits, EndPassTwo(limit) PROVE TailHiddenBound'
  <2>1. /\ UNCHANGED <<tail, gone, rows>> /\ pass = 2 /\ pass' = 3 /\ PageLen(limit) < limit
        /\ two' = two \cup Page(limit)
    BY <1>4 DEF EndPassTwo, remote
  <2>2. TailHidden' \subseteq TailHidden
    BY <2>1, PageFollows DEF TailHidden, PagingTypeOK
  <2> QED
    BY <2>1, <2>2, TailNoMore
<1> QED
  BY <1>1, <1>2, <1>3, <1>4, TailRemove, TailBegins DEF PagingNext

(* Of the last rows and what follows them, at most as many are missing as  *)
(* leave the list while koiosGetAll reads its end for the second time.     *)
THEOREM TailBounded == PagingSpec => []TailBound
<1>1. PagingInit => TailHiddenBound
  <2> SUFFICES ASSUME PagingInit PROVE TailHiddenBound
    OBVIOUS
  <2>1. TailHidden = {} /\ tail = {} /\ gone[2] = 0
    BY DEF PagingInit, TailHidden
  <2> QED
    BY <2>1, FS_EmptySet DEF TailHiddenBound
<1>2. PagingTypeOK /\ TailHiddenBound => TailBound
  <2> SUFFICES ASSUME PagingTypeOK, TailHiddenBound, pass = 3
               PROVE  Cardinality(tail \ Result) <= gone[2]
    BY DEF TailBound
  <2>1. tail \ Result \subseteq TailHidden
    BY DEF Result, TailHidden
  <2>2. /\ Cardinality(tail \ Result) <= Cardinality(TailHidden)
        /\ Cardinality(tail \ Result) \in Nat /\ Cardinality(TailHidden) \in Nat
    BY <2>1, TailFinite, NoMore
  <2> QED
    BY <2>2 DEF TailHiddenBound, PagingTypeOK
<1> QED
  BY <1>1, <1>2, PagingTypeInit, PagingTypeStep, TailStep, PTL DEF PagingSpec

-------------------------------------------------------------------------------
(* Retries.  A call is started once more than it was granted a wait, and a   *)
(* class has been granted no more waits than there were attempts.            *)
RetryPlaces == {"loop", "running", "waiting"} \cup Settled
RetryInv ==
    /\ pc \in RetryPlaces /\ attempt \in Nat /\ started \in Nat
    /\ retried \in [Classes -> Nat]
    /\ pc = "loop" => started = attempt /\ attempt <= MaxRetries + 1
    /\ pc \in {"running", "waiting"} => started = attempt + 1 /\ attempt <= MaxRetries
    /\ \A c \in Classes :
          /\ pc \in {"loop", "running"} => retried[c] <= attempt
          /\ pc = "waiting" => retried[c] <= attempt + 1
    /\ RetriesWithinBudget

(* Every step of withRetry keeps to the budgets. *)
LEMMA RetryStep == RetryInv /\ [RetryNext]_retryVars => RetryInv'
<1> SUFFICES ASSUME RetryInv, [RetryNext]_retryVars PROVE RetryInv'
  OBVIOUS
<1> USE RetryAssumption DEF RetryInv, RetriesWithinBudget, RetryPlaces, Settled
<1>1. CASE UNCHANGED retryVars
  BY <1>1 DEF retryVars
<1>2. CASE Begin \/ BeginAborted \/ FallThrough \/ Succeed \/ FailForGood \/ WaitOver
  BY <1>2 DEF Begin, BeginAborted, FallThrough, Succeed, FailForGood, WaitOver
<1>3. ASSUME NEW c \in Classes, Fail(c) PROVE RetryInv'
  <2>1. CASE pc' = "waiting"
    <3>1. /\ attempt < Budget[c] /\ pc = "running" /\ retried' = [retried EXCEPT ![c] = @ + 1]
          /\ UNCHANGED <<attempt, started>>
      BY <1>3, <2>1 DEF Fail
    <3>2. retried[c] <= attempt /\ Budget[c] \in Nat /\ retried[c] + 1 <= Budget[c]
      BY <3>1
    <3> QED BY <2>1, <3>1, <3>2
  <2>2. CASE pc' # "waiting"
    BY <1>3, <2>2 DEF Fail
  <2> QED BY <2>1, <2>2
<1>4. CASE Abort
  BY <1>4 DEF Abort
<1> QED
  BY <1>1, <1>2, <1>3, <1>4 DEF RetryNext, Proceed

(* A call begins without retries. *)
LEMMA RetryBegins == RetryInit => RetryInv
BY RetryAssumption DEF RetryInit, RetryInv, RetriesWithinBudget, RetryPlaces

(* No class of error gets more retries than its budget, nor the call more   *)
(* attempts than maxRetries allows (withRetry).                             *)
THEOREM RetriesAreBudgeted == RetrySpec => []RetriesWithinBudget
<1>1. RetryInv => RetriesWithinBudget
  BY DEF RetryInv
<1> QED
  BY <1>1, RetryBegins, RetryStep, PTL DEF RetrySpec

(* An aborted call is not attempted again (throwIfAborted, waitWithAbort).  *)
THEOREM AbortedIsOver == RetrySpec => NoAttemptAfterAbort
<1>1. [RetryNext]_retryVars => [aborted => started' = started]_retryVars
  BY DEF RetryNext, Proceed, Begin, BeginAborted, FallThrough, Succeed, FailForGood, WaitOver,
         Fail, Abort, retryVars
<1>2. RetrySpec => [][aborted => started' = started]_retryVars
  BY <1>1, PTL DEF RetrySpec
<1> QED
  BY <1>2 DEF NoAttemptAfterAbort

-------------------------------------------------------------------------------
(* The burst limiter: its grants are in the order of time, and spaced.       *)
GrantInv ==
    /\ now \in Nat /\ grants \in Seq(Nat)
    /\ \A i \in DOMAIN grants : grants[i] <= now
    /\ \A i, j \in DOMAIN grants : i <= j => grants[i] <= grants[j]
    /\ GrantsSpaced

(* Where as many were granted as the limiter allows, the first of them is    *)
(* no longer in the window if another one may be.                            *)
LEMMA WindowOver ==
    ASSUME GrantInv, Cardinality(Recent) < BurstMax,
           NEW i \in DOMAIN grants, i + BurstMax = Len(grants) + 1
    PROVE  now - grants[i] >= BurstWindow
<1> SUFFICES ASSUME now - grants[i] < BurstWindow PROVE FALSE
  BY GateAssumption DEF GrantInv
<1>1. BurstMax \in Nat /\ BurstWindow \in Nat /\ Len(grants) \in Nat /\ DOMAIN grants = 1..Len(grants)
  BY GateAssumption DEF GrantInv
<1>2. i..Len(grants) \subseteq Recent
  <2> SUFFICES ASSUME NEW j \in i..Len(grants) PROVE j \in Recent
    OBVIOUS
  <2>0. i \in 1..Len(grants) /\ j \in 1..Len(grants) /\ i <= j
    BY <1>1
  <2>1. j \in DOMAIN grants /\ grants[i] \in Nat /\ grants[j] \in Nat
    BY <1>1, <2>0 DEF GrantInv
  <2>2. grants[i] <= grants[j]
    BY <2>0, <2>1 DEF GrantInv
  <2> QED BY <1>1, <2>1, <2>2 DEF Recent, GrantInv
<1>3. IsFiniteSet(Recent)
  <2>1. IsFiniteSet(1..Len(grants))
    BY <1>1, FS_Interval
  <2>2. Recent \subseteq 1..Len(grants)
    BY <1>1 DEF Recent
  <2> QED BY <2>1, <2>2, FS_Subset
<1>4. Cardinality(i..Len(grants)) = Len(grants) - i + 1
  BY <1>1, FS_Interval
<1>5. Cardinality(i..Len(grants)) <= Cardinality(Recent) /\ Cardinality(Recent) \in Nat
  BY <1>2, <1>3, FS_Subset, FS_CardinalityType
<1> QED
  BY <1>1, <1>4, <1>5

(* Only a grant adds to the grants, and time goes on. *)
LEMMA GrantStep == GrantInv /\ [GateNext]_gateVars => GrantInv'
<1> SUFFICES ASSUME GrantInv, [GateNext]_gateVars PROVE GrantInv'
  OBVIOUS
<1>1. CASE UNCHANGED grants /\ now' \in Nat /\ now <= now'
  <2>1. \A i \in DOMAIN grants : grants[i] \in Nat
    BY DEF GrantInv
  <2> QED BY <1>1, <2>1 DEF GrantInv, GrantsSpaced
<1>2. ASSUME NEW c \in Callers, Grant(c) PROVE GrantInv'
  <2>1. Cardinality(Recent) < BurstMax /\ grants' = Append(grants, now) /\ now' = now
    BY <1>2 DEF Grant
  <2>2. /\ Len(grants) \in Nat /\ DOMAIN grants = 1..Len(grants)
        /\ grants' \in Seq(Nat) /\ DOMAIN grants' = 1..(Len(grants) + 1)
        /\ \A i \in DOMAIN grants : grants'[i] = grants[i] /\ grants[i] \in Nat
        /\ grants'[Len(grants) + 1] = now
    BY <2>1 DEF GrantInv
  <2>3. ASSUME NEW i \in DOMAIN grants', i + BurstMax \in DOMAIN grants'
        PROVE  grants'[i + BurstMax] - grants'[i] >= BurstWindow
    <3>1. BurstMax \in Nat \ {0} /\ i \in DOMAIN grants
      BY <2>2, <2>3, GateAssumption
    <3>2. CASE i + BurstMax = Len(grants) + 1
      BY <2>1, <2>2, <3>1, <3>2, WindowOver
    <3>3. CASE i + BurstMax # Len(grants) + 1
      <4>1. i + BurstMax \in DOMAIN grants
        BY <2>2, <2>3, <3>1, <3>3
      <4>2. grants[i + BurstMax] - grants[i] >= BurstWindow
        BY <3>1, <4>1 DEF GrantInv, GrantsSpaced
      <4> QED BY <2>2, <3>1, <4>1, <4>2
    <3> QED BY <3>2, <3>3
  <2> QED BY <2>1, <2>2, <2>3 DEF GrantInv, GrantsSpaced
<1>3. CASE Tick
  BY <1>1, <1>3 DEF Tick, GrantInv
<1>4. CASE \E k \in KindSet : Pull(k)
  BY <1>1, <1>4 DEF Pull, GrantInv
<1>5. ASSUME NEW c \in Callers, Start(c) \/ Check(c) \/ Wake(c) \/ Send(c) PROVE GrantInv'
  BY <1>1, <1>5 DEF Start, Check, Wake, Send, GrantInv
<1>6. ASSUME NEW c \in Callers, NEW kinds, NEW duration, Answer(c, kinds, duration) PROVE GrantInv'
  BY <1>1, <1>6 DEF Answer, GrantInv
<1>7. CASE UNCHANGED gateVars
  BY <1>1, <1>7 DEF gateVars, GrantInv
<1> QED
  BY <1>2, <1>3, <1>4, <1>5, <1>6, <1>7 DEF GateNext

(* Nothing is granted at first. *)
LEMMA GrantBegins == GateInit => GrantInv
BY DEF GateInit, GrantInv, GrantsSpaced

(* The burst limiter never grants more than its maximum in any window       *)
(* (BurstLimiter.acquire).                                                  *)
THEOREM GrantsAreSpaced == GateSpec => []GrantsSpaced
<1>1. GrantInv => GrantsSpaced
  BY DEF GrantInv
<1> QED
  BY <1>1, GrantBegins, GrantStep, PTL DEF GateSpec

-------------------------------------------------------------------------------
(* The cooldowns.  What a caller that was granted has looked at is over, or  *)
(* grew since; and it sleeps till what it looks at is over, or grew since.   *)
GatePlaces == {"idle", "check", "sleep", "burst", "queued", "sent"}
GateTyped ==
    /\ now \in Nat
    /\ inGate \in [Callers -> GatePlaces] /\ beforeOrAfter \in [Callers -> {"before", "after"}]
    /\ looking \in [Callers -> DOMAIN GateKinds] /\ wake \in [Callers -> Int]
    /\ checked \in [Callers -> Nat] /\ \A c \in Callers : checked[c] <= now
    /\ lasts \in [KindSet -> Nat] /\ missed \in [Callers -> SUBSET KindSet]

Told(c, k) == lasts[k] <= now \/ k \in missed[c]
LooksAt(c) == GateKinds[looking[c]]
CallerOK(c) ==
    /\ inGate[c] = "sleep" => lasts[LooksAt(c)] <= wake[c] \/ LooksAt(c) \in missed[c]
    /\ beforeOrAfter[c] = "after" /\ inGate[c] \in {"check", "sleep"} =>
          \A j \in 1..(looking[c] - 1) : GateKinds[j] = LooksAt(c) \/ Told(c, GateKinds[j])
    /\ inGate[c] \in {"idle", "sent"} => beforeOrAfter[c] = "before"

GateInv == GateTyped /\ \A c \in Callers : CallerOK(c)

(* A caller looks at one of the kinds, and they are all there is to look at. *)
LEMMA KindsAre ==
    /\ Len(GateKinds) \in Nat \ {0} /\ DOMAIN GateKinds = 1..Len(GateKinds)
    /\ \A j \in 1..Len(GateKinds) : GateKinds[j] \in KindSet
    /\ \A k \in KindSet : \E j \in 1..Len(GateKinds) : GateKinds[j] = k
    /\ Cooldown \in [KindSet -> Nat]
<1>1. GateKinds \in Seq(STRING) /\ GateKinds # <<>>
  BY GateAssumption
<1>2. Len(GateKinds) \in Nat \ {0} /\ DOMAIN GateKinds = 1..Len(GateKinds)
  BY <1>1
<1> QED
  BY <1>2, GateAssumption DEF KindSet, Range

(* The clock of a check is not ahead of the time. *)
LEMMA ClockIs ==
    ASSUME GateTyped, NEW c \in Callers
    PROVE  Clock(c) \in Nat /\ Clock(c) <= now /\ LooksAt(c) \in KindSet /\ looking[c] \in Nat \ {0}
BY KindsAre DEF GateTyped, Clock, LooksAt

(* One who does nothing stays right while time goes on. *)
LEMMA OthersStay ==
    ASSUME GateInv, NEW d \in Callers, now' \in Nat, now <= now', lasts' = lasts,
           UNCHANGED <<inGate[d], beforeOrAfter[d], looking[d], wake[d], missed[d]>>
    PROVE  CallerOK(d)'
<1>1. \A j \in 1..Len(GateKinds) : lasts[GateKinds[j]] \in Nat
  BY KindsAre DEF GateInv, GateTyped
<1>2. looking[d] \in 1..Len(GateKinds) /\ Len(GateKinds) \in Nat /\ now \in Nat
  BY KindsAre DEF GateInv, GateTyped
<1>3. ASSUME NEW j \in 1..(looking[d] - 1) PROVE Told(d, GateKinds[j]) => Told(d, GateKinds[j])'
  BY <1>1, <1>2, <1>3 DEF Told
<1> QED
  BY <1>3 DEF GateInv, CallerOK, LooksAt

(* What grows is missed by those in the gate. *)
LEMMA GrowthKeeps ==
    ASSUME GateInv, now' = now, NEW d \in Callers, lasts' \in [KindSet -> Nat],
           missed'[d] = IF inGate[d] \in InGate THEN missed[d] \cup Grown(lasts, lasts') ELSE {},
           UNCHANGED <<beforeOrAfter[d], looking[d], wake[d]>>,
           inGate'[d] = inGate[d] \/ (inGate[d] = "sent" /\ inGate'[d] = "idle")
    PROVE  CallerOK(d)'
<1>1. \A k \in KindSet : lasts[k] \in Nat /\ lasts'[k] \in Nat
  BY DEF GateInv, GateTyped
<1>2. /\ \A j \in 1..Len(GateKinds) : GateKinds[j] \in KindSet
      /\ looking[d] \in 1..Len(GateKinds) /\ Len(GateKinds) \in Nat /\ now \in Nat /\ wake[d] \in Int
  BY KindsAre DEF GateInv, GateTyped
<1>3. CASE inGate'[d] \in {"check", "sleep"}
  <2>1. inGate'[d] = inGate[d] /\ inGate[d] \in InGate
    BY <1>3 DEF InGate
  <2>2. missed'[d] = missed[d] \cup Grown(lasts, lasts')
    BY <2>1
  <2>3. \A k \in KindSet : k \in missed'[d] \/ (lasts'[k] <= lasts[k] /\ k \notin missed[d])
    BY <1>1, <2>2 DEF Grown
  <2>4. ASSUME NEW k \in KindSet PROVE Told(d, k) => Told(d, k)'
    BY <1>1, <1>2, <2>3, <2>4 DEF Told
  <2>5. inGate[d] = "sleep" => lasts'[LooksAt(d)] <= wake[d] \/ LooksAt(d) \in missed'[d]
    BY <1>1, <1>2, <2>3 DEF LooksAt, GateInv, CallerOK
  <2>6. ASSUME beforeOrAfter[d] = "after", NEW j \in 1..(looking[d] - 1)
        PROVE  GateKinds[j] = LooksAt(d) \/ Told(d, GateKinds[j])'
    <3>1. GateKinds[j] = LooksAt(d) \/ Told(d, GateKinds[j])
      BY <1>3, <2>1, <2>6 DEF GateInv, CallerOK
    <3>2. GateKinds[j] \in KindSet
      BY <1>2, <2>6
    <3> QED BY <2>4, <3>1, <3>2
  <2> QED BY <1>3, <2>1, <2>5, <2>6 DEF CallerOK, LooksAt
<1>4. CASE inGate'[d] \notin {"check", "sleep"}
  BY <1>4 DEF GateInv, CallerOK
<1> QED
  BY <1>3, <1>4

(* A caller that goes on from what is over, or grew since it looked, has     *)
(* been told of all that lies behind it.                                     *)
LEMMA BehindTold ==
    ASSUME GateInv, NEW c \in Callers, inGate[c] \in {"check", "sleep"},
           beforeOrAfter[c] = "after", NEW m, m = missed[c] \/ m = missed[c] \ {LooksAt(c)},
           lasts[LooksAt(c)] <= now \/ (LooksAt(c) \in missed[c] /\ m = missed[c])
    PROVE  \A j \in 1..looking[c] : lasts[GateKinds[j]] <= now \/ GateKinds[j] \in m
<1> TAKE j \in 1..looking[c]
<1>1. looking[c] \in Nat
  BY ClockIs DEF GateInv
<1>2. CASE GateKinds[j] = LooksAt(c)
  BY <1>2
<1>3. CASE GateKinds[j] # LooksAt(c)
  <2>1. j \in 1..(looking[c] - 1)
    BY <1>1, <1>3 DEF LooksAt
  <2>2. Told(c, GateKinds[j])
    BY <1>3, <2>1 DEF GateInv, CallerOK
  <2> QED BY <1>3, <2>2 DEF Told
<1> QED
  BY <1>2, <1>3

(* On to the next cooldown, or through: no fact about the others changes.    *)
LEMMA AdvanceKeeps ==
    ASSUME GateInv, NEW c \in Callers, Advance(c), inGate[c] \in {"check", "sleep"},
           UNCHANGED <<now, lasts>>, wake' \in [Callers -> Int], checked' \in [Callers -> Nat],
           \A d \in Callers : checked'[d] <= now,
           missed' \in [Callers -> SUBSET KindSet],
           missed'[c] = missed[c] \/ missed'[c] = missed[c] \ {LooksAt(c)},
           \A d \in Callers \ {c} : missed'[d] = missed[d] /\ wake'[d] = wake[d],
           lasts[LooksAt(c)] <= now \/ (LooksAt(c) \in missed[c] /\ missed'[c] = missed[c])
    PROVE  /\ GateInv'
           /\ inGate'[c] = "queued" => \A k \in KindSet : lasts[k] <= now \/ k \in missed[c]
           /\ \A d \in Callers \ {c} : inGate'[d] = inGate[d]
<1>0. /\ inGate \in [Callers -> GatePlaces] /\ beforeOrAfter \in [Callers -> {"before", "after"}]
      /\ looking \in [Callers -> DOMAIN GateKinds] /\ now \in Nat
  BY DEF GateInv, GateTyped
<1>1. /\ beforeOrAfter' = beforeOrAfter /\ inGate' \in [Callers -> GatePlaces]
      /\ inGate'[c] \in {"check", "burst", "queued"}
      /\ looking' \in [Callers -> DOMAIN GateKinds]
      /\ \A d \in Callers \ {c} : inGate'[d] = inGate[d] /\ looking'[d] = looking[d]
  <2>1. beforeOrAfter' = beforeOrAfter
    BY DEF Advance
  <2>2. PICK place \in {"check", "burst", "queued"} : inGate' = [inGate EXCEPT ![c] = place]
    BY DEF Advance
  <2>3. inGate' \in [Callers -> GatePlaces] /\ inGate'[c] = place
        /\ \A d \in Callers \ {c} : inGate'[d] = inGate[d]
    BY <1>0, <2>2 DEF GatePlaces
  <2>4. PICK i \in DOMAIN GateKinds : looking' = [looking EXCEPT ![c] = i]
    <3>1. CASE looking[c] < Len(GateKinds)
      <4>1. looking[c] + 1 \in DOMAIN GateKinds
        BY <1>0, <3>1, KindsAre
      <4> QED BY <3>1, <4>1 DEF Advance
    <3>2. CASE ~(looking[c] < Len(GateKinds))
      <4>1. looking' = looking
        BY <3>2 DEF Advance
      <4> QED BY <1>0, <4>1
    <3> QED BY <3>1, <3>2
  <2> QED BY <1>0, <2>1, <2>3, <2>4
<1>2. /\ inGate'[c] = "check" => looking'[c] = looking[c] + 1
      /\ inGate'[c] = "queued" => looking[c] = Len(GateKinds) /\ beforeOrAfter[c] = "after"
  BY <1>0, KindsAre DEF Advance
<1>3. beforeOrAfter[c] = "after" =>
        \A j \in 1..looking[c] : lasts[GateKinds[j]] <= now \/ GateKinds[j] \in missed'[c]
  BY BehindTold
<1>4. CallerOK(c)'
  <2>1. looking[c] \in Nat
    BY ClockIs DEF GateInv
  <2>2. inGate'[c] = "check" => \A j \in 1..(looking'[c] - 1) : j \in 1..looking[c]
    BY <1>2, <2>1
  <2> QED BY <1>1, <1>3, <2>2 DEF CallerOK, Told
<1>5. \A d \in Callers \ {c} : CallerOK(d)'
  BY <1>0, <1>1, OthersStay
<1>6. GateTyped'
  BY <1>0, <1>1 DEF GateInv, GateTyped
<1>7. inGate'[c] = "queued" => \A k \in KindSet : lasts[k] <= now \/ k \in missed[c]
  BY <1>2, <1>3, KindsAre
<1> QED
  BY <1>1, <1>4, <1>5, <1>6, <1>7 DEF GateInv

(* What a check or a waking does: the caller gets through only with all      *)
(* cooldowns over, or grown since it looked.                                 *)
LEMMA CheckKeeps ==
    ASSUME GateInv, NEW c \in Callers, Check(c)
    PROVE  /\ GateInv'
           /\ inGate'[c] = "queued" => \A k \in KindSet : lasts[k] <= now \/ k \in missed[c]
           /\ \A d \in Callers \ {c} : inGate'[d] = inGate[d]
<1>0. /\ inGate \in [Callers -> GatePlaces] /\ wake \in [Callers -> Int] /\ now \in Nat
      /\ checked \in [Callers -> Nat] /\ lasts \in [KindSet -> Nat]
      /\ missed \in [Callers -> SUBSET KindSet] /\ \A d \in Callers : checked[d] <= now
  BY DEF GateInv, GateTyped
<1>1. Clock(c) \in Nat /\ Clock(c) <= now /\ LooksAt(c) \in KindSet
  BY ClockIs DEF GateInv
<1>2. /\ inGate[c] = "check" /\ UNCHANGED <<now, lasts>>
      /\ missed' = [missed EXCEPT ![c] = @ \ {LooksAt(c)}]
      /\ checked' = [checked EXCEPT ![c] = IF beforeOrAfter[c] = "after" THEN Clock(c) ELSE 0]
  BY DEF Check, LooksAt
<1>3. /\ missed' \in [Callers -> SUBSET KindSet] /\ missed'[c] = missed[c] \ {LooksAt(c)}
      /\ \A d \in Callers \ {c} : missed'[d] = missed[d]
      /\ checked' \in [Callers -> Nat] /\ \A d \in Callers : checked'[d] <= now
  BY <1>0, <1>1, <1>2
<1>4. CASE lasts[LooksAt(c)] > Clock(c)
  <2>1. /\ inGate' = [inGate EXCEPT ![c] = "sleep"] /\ wake' = [wake EXCEPT ![c] = WakeTime(c)]
        /\ UNCHANGED <<beforeOrAfter, looking>>
    BY <1>4 DEF Check, LooksAt
  <2>2. WakeTime(c) \in Int /\ WakeTime(c) >= lasts[LooksAt(c)]
    BY <1>0, <1>1 DEF WakeTime, LooksAt
  <2>3. /\ inGate' \in [Callers -> GatePlaces] /\ inGate'[c] = "sleep" /\ wake' \in [Callers -> Int]
        /\ wake'[c] = WakeTime(c)
        /\ \A d \in Callers \ {c} : inGate'[d] = inGate[d] /\ wake'[d] = wake[d]
    BY <1>0, <2>1, <2>2 DEF GatePlaces
  <2>4. CallerOK(c)'
    <3>1. ASSUME beforeOrAfter[c] = "after", NEW j \in 1..(looking[c] - 1)
          PROVE  GateKinds[j] = LooksAt(c) \/ Told(c, GateKinds[j])'
      BY <1>2, <1>3, <3>1 DEF GateInv, CallerOK, Told
    <3> QED BY <1>2, <2>1, <2>2, <2>3, <3>1 DEF CallerOK, LooksAt
  <2>5. ASSUME NEW d \in Callers \ {c} PROVE CallerOK(d)'
    BY <1>0, <1>2, <1>3, <2>1, <2>3, <2>5, OthersStay
  <2> QED BY <1>2, <1>3, <2>1, <2>3, <2>4, <2>5 DEF GateInv, GateTyped
<1>5. CASE ~(lasts[LooksAt(c)] > Clock(c))
  <2>1. Advance(c) /\ wake' = wake
    BY <1>5 DEF Check, LooksAt
  <2>2. lasts[LooksAt(c)] <= now
    BY <1>0, <1>1, <1>5
  <2> QED BY <1>0, <1>2, <1>3, <2>1, <2>2, AdvanceKeeps
<1> QED
  BY <1>4, <1>5

(* A sleep ends when what the caller looked at is over, or it grew.          *)
LEMMA WakeKeeps ==
    ASSUME GateInv, NEW c \in Callers, Wake(c)
    PROVE  /\ GateInv'
           /\ inGate'[c] = "queued" => \A k \in KindSet : lasts[k] <= now \/ k \in missed[c]
           /\ \A d \in Callers \ {c} : inGate'[d] = inGate[d]
<1>0. /\ wake \in [Callers -> Int] /\ now \in Nat /\ checked \in [Callers -> Nat]
      /\ missed \in [Callers -> SUBSET KindSet] /\ \A d \in Callers : checked[d] <= now
      /\ lasts \in [KindSet -> Nat]
  BY DEF GateInv, GateTyped
<1>1. /\ inGate[c] = "sleep" /\ now >= wake[c] /\ Advance(c)
      /\ wake' = [wake EXCEPT ![c] = 0] /\ UNCHANGED <<now, checked, lasts, missed>>
  BY DEF Wake, health
<1>2. LooksAt(c) \in KindSet
  BY ClockIs DEF GateInv
<1>3. lasts[LooksAt(c)] <= now \/ LooksAt(c) \in missed[c]
  BY <1>0, <1>1, <1>2 DEF GateInv, CallerOK
<1>4. wake' \in [Callers -> Int] /\ \A d \in Callers \ {c} : wake'[d] = wake[d]
  BY <1>0, <1>1
<1> QED
  BY <1>0, <1>1, <1>3, <1>4, AdvanceKeeps

(* Every step keeps it, and lets a caller through as a check or a waking does. *)
LEMMA GateStep ==
    ASSUME GateInv, [GateNext]_gateVars
    PROVE  /\ GateInv'
           /\ \A c \in Callers : inGate'[c] = "queued" /\ inGate[c] # "queued" =>
                 \A k \in KindSet : lasts[k] <= now \/ k \in missed[c]
<1> DEFINE Honoured == \A c \in Callers : inGate'[c] = "queued" /\ inGate[c] # "queued" =>
                          \A k \in KindSet : lasts[k] <= now \/ k \in missed[c]
<1>0. GateTyped
  BY DEF GateInv
<1>1. CASE UNCHANGED gateVars
  <2>1. UNCHANGED <<now, inGate, beforeOrAfter, looking, wake, checked, lasts, missed>>
    BY <1>1 DEF gateVars, gate, health
  <2> QED BY <2>1, <1>0, OthersStay DEF GateInv, GateTyped
<1>2. CASE Tick
  <2>1. now' = now + 1 /\ UNCHANGED <<inGate, beforeOrAfter, looking, wake, checked, lasts, missed>>
    BY <1>2 DEF Tick, gate
  <2>2. now' \in Nat /\ now <= now' /\ GateTyped'
    BY <1>0, <2>1 DEF GateTyped
  <2> QED BY <2>1, <2>2, OthersStay DEF GateInv
<1>3. ASSUME NEW k \in KindSet, Pull(k) PROVE GateInv' /\ Honoured
  <2>1. /\ lasts' = [lasts EXCEPT ![k] = Prolong(k, now + Cooldown[k])]
        /\ missed' = [d \in Callers |-> IF inGate[d] \in InGate
                                        THEN missed[d] \cup Grown(lasts, lasts') ELSE {}]
        /\ UNCHANGED <<now, inGate, beforeOrAfter, looking, wake, checked>>
    BY <1>3 DEF Pull, gate
  <2>2. Prolong(k, now + Cooldown[k]) \in Nat
    BY <1>0, KindsAre DEF GateTyped, Prolong
  <2>3. lasts' \in [KindSet -> Nat]
    BY <1>0, <2>1, <2>2 DEF GateTyped
  <2>4. missed' \in [Callers -> SUBSET KindSet]
    BY <1>0, <2>1 DEF GateTyped, Grown
  <2>5. \A d \in Callers : CallerOK(d)'
    BY <2>1, <2>3, GrowthKeeps
  <2>6. GateTyped'
    BY <1>0, <2>1, <2>3, <2>4 DEF GateTyped
  <2> QED BY <2>1, <2>5, <2>6 DEF GateInv
<1>4. ASSUME NEW c \in Callers, NEW kinds, NEW duration \in UNION {Durations(k) : k \in KindSet},
             Answer(c, kinds, duration)
      PROVE  GateInv' /\ Honoured
  <2>1. /\ inGate[c] = "sent" /\ inGate' = [inGate EXCEPT ![c] = "idle"]
        /\ missed' = [d \in Callers |-> IF inGate[d] \in InGate
                                        THEN missed[d] \cup Grown(lasts, lasts') ELSE {}]
        /\ UNCHANGED <<now, beforeOrAfter, looking, wake, checked>>
    BY <1>4 DEF Answer
  <2>2. duration \in Nat
    BY KindsAre DEF Durations
  <2>3. ASSUME NEW k \in KindSet, NEW long \in Nat PROVE Prolong(k, now + long) \in Nat /\ lasts[k] \in Nat
    BY <1>0, <2>3 DEF GateTyped, Prolong
  <2>4. ASSUME NEW k \in KindSet
        PROVE  (IF duration \in Durations(k) THEN duration ELSE Cooldown[k]) \in Nat
    BY <2>2, <2>4, KindsAre
  <2>5. lasts' \in [KindSet -> Nat]
    <3>1. lasts' = [k \in KindSet |->
             IF k \in kinds /\ Len(Within(k)) >= Threshold[k]
             THEN Prolong(k, now + (IF duration \in Durations(k) THEN duration ELSE Cooldown[k]))
             ELSE lasts[k]]
      BY <1>4 DEF Answer
    <3> QED BY <2>3, <2>4, <3>1
  <2>6. missed' \in [Callers -> SUBSET KindSet] /\ inGate' \in [Callers -> GatePlaces]
    BY <1>0, <2>1 DEF GateTyped, Grown, GatePlaces
  <2>7. \A d \in Callers : inGate'[d] = inGate[d] \/ (inGate[d] = "sent" /\ inGate'[d] = "idle")
    BY <1>0, <2>1 DEF GateTyped
  <2>8. \A d \in Callers : CallerOK(d)'
    BY <2>1, <2>5, <2>7, GrowthKeeps
  <2>9. GateTyped'
    BY <1>0, <2>1, <2>5, <2>6 DEF GateTyped
  <2> QED BY <2>7, <2>8, <2>9 DEF GateInv
<1>5. ASSUME NEW c \in Callers, Start(c) \/ Grant(c) \/ Send(c) PROVE GateInv' /\ Honoured
  <2>1. PICK place \in {"check", "sent"}, side \in {"before", "after"}, i \in DOMAIN GateKinds :
           /\ inGate' = [inGate EXCEPT ![c] = place]
           /\ beforeOrAfter' = [beforeOrAfter EXCEPT ![c] = side]
           /\ looking' = [looking EXCEPT ![c] = i]
           /\ place = "sent" => side = "before"
           /\ side = "after" => i = 1
    <3>1. CASE Start(c)
      <4>1. inGate[c] = "idle" /\ inGate' = [inGate EXCEPT ![c] = "check"]
            /\ UNCHANGED <<beforeOrAfter, looking>>
        BY <3>1 DEF Start
      <4>2. beforeOrAfter[c] = "before"
        BY <4>1 DEF GateInv, CallerOK
      <4>3. /\ beforeOrAfter' = [beforeOrAfter EXCEPT ![c] = "before"]
            /\ looking' = [looking EXCEPT ![c] = looking[c]] /\ looking[c] \in DOMAIN GateKinds
        BY <1>0, <4>1, <4>2 DEF GateTyped
      <4> QED BY <4>1, <4>3
    <3>2. CASE Grant(c)
      <4>1. 1 \in DOMAIN GateKinds
        BY KindsAre
      <4> QED BY <3>2, <4>1 DEF Grant
    <3>3. CASE Send(c)
      <4>1. 1 \in DOMAIN GateKinds
        BY KindsAre
      <4> QED BY <3>3, <4>1 DEF Send
    <3> QED BY <1>5, <3>1, <3>2, <3>3
  <2>2. /\ UNCHANGED <<now, wake, lasts>>
        /\ checked' = checked \/ checked' = [checked EXCEPT ![c] = 0]
        /\ missed' = missed \/ missed' = [missed EXCEPT ![c] = {}]
    BY <1>5 DEF Start, Grant, Send, health
  <2>3. GateTyped'
    <3>1. /\ now' \in Nat /\ lasts' \in [KindSet -> Nat] /\ wake' \in [Callers -> Int]
          /\ inGate' \in [Callers -> GatePlaces] /\ beforeOrAfter' \in [Callers -> {"before", "after"}]
          /\ looking' \in [Callers -> DOMAIN GateKinds]
      BY <1>0, <2>1, <2>2 DEF GateTyped, GatePlaces
    <3>2. checked' \in [Callers -> Nat] /\ \A d \in Callers : checked'[d] <= now'
      <4>1. checked \in [Callers -> Nat] /\ now \in Nat /\ \A d \in Callers : checked[d] <= now
        BY <1>0 DEF GateTyped
      <4>2. CASE checked' = checked
        BY <2>2, <4>1, <4>2
      <4>3. CASE checked' = [checked EXCEPT ![c] = 0]
        BY <2>2, <4>1, <4>3
      <4> QED BY <2>2, <4>2, <4>3
    <3>3. missed' \in [Callers -> SUBSET KindSet]
      <4>1. missed \in [Callers -> SUBSET KindSet] /\ {} \in SUBSET KindSet
        BY <1>0 DEF GateTyped
      <4> QED BY <2>2, <4>1
    <3> QED BY <3>1, <3>2, <3>3 DEF GateTyped
  <2>4. inGate'[c] = place /\ beforeOrAfter'[c] = side /\ looking'[c] = i
    BY <1>0, <2>1 DEF GateTyped
  <2>5. CallerOK(c)'
    BY <2>1, <2>4 DEF CallerOK
  <2>6. ASSUME NEW d \in Callers \ {c} PROVE CallerOK(d)' /\ inGate'[d] = inGate[d]
    <3>1. UNCHANGED <<inGate[d], beforeOrAfter[d], looking[d], wake[d], missed[d]>>
      BY <1>0, <2>1, <2>2 DEF GateTyped
    <3> QED BY <1>0, <2>2, <3>1, OthersStay DEF GateTyped
  <2> QED BY <2>1, <2>3, <2>4, <2>5, <2>6 DEF GateInv
<1>6. ASSUME NEW c \in Callers, Check(c) \/ Wake(c) PROVE GateInv' /\ Honoured
  BY <1>6, CheckKeeps, WakeKeeps
<1> QED
  BY <1>1, <1>2, <1>3, <1>4, <1>5, <1>6 DEF GateNext

(* Nobody waits at first. *)
LEMMA GateBegins == GateInit => GateInv
<1> SUFFICES ASSUME GateInit PROVE GateInv
  OBVIOUS
<1>1. 1 \in DOMAIN GateKinds
  BY KindsAre
<1> QED
  BY <1>1 DEF GateInit, GateInv, GateTyped, GatePlaces, CallerOK

(* A request gets through the gate only with every cooldown over, or grown  *)
(* since it looked (withKoiosConcurrencyLimit): the stale clock of the      *)
(* second pass lets none pass too early.                                    *)
THEOREM CooldownsAreHonoured == GateSpec => CooldownHonoured
<1>1. GateInv /\ [GateNext]_gateVars =>
        GateInv' /\ [\A c \in Callers : inGate'[c] = "queued" /\ inGate[c] # "queued"
                       => \A k \in KindSet : lasts[k] <= now \/ k \in missed[c]]_gateVars
  BY GateStep
<1>2. GateSpec => [][\A c \in Callers : inGate'[c] = "queued" /\ inGate[c] # "queued"
                       => \A k \in KindSet : lasts[k] <= now \/ k \in missed[c]]_gateVars
  BY <1>1, GateBegins, PTL DEF GateSpec
<1> QED
  BY <1>2 DEF CooldownHonoured

-------------------------------------------------------------------------------
(* The limiters.  A request asks for the limiter of its endpoint or for the  *)
(* global one, and holds neither when it is idle.                            *)
Places ==
    \A r \in Requests : at[r] \in {First(r), Global} /\ (doing[r] = "idle" => at[r] = First(r))

Holders(l) == {r \in Requests : Holds(r, l)}
Coming(l) == Holders(l) \cup Woken(l)

(* Who is in a queue, and that nobody is twice. *)
IsIn(x, s) == \E i \in DOMAIN s : s[i] = x
AllOnce(s) == \A i, j \in DOMAIN s : s[i] = s[j] => i = j

(* What LimiterInv says of one limiter. *)
CountOK(l) ==
    /\ active[l] = Cardinality(Holders(l))
    /\ ~overtook[l] => Cardinality(Coming(l)) <= BaseMax[l]
QueueOK(l) ==
    /\ queue[l] # <<>> => Coming(l) # {}
    /\ \A r \in Requests : at[r] = l /\ doing[r] = "waiting" <=> IsIn(r, queue[l])
    /\ AllOnce(queue[l])

LInv == LimiterTypeOK /\ Places /\ \A l \in Limiters : CountOK(l) /\ QueueOK(l)

(* It is all there is to LimiterInv but the places. *)
LEMMA LimiterInvIs == LInv => LimiterInv
<1> SUFFICES ASSUME LInv PROVE LimiterInv
  OBVIOUS
<1>1. CountersExact /\ WithinMax
  BY DEF LInv, CountOK, Coming, Holders, CountersExact, WithinMax
<1>2. NoLostWakeup
  <2> SUFFICES ASSUME NEW l \in Limiters, queue[l] # <<>>
               PROVE  \E r \in Requests : Holds(r, l) \/ r \in Woken(l)
    BY DEF LInv, QueueOK, NoLostWakeup, IsIn, AllOnce
  <2>1. Coming(l) # {}
    BY DEF LInv, QueueOK
  <2> QED BY <2>1 DEF Coming, Holders, Woken
<1> QED
  BY <1>1, <1>2 DEF LInv, LimiterInv

(* Those at a limiter are finitely many. *)
LEMMA HoldersFinite == \A l :
    /\ IsFiniteSet(Holders(l)) /\ Cardinality(Holders(l)) \in Nat
    /\ IsFiniteSet(Coming(l)) /\ Cardinality(Coming(l)) \in Nat
<1> TAKE l
<1>1. Holders(l) \subseteq Requests /\ Coming(l) \subseteq Requests
  BY DEF Holders, Coming, Woken
<1> QED
  BY <1>1, FS_Subset, FS_CardinalityType, LimiterAssumption

(* A limiter has a place for one at least, and no more than configured. *)
LEMMA MaximumIs ==
    ASSUME LimiterTypeOK, NEW l \in Limiters
    PROVE  MaxConcurrent(l) \in Nat \ {0} /\ MaxConcurrent(l) <= BaseMax[l] /\ BaseMax[l] \in Nat \ {0}
<1>1. BaseMax[l] \in Nat \ {0} /\ scale \in 1..100
  BY LimiterAssumption DEF LimiterTypeOK
<1>2. ASSUME NEW b \in Nat \ {0}, NEW p \in 1..100 PROVE (b * p) \div 100 \in Nat /\ (b * p) \div 100 <= b
  <2>1. b * (100 - p) \in Nat
    BY <1>2
  <2>2. b * (100 - p) = b * 100 - b * p /\ b * p \in Nat
    BY <1>2
  <2>3. ASSUME NEW x \in Nat, x <= b * 100 PROVE x \div 100 \in Nat /\ x \div 100 <= b
    BY <2>3
  <2> QED BY <2>1, <2>2, <2>3
<1> QED
  BY <1>1, <1>2 DEF MaxConcurrent, ApplyAdaptiveCap

(* The sets a limiter counts, when one request comes in or goes. *)
LEMMA OneEnters ==
    ASSUME NEW l \in Limiters, CountOK(l), BaseMax[l] \in Nat,
           NEW r \in Requests, r \notin Holders(l), Holders(l)' = Holders(l) \cup {r},
           active'[l] = active[l] + 1, Woken(l)' = Woken(l) \ {r},
           ~overtook'[l] => ~overtook[l],
           ~overtook'[l] => r \in Woken(l) \/ (Woken(l) = {} /\ active[l] < BaseMax[l])
    PROVE  CountOK(l)' /\ Coming(l)' # {}
<1>1. Cardinality(Holders(l)') = Cardinality(Holders(l)) + 1
  BY HoldersFinite, FS_AddElement
<1>2. active'[l] = Cardinality(Holders(l)')
  BY <1>1 DEF CountOK
<1>3. ASSUME ~overtook'[l] PROVE Cardinality(Coming(l)') <= BaseMax[l]
  <2>1. CASE r \in Woken(l)
    <3>1. Coming(l)' = Coming(l)
      BY <2>1 DEF Coming
    <3> QED BY <1>3, <3>1 DEF CountOK
  <2>2. CASE Woken(l) = {} /\ active[l] < BaseMax[l]
    <3>1. Coming(l)' = Holders(l)'
      BY <2>2 DEF Coming
    <3>2. active[l] = Cardinality(Holders(l)) /\ Cardinality(Holders(l)) \in Nat
      BY HoldersFinite DEF CountOK
    <3> QED BY <1>1, <2>2, <3>1, <3>2
  <2> QED BY <1>3, <2>1, <2>2
<1>4. Coming(l)' # {}
  BY DEF Coming
<1> QED
  BY <1>2, <1>3, <1>4 DEF CountOK

(* One leaves, and a request that waited is woken, if there was one. *)
LEMMA OneLeaves ==
    ASSUME NEW l \in Limiters, CountOK(l), BaseMax[l] \in Nat, NEW r \in Holders(l),
           Holders(l)' = Holders(l) \ {r}, active'[l] = active[l] - 1, overtook' = overtook,
           NEW h, Woken(l)' = Woken(l) \/ Woken(l)' = Woken(l) \cup {h}, r \notin Woken(l)
    PROVE  CountOK(l)' /\ active'[l] \in Nat
<1>1. /\ Cardinality(Holders(l)') = Cardinality(Holders(l)) - 1
      /\ Cardinality(Holders(l)') \in Nat /\ Cardinality(Holders(l)) \in Nat
  <2>1. IsFiniteSet(Holders(l)) /\ IsFiniteSet(Holders(l) \ {r})
    BY HoldersFinite, FS_Subset
  <2> QED BY <2>1, HoldersFinite, FS_RemoveElement, FS_CardinalityType
<1>2. active'[l] = Cardinality(Holders(l)') /\ active'[l] \in Nat
  BY <1>1 DEF CountOK
<1>3. ASSUME ~overtook[l] PROVE Cardinality(Coming(l)') <= BaseMax[l]
  <2> DEFINE S == Coming(l) \ {r}
  <2>1. r \in Coming(l) /\ Coming(l)' \subseteq S \cup {h}
    BY DEF Coming
  <2>2. /\ IsFiniteSet(S) /\ Cardinality(S) = Cardinality(Coming(l)) - 1 /\ Cardinality(S) \in Nat
        /\ Cardinality(Coming(l)) \in Nat
    <3>1. IsFiniteSet(S)
      BY HoldersFinite, FS_Subset
    <3> QED BY <2>1, <3>1, HoldersFinite, FS_RemoveElement, FS_CardinalityType
  <2>3. /\ IsFiniteSet(S \cup {h}) /\ Cardinality(S \cup {h}) <= Cardinality(S) + 1
        /\ Cardinality(S \cup {h}) \in Nat
    <3>1. IsFiniteSet(S \cup {h})
          /\ Cardinality(S \cup {h}) = IF h \in S THEN Cardinality(S) ELSE Cardinality(S) + 1
      BY <2>2, FS_AddElement
    <3> QED BY <2>2, <3>1
  <2>4. Cardinality(Coming(l)') <= Cardinality(S \cup {h}) /\ Cardinality(Coming(l)') \in Nat
    <3>1. IsFiniteSet(Coming(l)')
      BY <2>1, <2>3, FS_Subset
    <3> QED BY <2>1, <2>3, <3>1, FS_Subset, FS_CardinalityType
  <2>5. Cardinality(Coming(l)) <= BaseMax[l]
    BY <1>3 DEF CountOK
  <2> QED BY <2>2, <2>3, <2>4, <2>5
<1> QED
  BY <1>2, <1>3 DEF CountOK

(* What the invariant says of a request and its limiters. *)
LEMMA LimiterTypes ==
    ASSUME LInv
    PROVE  /\ at \in [Requests -> Limiters] /\ active \in [Limiters -> Nat]
           /\ doing \in [Requests -> {"idle", "asking", "waiting", "woken", "inside", "leaving"}]
           /\ queue \in [Limiters -> Seq(Requests)] /\ overtook \in [Limiters -> BOOLEAN]
           /\ \A r \in Requests : First(r) \in Limiters
           /\ \A l \in Limiters : BaseMax[l] \in Nat \ {0}
           /\ Global \in Limiters
BY LimiterAssumption DEF LInv, LimiterTypeOK, First, Limiters

(* A limiter at which nothing happens. *)
LEMMA NothingHappens ==
    ASSUME LInv, NEW l \in Limiters, Holders(l)' = Holders(l), Woken(l)' = Woken(l),
           active'[l] = active[l], overtook'[l] = overtook[l], queue'[l] = queue[l],
           \A q \in Requests : at'[q] = l /\ doing'[q] = "waiting" <=> at[q] = l /\ doing[q] = "waiting"
    PROVE  CountOK(l)' /\ QueueOK(l)'
<1>1. Coming(l)' = Coming(l) /\ CountOK(l) /\ QueueOK(l)
  BY DEF Coming, LInv
<1> QED
  BY <1>1 DEF CountOK, QueueOK

(* Steps within a limiter, of one request. *)
LEMMA QuietSteps ==
    ASSUME LInv, Rescale \/ \E r \in Requests : Ask(r) \/ GoOn(r) \/ Settle(r)
    PROVE  LInv'
<1> USE LimiterTypes
<1>1. CASE Rescale
  <2>1. scale' \in Scales /\ UNCHANGED <<at, doing, active, queue, overtook>>
    BY <1>1 DEF Rescale
  <2>2. \A l : Holders(l)' = Holders(l) /\ Woken(l)' = Woken(l)
    BY <2>1 DEF Holders, Holds, Woken, First
  <2>3. ASSUME NEW l \in Limiters PROVE CountOK(l)' /\ QueueOK(l)'
    BY <2>1, <2>2, NothingHappens
  <2> QED BY <2>1, <2>3 DEF LInv, LimiterTypeOK, Places, First
<1>2. ASSUME NEW r \in Requests, Ask(r) \/ GoOn(r) \/ Settle(r) PROVE LInv'
  <2>1. PICK from \in {"idle", "inside"}, to \in {"asking", "leaving"}, place \in {at[r], Global} :
          /\ doing[r] = from /\ doing' = [doing EXCEPT ![r] = to]
          /\ at' = [at EXCEPT ![r] = place]
          /\ (from = "idle" => to = "asking" /\ place = at[r])
          /\ (from = "inside" /\ to = "asking" => at[r] # Global /\ place = Global)
          /\ (from = "inside" /\ to = "leaving" => place = at[r])
          /\ UNCHANGED <<scale, active, queue, overtook>>
    BY <1>2 DEF Ask, GoOn, Settle
  <2>2. /\ at' \in [Requests -> Limiters] /\ at'[r] = place /\ doing'[r] = to
        /\ doing' \in [Requests -> {"idle", "asking", "waiting", "woken", "inside", "leaving"}]
        /\ \A q \in Requests \ {r} : at'[q] = at[q] /\ doing'[q] = doing[q]
    BY <2>1
  <2>3. at[r] \in {First(r), Global} /\ (from = "idle" => at[r] = First(r))
    BY <2>1 DEF LInv, Places
  <2>4. ASSUME NEW l \in Limiters
        PROVE  Holds(r, l)' <=> Holds(r, l)
    BY <2>1, <2>2, <2>3, <2>4 DEF Holds, First
  <2>5. ASSUME NEW l \in Limiters PROVE CountOK(l)' /\ QueueOK(l)'
    <3>1. Holders(l)' = Holders(l)
      BY <2>2, <2>4, <2>5 DEF Holders, Holds, First
    <3>2. Woken(l)' = Woken(l)
      BY <2>1, <2>2 DEF Woken
    <3> QED BY <2>1, <2>2, <3>1, <3>2, NothingHappens
  <2>6. Places'
    BY <2>1, <2>2, <2>3 DEF LInv, Places, First
  <2> QED BY <2>1, <2>2, <2>5, <2>6 DEF LInv, LimiterTypeOK
<1> QED
  BY <1>1, <1>2

(* A request that asks holds nothing at the limiter it asks for. *)
LEMMA NotYet ==
    ASSUME NEW r \in Requests, doing[r] \in {"asking", "waiting", "woken"}
    PROVE  ~Holds(r, at[r])
BY DEF Holds

(* A request comes in, at once or when it was woken. *)
LEMMA Enters ==
    ASSUME LInv, NEW r \in Requests, NEW l \in Limiters, at[r] = l, AcquireNow(r) \/ Resume(r)
    PROVE  LInv'
<1> USE LimiterTypes
<1>1. /\ doing[r] \in {"asking", "woken"} /\ doing' = [doing EXCEPT ![r] = "inside"]
      /\ active' = [active EXCEPT ![l] = @ + 1] /\ UNCHANGED <<scale, at, queue>>
      /\ doing[r] = "woken" => overtook' = overtook
      /\ doing[r] = "asking" => /\ active[l] < MaxConcurrent(l)
                                /\ overtook' = [overtook EXCEPT ![l] = @ \/ Woken(l) # {}]
  BY DEF AcquireNow, Resume
<1>2. /\ doing' \in [Requests -> {"idle", "asking", "waiting", "woken", "inside", "leaving"}]
      /\ doing'[r] = "inside" /\ \A q \in Requests \ {r} : doing'[q] = doing[q]
      /\ l \in Limiters /\ active' \in [Limiters -> Nat] /\ active'[l] = active[l] + 1
      /\ \A m \in Limiters \ {l} : active'[m] = active[m]
  BY <1>1
<1>1a.
      /\ \A m \in Limiters \ {l} : overtook'[m] = overtook[m]
      /\ overtook' \in [Limiters -> BOOLEAN]
      /\ ~overtook'[l] => ~overtook[l]
      /\ ~overtook'[l] /\ doing[r] = "asking" => Woken(l) = {}
  <2>1. CASE doing[r] = "woken"
    BY <1>1, <2>1
  <2>2. CASE doing[r] = "asking"
    <3>1. PICK b \in BOOLEAN : b = (overtook[l] \/ Woken(l) # {})
      OBVIOUS
    <3>2. overtook' = [overtook EXCEPT ![l] = b] /\ (~b => ~overtook[l] /\ Woken(l) = {})
      BY <1>1, <2>2, <3>1
    <3> QED BY <3>2
  <2> QED BY <1>1, <2>1, <2>2
<1>3. \A q, m : q \in Requests /\ (q # r \/ m # l) => (Holds(q, m)' <=> Holds(q, m))
  BY <1>1, <1>2 DEF Holds, First
<1>4. ASSUME NEW m \in Limiters \ {l} PROVE CountOK(m)' /\ QueueOK(m)'
  <2>1. Holders(m)' = Holders(m)
    BY <1>3, <1>4 DEF Holders
  <2>2. Woken(m)' = Woken(m)
    BY <1>1, <1>2, <1>4 DEF Woken
  <2>3. \A q \in Requests :
          at'[q] = m /\ doing'[q] = "waiting" <=> at[q] = m /\ doing[q] = "waiting"
    BY <1>1, <1>2, <1>4
  <2> QED BY <1>1, <1>2, <1>1a, <1>4, <2>1, <2>2, <2>3, NothingHappens
<1>5. CountOK(l)' /\ QueueOK(l)'
  <2>1a. CountOK(l) /\ QueueOK(l) /\ BaseMax[l] \in Nat /\ active[l] \in Nat
    BY <1>2 DEF LInv
  <2>1. r \notin Holders(l) /\ Holders(l)' = Holders(l) \cup {r}
    <3>1. ~Holds(r, l)
      BY <1>1, NotYet
    <3>2. Holds(r, l)'
      BY <1>1, <1>2 DEF Holds
    <3> QED BY <1>3, <3>1, <3>2 DEF Holders
  <2>2. Woken(l)' = Woken(l) \ {r}
    BY <1>1, <1>2 DEF Woken
  <2>3. ~overtook'[l] => ~overtook[l]
    BY <1>1a
  <2>4. ~overtook'[l] => r \in Woken(l) \/ (Woken(l) = {} /\ active[l] < BaseMax[l])
    <3>1. CASE doing[r] = "woken"
      BY <3>1 DEF Woken
    <3>2. CASE doing[r] = "asking"
      <4>1. active[l] < MaxConcurrent(l) /\ (~overtook'[l] => Woken(l) = {})
        BY <1>1, <1>1a, <3>2
      <4>2. active[l] < BaseMax[l]
        BY <1>2, <2>1a, <4>1, MaximumIs DEF LInv
      <4> QED BY <4>1, <4>2
    <3> QED BY <1>1, <3>1, <3>2
  <2>5. CountOK(l)' /\ Coming(l)' # {}
    BY <1>2, <2>1a, <2>1, <2>2, <2>3, <2>4, OneEnters
  <2>6. \A q \in Requests :
          at'[q] = l /\ doing'[q] = "waiting" <=> at[q] = l /\ doing[q] = "waiting"
    BY <1>1, <1>2
  <2> QED BY <1>1, <2>1a, <2>5, <2>6 DEF QueueOK
<1>6. Places'
  BY <1>1, <1>2 DEF LInv, Places, First
<1>7. LimiterTypeOK'
  BY <1>1a, <1>1, <1>2 DEF LInv, LimiterTypeOK
<1> QED
  BY <1>4, <1>5, <1>6, <1>7 DEF LInv

(* What is in a queue when one is added. *)
LEMMA AddLast ==
    ASSUME NEW s \in Seq(Requests), NEW e \in Requests, NEW t, t = Append(s, e)
    PROVE  /\ t \in Seq(Requests)
           /\ \A x : IsIn(x, t) <=> x = e \/ IsIn(x, s)
           /\ AllOnce(s) /\ ~IsIn(e, s) => AllOnce(t)
<1>1. /\ t \in Seq(Requests) /\ DOMAIN s = 1..Len(s) /\ DOMAIN t = 1..(Len(s) + 1) /\ Len(s) \in Nat
      /\ t[Len(s) + 1] = e /\ \A i \in 1..Len(s) : t[i] = s[i]
  OBVIOUS
<1>2. \A i \in DOMAIN t : i \in DOMAIN s \/ i = Len(s) + 1
  BY <1>1
<1>3. \A i \in DOMAIN s : i \in DOMAIN t /\ t[i] = s[i] /\ i # Len(s) + 1
  BY <1>1
<1>4. Len(s) + 1 \in DOMAIN t
  BY <1>1
<1>5. \A x : (\E i \in DOMAIN t : t[i] = x) <=> x = e \/ \E i \in DOMAIN s : s[i] = x
  BY <1>1, <1>2, <1>3, <1>4
<1>6. ASSUME \A i, j \in DOMAIN s : s[i] = s[j] => i = j, ~(\E i \in DOMAIN s : s[i] = e),
             NEW i \in DOMAIN t, NEW j \in DOMAIN t, t[i] = t[j]
      PROVE  i = j
  BY <1>1, <1>2, <1>3, <1>6
<1> QED
  BY <1>1, <1>5, <1>6 DEF IsIn, AllOnce

(* Taking its head leaves the others, and nobody else. *)
LEMMA TakeFirst ==
    ASSUME NEW s \in Seq(Requests), s # <<>>, AllOnce(s), NEW t, t = Tail(s)
    PROVE  /\ Head(s) \in Requests /\ t \in Seq(Requests)
           /\ IsIn(Head(s), s)
           /\ \A x : IsIn(x, t) <=> x # Head(s) /\ IsIn(x, s)
           /\ AllOnce(t)
<1>1. /\ t \in Seq(Requests) /\ Len(s) \in Nat \ {0} /\ DOMAIN s = 1..Len(s)
      /\ DOMAIN t = 1..(Len(s) - 1) /\ Len(s) - 1 \in Nat
      /\ Head(s) = s[1] /\ s[1] \in Requests /\ \A i \in 1..(Len(s) - 1) : t[i] = s[i + 1]
  OBVIOUS
<1>2. \A i \in DOMAIN t : i + 1 \in DOMAIN s /\ i + 1 # 1 /\ t[i] = s[i + 1]
  BY <1>1
<1>3. 1 \in DOMAIN s
  BY <1>1
<1>4. ASSUME NEW i \in DOMAIN t, NEW j \in DOMAIN t, t[i] = t[j] PROVE i = j
  <2>1. i + 1 = j + 1
    BY <1>2, <1>4 DEF AllOnce
  <2> QED BY <1>1, <2>1
<1>5. ASSUME NEW i \in DOMAIN t PROVE t[i] # s[1] /\ \E j \in DOMAIN s : s[j] = t[i]
  BY <1>2, <1>3 DEF AllOnce
<1>6. ASSUME NEW i \in DOMAIN s, s[i] # s[1] PROVE \E j \in DOMAIN t : t[j] = s[i]
  <2>1. i - 1 \in DOMAIN t /\ (i - 1) + 1 = i
    BY <1>1, <1>6
  <2> QED BY <1>2, <2>1
<1> QED
  BY <1>1, <1>3, <1>4, <1>5, <1>6 DEF IsIn, AllOnce

(* A request that finds no place waits: then another one holds the limiter. *)
LEMMA Queues ==
    ASSUME LInv, NEW r \in Requests, NEW l \in Limiters, at[r] = l, AcquireQueued(r)
    PROVE  LInv'
<1> USE LimiterTypes
<1>1. /\ doing[r] = "asking" /\ doing' = [doing EXCEPT ![r] = "waiting"]
      /\ queue' = [queue EXCEPT ![l] = Append(@, r)] /\ active[l] >= MaxConcurrent(l)
      /\ UNCHANGED <<scale, at, active, overtook>>
  BY DEF AcquireQueued
<1>2. /\ doing' \in [Requests -> {"idle", "asking", "waiting", "woken", "inside", "leaving"}]
      /\ doing'[r] = "waiting" /\ \A q \in Requests \ {r} : doing'[q] = doing[q]
      /\ queue[l] \in Seq(Requests) /\ queue'[l] = Append(queue[l], r)
      /\ \A m \in Limiters \ {l} : queue'[m] = queue[m]
  BY <1>1
<1>3. \A m : Holders(m)' = Holders(m) /\ Woken(m)' = Woken(m)
  BY <1>1, <1>2 DEF Holders, Holds, Woken, First
<1>4. ASSUME NEW m \in Limiters \ {l} PROVE CountOK(m)' /\ QueueOK(m)'
  <2>1. \A q \in Requests :
          at'[q] = m /\ doing'[q] = "waiting" <=> at[q] = m /\ doing[q] = "waiting"
    BY <1>1, <1>2, <1>4
  <2> QED BY <1>1, <1>2, <1>3, <1>4, <2>1, NothingHappens
<1>5. CountOK(l)' /\ QueueOK(l)'
  <2>1. CountOK(l) /\ QueueOK(l)
    BY DEF LInv
  <2>2. CountOK(l)' /\ Coming(l)' = Coming(l)
    BY <1>1, <1>3, <2>1 DEF CountOK, Coming
  <2>3. Coming(l) # {}
    <3>1. active[l] >= MaxConcurrent(l) /\ MaxConcurrent(l) \in Nat \ {0} /\ active[l] \in Nat
      BY <1>1, MaximumIs DEF LInv
    <3>1a. Cardinality(Holders(l)) # 0
      BY <2>1, <3>1 DEF CountOK
    <3>2. Holders(l) # {}
      BY <3>1a, HoldersFinite, FS_EmptySet
    <3> QED BY <3>2 DEF Coming
  <2>4. ~IsIn(r, queue[l])
    BY <1>1, <2>1 DEF QueueOK
  <2>5. \A x : IsIn(x, queue'[l]) <=> x = r \/ IsIn(x, queue[l])
    BY <1>2, AddLast, Zenon
  <2>6. AllOnce(queue[l])
    BY <2>1 DEF QueueOK
  <2>7. AllOnce(queue'[l])
    BY <1>2, <2>4, <2>6, AddLast, Zenon
  <2>8. \A q \in Requests : at'[q] = l /\ doing'[q] = "waiting" <=> IsIn(q, queue'[l])
    BY <1>1, <1>2, <2>1, <2>5 DEF QueueOK
  <2> QED BY <2>2, <2>3, <2>7, <2>8 DEF QueueOK
<1>6. Places'
  BY <1>1, <1>2 DEF LInv, Places, First
<1>7. queue' \in [Limiters -> Seq(Requests)]
  BY <1>1, <1>2, AddLast
<1>8. LimiterTypeOK'
  BY <1>1, <1>2, <1>7 DEF LInv, LimiterTypeOK
<1> QED
  BY <1>4, <1>5, <1>6, <1>8 DEF LInv

(* The requests H are woken, and nothing else happens to a queue, when the   *)
(* request r leaves the limiter l and goes where left says.                  *)
Wakes(H, l, r, left) ==
    /\ \A q \in H : q # r /\ at[q] = l /\ doing[q] = "waiting" /\ doing'[q] = "woken"
    /\ doing' \in [Requests -> {"idle", "asking", "waiting", "woken", "inside", "leaving"}]
    /\ doing'[r] = left[r] /\ \A q \in Requests \ (H \cup {r}) : doing'[q] = doing[q]
    /\ queue' \in [Limiters -> Seq(Requests)] /\ AllOnce(queue'[l])
    /\ \A q \in Requests : IsIn(q, queue'[l]) <=> q \notin H /\ IsIn(q, queue[l])
    /\ \A m \in Limiters \ {l} : queue'[m] = queue[m]
    /\ queue'[l] # <<>> => H # {}
    /\ \E h : H \subseteq {h}

(* Who is woken when a request leaves: the head of the queue, if there is one. *)
LEMMA HeadIsWoken ==
    ASSUME LInv, NEW l \in Limiters, NEW left, NEW r \in Requests, doing[r] = "leaving",
           left \in [Requests -> {"idle", "asking", "waiting", "woken", "inside", "leaving"}],
           \A q \in Requests \ {r} : left[q] = doing[q], WakeNext(l, left)
    PROVE  \E H \in SUBSET Requests : Wakes(H, l, r, left)
<1> USE LimiterTypes
<1>1. queue[l] \in Seq(Requests) /\ AllOnce(queue[l])
      /\ \A q \in Requests : IsIn(q, queue[l]) => at[q] = l /\ doing[q] = "waiting"
  BY DEF LInv, QueueOK
<1>2. CASE queue[l] = <<>>
  <2>1. doing' = left /\ queue' = queue
    BY <1>2 DEF WakeNext
  <2> WITNESS {} \in SUBSET Requests
  <2> QED BY <1>1, <1>2, <2>1 DEF Wakes
<1>3. CASE queue[l] # <<>>
  <2>1. PICK h : h = Head(queue[l])
    OBVIOUS
  <2>2. doing' = [left EXCEPT ![h] = "woken"] /\ queue' = [queue EXCEPT ![l] = Tail(@)]
    BY <1>3, <2>1 DEF WakeNext
  <2>3. queue'[l] = Tail(queue[l]) /\ \A m \in Limiters \ {l} : queue'[m] = queue[m]
    BY <2>2
  <2>4. /\ h \in Requests /\ queue'[l] \in Seq(Requests) /\ IsIn(h, queue[l])
        /\ \A x : IsIn(x, queue'[l]) <=> x # h /\ IsIn(x, queue[l])
        /\ AllOnce(queue'[l])
    BY <1>1, <1>3, <2>1, <2>3, TakeFirst, Zenon
  <2>5. at[h] = l /\ doing[h] = "waiting" /\ h # r
    BY <1>1, <2>4
  <2>6. doing' \in [Requests -> {"idle", "asking", "waiting", "woken", "inside", "leaving"}]
        /\ doing'[h] = "woken" /\ doing'[r] = left[r] /\ \A q \in Requests \ {h, r} : doing'[q] = doing[q]
    BY <2>2, <2>4, <2>5
  <2>7. queue' \in [Limiters -> Seq(Requests)]
    BY <2>2, <2>3, <2>4
  <2>8. \A q \in Requests : IsIn(q, queue'[l]) <=> q \notin {h} /\ IsIn(q, queue[l])
    BY <2>4
  <2>9. \A q \in Requests \ ({h} \cup {r}) : doing'[q] = doing[q]
    BY <2>6
  <2> USE <2>4
  <2> WITNESS {h} \in SUBSET Requests
  <2> QED BY <2>3, <2>5, <2>6, <2>7, <2>8, <2>9 DEF Wakes
<1> QED
  BY <1>2, <1>3

(* A request leaves a limiter. *)
LEMMA Leaves ==
    ASSUME LInv, NEW r \in Requests, NEW l \in Limiters, at[r] = l, Release(r)
    PROVE  LInv'
<1> USE LimiterTypes
<1>1. PICK left : left = [doing EXCEPT ![r] = IF l = First(r) THEN "idle" ELSE "leaving"]
  OBVIOUS
<1>2. /\ doing[r] = "leaving" /\ active' = [active EXCEPT ![l] = @ - 1]
      /\ at' = [at EXCEPT ![r] = First(r)] /\ UNCHANGED <<scale, overtook>>
      /\ WakeNext(l, left)
  BY <1>1 DEF Release
<1>3. /\ left \in [Requests -> {"idle", "asking", "waiting", "woken", "inside", "leaving"}]
      /\ \A q \in Requests \ {r} : left[q] = doing[q]
      /\ left[r] = IF l = First(r) THEN "idle" ELSE "leaving"
  BY <1>1
<1>1a. PICK H \in SUBSET Requests : Wakes(H, l, r, left)
  BY <1>2, <1>3, HeadIsWoken
<1>4. /\ \A q \in H : q # r /\ at[q] = l /\ doing[q] = "waiting" /\ doing'[q] = "woken"
      /\ doing' \in [Requests -> {"idle", "asking", "waiting", "woken", "inside", "leaving"}]
      /\ doing'[r] = left[r] /\ \A q \in Requests \ (H \cup {r}) : doing'[q] = doing[q]
      /\ queue' \in [Limiters -> Seq(Requests)] /\ AllOnce(queue'[l])
      /\ \A q \in Requests : IsIn(q, queue'[l]) <=> q \notin H /\ IsIn(q, queue[l])
      /\ \A m \in Limiters \ {l} : queue'[m] = queue[m]
      /\ queue'[l] # <<>> => H # {}
      /\ \E h : H \subseteq {h}
  BY <1>1a DEF Wakes
<1>5. /\ at' \in [Requests -> Limiters] /\ at'[r] = First(r)
      /\ \A q \in Requests \ {r} : at'[q] = at[q]
      /\ active'[l] = active[l] - 1 /\ \A m \in Limiters \ {l} : active'[m] = active[m]
      /\ First(r) \in Limiters /\ l \in {First(r), Global}
  BY <1>2 DEF LInv, Places
<1>6. CountOK(l) /\ QueueOK(l) /\ BaseMax[l] \in Nat
  BY DEF LInv
<1>7. \A q, m : q \in Requests /\ (q # r \/ m # l) => (Holds(q, m)' <=> Holds(q, m))
  <2>1. ASSUME NEW q \in Requests \ {r}, NEW m PROVE Holds(q, m)' <=> Holds(q, m)
    <3>1. CASE q \in H
      BY <1>4, <1>5, <3>1 DEF Holds, First
    <3>2. CASE q \notin H
      BY <1>4, <1>5, <3>2 DEF Holds, First
    <3> QED BY <3>1, <3>2
  <2>2. ASSUME NEW m, m # l PROVE Holds(r, m)' <=> Holds(r, m)
    BY <1>2, <1>3, <1>4, <1>5, <2>2 DEF Holds, First
  <2> QED BY <2>1, <2>2
<1>8. ASSUME NEW m \in Limiters \ {l} PROVE CountOK(m)' /\ QueueOK(m)'
  <2>1. Holders(m)' = Holders(m)
    BY <1>7, <1>8 DEF Holders
  <2>2. \A q \in Requests, d \in {"waiting", "woken"} :
          at'[q] = m /\ doing'[q] = d <=> at[q] = m /\ doing[q] = d
    <3> SUFFICES ASSUME NEW q \in Requests, NEW d \in {"waiting", "woken"}
                 PROVE  at'[q] = m /\ doing'[q] = d <=> at[q] = m /\ doing[q] = d
      OBVIOUS
    <3>1. CASE q = r
      BY <1>2, <1>3, <1>4, <3>1
    <3>2. CASE q \in H
      BY <1>4, <1>5, <1>8, <3>2
    <3>3. CASE q # r /\ q \notin H
      BY <1>4, <1>5, <3>3
    <3> QED BY <3>1, <3>2, <3>3
  <2>3. Woken(m)' = Woken(m)
    BY <2>2 DEF Woken
  <2> QED BY <1>2, <1>4, <1>5, <1>8, <2>1, <2>2, <2>3, NothingHappens
<1>9. Woken(l)' = Woken(l) \cup H /\ r \notin Woken(l)
  BY <1>2, <1>3, <1>4, <1>5 DEF Woken
<1>10. CountOK(l)' /\ active'[l] \in Nat
  <2>1. r \in Holders(l)
    BY <1>2 DEF Holders, Holds
  <2>2. ~Holds(r, l)'
    BY <1>3, <1>4, <1>5 DEF Holds, First
  <2>3. Holders(l)' = Holders(l) \ {r}
    BY <1>7, <2>2 DEF Holders
  <2>4. PICK h : Woken(l)' = Woken(l) \/ Woken(l)' = Woken(l) \cup {h}
    <3>1. PICK h : H \subseteq {h}
      BY <1>4
    <3>2. H = {} \/ H = {h}
      BY <3>1
    <3> QED BY <1>9, <3>2
  <2> QED BY <1>2, <1>5, <1>6, <1>9, <2>1, <2>3, <2>4, OneLeaves
<1>11. QueueOK(l)'
  <2>1. queue'[l] # <<>> => Coming(l)' # {}
    BY <1>4, <1>9 DEF Coming
  <2>2. \A q \in Requests : at'[q] = l /\ doing'[q] = "waiting" <=> IsIn(q, queue'[l])
    BY <1>2, <1>3, <1>4, <1>5, <1>6 DEF QueueOK
  <2> QED BY <1>4, <2>1, <2>2 DEF QueueOK
<1>12. Places'
  BY <1>2, <1>3, <1>4, <1>5 DEF LInv, Places, First
<1>13. active' \in [Limiters -> Nat]
  BY <1>2, <1>5, <1>10
<1>14. LimiterTypeOK'
  BY <1>2, <1>4, <1>5, <1>13 DEF LInv, LimiterTypeOK
<1> QED
  BY <1>8, <1>10, <1>11, <1>12, <1>14 DEF LInv

(* The limiters begin with nobody inside. *)
LEMMA LimiterBegins == LimiterInit => LInv
<1> SUFFICES ASSUME LimiterInit PROVE LInv
  OBVIOUS
<1>1. LimiterTypeOK /\ Places
  BY LimiterAssumption DEF LimiterInit, LimiterTypeOK, Places, First, Limiters
<1>2. ASSUME NEW l \in Limiters PROVE CountOK(l) /\ QueueOK(l)
  <2>1. Holders(l) = {} /\ Coming(l) = {}
    BY LimiterAssumption DEF LimiterInit, Holders, Coming, Woken, Holds, First, Limiters
  <2>2. active[l] = 0 /\ queue[l] = <<>> /\ BaseMax[l] \in Nat
    BY LimiterAssumption DEF LimiterInit
  <2>3. CountOK(l)
    BY <2>1, <2>2, FS_EmptySet DEF CountOK
  <2>4. DOMAIN queue[l] = {} /\ \A q \in Requests : doing[q] # "waiting"
    BY <2>2 DEF LimiterInit
  <2> QED BY <2>2, <2>3, <2>4 DEF QueueOK, IsIn, AllOnce
<1> QED
  BY <1>1, <1>2 DEF LInv

(* Every step of the limiters preserves their invariant. *)
LEMMA LimiterStep == LInv /\ [LimiterNext]_limiterVars => LInv'
<1> SUFFICES ASSUME LInv, [LimiterNext]_limiterVars PROVE LInv'
  OBVIOUS
<1>1. CASE Rescale \/ \E r \in Requests : Ask(r) \/ GoOn(r) \/ Settle(r)
  BY <1>1, QuietSteps
<1>2. ASSUME NEW r \in Requests, AcquireNow(r) \/ AcquireQueued(r) \/ Resume(r) \/ Release(r) PROVE LInv'
  <2>1. at[r] \in Limiters
    BY LimiterTypes
  <2>2. PICK l \in Limiters : at[r] = l
    BY <2>1
  <2> QED BY <1>2, <2>2, Enters, Queues, Leaves
<1>3. CASE UNCHANGED limiterVars
  <2>1. UNCHANGED <<scale, at, doing, active, queue, overtook>>
    BY <1>3 DEF limiterVars
  <2>2. \A l : Holders(l)' = Holders(l) /\ Woken(l)' = Woken(l)
    BY <2>1 DEF Holders, Holds, Woken, First
  <2>3. ASSUME NEW l \in Limiters PROVE CountOK(l)' /\ QueueOK(l)'
    BY <2>1, <2>2, NothingHappens
  <2> QED BY <2>1, <2>3 DEF LInv, LimiterTypeOK, Places, First
<1> QED
  BY <1>1, <1>2, <1>3 DEF LimiterNext, Step

(* The counter of each limiter is the number of requests that hold it, no    *)
(* wake-up is lost, and a limiter exceeds its maximum only when a request    *)
(* overtook one that was already woken, for any requests and limiters.       *)
THEOREM LimitersKeepCount == LimiterSpec => []LimiterInv
<1>1. LInv => LimiterInv
  BY LimiterInvIs
<1>2. LimiterSpec => []LInv
  BY LimiterBegins, LimiterStep, PTL DEF LimiterSpec
<1> QED
  BY <1>1, <1>2, PTL

(* No request goes out that should wait or stop, for any calls, limits,      *)
(* cooldowns and budgets: the gate, the limiters and the retries each keep   *)
(* their part of the promise.                                                *)
THEOREM RequestsAreAdmitted == GateSpec /\ LimiterSpec /\ RetrySpec => RequestsAdmitted
<1>1. GateSpec => []GrantsSpaced /\ CooldownHonoured
  BY GrantsAreSpaced, CooldownsAreHonoured
<1>2. RetrySpec => []RetriesWithinBudget /\ NoAttemptAfterAbort
  BY RetriesAreBudgeted, AbortedIsOver
<1> QED
  BY <1>1, <1>2, LimitersKeepCount, PTL DEF RequestsAdmitted
===============================================================================
