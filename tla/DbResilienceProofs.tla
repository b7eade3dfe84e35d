-------------------------- MODULE DbResilienceProofs --------------------------
(***************************************************************************)
(* Theorems about the write semaphore of DbResilience, for every number of *)
(* callers, every limit and every depth of the queue.                      *)
(***************************************************************************)
EXTENDS DbResilience, FiniteSetTheorems, TLAPS

(* Who is in flight follows pc, so that a set of writes in flight is the   *)
(* old one with a write added or taken out.                                *)
LEMMA InFlightFinite == IsFiniteSet(InFlight)
BY CallsAssumption, FS_Subset DEF InFlight

LEMMA Enters ==
    ASSUME NEW c \in Writes, c \notin InFlight, InFlight' = InFlight \union {c}
    PROVE  Cardinality(InFlight)' = Cardinality(InFlight) + 1
BY InFlightFinite, FS_AddElement

LEMMA Leaves ==
    ASSUME NEW c \in Writes, c \in InFlight, InFlight' = InFlight \ {c}
    PROVE  /\ Cardinality(InFlight)' = Cardinality(InFlight) - 1
           /\ Cardinality(InFlight) >= 1
<1>1. Cardinality(InFlight \ {c}) = Cardinality(InFlight) - 1
  BY InFlightFinite, FS_RemoveElement
<1>2. Cardinality(InFlight) \in Nat /\ Cardinality(InFlight \ {c}) \in Nat
  BY InFlightFinite, FS_CardinalityType, FS_RemoveElement
<1> QED
  BY <1>1, <1>2

(* A call sleeps only while it has attempts left. *)
TypeInv == TypeOK /\ \A c \in Calls : pc[c] = "sleeping" => attempt[c] < MaxAttempts

(* The queue, the counter and the calls tell one story. *)
SemInv == TypeInv /\ SlotsAccounted /\ NoLostWakeup

LEMMA BoundsAreNats ==
    /\ Limit \in Nat /\ Limit > 0 /\ MaxAttempts \in Nat /\ MaxAttempts > 0
    /\ Cooldown \in Nat /\ FailFastCooldown \in Nat /\ Window \in Nat
BY BoundsAssumption

LEMMA TypeStep == TypeInv /\ [Next]_vars => TypeInv'
<1> SUFFICES ASSUME TypeInv, [Next]_vars PROVE TypeInv'
  OBVIOUS
<1> USE BoundsAreNats, CallsAssumption DEF TypeInv, TypeOK
<1>1. ASSUME NEW c \in Calls, Finish(c)
      PROVE  /\ pc' \in [Calls -> {"idle", "checked", "queued", "running", "sleeping"}]
             /\ active' \in Nat /\ queue' \in Seq(Writes)
             /\ \A d \in Calls : pc'[d] = "sleeping" => pc[d] = "sleeping"
  <2>1. /\ active' \in Nat /\ queue' \in Seq(Writes)
        /\ \E h : \/ pc' = [pc EXCEPT ![c] = "idle", ![h] = "running"]
                 \/ pc' = [pc EXCEPT ![c] = "idle"]
    <3>1. CASE c \in Writes /\ queue # <<>>
      <4>1. /\ pc' = [pc EXCEPT ![c] = "idle", ![Head(queue)] = "running"]
            /\ active' = Larger(0, active - 1) + 1
            /\ queue' = Tail(queue)
        BY <1>1, <3>1 DEF Finish
      <4>2. active' \in Nat
        BY <4>1 DEF Larger
      <4>3. queue' \in Seq(Writes)
        BY <3>1, <4>1
      <4> QED
        BY <4>1, <4>2, <4>3
    <3>2. CASE ~(c \in Writes /\ queue # <<>>)
      BY <1>1, <3>2 DEF Finish, Larger
    <3> QED
      BY <3>1, <3>2
  <2>2. PICK h : \/ pc' = [pc EXCEPT ![c] = "idle", ![h] = "running"]
                 \/ pc' = [pc EXCEPT ![c] = "idle"]
    BY <2>1
  <2> QED
    BY <2>1, <2>2
<1>2. ASSUME NEW c \in Calls, RecordFailFast(c)
      PROVE  failFastLeft' \in 0..Larger(Cooldown, FailFastCooldown)
  BY <1>2 DEF RecordFailFast, Larger
<1>3. ASSUME NEW c \in Calls, CheckFailFast(c) PROVE TypeInv'
  BY <1>3 DEF CheckFailFast, FailFastNow, Larger, slots
<1>4. ASSUME NEW c \in Calls, RejectOpen(c) PROVE TypeInv'
  BY <1>2, <1>4 DEF RejectOpen, Reject, slots
<1>5. ASSUME NEW c \in Calls, RejectOverflow(c) PROVE TypeInv'
  BY <1>5 DEF RejectOverflow, Reject, slots, health
<1>6. ASSUME NEW c \in Calls, StartNow(c) PROVE TypeInv'
  BY <1>6 DEF StartNow, Begin, health
<1>7. ASSUME NEW c \in Calls, StartQueued(c) PROVE TypeInv'
  BY <1>7 DEF StartQueued, Begin, health
<1>8. ASSUME NEW c \in Calls, Succeed(c) \/ FailForGood(c) PROVE TypeInv'
  BY <1>1, <1>8 DEF Succeed, FailForGood, health
<1>9. ASSUME NEW c \in Calls, FailTransient(c) \/ Retry(c) PROVE TypeInv'
  <2>1. CASE FailTransient(c)
    BY <2>1 DEF FailTransient, slots, health
  <2>2. CASE Retry(c)
    <3>1. attempt[c] + 1 \in 1..MaxAttempts
      BY <2>2 DEF Retry
    <3> QED
      BY <2>2, <3>1 DEF Retry, slots, health
  <2> QED
    BY <1>9, <2>1, <2>2
<1>10. ASSUME NEW c \in Calls, FailExhausted(c) PROVE TypeInv'
  <2>1. failures' \in [Ages -> Nat] /\ openLeft' \in 0..Cooldown
    BY <1>10 DEF FailExhausted, RecordDbFailure, Ages
  <2> QED
    BY <1>1, <1>2, <1>10, <2>1 DEF FailExhausted
<1>11. CASE Tick
  <2>1. Older(failures) \in [Ages -> Nat]
    BY DEF Older, Ages
  <2>2. Sooner(openLeft) \in 0..Cooldown
        /\ Sooner(failFastLeft) \in 0..Larger(Cooldown, FailFastCooldown)
    BY DEF Sooner, Larger
  <2> QED
    BY <1>11, <2>1, <2>2 DEF Tick, slots
<1>12. CASE UNCHANGED vars
  BY <1>12 DEF vars
<1> QED
  BY <1>3, <1>4, <1>5, <1>6, <1>7, <1>8, <1>9, <1>10, <1>11, <1>12
  DEF Next, Start, Attempt

(* Steps that move no write past the semaphore and leave the queue alone.  *)
LEMMA SlotsKept ==
    ASSUME SemInv, slots' = slots, InFlight' = InFlight,
           \A c \in Calls : pc'[c] = "queued" <=> pc[c] = "queued"
    PROVE  SlotsAccounted' /\ NoLostWakeup'
BY DEF SemInv, SlotsAccounted, NoLostWakeup, slots

(* The end of a call: its slot is freed, or goes to the head of the queue. *)
LEMMA FinishKeeps ==
    ASSUME SemInv, NEW c \in Calls, pc[c] = "running", Finish(c)
    PROVE  SlotsAccounted' /\ NoLostWakeup'
<1> USE CallsAssumption DEF SemInv, TypeInv
<1>1. CASE c \in Writes /\ queue # <<>>
  <2> DEFINE h == Head(queue)
  <2>1. /\ h \in Writes /\ pc[h] = "queued" /\ h # c
        /\ Len(queue) \in Nat /\ Len(queue) >= 1 /\ h = queue[1]
    <3>1. h \in Writes /\ Len(queue) \in Nat /\ Len(queue) >= 1 /\ h = queue[1]
      BY <1>1 DEF TypeOK
    <3>2. pc[h] = "queued"
      BY <3>1 DEF NoLostWakeup
    <3> QED
      BY <3>1, <3>2
  <2>2. /\ pc' = [pc EXCEPT ![c] = "idle", ![h] = "running"]
        /\ active' = Larger(0, active - 1) + 1
        /\ queue' = Tail(queue)
    BY <1>1 DEF Finish
  <2>3. c \in InFlight /\ h \notin InFlight
    BY <1>1, <2>1 DEF InFlight
  <2>4. InFlight' = (InFlight \ {c}) \union {h}
    BY <1>1, <2>1, <2>2 DEF InFlight, TypeOK
  <2>5. Cardinality((InFlight \ {c}) \union {h}) = Cardinality(InFlight)
    <3>1. IsFiniteSet(InFlight \ {c})
          /\ Cardinality(InFlight \ {c}) = Cardinality(InFlight) - 1
      BY <2>3, InFlightFinite, FS_RemoveElement
    <3>2. Cardinality((InFlight \ {c}) \union {h}) = Cardinality(InFlight \ {c}) + 1
      BY <2>3, <3>1, FS_AddElement
    <3>3. Cardinality(InFlight) \in Nat
      BY InFlightFinite, FS_CardinalityType
    <3> QED
      BY <3>1, <3>2, <3>3
  <2>6. active' = active
    BY <2>2, <1>1, BoundsAreNats DEF NoLostWakeup, Larger
  <2>7. SlotsAccounted'
    BY <2>4, <2>5, <2>6 DEF SlotsAccounted
  <2>8. /\ Len(Tail(queue)) = Len(queue) - 1
        /\ \A i \in 1..(Len(queue) - 1) : Tail(queue)[i] = queue[i + 1]
        /\ Tail(queue) \in Seq(Writes)
        /\ DOMAIN queue = 1..Len(queue)
        /\ DOMAIN Tail(queue) = 1..(Len(queue) - 1)
    BY <1>1, <2>1 DEF TypeOK
  <2>9. \A d \in Calls : pc'[d] = "queued" <=> pc[d] = "queued" /\ d # h
    BY <2>1, <2>2 DEF TypeOK
  <2>10. \A d \in Calls : (\E i \in DOMAIN queue' : queue'[i] = d)
                            <=> (\E i \in DOMAIN queue : queue[i] = d) /\ d # h
    <3>1. /\ DOMAIN queue' = 1..(Len(queue) - 1) /\ DOMAIN queue = 1..Len(queue)
          /\ \A i \in 1..(Len(queue) - 1) : queue'[i] = queue[i + 1]
      BY <2>2, <2>8
    <3>2. ASSUME NEW d \in Calls, NEW i \in DOMAIN queue', queue'[i] = d
          PROVE  (\E k \in DOMAIN queue : queue[k] = d) /\ d # h
      <4>1. i + 1 \in 1..Len(queue) /\ 1 \in 1..Len(queue) /\ i + 1 # 1
        BY <2>1, <3>1, <3>2
      <4> QED
        BY <2>1, <3>1, <3>2, <4>1 DEF NoLostWakeup
    <3>3. ASSUME NEW d \in Calls, NEW i \in DOMAIN queue, queue[i] = d, d # h
          PROVE  \E k \in DOMAIN queue' : queue'[k] = d
      <4>1. i \in Int /\ 1 <= i /\ i <= Len(queue) /\ i # 1
        BY <2>1, <3>1, <3>3
      <4>2. i - 1 \in 1..(Len(queue) - 1) /\ (i - 1) + 1 = i
        BY <2>1, <4>1
      <4> QED
        BY <3>1, <3>3, <4>2
    <3> QED
      BY <3>2, <3>3
  <2>11. \A i, j \in DOMAIN queue' : queue'[i] = queue'[j] => i = j
    <3> SUFFICES ASSUME NEW i \in DOMAIN queue', NEW j \in DOMAIN queue',
                        queue'[i] = queue'[j]
                 PROVE  i = j
      OBVIOUS
    <3>1. /\ DOMAIN queue' = 1..(Len(queue) - 1)
          /\ queue[i + 1] = queue[j + 1]
      BY <2>2, <2>8
    <3>2. i + 1 \in 1..Len(queue) /\ j + 1 \in 1..Len(queue)
      BY <2>1, <3>1
    <3> QED
      BY <3>1, <3>2, <2>1, <2>8 DEF NoLostWakeup
  <2>12. NoLostWakeup'
    <3>1. active' = Limit
      BY <1>1, <2>6 DEF NoLostWakeup
    <3>2. \A d \in Calls : pc'[d] = "queued" <=> \E i \in DOMAIN queue' : queue'[i] = d
      BY <2>9, <2>10 DEF NoLostWakeup
    <3> QED
      BY <3>1, <3>2, <2>11 DEF NoLostWakeup
  <2> QED
    BY <2>7, <2>12
<1>2. CASE ~(c \in Writes /\ queue # <<>>)
  <2>1. /\ pc' = [pc EXCEPT ![c] = "idle"]
        /\ active' = IF c \in Writes THEN Larger(0, active - 1) ELSE active
        /\ queue' = queue
    BY <1>2 DEF Finish
  <2>2. \A d \in Calls : pc'[d] = "queued" <=> pc[d] = "queued"
    BY <2>1 DEF TypeOK
  <2>3. NoLostWakeup'
    BY <1>2, <2>1, <2>2 DEF NoLostWakeup
  <2>4. SlotsAccounted'
    <3>1. CASE c \in Writes
      <4>1. c \in InFlight /\ InFlight' = InFlight \ {c}
        BY <2>1, <3>1 DEF InFlight, TypeOK
      <4>2. /\ Cardinality(InFlight)' = Cardinality(InFlight) - 1
            /\ Cardinality(InFlight) >= 1
        BY <3>1, <4>1, Leaves
      <4> QED
        BY <2>1, <3>1, <4>2, BoundsAreNats DEF SlotsAccounted, Larger, TypeOK
    <3>2. CASE c \notin Writes
      <4>1. InFlight' = InFlight
        BY <2>1, <3>2 DEF InFlight, TypeOK
      <4> QED
        BY <2>1, <3>2, <4>1 DEF SlotsAccounted
    <3> QED
      BY <3>1, <3>2
  <2> QED
    BY <2>3, <2>4
<1> QED
  BY <1>1, <1>2

(* Every step keeps the story. *)
LEMMA SemStep == SemInv /\ [Next]_vars => SemInv'
<1> SUFFICES ASSUME SemInv, [Next]_vars PROVE SlotsAccounted' /\ NoLostWakeup'
  BY TypeStep DEF SemInv
<1>1. TypeOK /\ SlotsAccounted /\ NoLostWakeup
  BY DEF SemInv, TypeInv
<1>2. ASSUME NEW c \in Calls, NEW p \in {"idle", "checked", "sleeping", "running"},
             slots' = slots, pc' = [pc EXCEPT ![c] = p],
             pc[c] # "queued", InFlight' = InFlight
      PROVE  SlotsAccounted' /\ NoLostWakeup'
  BY <1>1, <1>2, SlotsKept DEF TypeOK
<1>3. ASSUME NEW c \in Calls, CheckFailFast(c) \/ RejectOpen(c) \/ RejectOverflow(c)
      PROVE  SlotsAccounted' /\ NoLostWakeup'
  <2>1. PICK p \in {"idle", "checked"} : pc' = [pc EXCEPT ![c] = p]
    BY <1>3 DEF CheckFailFast, RejectOpen, RejectOverflow, Reject
  <2>2. slots' = slots /\ pc[c] \in {"idle", "checked"}
    BY <1>3 DEF CheckFailFast, RejectOpen, RejectOverflow, MayStart, slots
  <2>3. InFlight' = InFlight
    BY <1>1, <2>1, <2>2, CallsAssumption DEF TypeOK, InFlight
  <2> QED
    BY <1>2, <2>1, <2>2, <2>3
<1>4. ASSUME NEW c \in Calls, StartNow(c) PROVE SlotsAccounted' /\ NoLostWakeup'
  <2>1. /\ pc' = [pc EXCEPT ![c] = "running"]
        /\ active' = IF c \in Writes THEN active + 1 ELSE active
        /\ queue' = queue
        /\ pc[c] \in {"idle", "checked"} /\ (c \in Writes => active < Limit)
    BY <1>4 DEF StartNow, MayStart, Begin
  <2>2. queue # <<>> => c \notin Writes
    BY <1>1, <2>1, BoundsAreNats DEF NoLostWakeup, TypeOK
  <2>3. NoLostWakeup'
    BY <1>1, <2>1, <2>2 DEF NoLostWakeup, TypeOK
  <2>4. SlotsAccounted'
    <3>1. CASE c \in Writes
      <4>1. c \notin InFlight /\ InFlight' = InFlight \union {c}
        BY <1>1, <2>1, <3>1, CallsAssumption DEF InFlight, TypeOK
      <4> QED
        <5>1. Cardinality(InFlight)' = Cardinality(InFlight) + 1
          BY <3>1, <4>1, Enters
        <5> QED
          BY <1>1, <2>1, <3>1, <5>1, BoundsAreNats DEF SlotsAccounted, TypeOK
    <3>2. CASE c \notin Writes
      <4>1. InFlight' = InFlight
        BY <1>1, <2>1, <3>2, CallsAssumption DEF InFlight, TypeOK
      <4> QED
        BY <1>1, <2>1, <3>2, <4>1 DEF SlotsAccounted
    <3> QED
      BY <3>1, <3>2
  <2> QED
    BY <2>3, <2>4
<1>5. ASSUME NEW c \in Calls, StartQueued(c) PROVE SlotsAccounted' /\ NoLostWakeup'
  <2>1. /\ pc' = [pc EXCEPT ![c] = "queued"]
        /\ queue' = Append(queue, c) /\ active' = active
        /\ c \in Writes /\ active >= Limit /\ pc[c] \in {"idle", "checked"}
    BY <1>5 DEF StartQueued, MayStart, Begin
  <2>2. InFlight' = InFlight
    BY <1>1, <2>1, CallsAssumption DEF InFlight, TypeOK
  <2>3. SlotsAccounted'
    BY <1>1, <2>1, <2>2 DEF SlotsAccounted
  <2>4. /\ Len(queue) \in Nat
        /\ DOMAIN queue = 1..Len(queue) /\ DOMAIN queue' = 1..(Len(queue) + 1)
        /\ queue'[Len(queue) + 1] = c
        /\ \A i \in 1..Len(queue) : queue'[i] = queue[i]
    BY <1>1, <2>1 DEF TypeOK
  <2>5. \A i \in 1..Len(queue) : queue[i] # c
    BY <1>1, <2>1, <2>4 DEF NoLostWakeup
  <2>6. \A d \in Calls : pc'[d] = "queued" <=> \E i \in DOMAIN queue' : queue'[i] = d
    <3>1. ASSUME NEW d \in Calls, d # c
          PROVE  pc'[d] = "queued" <=> \E i \in DOMAIN queue' : queue'[i] = d
      <4>1. pc'[d] = pc[d]
        BY <1>1, <2>1, <3>1 DEF TypeOK
      <4>2. (\E i \in DOMAIN queue' : queue'[i] = d) <=> \E i \in DOMAIN queue : queue[i] = d
        BY <2>4, <3>1
      <4> QED
        BY <1>1, <4>1, <4>2 DEF NoLostWakeup
    <3>2. pc'[c] = "queued" /\ \E i \in DOMAIN queue' : queue'[i] = c
      BY <1>1, <2>1, <2>4 DEF TypeOK
    <3> QED
      BY <3>1, <3>2
  <2>7. \A i, j \in DOMAIN queue' : queue'[i] = queue'[j] => i = j
    BY <1>1, <2>4, <2>5 DEF NoLostWakeup
  <2>8. active' = Limit
    BY <1>1, <2>1, BoundsAreNats DEF SlotsAccounted, TypeOK
  <2> QED
    BY <2>3, <2>6, <2>7, <2>8 DEF NoLostWakeup
<1>6. ASSUME NEW c \in Calls, Succeed(c) \/ FailForGood(c) \/ FailExhausted(c)
      PROVE  SlotsAccounted' /\ NoLostWakeup'
  BY <1>6, FinishKeeps DEF Succeed, FailForGood, FailExhausted
<1>7. ASSUME NEW c \in Calls, FailTransient(c) \/ Retry(c)
      PROVE  SlotsAccounted' /\ NoLostWakeup'
  <2>1. /\ slots' = slots /\ pc[c] \in {"running", "sleeping"}
        /\ \E p \in {"sleeping", "running"} : pc' = [pc EXCEPT ![c] = p]
    BY <1>7 DEF FailTransient, Retry
  <2>2. InFlight' = InFlight
    BY <1>1, <2>1, CallsAssumption DEF TypeOK, InFlight
  <2> QED
    BY <1>2, <2>1, <2>2
<1>8. CASE Tick \/ UNCHANGED vars
  <2>1. slots' = slots /\ pc' = pc
    BY <1>8 DEF Tick, vars, slots
  <2> QED
    BY <2>1, SlotsKept DEF InFlight
<1> QED
  BY <1>3, <1>4, <1>5, <1>6, <1>7, <1>8 DEF Next, Start, Attempt

LEMMA SemInductive == Spec => []SemInv
<1>1. Init => SemInv
  <2>1. Init => InFlight = {}
    BY CallsAssumption DEF Init, InFlight
  <2>2. Init => SlotsAccounted
    <3> SUFFICES ASSUME Init PROVE SlotsAccounted
      OBVIOUS
    <3>1. Cardinality(InFlight) = 0
      BY <2>1, FS_EmptySet
    <3>2. active = 0 /\ 0 <= Limit
      BY BoundsAreNats DEF Init
    <3> QED
      BY <3>1, <3>2 DEF SlotsAccounted
  <2>3. Init => NoLostWakeup
    BY DEF Init, NoLostWakeup
  <2>4. Init => TypeInv
    BY BoundsAreNats DEF Init, TypeInv, TypeOK, Larger
  <2> QED
    BY <2>2, <2>3, <2>4 DEF SemInv
<1> QED
  BY <1>1, SemStep, PTL DEF Spec

-------------------------------------------------------------------------------
(* The theorems *)

(* The counter of the write semaphore is the number of writes that hold a  *)
(* slot, never exceeds DB_WRITE_MAX_IN_FLIGHT, and no write is left waiting *)
(* beside a free slot.                                                     *)
THEOREM SemaphoreSound == Spec => []Inv
<1>1. SemInv => Inv
  BY DEF SemInv, TypeInv, Inv
<1> QED
  BY <1>1, SemInductive, PTL
===============================================================================
