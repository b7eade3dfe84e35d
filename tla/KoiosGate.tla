------------------------------ MODULE KoiosGate ------------------------------
(***************************************************************************)
(* What a Koios request of one process waits for before it is sent         *)
(* (withKoiosConcurrencyLimit of services/koios.ts, BurstLimiter of        *)
(* services/koios/limiters.ts), and how its answer makes later ones wait   *)
(* (the response interceptor).  A request that fails is sent again through *)
(* the same gate by withRetry.                                             *)
(*                                                                         *)
(* Cooldowns are waited out one after the other, twice: before the burst   *)
(* limiter, each against a clock read for it, and after it, all against    *)
(* the clock read once.  The limiters that follow are ConcurrencyLimiter;  *)
(* here a request that is through is queued for as long as they like.      *)
(***************************************************************************)
EXTENDS Integers, Sequences, Functions, FiniteSets

CONSTANTS
    Callers,
    GateKinds,     \* of cooldown, in the order in which they are waited out
    BurstMax,      \* KOIOS_BURST_MAX_REQUESTS
    BurstWindow,   \* KOIOS_BURST_WINDOW_MS, in ticks
    Cooldown,      \* how long each kind of cooldown lasts, in ticks
    Threshold,     \* how many errors of its kind start it
    EventWindow,   \* the window they are counted in, in ticks
    MaxSends,      \* bound: requests a caller sends, retries included
    Horizon        \* bound: the last tick

KindSet == Range(GateKinds)

ASSUME GateAssumption ==
    /\ {BurstMax, BurstWindow, EventWindow, MaxSends} \subseteq Nat \ {0}
    /\ Horizon \in Nat
    /\ GateKinds \in Seq(STRING) \ {<<>>}
    /\ Cooldown \in [KindSet -> Nat \ {0}]
    /\ Threshold \in [KindSet -> Nat \ {0}]

VARIABLES
    now,
    inGate,    \* where a caller is in the gate
    beforeOrAfter, \* whether that is before the burst limiter or after it
    looking,   \* the index of the cooldown it looks at, or waits out
    wake,      \* when its sleep ends
    checked,   \* its afterBurst, 0 before it is read
    chain,     \* the callers on the chain of the burst limiter, in order
    grants,    \* the timestamps of the burst limiter, those trimmed included
    lasts,     \* until when each cooldown lasts
    events,    \* the times of the errors that count towards it
    sends,     \* how many requests each caller has sent
    missed     \* ghost: cooldowns that grew after a caller last looked at them

gate == <<inGate, beforeOrAfter, looking, wake, checked>>
health == <<lasts, events, missed>>
gateVars == <<now, gate, chain, grants, health, sends>>

Ticks == 0..Horizon

GateTypeOK ==
    /\ now \in Ticks
    /\ inGate \in [Callers -> {"idle", "check", "sleep", "burst", "queued", "sent"}]
    /\ beforeOrAfter \in [Callers -> {"before", "after"}]
    /\ looking \in [Callers -> DOMAIN GateKinds]
    /\ wake \in [Callers -> Nat]
    /\ checked \in [Callers -> Ticks]
    /\ chain \in Seq(Callers)
    /\ grants \in Seq(Ticks)
    /\ lasts \in [KindSet -> Nat]
    /\ events \in [KindSet -> Seq(Ticks)]
    /\ sends \in [Callers -> 0..MaxSends]
    /\ missed \in [Callers -> SUBSET KindSet]

GateInit ==
    /\ now = 0
    /\ inGate = [c \in Callers |-> "idle"]
    /\ beforeOrAfter = [c \in Callers |-> "before"]
    /\ looking = [c \in Callers |-> 1]
    /\ wake = [c \in Callers |-> 0]
    /\ checked = [c \in Callers |-> 0]
    /\ chain = <<>>
    /\ grants = <<>>
    /\ lasts = [k \in KindSet |-> 0]
    /\ events = [k \in KindSet |-> <<>>]
    /\ sends = [c \in Callers |-> 0]
    /\ missed = [c \in Callers |-> {}]

-------------------------------------------------------------------------------
(* The way through the gate *)

Start(c) ==
    /\ inGate[c] = "idle" /\ sends[c] < MaxSends
    /\ inGate' = [inGate EXCEPT ![c] = "check"]
    /\ sends' = [sends EXCEPT ![c] = @ + 1]
    /\ UNCHANGED <<now, beforeOrAfter, looking, wake, checked, chain, grants, health>>

(* The clock a check compares with. *)
Clock(c) == IF beforeOrAfter[c] = "before" \/ looking[c] = 1 THEN now ELSE checked[c]

(* sleep(waitMs), with waitMs against the clock of the check. *)
WakeTime(c) == now + lasts[GateKinds[looking[c]]] - Clock(c)

(* On to the next cooldown, or to what follows the last one. *)
Advance(c) ==
    IF looking[c] < Len(GateKinds)
    THEN /\ inGate' = [inGate EXCEPT ![c] = "check"]
         /\ looking' = [looking EXCEPT ![c] = @ + 1]
         /\ UNCHANGED <<beforeOrAfter, chain>>
    ELSE IF beforeOrAfter[c] = "before"
    THEN /\ inGate' = [inGate EXCEPT ![c] = "burst"]
         /\ chain' = Append(chain, c)
         /\ UNCHANGED <<beforeOrAfter, looking>>
    ELSE /\ inGate' = [inGate EXCEPT ![c] = "queued"]
         /\ UNCHANGED <<beforeOrAfter, looking, chain>>

(* Mutant: the second pass does not sleep. *)
CheckOnlyBefore(c) ==
    /\ inGate[c] = "check"
    /\ missed' = [missed EXCEPT ![c] = @ \ {GateKinds[looking[c]]}]
    /\ checked' = [checked EXCEPT ![c] = IF beforeOrAfter[c] = "after" THEN Clock(c) ELSE 0]
    /\ IF beforeOrAfter[c] = "before" /\ lasts[GateKinds[looking[c]]] > Clock(c)
       THEN /\ inGate' = [inGate EXCEPT ![c] = "sleep"]
            /\ wake' = [wake EXCEPT ![c] = WakeTime(c)]
            /\ UNCHANGED <<beforeOrAfter, looking, chain>>
       ELSE Advance(c) /\ UNCHANGED wake
    /\ UNCHANGED <<now, grants, lasts, events, sends>>

Check(c) ==
    /\ inGate[c] = "check"
    /\ missed' = [missed EXCEPT ![c] = @ \ {GateKinds[looking[c]]}]
    /\ checked' = [checked EXCEPT ![c] = IF beforeOrAfter[c] = "after" THEN Clock(c) ELSE 0]
    /\ IF lasts[GateKinds[looking[c]]] > Clock(c)
       THEN /\ inGate' = [inGate EXCEPT ![c] = "sleep"]
            /\ wake' = [wake EXCEPT ![c] = WakeTime(c)]
            /\ UNCHANGED <<beforeOrAfter, looking, chain>>
       ELSE Advance(c) /\ UNCHANGED wake
    /\ UNCHANGED <<now, grants, lasts, events, sends>>

Wake(c) ==
    /\ inGate[c] = "sleep" /\ now >= wake[c]
    /\ Advance(c)
    /\ wake' = [wake EXCEPT ![c] = 0]
    /\ UNCHANGED <<now, checked, grants, health, sends>>

(* trim: the grants of the last window. *)
Recent == {i \in DOMAIN grants : now - grants[i] < BurstWindow}

(* The head of the chain gets a slot; the others wait behind it. *)
Grant(c) ==
    /\ chain # <<>> /\ c = Head(chain)
    /\ Cardinality(Recent) < BurstMax
    /\ grants' = Append(grants, now)
    /\ chain' = Tail(chain)
    /\ inGate' = [inGate EXCEPT ![c] = "check"]
    /\ beforeOrAfter' = [beforeOrAfter EXCEPT ![c] = "after"]
    /\ looking' = [looking EXCEPT ![c] = 1]
    /\ UNCHANGED <<now, wake, checked, health, sends>>

(* The limiters let the request through. *)
Send(c) ==
    /\ inGate[c] = "queued"
    /\ inGate' = [inGate EXCEPT ![c] = "sent"]
    /\ beforeOrAfter' = [beforeOrAfter EXCEPT ![c] = "before"]
    /\ looking' = [looking EXCEPT ![c] = 1]
    /\ checked' = [checked EXCEPT ![c] = 0]
    /\ missed' = [missed EXCEPT ![c] = {}]
    /\ UNCHANGED <<now, wake, chain, grants, lasts, events, sends>>

-------------------------------------------------------------------------------
(* Answers *)

InGate == {"check", "sleep", "burst"}
Grown(before, after) == {k \in KindSet : after[k] > before[k]}

Prolong(k, moment) == IF lasts[k] >= moment THEN lasts[k] ELSE moment

(* The kinds of error one answer may be: 429; 503 or a connection that is  *)
(* reset; a timeout; and ETIMEDOUT, which is both.                         *)
Errors == {{}, {"backoff"}, {"pressure"}, {"timeout"}, {"pressure", "timeout"}}

(* A 429 lasts as long as its Retry-After says, or the default. *)
Durations(k) == IF k = "backoff" THEN {1, Cooldown[k]} ELSE {Cooldown[k]}

(* trimKoiosPressureEvents, trimKoiosTimeoutEvents. *)
Trim(k, clock) == SelectSeq(events[k], LAMBDA t : clock - t <= EventWindow)
Within(k) == Append(Trim(k, now), now)

Answer(c, kinds, duration) ==
    /\ inGate[c] = "sent"
    /\ inGate' = [inGate EXCEPT ![c] = "idle"]
    /\ events' = [k \in KindSet |-> IF k \in kinds THEN Within(k) ELSE events[k]]
    /\ lasts' = [k \in KindSet |->
                   IF k \in kinds /\ Len(Within(k)) >= Threshold[k]
                   THEN Prolong(k, now + (IF duration \in Durations(k) THEN duration
                                                                        ELSE Cooldown[k]))
                   ELSE lasts[k]]
    /\ missed' = [d \in Callers |-> IF inGate[d] \in InGate THEN missed[d] \cup Grown(lasts, lasts')
                                                       ELSE {}]
    /\ UNCHANGED <<now, beforeOrAfter, looking, wake, checked, chain, grants, sends>>

(* A pull brings a cooldown that another container was told of. *)
Pull(k) ==
    /\ lasts' = [lasts EXCEPT ![k] = Prolong(k, now + Cooldown[k])]
    /\ missed' = [d \in Callers |-> IF inGate[d] \in InGate THEN missed[d] \cup Grown(lasts, lasts')
                                                       ELSE {}]
    /\ UNCHANGED <<now, gate, chain, grants, events, sends>>

Tick ==
    /\ now < Horizon
    /\ now' = now + 1
    /\ events' = [k \in KindSet |-> Trim(k, now + 1)]
    /\ UNCHANGED <<gate, chain, grants, lasts, missed, sends>>

GateNext ==
    \/ Tick
    \/ \E k \in KindSet : Pull(k)
    \/ \E c \in Callers :
          \/ Start(c) \/ Check(c) \/ Wake(c) \/ Grant(c) \/ Send(c)
          \/ \E kinds \in Errors : kinds \subseteq KindSet
                /\ \E duration \in UNION {Durations(k) : k \in KindSet} :
                      Answer(c, kinds, duration)

GateSpec == GateInit /\ [][GateNext]_gateVars

-------------------------------------------------------------------------------
(* Properties *)

(* The burst limiter never grants more than BurstMax requests in any       *)
(* window, whoever sleeps in its chain.                                    *)
GrantsSpaced ==
    \A i \in DOMAIN grants :
        i + BurstMax \in DOMAIN grants => grants[i + BurstMax] - grants[i] >= BurstWindow

(* A request gets through the gate during a cooldown only if the cooldown  *)
(* grew after the request last looked at it: the stale clock of the second *)
(* pass makes it wait too long, never too short.                           *)
CooldownHonoured ==
    [][\A c \in Callers :
          inGate'[c] = "queued" /\ inGate[c] # "queued"
              => \A k \in KindSet : lasts[k] <= now \/ k \in missed[c]]_gateVars
===============================================================================
