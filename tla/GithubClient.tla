----------------------------- MODULE GithubClient -----------------------------
(* The GraphQL client (services/github-graphql.ts) and the row it shares     *)
(* with the health counters of the repositories (githubSharedCoordination):  *)
(* one JSON document, read and written back in a transaction that holds the  *)
(* row.  A call pulls the shared cooldown, waits for it once, and sends.     *)
(* Cooldowns are the moments until which they last.                          *)
EXTENDS Integers

CONSTANTS
    Processes, Calls,
    Home,        \* Calls -> Processes
    Writers,     \* bound: transactions at the same time
    LastMoment,  \* bound: of the clock
    MaxRow,      \* bound: of the counter in the row
    MaxLost      \* bound: transactions that fail, or whose answer is lost

ASSUME ClientAssumption ==
    /\ Home \in [Calls -> Processes]
    /\ LastMoment \in Nat /\ MaxRow \in Nat /\ MaxLost \in Nat

Moments == 0 .. LastMoment
Rows == [until : Moments, count : 0 .. MaxRow]
NoRow == [until |-> 0, count |-> 0]
NoChange == [kind |-> "none", to |-> 0]
Changes == [kind : {"none", "merge", "count", "clear"}, to : Moments]
Later(s, t) == IF s >= t THEN s ELSE t

VARIABLES
    moment,
    row,         \* the committed document of sync_status
    owner,       \* the transactions that have the row FOR UPDATE
    change,      \* [Writers -> Changes]: what a transaction will do
    copy,        \* [Writers -> Rows]: what it has read
    lost,
    merged, counted,   \* history: what the committed changes amount to
    rate,        \* [Processes -> Moments]: reset of the last low answer, or 0
    shared,      \* [Processes -> Moments]: sharedRateLimitCooldownUntilMs
    pull,        \* [Processes -> {"none", "asked"}]: the pull in flight
    pulled,      \* [Processes -> BOOLEAN]: it ended a moment ago
    published,   \* [Processes -> Moments]: what was published a moment ago, or 0
    call,        \* [Calls -> phase]
    wait         \* [Calls -> Moments]: until when it sleeps

cursorVars == <<row, owner, change, copy, lost, merged, counted>>
clientVars == <<rate, shared, pull, pulled, published, call, wait>>
allVars == <<moment, cursorVars, clientVars>>

CursorTypeOK ==
    /\ row \in Rows
    /\ owner \subseteq Writers
    /\ change \in [Writers -> Changes]
    /\ copy \in [Writers -> Rows]
    /\ lost \in 0 .. MaxLost
    /\ merged \in Moments
    /\ counted \in 0 .. MaxRow

ClientInit ==
    /\ moment = 0
    /\ row = NoRow
    /\ owner = {}
    /\ change = [x \in Writers |-> NoChange]
    /\ copy = [x \in Writers |-> NoRow]
    /\ lost = 0 /\ merged = 0 /\ counted = 0
    /\ rate = [p \in Processes |-> 0]
    /\ shared = [p \in Processes |-> 0]
    /\ pull = [p \in Processes |-> "none"]
    /\ pulled = [p \in Processes |-> FALSE]
    /\ published = [p \in Processes |-> 0]
    /\ call = [c \in Calls |-> "idle"]
    /\ wait = [c \in Calls |-> 0]

----------------------------------------------------------------------------
(* withLockedSharedCursor: the row is read FOR UPDATE, changed and written   *)
(* back.  A cooldown is merged by the maximum; a counter is counted up or    *)
(* deleted.  withDbWrite runs a transaction again whose answer was lost.     *)
Open(x, what) == change[x] = NoChange /\ change' = [change EXCEPT ![x] = what]

CountUnresolved(x) ==
    /\ \E kind \in {"count", "clear"} : Open(x, [kind |-> kind, to |-> 0])
    /\ UNCHANGED <<moment, row, owner, copy, lost, merged, counted, clientVars>>

PublishElsewhere(x) ==      \* another container's cooldown
    /\ \E until \in moment + 1 .. LastMoment : Open(x, [kind |-> "merge", to |-> until])
    /\ UNCHANGED <<moment, row, owner, copy, lost, merged, counted, clientVars>>

(* Mutant: read without FOR UPDATE. *)
AcquireUnlocked(x) ==
    /\ change[x] # NoChange /\ x \notin owner
    /\ owner' = owner \cup {x} /\ copy' = [copy EXCEPT ![x] = row]
    /\ UNCHANGED <<moment, row, change, lost, merged, counted, clientVars>>

Acquire(x) ==
    /\ change[x] # NoChange /\ owner = {}
    /\ owner' = {x} /\ copy' = [copy EXCEPT ![x] = row]
    /\ UNCHANGED <<moment, row, change, lost, merged, counted, clientVars>>

Changed(r, what) ==
    CASE what.kind = "merge" -> [r EXCEPT !.until = Later(r.until, what.to)]
      [] what.kind = "count" -> [r EXCEPT !.count = r.count + 1]
      [] what.kind = "clear" -> [r EXCEPT !.count = 0]

Commit(x) ==
    /\ change[x] # NoChange /\ x \in owner
    /\ change[x].kind = "count" => counted < MaxRow /\ copy[x].count < MaxRow
    /\ row' = Changed(copy[x], change[x]) /\ owner' = owner \ {x}
    /\ merged' = IF change[x].kind = "merge" THEN Later(merged, change[x].to) ELSE merged
    /\ counted' = CASE change[x].kind = "count" -> counted + 1
                    [] change[x].kind = "clear" -> 0
                    [] OTHER -> counted
    /\ \/ change' = [change EXCEPT ![x] = NoChange] /\ UNCHANGED lost
       \/ lost < MaxLost /\ lost' = lost + 1 /\ UNCHANGED change
    /\ copy' = [copy EXCEPT ![x] = NoRow]
    /\ UNCHANGED <<moment, clientVars>>

(* It is rolled back, and tried again or given up.                           *)
Abort(x) ==
    /\ x \in owner /\ lost < MaxLost /\ lost' = lost + 1 /\ owner' = owner \ {x}
    /\ change' \in {change, [change EXCEPT ![x] = NoChange]}
    /\ copy' = [copy EXCEPT ![x] = NoRow]
    /\ UNCHANGED <<moment, row, merged, counted, clientVars>>

----------------------------------------------------------------------------
(* waitForRateLimit: the calls of a process share one pull; after a recent   *)
(* one there is none.                                                        *)
Ask(c) ==
    /\ call[c] = "idle"
    /\ LET p == Home[c] IN
       IF pulled[p] THEN call' = [call EXCEPT ![c] = "decide"] /\ UNCHANGED pull
       ELSE call' = [call EXCEPT ![c] = "pull"] /\ pull' = [pull EXCEPT ![p] = "asked"]
    /\ UNCHANGED <<moment, cursorVars, rate, shared, pulled, published, wait>>

(* Mutant: an error does not reach the calls that await the pull. *)
PullEndsUnheard(p) ==
    /\ pull[p] = "asked"
    /\ pull' = [pull EXCEPT ![p] = "none"] /\ pulled' = [pulled EXCEPT ![p] = TRUE]
    /\ \/ UNCHANGED <<shared, call>>
       \/ /\ shared' = [shared EXCEPT ![p] = Later(shared[p], row.until)]
          /\ call' = [c \in Calls |-> IF Home[c] = p /\ call[c] = "pull" THEN "decide" ELSE call[c]]
    /\ UNCHANGED <<moment, cursorVars, rate, published, wait>>

(* The pull ends, with the row's cooldown or with an error: either way the   *)
(* promise is cleared and every call that awaits it goes on.                 *)
PullEnds(p) ==
    /\ pull[p] = "asked"
    /\ shared' \in {shared, [shared EXCEPT ![p] = Later(shared[p], row.until)]}
    /\ pull' = [pull EXCEPT ![p] = "none"] /\ pulled' = [pulled EXCEPT ![p] = TRUE]
    /\ call' = [c \in Calls |-> IF Home[c] = p /\ call[c] = "pull" THEN "decide" ELSE call[c]]
    /\ UNCHANGED <<moment, cursorVars, rate, published, wait>>

(* The wait is decided once; what is learned while it lasts is not looked at.*)
Decide(c) ==
    /\ call[c] = "decide"
    /\ LET until == Later(rate[Home[c]], shared[Home[c]]) IN
       IF until > moment THEN call' = [call EXCEPT ![c] = "sleep"] /\ wait' = [wait EXCEPT ![c] = until]
       ELSE call' = [call EXCEPT ![c] = "send"] /\ UNCHANGED wait
    /\ UNCHANGED <<moment, cursorVars, rate, shared, pull, pulled, published>>

Wake(c) ==
    /\ call[c] = "sleep" /\ moment >= wait[c]
    /\ call' = [call EXCEPT ![c] = "send"] /\ wait' = [wait EXCEPT ![c] = 0]
    /\ UNCHANGED <<moment, cursorVars, rate, shared, pull, pulled, published>>

(* The answer, the last one to come being remembered whatever it says; a low *)
(* limit is published without waiting, unless it has just been.  Or the call *)
(* fails after its retries, which do not wait for the limit.                 *)
Answer(c) ==
    /\ call[c] = "send" /\ call' = [call EXCEPT ![c] = "idle"]
    /\ LET p == Home[c] IN
       \/ UNCHANGED <<rate, published, change>>
       \/ rate' = [rate EXCEPT ![p] = 0] /\ UNCHANGED <<published, change>>
       \/ \E reset \in moment + 1 .. LastMoment :
            /\ rate' = [rate EXCEPT ![p] = reset]
            /\ IF published[p] >= reset THEN UNCHANGED <<published, change>>
               ELSE /\ published' = [published EXCEPT ![p] = reset]
                    /\ \E x \in Writers : Open(x, [kind |-> "merge", to |-> reset])
    /\ UNCHANGED <<moment, row, owner, copy, lost, merged, counted, shared, pull, pulled, wait>>

(* The intervals of the pull and of the publication end.                     *)
IntervalEnds(p) ==
    /\ pulled[p] \/ published[p] # 0
    /\ pulled' = [pulled EXCEPT ![p] = FALSE] /\ published' = [published EXCEPT ![p] = 0]
    /\ UNCHANGED <<moment, cursorVars, rate, shared, pull, call, wait>>

MomentPasses ==
    /\ moment < LastMoment /\ moment' = moment + 1
    /\ UNCHANGED <<cursorVars, clientVars>>

CallStep(c) == Decide(c) \/ Wake(c) \/ Answer(c)
CursorStep(x) == Acquire(x) \/ Commit(x)
CursorNext(x) == CountUnresolved(x) \/ PublishElsewhere(x) \/ CursorStep(x) \/ Abort(x)
ClientNext ==
    \/ \E x \in Writers : CursorNext(x)
    \/ \E c \in Calls : Ask(c) \/ CallStep(c)
    \/ \E p \in Processes : PullEnds(p) \/ IntervalEnds(p)
    \/ MomentPasses

StepsGoOn ==
    /\ \A p \in Processes : WF_allVars(PullEnds(p))
    /\ \A c \in Calls : WF_allVars(CallStep(c))
    /\ \A x \in Writers : WF_allVars(CursorStep(x))
ClientFairness == WF_allVars(MomentPasses) /\ StepsGoOn
ClientSpec == ClientInit /\ [][ClientNext]_allVars /\ ClientFairness

(* No change of the shared document is lost: it has the latest cooldown any  *)
(* committed transaction has merged, and counts every count since the last   *)
(* time the counter was cleared.                                             *)
CursorLosesNothing == row.until = merged /\ row.count = counted

(* A call that has to wait, for a pull or for a cooldown, is sent at last.   *)
EveryCallGoesOut == \A c \in Calls : call[c] # "idle" ~> call[c] = "idle"
===============================================================================
