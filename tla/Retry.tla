-------------------------------- MODULE Retry --------------------------------
(***************************************************************************)
(* withRetry of services/ingestion/utils.ts: one operation, the attempts   *)
(* it gets, the waits between them, and a signal that may abort it at any  *)
(* moment.  One counter of attempts serves all classes of error, and each  *)
(* class has a budget of its own.                                          *)
(***************************************************************************)
EXTENDS Naturals

CONSTANTS
    Classes,     \* of the errors that are retried
    MaxRetries,  \* options.maxRetries
    Budget       \* getMaxRetriesForError, of each class

ASSUME RetryAssumption == MaxRetries \in Nat /\ Budget \in [Classes -> Nat]

VARIABLES
    pc,       \* where withRetry is
    attempt,  \* its attempt, from 0
    aborted,  \* the signal
    class,    \* the class of the last error, if it is retried
    started,  \* how many times the operation was started
    retried   \* how many retries each class of error was granted

retryVars == <<pc, attempt, aborted, class, started, retried>>

None == "none"
Settled == {"returned", "thrown", "aborted", "fellThrough"}

RetryTypeOK ==
    /\ pc \in {"loop", "running", "waiting"} \cup Settled
    /\ attempt \in 0..(MaxRetries + 1)
    /\ aborted \in BOOLEAN
    /\ class \in Classes \cup {None}
    /\ started \in 0..(MaxRetries + 1)
    /\ retried \in [Classes -> Nat]

RetryInit ==
    /\ pc = "loop"
    /\ attempt = 0
    /\ aborted \in BOOLEAN
    /\ class = None
    /\ started = 0
    /\ retried = [c \in Classes |-> 0]

Begin ==
    /\ pc = "loop" /\ attempt <= MaxRetries /\ ~aborted
    /\ pc' = "running"
    /\ started' = started + 1
    /\ UNCHANGED <<attempt, aborted, class, retried>>

(* throwIfAborted, whose error the catch block turns into an AbortError. *)
BeginAborted ==
    /\ pc = "loop" /\ attempt <= MaxRetries /\ aborted
    /\ pc' = "aborted"
    /\ UNCHANGED <<attempt, aborted, class, started, retried>>

(* The loop ends without a result: the last error is thrown after a wait.  *)
FallThrough ==
    /\ pc = "loop" /\ attempt > MaxRetries
    /\ pc' = "fellThrough"
    /\ UNCHANGED <<attempt, aborted, class, started, retried>>

(* An operation that ends well ends well, aborted or not. *)
Succeed ==
    /\ pc = "running"
    /\ pc' = "returned"
    /\ UNCHANGED <<attempt, aborted, class, started, retried>>

(* A client error, or a repository that GitHub does not know. *)
FailForGood ==
    /\ pc = "running"
    /\ pc' = IF aborted THEN "aborted" ELSE "thrown"
    /\ class' = None
    /\ UNCHANGED <<attempt, aborted, started, retried>>

Fail(c) ==
    /\ pc = "running"
    /\ class' = c
    /\ IF aborted THEN pc' = "aborted" /\ UNCHANGED retried
       ELSE IF attempt >= Budget[c] THEN pc' = "thrown" /\ UNCHANGED retried
       ELSE pc' = "waiting" /\ retried' = [retried EXCEPT ![c] = @ + 1]
    /\ UNCHANGED <<attempt, aborted, started>>

WaitOver ==
    /\ pc = "waiting"
    /\ pc' = "loop"
    /\ attempt' = attempt + 1
    /\ UNCHANGED <<aborted, class, started, retried>>

(* The caller aborts; a wait ends at once. *)
Abort ==
    /\ ~aborted
    /\ aborted' = TRUE
    /\ pc' = IF pc = "waiting" THEN "aborted" ELSE pc
    /\ UNCHANGED <<attempt, class, started, retried>>

Proceed ==
    \/ Begin \/ BeginAborted \/ FallThrough
    \/ Succeed \/ FailForGood \/ WaitOver
    \/ \E c \in Classes : Fail(c)

RetryNext == Proceed \/ Abort

RetrySpec == RetryInit /\ [][RetryNext]_retryVars

-------------------------------------------------------------------------------
(* Properties *)

(* Once the signal is aborted no attempt starts, wherever it struck: before *)
(* the first, during one, or in a wait.                                     *)
NoAttemptAfterAbort == [][aborted => started' = started]_retryVars

(* No class of error gets more retries than its budget, and all together   *)
(* not more attempts than maxRetries allows, in whatever order they come.  *)
RetriesWithinBudget ==
    /\ \A c \in Classes : retried[c] <= Budget[c]
    /\ started <= MaxRetries + 1
===============================================================================
