----------------------------- MODULE JobExclusion -----------------------------
(***************************************************************************)
(* What the lock on a job promises to the code that calls it, without      *)
(* rows, leases or clocks: a run enters a lock that nobody is inside,      *)
(* unless a lease of it was lost; a lost lease is forgotten when the last  *)
(* run has left.  SyncLock implements this.                                *)
(***************************************************************************)
CONSTANTS Runs, Locks

VARIABLES
    inside,   \* the runs that hold each lock
    unsafe    \* somebody inside can no longer count on the lock

vars == <<inside, unsafe>>

Init ==
    /\ inside = [l \in Locks |-> {}]
    /\ unsafe = [l \in Locks |-> FALSE]

(* A run that enters an occupied lock leaves it unsafe. *)
Enter(r, l) ==
    /\ inside' = [inside EXCEPT ![l] = @ \union {r}]
    /\ \E b \in BOOLEAN :
         /\ (inside[l] # {} \/ unsafe[l]) => b
         /\ unsafe' = [unsafe EXCEPT ![l] = b]

(* The runs of gone leave the locks of where (a crash: all of them). *)
Leave(gone, where) ==
    /\ inside' = [l \in Locks |-> IF l \in where THEN inside[l] \ gone ELSE inside[l]]
    /\ unsafe' = [l \in Locks |-> unsafe[l] /\ inside'[l] # {}]

(* Leases of occupied locks are lost. *)
Break(S) ==
    /\ unsafe' = [l \in Locks |-> unsafe[l] \/ (l \in S /\ inside[l] # {})]
    /\ UNCHANGED inside

Next ==
    \/ \E r \in Runs, l \in Locks : Enter(r, l)
    \/ \E gone \in SUBSET Runs, where \in SUBSET Locks : Leave(gone, where)
    \/ \E S \in SUBSET Locks : Break(S)

Spec == Init /\ [][Next]_vars
===============================================================================
