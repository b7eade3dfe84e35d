----------------------------- MODULE MCWriterLock -----------------------------
(* What is written of delegations, DReps and voters.  A behaviour works one   *)
(* of three settings; what the others are about rests:                       *)
(*   "writer"    the writer lock of the delegations: two processes, each     *)
(*               with two connections and one or two runs;                   *)
(*   "registry"  the jobs of two DReps, one at a time (they take the heavy   *)
(*               lane of SyncLock), with two certificates;                   *)
(*   "voters"    the voting power of a DRep and a pool.                      *)
EXTENDS WriterLock, DrepRegistry, VoterPower, TLC

CONSTANTS a, b, c1, c2, s1, s2, d1, d2, drep, pool

VARIABLE setting

-------------------------------------------------------------------------------
(* A DRep that has power, none and power again, and a pool that gains.       *)
Powers == drep :> [e \in 0 .. 2 |-> 1 - (e % 2)] @@ pool :> [e \in 0 .. 2 |-> e + 1]

-------------------------------------------------------------------------------
(* One of them *)

mcvars == <<setting, vars, registryVars, voterVars>>

MCInit ==
    /\ setting \in {"writer", "registry", "voters"}
    /\ Init /\ RegistryInit /\ VoterInit

MCNext ==
    /\ \/ setting = "writer" /\ Next /\ UNCHANGED <<registryVars, voterVars>>
       \/ /\ setting = "registry" /\ RegistryNext /\ Cardinality(certs') <= 2
          /\ Cardinality({k \in DOMAIN worker : worker'[k].pc # "idle"}) <= 1
          /\ UNCHANGED <<vars, voterVars>>
       \/ setting = "voters" /\ VoterNext /\ UNCHANGED <<vars, registryVars>>
    /\ UNCHANGED setting

MCSpec == MCInit /\ [][MCNext]_mcvars

(* The writer lock alone. *)
WriterSpec == MCInit /\ setting = "writer" /\ [][MCNext]_mcvars

(* The runs are alike, and so are the connections, the processes, and the    *)
(* DReps that register.                                                      *)
Symmetry == Permutations({a, b}) \cup Permutations({s1, s2})
            \cup Permutations({c1, c2}) \cup Permutations({d1, d2})

===============================================================================
