-------------------------------- MODULE MCReads --------------------------------
(***************************************************************************)
(* What a read of the API starts, and what it answers.  A behaviour works  *)
(* one of six settings; what the others are about rests.  Of SyncOnRead:   *)
(*   "names"     two processes are read for one proposal by both names;    *)
(*   "twice"     one process handles two reads of one proposal at once;    *)
(*   "overview"  two processes are read for a proposal by its transaction  *)
(*               while the first one's overview is read, too;              *)
(*   "times"     one process handles two reads of two proposals at once    *)
(*               with cooldowns and checks that take their time.           *)
(* In the first two, processes crash.  "tally" and "survey" are the two    *)
(* modules about what is answered.                                         *)
(***************************************************************************)
EXTENDS SyncOnRead, ProposalTally, SurveyTally, TLC

CONSTANTS
    a, b, p1, p2, s1, s2,
    m1, m2, g1, g2, g3, g4, pool, drep

VARIABLE setting

-------------------------------------------------------------------------------
(* The syncs that reads start *)

Short == INSTANCE SyncOnRead WITH
    Multiplier <- 1, MaxLag <- 0, Names <- {"id", "tx"}, Crashes <- TRUE
Shared == INSTANCE SyncOnRead WITH
    Multiplier <- 1, MaxLag <- 0, Names <- {"tx"}, Overviews <- {a}

Crashing == {"names", "twice"}
Syncing == Crashing \cup {"overview", "times"}

(* The requests, and what is read: the rest stays idle, the other proposal   *)
(* is known.  Where nothing crashes, Koios may be degraded for the first      *)
(* process.                                                                  *)
Active == IF setting \in {"names", "overview"} THEN {<<a, s1>>, <<b, s1>>} ELSE {<<a, s1>>, <<a, s2>>}
Wanted == IF setting = "times" THEN Proposals ELSE {p1}

SyncInit ==
    /\ IF setting \in Syncing \ {"times"} THEN Short!Init ELSE Init
    /\ IF setting \in Syncing THEN Proposals \ Wanted \subseteq known ELSE known = {}
SyncNext ==
    /\ \/ setting = "times" /\ Next
       \/ setting \in Crashing /\ Short!Next
       \/ setting = "overview" /\ Shared!Next
    /\ \A r \in Requests : req'[r].pc # "idle" => r \in Active /\ req'[r].read[1] \in Wanted
    /\ pressure' \subseteq (IF setting \in Crashing THEN {} ELSE {a})

-------------------------------------------------------------------------------
(* The tally of a proposal's votes rests without votes.                      *)

TallyRests ==
    /\ TallyInit
    /\ body = "DREP" /\ proposal = [type |-> "INFO_ACTION", epoch |-> 534, eligible |-> 7]

-------------------------------------------------------------------------------
(* A survey with two questions, and what responders answer: a response that  *)
(* fits, alone in its transaction or not, and one that does not fit          *)

Choice == [ok |-> TRUE, id |-> "choice", method |-> "singleChoice", options |-> 2,
           maxSelections |-> None, numeric |-> None, schema |-> TRUE]
Number == [ok |-> TRUE, id |-> "number", method |-> "numericRange", options |-> 0,
           maxSelections |-> None, numeric |-> [min |-> 1, max |-> 3, step |-> 2], schema |-> TRUE]
Chosen(option_) == [ok |-> TRUE, id |-> "choice", selection |-> <<option_>>,
                    numericValue |-> None, customValue |-> None]
Three == [ok |-> TRUE, id |-> "number", selection |-> None, numericValue |-> 3, customValue |-> None]
Sending(answers) == [ok |-> TRUE, specVersion |-> SpecVersion, surveyTxId |-> 0,
                       responderRole |-> "CC", answers |-> answers]
Fitting == Sending(<<Chosen(1), Three>>)
Sendable ==
    LET spo == [id |-> pool, type |-> "SPO"] IN
    {[voter |-> spo, answer |-> Fitting, entries |-> "one"],
     [voter |-> spo, answer |-> Sending(<<Chosen(2)>>), entries |-> "one"],
     [voter |-> [id |-> drep, type |-> "DREP"], answer |-> Fitting, entries |-> "more"]}

Linked(type, weighting, expiration) ==
    [type |-> type, linkedSurveyTxId |-> 0, certIndex |-> 0, expirationEpoch |-> expiration,
     metadata |-> [kind |-> LinkKind, specVersion |-> SpecVersion,
                   surveyTxId |-> 0],
     surveyDetails |-> [ok |-> TRUE, specVersion |-> SpecVersion, endEpoch |-> 2,
                        questions |-> <<Choice, Number>>,
                        roleWeighting |-> [DRep |-> "CredentialBased", SPO |-> weighting]]]

LinkedProposals == {Linked("INFO_ACTION", "StakeBased", 2), Linked("NEW_CONSTITUTION", "PledgeBased", 2)}

SurveyRests == SurveyInit /\ linked.type = "INFO_ACTION"

-------------------------------------------------------------------------------
(* One of them *)

mcvars == <<setting, vars, tallyVars, surveyVars>>

MCInit ==
    /\ setting \in Syncing \cup {"tally", "survey"}
    /\ SyncInit
    /\ IF setting = "tally" THEN TallyInit ELSE TallyRests
    /\ IF setting = "survey" THEN SurveyInit ELSE SurveyRests

MCNext ==
    /\ \/ SyncNext /\ UNCHANGED <<tallyVars, surveyVars>>
       \/ setting = "tally" /\ TallyNext /\ UNCHANGED <<vars, surveyVars>>
       \/ setting = "survey" /\ SurveyNext /\ UNCHANGED <<vars, tallyVars>>
    /\ UNCHANGED setting

MCSpec == MCInit /\ [][MCNext]_mcvars
OnlySurveySpec == MCInit /\ setting = "survey" /\ [][MCNext]_mcvars
===============================================================================
