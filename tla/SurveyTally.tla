------------------------------ MODULE SurveyTally ------------------------------
(* The tally of a linked survey (getProposalSurveyTally.ts and               *)
(* proposalSurveyTally.service.ts) while votes with responses come in, are   *)
(* frontloaded by a client and ingested from Koios, and the survey ends.  A  *)
(* reader gets the rows in one step and, after the requests for transactions *)
(* and weights, the answer in another; the epoch may turn between them.  (So *)
(* may the rows change, which the answer does not see; the model leaves them *)
(* alone meanwhile.)                                                         *)
EXTENDS Survey

CONSTANTS
    SurveyProposals, \* the proposal, with its link and survey, of a behaviour
    Responses,      \* what may be sent: [voter : [id, type], answer, entries]
    MaxResponses,   \* bound
    LastSurveyEpoch \* bound

(* What is sent has the shape of a response; a voter's name tells its body;  *)
(* the survey is in an earlier transaction than the responses (which go by   *)
(* their place on the chain); and None is none of what it may stand in for.  *)
ASSUME SurveyAssumption ==
    /\ \A r \in Responses :
         /\ r.voter.type \in {"DREP", "SPO", "CC"} /\ r.entries \in {"one", "more"}
         /\ DOMAIN r.answer = {"ok", "specVersion", "surveyTxId", "responderRole", "answers"}
         /\ r.answer.ok /\ \A i \in DOMAIN r.answer.answers :
                             r.answer.answers[i].ok /\ r.answer.answers[i] # None
         /\ \A role \in Roles : [r.answer EXCEPT !.responderRole = role] # None
         /\ \A form \in {"id", "cip105", "hash"} : <<r.voter.id, form>> # None
    /\ \A r, s \in Responses : r.voter.id = s.voter.id => r.voter.type = s.voter.type
    /\ \A s \in SurveyProposals : s.linkedSurveyTxId \notin 1 .. MaxResponses
    /\ MaxResponses \in Nat
    /\ None \notin {"one", "more", "StakeBased"}

VARIABLES
    surveyEpoch,    \* the epoch
    linked,         \* the proposal
    responses,      \* on the chain: [voter, answer, entries, epoch], in order
    onchainVote,    \* the row of each: None, or its columns
    reading,        \* a reader has got the rows
    tally           \* the answer, with what it was made from, or None

surveyVars == <<surveyEpoch, linked, responses, onchainVote, reading, tally>>

SurveyInit ==
    /\ surveyEpoch = 1 /\ linked \in SurveyProposals
    /\ responses = <<>> /\ onchainVote = <<>> /\ reading = FALSE /\ tally = None

Quiet == ~reading /\ tally = None

(* A vote with a response; its transaction has this voter's vote on this     *)
(* action alone, or other votes too.                                         *)
Respond(r) ==
    /\ Len(responses) < MaxResponses /\ Quiet
    /\ responses' = Append(responses, [voter |-> r.voter, answer |-> r.answer,
                                       entries |-> r.entries, epoch |-> surveyEpoch])
    /\ onchainVote' = Append(onchainVote, None)
    /\ UNCHANGED <<surveyEpoch, linked, reading, tally>>

Stored(i, wrapped) == [wrapped |-> wrapped, payload |->
    [responses[i].answer EXCEPT !.responderRole = mapVoterTypeToResponderRole(responses[i].voter.type)]]

(* frontloadVote: the client posts the response, in the form it likes, and   *)
(* no epoch, time or power.                                                  *)
Frontload(i, wrapped) ==
    /\ Quiet
    /\ onchainVote' = [onchainVote EXCEPT ![i] =
         IF @ = None THEN [stored |-> Stored(i, wrapped), epoch |-> None, votedAt |-> None, power |-> None]
         ELSE [@ EXCEPT !.stored = Stored(i, wrapped)]]
    /\ UNCHANGED <<surveyEpoch, linked, responses, reading, tally>>

(* ingestSingleVote: with the metadata of the transaction, or without when   *)
(* the request for it failed; then a response that is there already stays.   *)
StakeAt(e) == 10 + e
IngestVote(i, fetched) ==
    /\ Quiet
    /\ LET r == responses[i]
           old == IF onchainVote[i] = None THEN None ELSE onchainVote[i].stored IN
       onchainVote' = [onchainVote EXCEPT ![i] =
         [stored |-> IF fetched /\ normalizeSurveyResponse(Stored(i, TRUE).payload) # None
                     THEN Stored(i, FALSE) ELSE old,
          epoch |-> r.epoch, votedAt |-> i, power |-> StakeAt(r.epoch)]]
    /\ onchainVote' # onchainVote
    /\ UNCHANGED <<surveyEpoch, linked, responses, reading, tally>>

SurveyEpochTurns ==
    /\ surveyEpoch < LastSurveyEpoch /\ tally = None
    /\ surveyEpoch' = surveyEpoch + 1
    /\ UNCHANGED <<linked, responses, onchainVote, reading, tally>>

----------------------------------------------------------------------------
(* The transactions: an entry of voting_procedures gives the voter as the    *)
(* ledger names it, which is the name in the table for a pool; for a DRep it *)
(* is the older CIP-105 form of the table's CIP-129 id, and for a member of  *)
(* the committee the hash of the hot credential.                             *)
parseVoteEntryVoter(v) ==
    [role |-> mapVoterTypeToResponderRole(v.type),
     credential |-> <<v.id, CASE v.type = "SPO" -> "id" [] v.type = "DREP" -> "cip105" [] OTHER -> "hash">>]

(* None when neither Koios nor Blockfrost shows the transaction's body:      *)
(* evidence with a warning.                                                  *)
buildLinkedVoteEvidence(entries, v) ==
    LET found == parseVoteEntryVoter(v)
        fallback == [role |-> mapVoterTypeToResponderRole(v.type), credential |-> <<v.id, "id">>] IN
    IF entries = None
    THEN [valid |-> TRUE, warning |-> TRUE, role |-> fallback.role, credential |-> fallback.credential]
    ELSE [valid |-> entries = "one" /\ found = fallback, warning |-> FALSE,
          role |-> found.role, credential |-> found.credential]

(* What Koios, or else Blockfrost, shows of the transaction's votes.         *)
EntriesOf(i, inspected) == IF i \in inspected THEN responses[i].entries ELSE None

(* The rows the tally takes, enriched by place and evidence.                 *)
EnrichedVote(i, row, placed, inspected) ==
    LET r == responses[i]
        e == buildLinkedVoteEvidence(EntriesOf(i, inspected), r.voter) IN
    [hash |-> i, type |-> r.voter.type, voter |-> <<r.voter.id, "id">>, epoch |-> row.epoch,
     votedAt |-> row.votedAt, votingPower |-> row.power, stored |-> row.stored,
     slot |-> IF i \in placed THEN i ELSE None, index |-> IF i \in placed THEN 1 ELSE None,
     credential |-> e.credential, evidence |-> e, weight |-> None, error |-> FALSE]
Answers(rows) == {i \in DOMAIN rows : /\ rows[i] # None /\ rows[i].stored # None
                                      /\ rows[i].stored.payload.surveyTxId = linked.linkedSurveyTxId}
enrichSurveyTallyVotes(rows, placed, inspected) ==
    {EnrichedVote(i, rows[i], placed, inspected) : i \in Answers(rows)}

(* loadDrepWeights and loadSpoWeights: from the snapshots or Koios; pledge   *)
(* is known for the present only.                                            *)
Pledge == 5
loadDrepWeights(v, e, loaded, provisional) ==
    IF v.voter[1] \in loaded THEN [weight |-> StakeAt(e), error |-> FALSE]
    ELSE [weight |-> 0, error |-> ~provisional]
loadSpoWeights(v, mode, e, now, loaded, provisional) ==
    IF v.voter[1] \in loaded /\ mode = "PledgeBased"
    THEN [weight |-> Pledge, error |-> ~provisional /\ now # e]
    ELSE loadDrepWeights(v, e, loaded, provisional)
LoadedWeight(v, mode, e, now, loaded, provisional) ==
    IF v.type = "DREP" THEN loadDrepWeights(v, e, loaded, provisional)
    ELSE loadSpoWeights(v, mode, e, now, loaded, provisional)
Weighted(v, roles, e, now, loaded, provisional) ==
    LET mode == IF RoleOf(v) \in DOMAIN roles THEN roles[RoleOf(v)] ELSE None
        w == LoadedWeight(v, mode, e, now, loaded, provisional) IN
    IF mode \in {None, "CredentialBased"} THEN v
    ELSE [v EXCEPT !.weight = w.weight, !.error = w.error]
ApplyWeights(votes, roles, e, now, loaded, provisional) ==
    {Weighted(v, roles, e, now, loaded, provisional) : v \in votes}
applyProvisionalWeights(votes, roles, now, loaded) == ApplyWeights(votes, roles, now, now, loaded, TRUE)
applyEndEpochWeights(votes, roles, e, now, loaded) == ApplyWeights(votes, roles, e, now, loaded, FALSE)

PendingWarnings(votes) == {v \in votes : v.evidence.warning \/ v.error}

----------------------------------------------------------------------------
LinkedSurveys == [s \in SurveyProposals |-> validateLinkedSurvey(s)]
Payload == LinkedSurveys[linked]
Reads ==
    /\ Quiet
    /\ Payload.linked /\ Payload.linkValid /\ Payload.detailsValid
    /\ reading' = TRUE
    /\ UNCHANGED <<surveyEpoch, linked, responses, onchainVote, tally>>

Answered(placed, inspected, loaded) ==
    LET d == Payload.details
        votes == enrichSurveyTallyVotes(onchainVote, placed, inspected)
        early == applyProvisionalWeights(votes, Payload.roleWeighting, surveyEpoch, loaded)
        final == applyEndEpochWeights(votes, Payload.roleWeighting, d.endEpoch, surveyEpoch, loaded)
        build(vs, phase) == buildSurveyTally(Payload.surveyTxId, d, Payload.roleWeighting, vs,
                                             phase, phase = "finalized") IN
    /\ reading
    /\ tally' = [of |-> votes, full |-> placed = DOMAIN responses /\ inspected \in {{}, DOMAIN responses},
                 is |-> CASE surveyEpoch < d.endEpoch -> build(early, "provisional")
                          [] surveyEpoch >= d.endEpoch /\ PendingWarnings(final) # {} ->
                               build(early, "finalization_pending")
                          [] OTHER -> build(final, "finalized")]
    /\ reading' = FALSE
    /\ UNCHANGED <<surveyEpoch, linked, responses, onchainVote>>

Sent == /\ tally # None /\ tally' = None
        /\ UNCHANGED <<surveyEpoch, linked, responses, onchainVote, reading>>

(* The voters whose weight is asked for. *)
Loads == {r.voter.id : r \in {x \in Responses : x.voter.type = "SPO"}}

SurveyNext ==
    \/ \E r \in Responses : Respond(r)
    \/ \E i \in DOMAIN responses, b \in BOOLEAN : Frontload(i, b) \/ IngestVote(i, b)
    \/ SurveyEpochTurns \/ Reads \/ Sent
    \/ \E placed, inspected \in SUBSET DOMAIN responses, loaded \in SUBSET Loads :
          Answered(placed, inspected, loaded)

----------------------------------------------------------------------------
(* A responder counts once, with the last of its responses that are valid.   *)
(* Until the survey ends those are the ones in its own terms, of its epochs, *)
(* by a role that votes on the action; in a finalized tally also those whose *)
(* transaction has this vote alone and names the voter as the table does.    *)
(* (When the place of some transactions is known and that of others is not,  *)
(* or the name differs between them, an older response may count, or both.)  *)
InTerms(v) ==
    LET r == responses[v.hash] IN
    /\ r.answer.specVersion = SpecVersion /\ AnswersValid(r.answer.answers, linked.surveyDetails)
    /\ v.epoch = None \/ v.epoch <= linked.surveyDetails.endEpoch
    /\ mapVoterTypeToResponderRole(v.type) \in DOMAIN Payload.roleWeighting
Stands(v) == InTerms(v) /\ (tally.is.phase = "finalized" => /\ responses[v.hash].entries = "one"
                                                            /\ v.type = "SPO")
LastValidCounts == tally # None /\ tally.full =>
    {v.hash : v \in tally.is.counted} =
    {v.hash : v \in {w \in tally.of : Stands(w) /\ \A x \in tally.of :
                        Stands(x) /\ x.voter = w.voter => x.hash <= w.hash}}

(* A finalized tally is one after the survey's last epoch began, in which    *)
(* every transaction was inspected and every weight is of that last epoch:   *)
(* no failed request is hidden in it.                                        *)
FinalIsEarned == tally # None /\ tally.is.phase = "finalized" =>
    /\ surveyEpoch >= linked.surveyDetails.endEpoch
    /\ \A v \in tally.of : ~v.evidence.warning
    /\ \A v \in tally.is.counted :
          Payload.roleWeighting[mapVoterTypeToResponderRole(v.type)] = "StakeBased" =>
             v.weight = StakeAt(linked.surveyDetails.endEpoch)

(* A responder to a survey counts once, with its last valid response; and no *)
(* failed request is hidden in a finalized tally.                            *)
SurveyRight == LastValidCounts /\ FinalIsEarned

(* The answers to a question with one choice add up to the responders that   *)
(* count, where everyone has weight 1 ("counts responses",                   *)
(* test/validation.test.ts).                                                 *)
AnswersTallied == tally # None =>
    \A r \in DOMAIN tally.is.results :
        Payload.roleWeighting[r] = "CredentialBased" =>
            SumFunction(tally.is.results[r][1]) =
            Cardinality({v \in tally.is.counted : mapVoterTypeToResponderRole(v.type) = r})

SurveySpec == SurveyInit /\ [][SurveyNext]_surveyVars
================================================================================
