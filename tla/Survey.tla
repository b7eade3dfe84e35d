--------------------------------- MODULE Survey ---------------------------------
(* Surveys that are linked to a governance action, and the responses that    *)
(* voters attach to their votes (libs/surveyMetadata.ts): what is accepted,  *)
(* and the tally.  A missing value is None; metadata of a wrong shape is     *)
(* [ok |-> FALSE]; the lists of errors are left out, only whether there are  *)
(* any.                                                                      *)
EXTENDS VoteTally, Functions

Roles == {"DRep", "SPO", "CC", "Stakeholder"}
ROLE_WEIGHTING_COMPATIBILITY == [
    CC          |-> {"CredentialBased"},
    DRep        |-> {"CredentialBased", "StakeBased"},
    SPO         |-> {"CredentialBased", "StakeBased", "PledgeBased"},
    Stakeholder |-> {"StakeBased"}]
SpecVersion == "1.0.0"
LinkKind == "cardano-governance-survey-link"

mapVoterTypeToResponderRole(type) ==
    CASE type = "DREP" -> "DRep" [] type = "SPO" -> "SPO" [] OTHER -> "CC"

(* The bodies that vote on the action.                                       *)
getActionEligibility(type) ==
    LET t == getVotingThreshold(type) IN
    {r \in {"DRep", "SPO", "CC"} :
        t[CASE r = "CC" -> 1 [] r = "DRep" -> 2 [] OTHER -> 3] # None}

filterLinkedRoleWeighting(w, eligible) == IF w = None THEN None ELSE Restrict(w, DOMAIN w \cap eligible)

----------------------------------------------------------------------------
(* Reading metadata.  Label 17 is looked for in the transaction's metadata;  *)
(* a response or a survey in it is taken only when its shape is right.       *)
extractLabel17(metadata) ==
    IF metadata = None THEN None ELSE IF metadata.wrapped THEN metadata.payload ELSE None

normalizeSurveyQuestion(q) == IF q.ok THEN q ELSE None
normalizeSurveyDetails(d) ==
    IF d = None THEN None
    ELSE IF d.ok /\ (\A i \in DOMAIN d.questions : normalizeSurveyQuestion(d.questions[i]) # None)
            /\ d.endEpoch \in Int /\ DOMAIN d.roleWeighting \subseteq Roles
         THEN d ELSE None

normalizeSurveyAnswer(a) == IF a.ok THEN a ELSE None
normalizeSurveyResponse(r) ==
    IF r = None THEN None
    ELSE IF r.ok /\ r.responderRole \in Roles
            /\ \A i \in DOMAIN r.answers : normalizeSurveyAnswer(r.answers[i]) # None
         THEN r ELSE None
extractSurveyResponse(metadata) == normalizeSurveyResponse(extractLabel17(metadata))

parseGovernanceSurveyLink(link) ==
    IF link = None THEN [specVersion |-> None, kind |-> None, surveyTxId |-> None] ELSE link

----------------------------------------------------------------------------
(* Validation of a survey.                                                   *)
Chooses(q) == q.method \in {"singleChoice", "multiSelect"}
validateQuestion(q) ==
    CASE q.method = "custom" -> q.schema
      [] q.method = "singleChoice" -> q.options >= 2 /\ q.maxSelections \in {None, 1}
      [] q.method = "multiSelect" -> q.options >= 2 /\ q.maxSelections \in 1 .. q.options
      [] q.method = "numericRange" ->
           /\ q.numeric # None /\ q.options = 0 /\ q.maxSelections = None
           /\ q.numeric.min <= q.numeric.max /\ (q.numeric.step = None \/ q.numeric.step \in Nat \ {0})

validateSurveyDetails(raw, eligible, expiration) ==
    LET d == normalizeSurveyDetails(raw) IN
    /\ d # None
    /\ d.specVersion = SpecVersion /\ d.questions # <<>>
    /\ \A i, j \in DOMAIN d.questions : d.questions[i].id = d.questions[j].id => i = j
    /\ \A i \in DOMAIN d.questions : validateQuestion(d.questions[i])
    /\ DOMAIN d.roleWeighting # {}
    /\ \A r \in DOMAIN d.roleWeighting : d.roleWeighting[r] \in ROLE_WEIGHTING_COMPATIBILITY[r]
    /\ expiration # None => d.endEpoch = expiration
    /\ eligible # {} => DOMAIN filterLinkedRoleWeighting(d.roleWeighting, eligible) # {}

(* validateLinkedSurvey, which getProposalSurvey answers with and the tally  *)
(* is guarded by.                                                            *)
validateLinkedSurvey(p) ==
    LET link == parseGovernanceSurveyLink(p.metadata)
        d == normalizeSurveyDetails(p.surveyDetails)
        eligible == getActionEligibility(p.type)
        roles == IF d = None THEN None ELSE filterLinkedRoleWeighting(d.roleWeighting, eligible) IN
    [linked |-> p.linkedSurveyTxId # None, surveyTxId |-> p.linkedSurveyTxId, details |-> d,
     roleWeighting |-> roles,
     linkValid |-> /\ link.kind = LinkKind /\ link.specVersion = SpecVersion
                   /\ p.linkedSurveyTxId # None /\ d # None /\ p.certIndex \in Nat
                   /\ DOMAIN roles # {},
     detailsValid |-> validateSurveyDetails(d, eligible, p.expirationEpoch)]

----------------------------------------------------------------------------
(* Validation of a response: its answers ...                                 *)
isSelectionValid(s, q) == \A i \in DOMAIN s : s[i] \in 0 .. q.options - 1
validateAnswer(q, a) ==
    CASE q.method = "singleChoice" -> a.selection # None /\ Len(a.selection) = 1 /\ isSelectionValid(a.selection, q)
      [] q.method = "multiSelect" ->
           a.selection # None /\ Len(a.selection) <= q.maxSelections /\ isSelectionValid(a.selection, q)
      [] q.method = "numericRange" ->
           /\ a.numericValue # None /\ a.numericValue \in q.numeric.min .. q.numeric.max
           /\ q.numeric.step # None => (a.numericValue - q.numeric.min) % q.numeric.step = 0
      [] OTHER -> TRUE

OneValue(a) == Cardinality({k \in {"selection", "numericValue", "customValue"} : a[k] # None}) = 1
QuestionOf(d, id) == {d.questions[i] : i \in {k \in DOMAIN d.questions : d.questions[k].id = id}}
AnswersValid(answers, d) ==
    /\ answers # <<>>
    /\ \A i, j \in DOMAIN answers : answers[i].id = answers[j].id => i = j
    /\ \A i \in DOMAIN answers :
          \E q \in QuestionOf(d, answers[i].id) : OneValue(answers[i]) /\ validateAnswer(q, answers[i])

(* ... and what it says of itself, the epoch of its vote, and, once the      *)
(* tally is final, the evidence of its transaction (a set of one, or empty). *)
validateSurveyResponse(r, d, role, survey, epoch, roles, hash, evidence) ==
    /\ r # None /\ r.specVersion = SpecVersion /\ r.surveyTxId = survey
    /\ r.surveyTxId # hash /\ r.responderRole = role
    /\ \A e \in evidence : e.valid /\ r.responderRole = e.role /\ e.credential # None
    /\ role \in DOMAIN roles /\ AnswersValid(r.answers, d)
    /\ epoch # None => epoch <= d.endEpoch

----------------------------------------------------------------------------
(* The tally.  A vote: [hash, type, voter, epoch, votedAt, votingPower,      *)
(* stored, slot, index, credential, evidence, weight].  What is stored is    *)
(* taken with or without label 17 when it is validated, and with it only     *)
(* when its answers are counted (safeParseSurveyResponse).                   *)
ParsedForValidation(stored) ==
    IF stored = None THEN None
    ELSE IF extractSurveyResponse(stored) # None THEN extractSurveyResponse(stored)
    ELSE IF stored.wrapped THEN None ELSE stored.payload
safeParseSurveyResponse(stored) == IF stored = None THEN None ELSE extractSurveyResponse(stored)

(* compareVotes: slot, index in the block, time, and hash decide, in turn.   *)
Place(v) == <<IF v.slot = None THEN -1 ELSE v.slot, IF v.index = None THEN -1 ELSE v.index,
              toNumber(v.votedAt), v.hash>>
After(v, w) == \E i \in 1 .. 4 : /\ Place(v)[i] > Place(w)[i]
                                 /\ \A j \in 1 .. i - 1 : Place(v)[j] = Place(w)[j]

VoterKey(v) == IF v.credential # None THEN v.credential ELSE <<v.type, v.voter>>
(* Mutant: of two responses the first one stays. *)
dedupeVotesFirst(votes) ==
    {v \in votes : \A w \in votes : VoterKey(w) = VoterKey(v) => ~After(v, w)}
dedupeVotes(votes) ==
    {v \in votes : \A w \in votes : VoterKey(w) = VoterKey(v) => ~After(w, v)}

getVoteWeight(mode, v) ==
    CASE mode = "CredentialBased" -> 1
      [] mode = "PledgeBased" -> toNumber(v.weight)
      [] OTHER -> IF v.weight # None THEN v.weight ELSE toNumber(v.votingPower)

(* One question: the weight for each option, or the weighted sum and the     *)
(* weight of the numbers (whose quotient is the mean), or the weight of each *)
(* custom value.                                                             *)
AnswerOf(v, q) ==
    LET r == safeParseSurveyResponse(v.stored)
        mine == IF r = None THEN <<>> ELSE SelectSeq(r.answers, LAMBDA a : a.id = q.id) IN
    IF mine = <<>> THEN None ELSE Head(mine)
WeightOf(votes, mode) == FoldSet(LAMBDA v, n : n + getVoteWeight(mode, v), 0, votes)
Answering(votes, q, key) == {v \in votes : AnswerOf(v, q) # None /\ AnswerOf(v, q)[key] # None}
buildMethodResults(mode, q, votes) ==
    CASE Chooses(q) ->
           LET given == Answering(votes, q, "selection")
               times(v, o) == Cardinality({i \in DOMAIN AnswerOf(v, q).selection :
                                             AnswerOf(v, q).selection[i] = o}) IN
           [o \in 0 .. q.options - 1 |->
              FoldSet(LAMBDA v, n : n + times(v, o) * getVoteWeight(mode, v), 0, given)]
      [] q.method = "numericRange" ->
           LET given == Answering(votes, q, "numericValue") IN
           <<FoldSet(LAMBDA v, n : n + AnswerOf(v, q).numericValue * getVoteWeight(mode, v), 0, given),
             WeightOf(given, mode)>>
      [] OTHER ->
           LET given == Answering(votes, q, "customValue") IN
           [x \in {AnswerOf(v, q).customValue : v \in given} |->
              WeightOf({v \in given : AnswerOf(v, q).customValue = x}, mode)]

(* The valid responses, and of those by a role the last of each voter.       *)
RoleOf(v) == mapVoterTypeToResponderRole(v.type)
ValidVotes(survey, d, roles, votes, enforce) ==
    {v \in votes : validateSurveyResponse(ParsedForValidation(v.stored), d, RoleOf(v), survey, v.epoch,
                                          roles, v.hash, IF enforce THEN {v.evidence} ELSE {})}
KeptVotes(valid, role) == dedupeVotes({v \in valid : RoleOf(v) = role})

Totals(votes, valid, kept) ==
    [seen |-> Cardinality(votes), valid |-> Cardinality(kept),
     deduped |-> Cardinality(valid) - Cardinality(kept),
     invalid |-> Cardinality(votes) - Cardinality(kept)]
Results(d, roles, valid) ==
    [r \in DOMAIN roles |->
        [i \in DOMAIN d.questions |-> buildMethodResults(roles[r], d.questions[i], KeptVotes(valid, r))]]

buildSurveyTally(survey, d, roles, votes, phase, enforce) ==
    LET valid == ValidVotes(survey, d, roles, votes, enforce)
        kept == UNION {KeptVotes(valid, r) : r \in DOMAIN roles} IN
    [phase |-> phase, counted |-> kept,
     totals |-> Totals(votes, valid, kept), results |-> Results(d, roles, valid)]
===============================================================================
