------------------------------- MODULE VoteTally -------------------------------
(* What the API says of a proposal: the shares of the three bodies, computed *)
(* from the stored voting power (proposalMapper.ts), the same shares as the  *)
(* analytics compute them (ledgerVoteMath.ts), and whether it is passing.    *)
(* A missing number is None.  Percentages are hundredths of a percent.       *)
EXTENDS Integers, Sequences, SequencesExt, FiniteSets

CONSTANT None

(* What is said of a body of voters, and of the committee.                   *)
VoteInfos == [yes : Int, no : Int, abstain : Int, yesPercent : Int, noPercent : Int]
CcVoteInfos == [yesPercent : Int, noPercent : Int, notVoted : Nat, valid : BOOLEAN]

ASSUME NoneAssumption == None \notin Int /\ None \notin VoteInfos /\ None \notin CcVoteInfos

GovernanceTypes == {"NO_CONFIDENCE", "UPDATE_COMMITTEE", "NEW_CONSTITUTION",
    "HARD_FORK_INITIATION", "PROTOCOL_PARAMETER_CHANGE", "TREASURY_WITHDRAWALS", "INFO_ACTION"}
Choices3 == {"YES", "NO", "ABSTAIN"}

(* Thresholds in percent: committee, DReps, pools.                           *)
VOTING_THRESHOLDS == [
    NO_CONFIDENCE             |-> <<None, 67, 51>>,
    UPDATE_COMMITTEE          |-> <<None, 67, 51>>,
    NEW_CONSTITUTION          |-> <<67, 75, None>>,
    HARD_FORK_INITIATION      |-> <<67, 60, 51>>,
    PROTOCOL_PARAMETER_CHANGE |-> <<67, 67, None>>,
    TREASURY_WITHDRAWALS      |-> <<67, 67, None>>,
    INFO_ACTION               |-> <<67, 100, 100>>]

getVotingThreshold(type) ==
    VOTING_THRESHOLDS[IF type \in GovernanceTypes THEN type ELSE "INFO_ACTION"]

toNumber(x) == IF x = None THEN 0 ELSE x
AtLeast0(n) == IF n > 0 THEN n ELSE 0
Larger(m, n) == IF m > n THEN m ELSE n

(* toFixed(2) rounds to the nearest hundredth; pct2 truncates.               *)
Percent(n, d) == IF d > 0 THEN (20000 * n + d) \div (2 * d) ELSE 0
pct2(n, d)    == IF d > 0 THEN (10000 * n) \div d ELSE None

----------------------------------------------------------------------------
(* DReps.  A power record has, for a body of voters, what Koios counted of   *)
(* each stance: yes, no, abstain (votes), alwaysAbstain, alwaysNo (the two   *)
(* predefined options), the stored total, and inactive (DReps) or koiosNo    *)
(* (pools: pool_no_vote_power, which has explicit No, alwaysNo and the pools *)
(* that did not vote).                                                       *)
(* Mutant: what did not vote is not cut off at 0. *)
DrepNotVotedRaw(p) == toNumber(p.total) - p.yes - p.no - p.abstain
                      - p.alwaysAbstain - p.alwaysNo - p.inactive
DrepNotVoted(p) == AtLeast0(toNumber(p.total) - p.yes - p.no - p.abstain
                            - p.alwaysAbstain - p.alwaysNo - p.inactive)

buildDrepVoteInfo(type, p) ==
    LET motion == type = "NO_CONFIDENCE"
        yes == p.yes + (IF motion THEN p.alwaysNo ELSE 0)
        no  == p.no + DrepNotVoted(p) + (IF motion THEN 0 ELSE p.alwaysNo) IN
    [yes |-> yes, no |-> no, abstain |-> p.abstain + p.alwaysAbstain,
     yesPercent |-> Percent(yes, yes + no), noPercent |-> Percent(no, yes + no)]

(* The analytics' version; its distribution leaves the inactive power out.   *)
computeDrepLedgerBuckets(type, p) ==
    LET notVoted == DrepNotVoted(p)
        yes == IF type = "NO_CONFIDENCE" THEN p.yes + p.alwaysNo ELSE p.yes
        no  == IF type = "NO_CONFIDENCE" THEN p.no + notVoted ELSE p.no + p.alwaysNo + notVoted
        abstain == p.abstain + p.alwaysAbstain
        dist == toNumber(p.total) - p.inactive IN
    [yes |-> yes, no |-> no, abstain |-> abstain, notVoted |-> notVoted,
     outcome |-> <<pct2(yes, yes + no), pct2(no, yes + no)>>,
     dist |-> <<pct2(yes, dist), pct2(no, dist), pct2(abstain, dist)>>]

----------------------------------------------------------------------------
(* Pools.  The formula changed with the hard fork of epoch 534: before it    *)
(* the power that did not vote is left out.                                  *)
SPO_FORMULA_TRANSITION_EPOCH == 534
shouldUseNewSpoFormula(transition, submissionEpoch) ==
    \/ transition
    \/ submissionEpoch # None /\ submissionEpoch >= SPO_FORMULA_TRANSITION_EPOCH

(* Everything counted, and the power that did not vote (may be negative when *)
(* the numbers are of different epochs): from pool_no_vote_power if there is *)
(* one, or else from the stored total, or the sum of the parts when larger.  *)
SpoCounted(p) == p.yes + p.no + p.abstain + p.alwaysAbstain + p.alwaysNo
(* Mutant: the stored total as it is (docs/spo-percentage-bug-analysis.md). *)
SpoTotalStored(p) ==
    IF p.koiosNo # None THEN p.yes + p.koiosNo + p.abstain + p.alwaysAbstain
    ELSE toNumber(p.total)
SpoTotal(p) ==
    IF p.koiosNo # None THEN p.yes + p.koiosNo + p.abstain + p.alwaysAbstain
    ELSE Larger(toNumber(p.total), SpoCounted(p))
SpoNotVoted(p) ==
    IF p.koiosNo # None THEN p.koiosNo - p.no - p.alwaysNo ELSE SpoTotal(p) - SpoCounted(p)

(* Before the hard fork; and after it, by the type of the action: for a hard *)
(* fork the predefined options count as not voted (that is, No), for a       *)
(* motion of no confidence the one counts as Yes.                            *)
SpoShares(type, new, p) ==
    CASE ~new -> [yes |-> p.yes, no |-> p.no + p.alwaysNo, abstain |-> p.abstain + p.alwaysAbstain,
                  of |-> p.yes + p.no + p.alwaysNo]
      [] new /\ type = "HARD_FORK_INITIATION" ->
           [yes |-> p.yes, abstain |-> p.abstain,
            no |-> p.no + AtLeast0(SpoNotVoted(p) + p.alwaysNo + p.alwaysAbstain),
            of |-> SpoTotal(p) - p.abstain]
      [] new /\ type = "NO_CONFIDENCE" ->
           [yes |-> p.yes + p.alwaysNo, abstain |-> p.abstain + p.alwaysAbstain,
            no |-> p.no + AtLeast0(SpoNotVoted(p)),
            of |-> SpoTotal(p) - p.abstain - p.alwaysAbstain]
      [] OTHER ->
           [yes |-> p.yes, abstain |-> p.abstain + p.alwaysAbstain,
            no |-> p.no + AtLeast0(SpoNotVoted(p)),
            of |-> SpoTotal(p) - p.abstain - p.alwaysAbstain]

(* Each percentage is capped at 100, and both are scaled when their sum is   *)
(* above 100.                                                                *)
CappedBoth(yes, no, of) ==
    LET y == IF yes > of THEN of ELSE yes
        n == IF no > of THEN of ELSE no IN
    IF of <= 0 THEN <<0, 0>>
    ELSE IF y + n > of THEN <<Percent(y, y + n), Percent(n, y + n)>>
    ELSE <<Percent(y, of), Percent(n, of)>>

buildSpoVoteInfo(type, new, p) ==
    LET s == SpoShares(type, new, p)
        pct == CappedBoth(s.yes, s.no, s.of) IN
    [yes |-> s.yes, no |-> s.no, abstain |-> s.abstain,
     yesPercent |-> pct[1], noPercent |-> pct[2]]

(* The analytics' version: what did not vote is cut off at 0 before the      *)
(* predefined options are added to it, and nothing is capped.                *)
computeSpoLedgerBuckets(type, new, p) ==
    LET notVoted == AtLeast0(SpoNotVoted(p))
        fork == new /\ type = "HARD_FORK_INITIATION"
        motion == new /\ type = "NO_CONFIDENCE"
        yes == p.yes + (IF motion THEN p.alwaysNo ELSE 0)
        abstain == p.abstain + (IF fork THEN 0 ELSE p.alwaysAbstain)
        no == p.no + (IF ~new THEN p.alwaysNo ELSE notVoted)
                   + (IF fork THEN p.alwaysNo + p.alwaysAbstain ELSE 0)
        of == IF new THEN SpoTotal(p) - abstain ELSE p.yes + p.no + p.alwaysNo
        dist == yes + no + abstain IN
    [yes |-> yes, no |-> no, abstain |-> abstain, notVoted |-> notVoted,
     outcome |-> <<pct2(yes, of), pct2(no, of)>>,
     dist |-> <<pct2(yes, dist), pct2(no, dist), pct2(abstain, dist)>>]

----------------------------------------------------------------------------
(* Votes: rows [type, voter, vote, time, power].  A committee member's       *)
(* latest vote counts (the first row of those with the same time); of a DRep *)
(* or a pool every row does.                                                 *)
RowsOf(votes, type) == {i \in DOMAIN votes : votes[i].type = type}
Supersedes(votes, j, i) ==
    /\ votes[j].voter = votes[i].voter
    /\ \/ votes[j].time > votes[i].time
       \/ votes[j].time = votes[i].time /\ j < i
getLatestCcVotes(votes) ==
    {i \in RowsOf(votes, "CC") : \A j \in RowsOf(votes, "CC") : ~Supersedes(votes, j, i)}

tallyCountVotes(votes, counted) == [c \in Choices3 |-> Cardinality({i \in counted : votes[i].vote = c})]

(* The fallback when Koios gave no power: the power of the rows themselves.  *)
tallyLovelaceVotes(votes, type) ==
    [c \in Choices3 |-> FoldLeft(LAMBDA n, v : n + toNumber(v.power), 0,
                                 SelectSeq(votes, LAMBDA v : v.type = type /\ v.vote = c))]
buildVoteInfo(tally) ==
    LET total == tally["YES"] + tally["NO"] + tally["ABSTAIN"] IN
    [yes |-> tally["YES"], no |-> tally["NO"], abstain |-> tally["ABSTAIN"],
     yesPercent |-> Percent(tally["YES"], total), noPercent |-> Percent(tally["NO"], total)]

(* The committee: abstentions leave the denominator, a member that did not   *)
(* vote stays in it.                                                         *)
MIN_ELIGIBLE_CC_MEMBERS == 7
buildCcVoteInfo(tally, eligible) ==
    LET of == eligible - tally["ABSTAIN"] IN
    [yesPercent |-> Percent(tally["YES"], of), noPercent |-> Percent(tally["NO"], of),
     notVoted |-> AtLeast0(eligible - tally["YES"] - tally["NO"] - tally["ABSTAIN"]),
     valid |-> eligible >= MIN_ELIGIBLE_CC_MEMBERS]

determineConstitutionality(tally, eligible) ==
    LET of == eligible - tally["ABSTAIN"] IN
    CASE eligible < MIN_ELIGIBLE_CC_MEMBERS -> "Committee Too Small"
      [] eligible >= MIN_ELIGIBLE_CC_MEMBERS /\ \A c \in Choices3 : tally[c] = 0 -> "Pending"
      [] OTHER -> IF of > 0 /\ 100 * tally["YES"] >= 67 * of THEN "Constitutional"
                  ELSE "Unconstitutional"

----------------------------------------------------------------------------
(* A body without a threshold takes no part; one with a threshold and        *)
(* without numbers does not pass.                                            *)
evaluateThreshold(yesPercent, threshold) ==
    IF threshold = None THEN None ELSE yesPercent >= 100 * threshold

Passes(info, threshold) ==
    IF threshold = None THEN None
    ELSE IF info = None THEN FALSE ELSE evaluateThreshold(info.yesPercent, threshold)

determineVotingStatus(type, drepInfo, spoInfo, ccInfo) ==
    LET t == getVotingThreshold(type) IN
    [cc |-> Passes(ccInfo, t[1]), drep |-> Passes(drepInfo, t[2]), spo |-> Passes(spoInfo, t[3])]

isProposalPassing(s) == s.drep = TRUE /\ s.spo # FALSE /\ s.cc # FALSE

(* mapProposalToGovernanceAction: the stored power if there is a total, or   *)
(* else the rows of the votes.                                               *)
DrepInfo(q) == IF q.drep.total # None THEN buildDrepVoteInfo(q.type, q.drep)
               ELSE buildVoteInfo(tallyLovelaceVotes(q.votes, "DREP"))
SpoInfo(q) ==
    IF q.spo.total # None
    THEN buildSpoVoteInfo(q.type, shouldUseNewSpoFormula(q.transition, q.epoch), q.spo)
    ELSE IF RowsOf(q.votes, "SPO") # {} THEN buildVoteInfo(tallyLovelaceVotes(q.votes, "SPO")) ELSE None
CcTally(q) == tallyCountVotes(q.votes, getLatestCcVotes(q.votes))
CcInfo(q) == IF RowsOf(q.votes, "CC") # {} THEN buildCcVoteInfo(CcTally(q), q.eligible) ELSE None

mapProposalToGovernanceAction(q) ==
    LET s == determineVotingStatus(q.type, DrepInfo(q), SpoInfo(q), CcInfo(q)) IN
    [status |-> s, passing |-> isProposalPassing(s),
     constitutionality |-> determineConstitutionality(CcTally(q), q.eligible)]
===============================================================================
