----------------------------- MODULE ProposalTally -----------------------------
(* One proposal as its votes come in: power changes its stance on the chain, *)
(* members of the committee vote and vote again, rows of votes are ingested  *)
(* in any order, and the totals Koios gives may be of another epoch than its *)
(* summary.                                                                  *)
EXTENDS VoteTally

CONSTANTS
    Members,       \* members of the committee that vote, and vote again
    Settled,       \* members that have voted Yes for good
    Eligible,      \* how many members the committee may have
    Power,         \* the power of a body, as Koios' summary has it
    MaxTotal,      \* bound: totals of other epochs
    MaxVotes       \* bound: votes of the Members

(* With 203 members or more, a share that the API rounds up to 67 percent    *)
(* need not be enough.                                                       *)
ASSUME TallyAssumption ==
    /\ IsFiniteSet(Members) /\ IsFiniteSet(Settled) /\ Members \cap Settled = {}
    /\ Eligible \subseteq 1 .. 199
    /\ {Power, MaxTotal} \subseteq Nat

VARIABLES
    proposal,      \* [type, epoch, eligible]
    body,          \* the body that acts in this behaviour
    stance,        \* how much of the body's power has which stance
    seen,          \* what Koios reports besides: [total, koiosNo]
    chain,         \* the votes of Members, in the order of the chain
    rows           \* the indices of those that are ingested, in row order

tallyVars == <<proposal, body, stance, seen, chain, rows>>

Stances == {"yes", "no", "abstain", "alwaysAbstain", "alwaysNo", "inactive", "none"}
StancesOf(b) == IF b = "DREP" THEN Stances ELSE Stances \ {"inactive"}

(* The power in these stances.                                               *)
PowerIn(S) ==
    LET of(s) == IF s \in S THEN stance[s] ELSE 0 IN
    of("yes") + of("no") + of("abstain") + of("alwaysAbstain") + of("alwaysNo")
    + of("inactive") + of("none")

(* pool_no_vote_power, which is of the same moment as the summary.           *)
NoPower == stance["no"] + stance["alwaysNo"] + stance["none"]
Consistent == seen.koiosNo # None \/ seen.total = PowerIn(Stances)

NobodyVoted == [s \in Stances |-> IF s = "none" THEN Power ELSE 0]

TallyInit ==
    /\ body \in {"DREP", "SPO", "CC"}
    /\ proposal \in [type : GovernanceTypes, epoch : {None, 533, 534},
                    eligible : IF body = "CC" THEN Eligible ELSE {MIN_ELIGIBLE_CC_MEMBERS}]
    /\ body # "SPO" => proposal.epoch = 534
    /\ body = "CC" => proposal.type \in {"INFO_ACTION", "UPDATE_COMMITTEE"}
    /\ stance = NobodyVoted
    /\ seen \in [total : {None}, koiosNo : {None}]
    /\ chain = <<>> /\ rows = <<>>

(* What Koios may report of a body: a total, of this or another epoch, and   *)
(* for the pools also pool_no_vote_power (older proposals have none).        *)
Report ==
    /\ body # "CC"
    /\ seen' \in [total : 0 .. MaxTotal, koiosNo : {None} \cup (IF body = "SPO" THEN {NoPower} ELSE {})]
    /\ seen' # seen
    /\ UNCHANGED <<proposal, body, stance, chain, rows>>

(* A unit of power changes its stance: a vote, a new vote, a delegation.     *)
Restance(from, to) ==
    /\ body # "CC" /\ {from, to} \subseteq StancesOf(body) /\ from # to
    /\ stance[from] > 0
    /\ stance' = [stance EXCEPT ![from] = @ - 1, ![to] = @ + 1]
    /\ seen' = IF seen.koiosNo = None THEN seen ELSE [seen EXCEPT !.koiosNo = NoPower']
    /\ UNCHANGED <<proposal, body, chain, rows>>

Cast(m, c) ==
    /\ body = "CC" /\ Len(chain) < MaxVotes
    /\ chain' = Append(chain, [voter |-> m, vote |-> c])
    /\ UNCHANGED <<proposal, body, stance, seen, rows>>

Ingested == {rows[k] : k \in DOMAIN rows}
IngestRow(i) ==
    /\ i \in DOMAIN chain \ Ingested
    /\ rows' = Append(rows, i)
    /\ UNCHANGED <<proposal, body, stance, seen, chain>>

TallyNext ==
    \/ Report
    \/ \E from, to \in Stances : Restance(from, to)
    \/ \E m \in Members, c \in Choices3 : Cast(m, c)
    \/ \E i \in DOMAIN chain : IngestRow(i)

----------------------------------------------------------------------------
(* The row of the proposal as the mapper reads it.                           *)
PowerRow ==
    [yes |-> stance["yes"], no |-> stance["no"], abstain |-> stance["abstain"],
     alwaysAbstain |-> stance["alwaysAbstain"], alwaysNo |-> stance["alwaysNo"],
     inactive |-> stance["inactive"], total |-> seen.total, koiosNo |-> seen.koiosNo]
Nothing == [yes |-> 0, no |-> 0, abstain |-> 0, alwaysAbstain |-> 0, alwaysNo |-> 0,
            inactive |-> 0, total |-> None, koiosNo |-> None]

VoteRow(i) == [type |-> "CC", voter |-> chain[i].voter, vote |-> chain[i].vote,
               time |-> i, power |-> None]
SettledRow(m) == [type |-> "CC", voter |-> m, vote |-> "YES", time |-> 0, power |-> None]
SettledInOrder == SetToSeq(Settled)
VoteRows == IF body # "CC" THEN <<>>
            ELSE [k \in DOMAIN SettledInOrder |-> SettledRow(SettledInOrder[k])]
                 \o [k \in DOMAIN rows |-> VoteRow(rows[k])]

Row == [type |-> proposal.type, epoch |-> proposal.epoch, transition |-> FALSE,
        eligible |-> proposal.eligible, votes |-> VoteRows,
        drep |-> IF body = "DREP" THEN PowerRow ELSE Nothing,
        spo |-> IF body = "SPO" THEN PowerRow ELSE Nothing]

New == shouldUseNewSpoFormula(FALSE, proposal.epoch)
Info == IF body = "DREP" THEN DrepInfo(Row) ELSE SpoInfo(Row)
Buckets == IF body = "DREP" THEN computeDrepLedgerBuckets(proposal.type, PowerRow)
           ELSE computeSpoLedgerBuckets(proposal.type, New, PowerRow)

(* The ledger's rule: which stances count as Yes, and which are left out of  *)
(* the denominator.                                                          *)
CountsYes == {"yes"} \cup (IF proposal.type = "NO_CONFIDENCE" /\ (body = "DREP" \/ New)
                           THEN {"alwaysNo"} ELSE {})
LeftOut ==
    IF body = "DREP" THEN {"abstain", "alwaysAbstain", "inactive"}
    ELSE IF ~New THEN {"abstain", "alwaysAbstain", "none"}
    ELSE IF proposal.type = "HARD_FORK_INITIATION" THEN {"abstain"}
    ELSE {"abstain", "alwaysAbstain"}

(* The share of Yes is what the ledger's rule makes of the stances, in the   *)
(* API and in the analytics alike, when Koios' numbers belong together.      *)
YesShareExact == (body # "CC" /\ seen.total # None /\ Consistent) =>
    LET yes == PowerIn(CountsYes)
        of  == PowerIn(Stances \ LeftOut) IN
    /\ Info.yesPercent = Percent(yes, of)
    /\ Buckets.outcome[1] = pct2(yes, of)

(* Whatever epoch the total is of, Yes and No are at most 100 percent        *)
(* together, in the API (with one hundredth for rounding) and in the         *)
(* analytics, which have no safety net.                                      *)
InfoBounded == Info.yesPercent + Info.noPercent \in 0 .. 10001
OutcomeBounded ==
    LET share == Buckets.outcome IN None \in {share[1], share[2]} \/ share[1] + share[2] <= 10000
SharesBounded == (body # "CC" /\ seen.total # None) => InfoBounded /\ OutcomeBounded

(* Power that comes to Yes never makes a body fail that was passing, and     *)
(* power that comes to No never makes one pass that was failing, even when   *)
(* the total is of another epoch.                                            *)
Threshold == getVotingThreshold(proposal.type)[IF body = "DREP" THEN 2 ELSE 3]
Passing == Passes(Info, Threshold)
VoteHelps == (body # "CC" /\ seen.total # None /\ seen'.total = seen.total) =>
    /\ stance'["yes"] > stance["yes"] /\ Passing = TRUE => Passing' = TRUE
    /\ stance'["no"] > stance["no"] /\ Passing = FALSE => Passing' = FALSE

(* The verdict on constitutionality is that of each member's last vote among *)
(* the ingested ones, in whatever order they were ingested; with a committee *)
(* that is large enough it is the verdict the proposal's status is made of.  *)
StandsFor(m, c) ==
    \E i \in Ingested : /\ chain[i] = [voter |-> m, vote |-> c]
                        /\ \A j \in Ingested : chain[j].voter = m => j <= i
LastVoteCounts == body = "CC" =>
    LET n(c) == Cardinality({m \in Members : StandsFor(m, c)}) IN
    /\ CcTally(Row) = [c \in Choices3 |-> n(c) + (IF c = "YES" THEN Cardinality(Settled) ELSE 0)]
    /\ (determineConstitutionality(CcTally(Row), proposal.eligible) = "Constitutional") =
          (proposal.eligible >= MIN_ELIGIBLE_CC_MEMBERS /\ Passes(CcInfo(Row), 67) = TRUE)

(* The shares of a vote are what the ledger's rule makes of the stances, and *)
(* bounded where Koios' numbers do not belong together; the verdict of the   *)
(* committee is that of each member's last vote.                             *)
TallyRight == YesShareExact /\ SharesBounded /\ LastVoteCounts

(* Power that comes to one side never turns the verdict to the other.        *)
VotesCount == [][VoteHelps]_tallyVars

TallySpec == TallyInit /\ [][TallyNext]_tallyVars
================================================================================
