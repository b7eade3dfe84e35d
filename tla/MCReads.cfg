CONSTANTS
    a = a  b = b  p1 = p1  p2 = p2  s1 = s1  s2 = s2
    None = None
    m1 = m1  m2 = m2  g1 = g1  g2 = g2  g3 = g3  g4 = g4
    pool = pool  drep = drep
    Proposals = {p1, p2}
    Processes = {a, b}
    Slots = {s1, s2}
    Cooldown = 1
    Multiplier = 2
    MaxTracked = 1
    Names = {"id"}
    Overviews = {}
    MaxLag = 1
    Crashes = FALSE
    Members = {m1, m2}
    Settled = {g1, g2, g3, g4}
    Eligible = {6, 7, 8}
    Power = 3
    MaxTotal = 4
    MaxVotes = 3
    SurveyProposals <- LinkedProposals
    Responses <- Sendable
    MaxResponses = 2
    LastSurveyEpoch = 3
SPECIFICATION MCSpec
CHECK_DEADLOCK FALSE
INVARIANTS SyncsOwned TallyRight SurveyRight
PROPERTIES TimesSpaced VotesCount
