SPECIFICATION Spec
CONSTANTS
    Order <- OrderValue
    Members <- MembersValue
    MAX_CAPTURES = 2
    MAX_CCALLS = 6
    Subjects <- SubjectsValue
    PatternSet <- PatternsValue
    LoopSet <- LoopsValue
    Templates <- TemplatesValue
INVARIANTS
    MatchesAgree
    LoopsAgree
PROPERTIES
    GsubProgresses
