SPECIFICATION Spec
CONSTANTS
    MaxEdits = 2
    MaxDcSamples = 16
    Lower <- MCLower
INVARIANTS
    PlanResolves
    PlanUnits
    MeasuresAreTrue
    SpecResolves
    VerdictsAreSound
    PreludeIsClosed
    DeckIsHonest
    SeriesIsNative
    AnswersAreBound
CHECK_DEADLOCK FALSE
