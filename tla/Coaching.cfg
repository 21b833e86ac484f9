\* One call of four chunks whose board holds one card: promotion, withdrawal,
\* eviction, rollback, late answers of the background manager.
CONSTANTS
    LabelOrder <- MCLabelOrder
    Rules <- MCRules
    Templates <- MCTemplates
    CancellationPhrases <- MCPhrases
    CancellationNegations <- MCNegations
    CancellationLabels <- MCCancellationLabels
    Utterances <- MCUtterances
    Scores <- MCScores
    Thresholds <- MCThresholds
    PriceQueries <- MCPriceQueries
    PriceObjections <- MCPriceObjections
    ProvisionalLabelNames = {"price_objection", "cancellation_request"}
    CriticalLabels = {"cancellation_request"}
    ProvisionalLimit <- MCLimit
    CriticalLimit <- MCCriticalLimit
    MinimumWords = 1
    MinimumGrowth = 1
    MinimumInterval = 1
    PartialKeyLimit = 2
    MaxActive = 1
    Cooldown = 1
    StableRegion = 1
    EnabledLabels = {"cancellation_request"}
    Policy <- MCPolicy
    AllowedActions <- MCActions
    Outputs <- MCOutputs
    Retrieved <- MCRetrieved
    MaxChunks = 4
SPECIFICATION CoachingSpec
INVARIANTS CallIsAccounted
PROPERTIES FailedRevisionChangesNothing GeneratedCardIsCurrent
CHECK_DEADLOCK FALSE
