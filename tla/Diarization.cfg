SPECIFICATION CallSpec
CONSTANTS
    Conversations <- SmallCalls
    Ranges <- RollingWindows
    MaxLocalSpeakers = 2
    HistoryWindowLimit = 2
    AgentPhrases <- OneTokenAgent
    CustomerPhrases <- OneTokenCustomer
    AgentThreshold = 1
    CustomerThreshold = 1
    MaxTextTokens = 3
    InferredConfidence = 9
    TrustedConfidence = 9
    MaxCompositions = 4
    MaxFaults = 1
INVARIANTS
    FailuresLeaveNoTrace
    SpeakersKeepTheirIdentity
    OnlyCustomerSpeechIsRouted
\* The call is over when its compositions are used up.
CHECK_DEADLOCK FALSE
