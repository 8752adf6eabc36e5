SPECIFICATION KafkaSpec
CONSTANTS
    Consumer = TRUE
    MaxPoll = 3
    MaxForeign = 6
    Outages = TRUE
INVARIANTS LossOnlyBehindBad
PROPERTIES CatchesUp
CHECK_DEADLOCK FALSE
