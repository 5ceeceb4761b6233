\* Every kind of request, at most two retries.
CONSTANT MaxRetries = 2
SPECIFICATION FairSpec
INVARIANTS ContractIsHonoured AnswersAreDocumented KeyIsVerified
PROPERTIES RetriesAreTransient EveryRequestIsAnswered
CHECK_DEADLOCK FALSE
