\* Two windows, calls that may time out, one fault, under fairness.
SPECIFICATION LiveSpec
CONSTANTS
    Host = {h1}
    None = None
    MaxHosts = 1
    MaxFailures = 2
    MaxEpochs = 2
    MaxAttempts = 3
    MaxFaults = 1
INVARIANTS ToldIsSaved WindowsAgree NoExtraAttempts
PROPERTIES StaleCodesRefused GuessesAreLimited AttemptsEnd
CHECK_DEADLOCK FALSE
