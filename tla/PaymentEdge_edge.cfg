\* Two payment attempts of one order with any two providers, two webhook invocations.
SPECIFICATION EdgeFairSpec
CONSTANTS
    Provider = {"paynow", "contipay", "ecocash"}
    Call = {c1, c2}
    Hook = {h1, h2}
    NoCall = NoCall
    MaxSent = 4
    MaxFaults = 1
INVARIANTS EdgeTypeOK SettledWasPaid BookedOnce PaynowFailsOnTerminal SecondIntentExplained
PROPERTIES PaidIntentSettles
CHECK_DEADLOCK FALSE
