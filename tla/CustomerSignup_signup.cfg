\* Two devices sign the same person up; one function may stop half way.
SPECIFICATION SignupSpec
CONSTANTS
    Client = {c1, c2}
    MaxUsers = 2
    MaxCodes = 3
    MaxStops = 1
INVARIANTS SignupTypeOK PasswordMeansVerified CompletedHasCustomer
CHECK_DEADLOCK FALSE
