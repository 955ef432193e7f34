SPECIFICATION PartsSpec
CONSTANTS
    Masters = {k1, k2, k3}
    NoKey = NoKey
    Persisted = TRUE
    MaxRotations = 3
    MaxFaults = 5
    NoCaller = NoCaller
    Callers = {c1, c2}
    MaxMade = 4
    MaxRestores = 2
    MaxStops = 4
    MaxCuts = 2
    MaxCertificates = 2
    MaxGenerations = 3
    MaxFailures = 2
INVARIANTS NoSecretLost  EdgeIsHonest OpensHonestly
PROPERTIES BackedUp 
CHECK_DEADLOCK FALSE
