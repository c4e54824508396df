\* Two callers, ids that run out after three streams, and three sessions.
SPECIFICATION FairDialerSpec
CONSTANTS
    Callers = {k1, k2}
    Modulus = 8
    MaxSessions = 3
INVARIANTS SessionsSound
PROPERTIES DialEnds
