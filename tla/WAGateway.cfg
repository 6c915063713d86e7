SPECIFICATION GatewaySpec
CONSTANTS
    Connects = {"c1"}
    Sends = {"b1"}
    Messages <- MCMessages
    MaxCloses = 2
INVARIANTS OneTimerPerSession
PROPERTIES RequestsAreAnswered
CHECK_DEADLOCK FALSE
