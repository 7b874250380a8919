CONSTANTS
    Request = {1}
    Address = {1, 2, 3}
    Maximum = 2
    MaximumKeys = 2
    Window = 2
    MaxTime = 4
    MaxServed = 4
SPECIFICATION MCServer
INVARIANTS HonestAnswer FairLimiter
PROPERTIES Answered OldestForgotten
CHECK_DEADLOCK FALSE
