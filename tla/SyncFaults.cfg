CONSTANTS
    t1 = t1 t2 = t2 v1 = v1 v2 = v2 d1 = d1 d2 = d2 s1 = s1
    Tab = {t1, t2}
    Device = {v1, v2}
    DeviceOf <- TwoDevices
    Doc = {d1}
    Setting = {s1}
    MaxEdits = 2
    Environment = {"impatient", "load", "crash", "saveNow", "request", "answer"}
    MaxFaults = 1
    MaxSaves = 2
    Attempts = 6
    Absent = Absent
    None = None
SPECIFICATION FairSpec
INVARIANTS BaseIsARevision
PROPERTIES Settles DeviceKeepsWriting
CHECK_DEADLOCK FALSE
