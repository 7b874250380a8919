CONSTANTS
    t1 = t1 t2 = t2 v1 = v1 v2 = v2 d1 = d1 d2 = d2 s1 = s1
    Tab = {t1, t2}
    Device = {v1, v2}
    DeviceOf <- TwoDevices
    Doc = {d1, d2}
    Setting = {s1}
    MaxEdits = 4
    Environment = {}
    MaxFaults = 0
    MaxSaves = 2
    Attempts = 3
    Absent = Absent
    None = None
SPECIFICATION Spec
SYMMETRY SameDocuments
INVARIANTS WritingInv SavedMeansSaved NoNeedlessCopy
CHECK_DEADLOCK FALSE
