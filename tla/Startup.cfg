SPECIFICATION Spec
CONSTANTS
    Macs = {m1, m2, m3}
    ZeroMac = ZeroMac
    NoMac = NoMac
    RefusedMac = RefusedMac
    BadMac = BadMac
    Files <- MCFiles
    NoDevice = NoDevice
    NoConfig = NoConfig
INVARIANTS
    DeviceHasRecordedMac
    LoopIsReady
PROPERTIES
    RecordedForGood
