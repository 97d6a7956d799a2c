CONSTANTS
    r1 = r1
    s1 = s1
    d1 = d1
    c1 = c1
    c2 = c2
    Readings = {r1}
    Statuses = {s1}
    Devices = {d1}
    KnownDevices = {d1}
    Conns = {c1, c2}
    MsgIds = {1, 2, 3, 4, 5}
    NoConn = NoConn
    NoMsg = NoMsg
    NoEvent = NoEvent
    NoRecord = NoRecord
    DeviceOf <- MCDeviceOf
    Battery <- MCFullBattery
    SensorStates <- MCHealthySensors
    ChanCap = 1
    MaxBackoff = 3
    FrameLimit = 2
    MaxDisturbances = 1
    Durable = TRUE
    PrimeDurable = TRUE
SPECIFICATION FairSpec
PROPERTIES SuspendedCannotUpload
