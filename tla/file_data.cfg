SPECIFICATION Spec
CONSTANTS
    Files = {f1, f2}
    Nobody = Nobody
    Slots <- MCSlots
    Blocks = {0, 2}
    U = 2
    DeviceBlocks <- MCDeviceBlocks
    GetBlock <- MCGetBlock
    Overflow <- MCOverflow
    MaxCalls = 4
    NoSlot = NoSlot
SYMMETRY Perms
INVARIANTS ReadBack
CHECK_DEADLOCK FALSE
