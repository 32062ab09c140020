CONSTANTS
    Half = 8
    Scaler = 2
    MaxHigh = 0
    MaxNow = 8
    MaxAccess = 2
    Backends = {"riscv_vp", "riscv_tlm"}
    Programs = {"soc_irq", "clint_timer"}
    Delay = 2
    SetupTime = 3
SPECIFICATION Spec
INVARIANTS
    TypeOK
    GatewayClosedOnlyInHandler
    NoInterruptVanishes
    LevelsReachHart
    TimerNotEarly
PROPERTIES
    FirmwareFinishes
    SpuriousOnlyOnceServed
