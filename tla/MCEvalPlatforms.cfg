CONSTANTS
    Platforms = {"mini_tlm", "mini_soc", "riscv_cpu_eval"}
    Backends = {"riscv_vp", "riscv_tlm"}
    Interval = 3
    SetupTime = 4
    MaxNow = 10
SPECIFICATION Spec
INVARIANTS
    TypeOK
    OutputInOrder
    FiredOnTime
PROPERTIES
    IrqReachesCpu
CHECK_DEADLOCK FALSE
