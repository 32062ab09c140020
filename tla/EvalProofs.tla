----------------------------- MODULE EvalProofs -----------------------------
(***************************************************************************)
(* Proofs about the bring-up platforms for any interval of the timer, any  *)
(* time the firmware takes to arm it and any set of platforms and          *)
(* backends: types, the order of the output, and the time of the           *)
(* interrupt.  All three follow from one inductive invariant, which says   *)
(* where the one interrupt of a run is on its way from the device to the   *)
(* program.                                                                *)
(***************************************************************************)
EXTENDS EvalPlatforms, SequenceTheorems, TLAPS

-----------------------------------------------------------------------------
(* The inductive invariant *)

\* The index of the statement that starts the device: three follow it, the
\* wait for the interrupt, the report and the end.
StartAt == IF platform = "mini_soc" THEN 6 ELSE 4

FlagsInv ==
    /\ driven \in BOOLEAN /\ line \in BOOLEAN /\ woken \in BOOLEAN
    /\ trap \in BOOLEAN /\ fired \in BOOLEAN /\ gie \in BOOLEAN

\* A stub has no interrupt inputs; a hart's enables follow from where main is.
CoreInv ==
    /\ FlagsInv
    /\ platform \in Platforms /\ now \in 0 .. MaxNow
    /\ pc \in 1 .. StartAt + 3
    /\ mip = {} /\ lost = {}
    /\ platform \in Stubs =>
        backend = "cpu_stub" /\ mie = {} /\ ~gie /\ ~trap /\ ~fired
    /\ platform \notin Stubs =>
        /\ backend \in {"riscv_vp", "riscv_tlm"}
        /\ mie = IF pc > 2 THEN {H!Timer} ELSE {}
        /\ gie <=> pc > 3 /\ ~trap

\* START finds the two enables of the I2C controller written.
DataInv ==
    /\ ram \in {"zero", "pattern"}
    /\ regs \subseteq {"IIER", "IER", "ICTLR"}
    /\ platform = "mini_soc" => (pc > 4 => "IIER" \in regs) /\ (pc > 5 => "IER" \in regs)

\* What has been printed follows from where the program is.
OutputInv ==
    output = IF pc = 1 THEN <<>>
             ELSE IF platform \in Stubs
                  THEN IF pc > StartAt + 2 THEN <<"hello", "irq">> ELSE <<"hello">>
             ELSE IF pc > StartAt + 2 THEN <<"hello", "irq", "done">>
             ELSE IF fired THEN <<"hello", "irq">> ELSE <<"hello">>

Unheard == heard = Never /\ ~trap /\ ~fired

\* The interrupt of a run passes through four stages.  The device has not
\* been started:
Idle ==
    /\ pc <= StartAt /\ now <= SetupTime
    /\ started = Never /\ deadline = Never /\ ~driven /\ ~line /\ ~woken
    /\ slot = H!NoCause /\ Unheard

\* the timer is running and the program waits for it:
Running ==
    /\ platform # "mini_soc" /\ deadline = started + Interval /\ now <= deadline
    /\ ~driven /\ ~line /\ ~woken
    /\ pc = StartAt + 1 /\ slot = H!NoCause /\ Unheard

Due == started + Latency <= now /\ (platform \in Stubs => now = started + Latency)

\* the device has driven its line, and the process waiting for the edge has
\* not run since; no time passes in this stage:
Raised ==
    /\ deadline = Never /\ driven /\ (line <=> woken)
    /\ Due
    /\ pc = StartAt + 1 /\ slot = H!NoCause /\ Unheard

\* the edge has been consumed, by the stub or by on_timer_irq, whose raise_irq
\* leaves the cause in the core of riscv_tlm until its one trap.
Delivered ==
    /\ deadline = Never /\ driven /\ line /\ ~woken
    /\ Due
    /\ platform \in Stubs =>
        pc > StartAt + 1 /\ slot = H!NoCause /\ heard = started + Latency
    /\ platform \notin Stubs =>
        \/ /\ pc = StartAt + 1 /\ Unheard
           /\ slot = IF backend = "riscv_tlm" THEN H!Timer ELSE H!NoCause
        \/ /\ backend = "riscv_tlm" /\ slot = H!NoCause
           /\ heard \in started + Interval .. now
           /\ (trap <=> ~fired) /\ (pc > StartAt + 1 => fired)

EdgeInv ==
    \/ Idle
    \/ /\ pc > StartAt /\ started \in 0 .. now /\ started <= SetupTime
       /\ Running \/ Raised \/ Delivered

Inv == CoreInv /\ DataInv /\ OutputInv /\ EdgeInv

-----------------------------------------------------------------------------
(* The programs and the bus *)

Kind == Stubs \cup {"riscv_cpu_eval"}

\* Where the statements of each program are.
LEMMA Statements ==
    ASSUME platform \in Kind
    PROVE  /\ Len(Code[platform]) = StartAt + 3
           /\ \A p \in 1 .. StartAt + 3 : LET s == Code[platform][p] IN
                /\ s = "hello" <=> p = 1
                /\ s = "store" <=> p = 2 /\ platform \in Stubs
                /\ s = "load" <=> p = 3 /\ platform \in Stubs
                /\ s = "mie" <=> p = 2 /\ platform \notin Stubs
                /\ s = "mstatus" <=> p = 3 /\ platform \notin Stubs
                /\ s = "start" <=> p = 4 /\ platform # "mini_soc"
                /\ s = "IIER" <=> p = 4 /\ platform = "mini_soc"
                /\ s = "IER" <=> p = 5 /\ platform = "mini_soc"
                /\ s = "ICTLR" <=> p = 6 /\ platform = "mini_soc"
                /\ s = "wait" <=> p = StartAt + 1 /\ platform \in Stubs
                /\ s = "spin" <=> p = StartAt + 1 /\ platform \notin Stubs
                /\ s = "report" <=> p = StartAt + 2
                /\ s = "end" <=> p = StartAt + 3
<1>1. CASE platform = "mini_tlm"
  <2>1. Code[platform] = MiniTlmRun /\ StartAt = 4 /\ platform \in Stubs
    BY <1>1 DEF Code, StartAt, Stubs
  <2>2. Len(MiniTlmRun) = 7
    BY DEF MiniTlmRun
  <2> QED
    BY <1>1, <2>1, <2>2 DEF MiniTlmRun
<1>2. CASE platform = "mini_soc"
  <2>1. Code[platform] = MiniSocRun /\ StartAt = 6 /\ platform \in Stubs
    BY <1>2 DEF Code, StartAt, Stubs
  <2>2. Len(MiniSocRun) = 9
    BY DEF MiniSocRun
  <2> QED
    BY <1>2, <2>1, <2>2 DEF MiniSocRun
<1>3. CASE platform = "riscv_cpu_eval"
  <2>1. Code[platform] = TimerIrqMain /\ StartAt = 4 /\ platform \notin Stubs
    BY <1>3 DEF Code, StartAt, Stubs
  <2>2. Len(TimerIrqMain) = 7
    BY DEF TimerIrqMain
  <2> QED
    BY <1>3, <2>1, <2>2 DEF TimerIrqMain
<1> QED
  BY <1>1, <1>2, <1>3 DEF Kind, Stubs

\* An address that exactly one region contains is served by that region,
\* whatever the order of the add_target calls.
LEMMA OneHit ==
    ASSUME platform \in Kind, NEW page, NEW k \in DOMAIN Map[platform],
           \A i \in DOMAIN Map[platform] :
              /\ Map[platform][i].base <= page
              /\ page < Map[platform][i].base + Map[platform][i].size
              <=> i = k
    PROVE  Decode(page) = Map[platform][k].target
<1> DEFINE regions == Map[platform]
           hits == {i \in DOMAIN regions :
                       /\ regions[i].base <= page
                       /\ page < regions[i].base + regions[i].size}
<1>1. hits = {k}
  OBVIOUS
<1>2. k <= k
  <2>1. k \in Nat
    BY SMT DEF Kind, Stubs, Map, MiniTlmMap, MiniSocMap, CpuEvalMap
  <2> QED
    BY <2>1
<1>3. (CHOOSE i \in hits : \A j \in hits : i <= j) = k
  BY <1>1, <1>2
<1> QED
  BY <1>1, <1>3, Zenon DEF Decode

\* The addresses hard-wired in the programs agree with the memory maps of
\* their platforms: no region hides the target a program means.
LEMMA DecodeProgram ==
    ASSUME platform \in Kind
    PROVE  /\ Decode(UartPage) = "uart"
           /\ Decode(RamPage) = "ram"
           /\ Decode(DevicePage) = "device"
<1> USE DEF Region, RegionSize, UartPage, RamPage, DevicePage
<1> DEFINE m == Map[platform]
<1>1. CASE platform = "mini_tlm"
  <2>1. /\ DOMAIN m = {1, 2, 3}
        /\ m[1] = Region("uart", 65536, 1) /\ m[2] = Region("device", 65537, 1)
        /\ m[3] = Region("ram", 524288, 1)
    BY <1>1, SMT DEF Map, MiniTlmMap
  <2>2. Decode(UartPage) = m[1].target /\ Decode(DevicePage) = m[2].target
        /\ Decode(RamPage) = m[3].target
    BY <1>1, <2>1, OneHit, SMT
  <2> QED
    BY <2>1, <2>2, SMT
<1>2. CASE platform = "mini_soc"
  <2>1. /\ DOMAIN m = {1, 2, 3}
        /\ m[1] = Region("uart", 65536, 1) /\ m[2] = Region("device", 65552, 1)
        /\ m[3] = Region("ram", 524288, 16)
    BY <1>2, SMT DEF Map, MiniSocMap
  <2>2. Decode(UartPage) = m[1].target /\ Decode(DevicePage) = m[2].target
        /\ Decode(RamPage) = m[3].target
    BY <1>2, <2>1, OneHit, SMT
  <2> QED
    BY <2>1, <2>2, SMT
<1>3. CASE platform = "riscv_cpu_eval"
  <2>1. /\ DOMAIN m = {1, 2, 3}
        /\ m[1] = Region("ram", 524288, 16) /\ m[2] = Region("uart", 65536, 1)
        /\ m[3] = Region("device", 65552, 1)
    BY <1>3, SMT DEF Map, CpuEvalMap
  <2>2. Decode(UartPage) = m[2].target /\ Decode(DevicePage) = m[3].target
        /\ Decode(RamPage) = m[1].target
    BY <1>3, <2>1, OneHit, SMT
  <2> QED
    BY <2>1, <2>2, SMT
<1> QED
  BY <1>1, <1>2, <1>3 DEF Kind, Stubs

\* So a write of the program changes the state of the target it means only.
LEMMA WriteEffects ==
    ASSUME platform \in Kind, NEW v
    PROVE  /\ Write(UartPage, v) =>
                output' = Append(output, v) /\ UNCHANGED <<ram, deadline, regs, driven,
                                                           started>>
           /\ Write(RamPage, v) =>
                ram' = v /\ UNCHANGED <<output, deadline, regs, driven, started>>
           /\ Write(DevicePage, v) =>
                /\ UNCHANGED <<output, ram>>
                /\ platform # "mini_soc" => StartTimer
                /\ platform = "mini_soc" => WriteI2c(v)
<1> DEFINE W(target) ==
        /\ output' = IF target = "uart" THEN Append(output, v) ELSE output
        /\ ram' = IF target = "ram" THEN v ELSE ram
        /\ IF target # "device" THEN UNCHANGED device
           ELSE IF platform = "mini_soc" THEN WriteI2c(v)
           ELSE StartTimer
<1>1. Write(UartPage, v) => W("uart")
  BY DecodeProgram DEF Write
<1>2. Write(RamPage, v) => W("ram")
  BY DecodeProgram DEF Write
<1>3. Write(DevicePage, v) => W("device")
  BY DecodeProgram DEF Write
<1> QED
  BY <1>1, <1>2, <1>3 DEF device

-----------------------------------------------------------------------------
(* The output *)

\* Printing one more line.
LEMMA Lines ==
    /\ Append(<<>>, "hello") = <<"hello">>
    /\ Append(<<"hello">>, "irq") = <<"hello", "irq">>
    /\ Append(<<"hello", "irq">>, "done") = <<"hello", "irq", "done">>
<1>1. Append(<<>>, "hello") = <<"hello">>
  OBVIOUS
<1>2. Append(<<"hello">>, "irq") = <<"hello", "irq">>
  <2> DEFINE s == Append(<<"hello">>, "irq")
             t == <<"hello", "irq">>
  <2>1. s \in Seq({"hello", "irq", "done"}) /\ t \in Seq({"hello", "irq", "done"})
    OBVIOUS
  <2>2. Len(s) = 2 /\ Len(t) = 2
    OBVIOUS
  <2>3. s[1] = t[1] /\ s[2] = t[2]
    OBVIOUS
  <2> HIDE DEF s, t
  <2>4. s = t
    BY <2>1, <2>2, <2>3, SeqEqual
  <2> QED
    BY <2>4 DEF s, t
<1>3. Append(<<"hello", "irq">>, "done") = <<"hello", "irq", "done">>
  <2> DEFINE s == Append(<<"hello", "irq">>, "done")
             t == <<"hello", "irq", "done">>
  <2>1. s \in Seq({"hello", "irq", "done"}) /\ t \in Seq({"hello", "irq", "done"})
    OBVIOUS
  <2>2. Len(s) = 3 /\ Len(t) = 3
    OBVIOUS
  <2>3. s[1] = t[1] /\ s[2] = t[2] /\ s[3] = t[3]
    OBVIOUS
  <2> HIDE DEF s, t
  <2>4. s = t
    BY <2>1, <2>2, <2>3, SeqEqual
  <2> QED
    BY <2>4 DEF s, t
<1> QED
  BY <1>1, <1>2, <1>3

\* What may have been printed on the way to each expected output.
LEMMA OutputPrefixes ==
    /\ IsPrefix(<<>>, <<"hello">>) /\ IsPrefix(<<"hello">>, <<"hello">>)
    /\ IsPrefix(<<>>, <<"hello", "irq">>) /\ IsPrefix(<<"hello">>, <<"hello", "irq">>)
    /\ IsPrefix(<<"hello", "irq">>, <<"hello", "irq">>)
    /\ IsPrefix(<<>>, <<"hello", "irq", "done">>)
    /\ IsPrefix(<<"hello">>, <<"hello", "irq", "done">>)
    /\ IsPrefix(<<"hello", "irq">>, <<"hello", "irq", "done">>)
    /\ IsPrefix(<<"hello", "irq", "done">>, <<"hello", "irq", "done">>)
BY DEF IsPrefix

-----------------------------------------------------------------------------
(* The invariant is inductive *)

\* Nothing has happened at elaboration.
LEMMA InitInv == Init => Inv
<1> SUFFICES ASSUME Init PROVE Inv
  OBVIOUS
<1>0. platform \in Kind /\ platform \in Platforms /\ StartAt \in {4, 6}
  BY EvalAssumption DEF Init, Kind, StartAt
<1>1. CoreInv
  <2>1. /\ platform \in Platforms /\ now \in 0 .. MaxNow
        /\ pc \in 1 .. StartAt + 3
    BY <1>0, EvalAssumption DEF Init
  <2>2. FlagsInv
    BY DEF FlagsInv, Init, H!Init, InitiallyRunnable
  <2>3. mip = {} /\ lost = {} /\ mie = {} /\ ~gie /\ ~trap /\ ~fired
    BY DEF Init, H!Init
  <2>4. /\ platform \in Stubs => backend = "cpu_stub"
        /\ platform \notin Stubs => backend \in {"riscv_vp", "riscv_tlm"}
    BY EvalAssumption DEF Init
  <2>5. pc = 1
    BY DEF Init
  <2> QED
    BY <2>1, <2>2, <2>3, <2>4, <2>5 DEF CoreInv
<1>2. DataInv
  BY DEF Init, DataInv
<1>3. OutputInv
  BY DEF Init, OutputInv
<1>4. EdgeInv
  BY <1>0, EvalAssumption DEF Init, EdgeInv, Idle, Unheard, H!Init, InitiallyRunnable
<1> QED
  BY <1>1, <1>2, <1>3, <1>4 DEF Inv

\* The hart has a trap to take exactly while an injected timer cause is in
\* its core, which is after the edge and before the only trap.
LEMMA TrapOnlyWhenInjected ==
    ASSUME Inv
    PROVE  /\ platform \in Kind /\ slot \in {H!NoCause, H!Timer}
           /\ H!Takeable # {} <=> slot = H!Timer
           /\ slot = H!Timer =>
                /\ platform \notin Stubs /\ backend = "riscv_tlm"
                /\ Delivered /\ pc = StartAt + 1 /\ Unheard
<1>0. platform \in Kind
  BY EvalAssumption DEF Inv, CoreInv, Kind
<1>1. slot \in {H!NoCause, H!Timer}
  BY DEF Inv, EdgeInv, Idle, Running, Raised, Delivered
<1>2. ASSUME slot = H!Timer
      PROVE  /\ platform \notin Stubs /\ backend = "riscv_tlm"
             /\ Delivered /\ pc = StartAt + 1 /\ Unheard
  BY <1>2 DEF Inv, EdgeInv, Idle, Running, Raised, Delivered, H!NoCause, H!Timer
<1>3. ASSUME slot = H!Timer PROVE H!Takeable # {}
  <2>1. gie /\ mie = {H!Timer}
    BY <1>2, <1>3 DEF Inv, CoreInv, Unheard, StartAt
  <2> QED
    BY <1>2, <1>3, <2>1 DEF H!Takeable, H!Pending, H!NoCause, H!Timer
<1>4. ASSUME slot = H!NoCause PROVE H!Takeable = {}
  <2>1. mip = {}
    BY DEF Inv, CoreInv
  <2>2. H!Pending = {}
    BY <2>1, <1>4 DEF H!Pending
  <2> QED
    BY <2>2 DEF H!Takeable
<1> QED
  BY <1>0, <1>1, <1>2, <1>3, <1>4

\* What every statement of the program does.
LEMMA StepFacts ==
    ASSUME Inv, NEW s, Step(s)
    PROVE  /\ ~trap /\ slot = H!NoCause
           /\ Code[platform][pc] = s /\ pc' = pc + 1
           /\ UNCHANGED <<platform, backend, mip, slot, lost, now, line, trap, fired>>
BY TrapOnlyWhenInjected DEF Step, Statement, world, inputs

\* The greeting and the report.
LEMMA WriteUartInv == ASSUME Inv, WriteUart PROVE Inv'
<1>0. platform \in Kind
  BY TrapOnlyWhenInjected
<1>1. CASE Step("hello") /\ Write(UartPage, "hello") /\ UNCHANGED <<csrs, woken, heard>>
  <2>1. /\ pc = 1 /\ pc' = 2 /\ output' = Append(output, "hello")
        /\ UNCHANGED <<platform, backend, mip, slot, lost, now, line, trap, fired, mie,
                       gie, woken, heard>>
        /\ UNCHANGED <<ram, deadline, regs, driven, started>>
    BY <1>0, <1>1, StepFacts, Statements, WriteEffects DEF csrs, Inv, CoreInv
  <2>2. CoreInv'
    <3>1. FlagsInv'
      BY <2>1, Zenon DEF Inv, CoreInv, FlagsInv
    <3> QED
      BY <2>1, <3>1 DEF Inv, CoreInv, StartAt
  <2>3. DataInv'
    BY <2>1 DEF Inv, DataInv
  <2>4. Idle
    BY <2>1 DEF Inv, EdgeInv, StartAt
  <2>5. OutputInv'
    BY <2>1, <2>4, Lines DEF Inv, OutputInv, StartAt, Idle, Unheard
  <2>6. EdgeInv'
    BY <2>1, <2>4 DEF EdgeInv, Idle, Unheard, StartAt, H!NoCause, Never
  <2> QED
    BY <2>2, <2>3, <2>5, <2>6 DEF Inv
<1>2. CASE Step("report") /\ Write(UartPage, IF platform \in Stubs THEN "irq" ELSE "done")
           /\ UNCHANGED <<csrs, woken, heard>>
  <2>1. /\ pc = StartAt + 2 /\ pc' = pc + 1 /\ ~trap
        /\ output' = Append(output, IF platform \in Stubs THEN "irq" ELSE "done")
        /\ UNCHANGED <<platform, backend, mip, slot, lost, now, line, trap, fired, mie,
                       gie, woken, heard>>
        /\ UNCHANGED <<ram, deadline, regs, driven, started>>
    BY <1>0, <1>2, StepFacts, Statements, WriteEffects DEF csrs, Inv, CoreInv
  <2>2. CoreInv'
    <3>1. FlagsInv'
      BY <2>1, Zenon DEF Inv, CoreInv, FlagsInv
    <3> QED
      BY <2>1, <3>1 DEF Inv, CoreInv, StartAt
  <2>3. DataInv'
    BY <2>1 DEF Inv, DataInv, StartAt
  <2>4. Delivered /\ (platform \notin Stubs => fired)
    BY <2>1 DEF Inv, EdgeInv, StartAt, Idle, Running, Raised, Delivered
  <2>5. OutputInv'
    BY <2>1, <2>4, Lines DEF Inv, OutputInv, StartAt
  <2>6. EdgeInv'
    BY <2>1, <2>4 DEF Inv, CoreInv, EdgeInv, Idle, Delivered, Due, Latency, Unheard,
      StartAt, H!NoCause, Never
  <2> QED
    BY <2>2, <2>3, <2>5, <2>6 DEF Inv
<1> QED
  BY <1>1, <1>2 DEF WriteUart

\* The RAM test of the stubs.
LEMMA TestRamInv == ASSUME Inv, TestRam PROVE Inv'
<1>0. platform \in Kind
  BY TrapOnlyWhenInjected
<1>1. /\ pc \in {2, 3} /\ pc' = pc + 1 /\ platform \in Stubs
      /\ ram' \in {"zero", "pattern"}
      /\ UNCHANGED <<platform, backend, mip, slot, lost, now, line, trap, fired, mie, gie,
                     woken, heard>>
      /\ UNCHANGED <<output, deadline, regs, driven, started>>
  <2>1. CASE Step("store") /\ Write(RamPage, "pattern")
    BY <1>0, <2>1, StepFacts, Statements, WriteEffects DEF TestRam, csrs, Inv, CoreInv
  <2>2. CASE Step("load") /\ UNCHANGED <<output, ram, device>>
    BY <1>0, <2>2, StepFacts, Statements DEF TestRam, csrs, device, Inv, CoreInv, DataInv
  <2> QED
    BY <2>1, <2>2 DEF TestRam
<1>2. CoreInv'
  <2>1. FlagsInv'
    BY <1>1, Zenon DEF Inv, CoreInv, FlagsInv
  <2> QED
    BY <1>1, <2>1 DEF Inv, CoreInv, StartAt
<1>3. DataInv'
  BY <1>1 DEF Inv, DataInv
<1>4. Idle
  BY <1>1 DEF Inv, EdgeInv, StartAt
<1>5. OutputInv'
  BY <1>1, <1>4 DEF Inv, OutputInv, StartAt
<1>6. EdgeInv'
  BY <1>1, <1>4 DEF EdgeInv, Idle, Unheard, StartAt, H!NoCause, Never
<1> QED
  BY <1>2, <1>3, <1>5, <1>6 DEF Inv

\* Starting the device: the timer runs, or the transfer of the I2C
\* controller completes in the write, so that its line is driven before the
\* stub waits for the edge.
LEMMA StartDeviceInv == ASSUME Inv, StartDevice PROVE Inv'
<1>0. platform \in Kind
  BY TrapOnlyWhenInjected
<1>1. CASE Step("start") /\ Write(DevicePage, "CONTROL") /\ UNCHANGED <<csrs, woken, heard>>
  <2>1. /\ pc = 4 /\ pc' = 5 /\ StartAt = 4 /\ platform # "mini_soc"
        /\ UNCHANGED <<platform, backend, mip, slot, lost, now, line, trap, fired, mie,
                       gie, woken, heard>>
        /\ UNCHANGED <<output, ram, regs, driven>>
        /\ deadline' = now + Interval /\ started' = now
    <3>1. /\ pc = 4 /\ pc' = pc + 1 /\ platform # "mini_soc"
          /\ UNCHANGED <<platform, backend, mip, slot, lost, now, line, trap, fired>>
      BY <1>0, <1>1, StepFacts, Statements DEF Inv, CoreInv
    <3>2. UNCHANGED <<output, ram>> /\ StartTimer
      BY <1>0, <1>1, <3>1, WriteEffects
    <3> QED
      BY <1>1, <3>1, <3>2 DEF csrs, StartAt, StartTimer
  <2>2. CoreInv'
    <3>1. FlagsInv'
      BY <2>1, Zenon DEF Inv, CoreInv, FlagsInv
    <3> QED
      BY <2>1, <3>1 DEF Inv, CoreInv, StartAt
  <2>3. DataInv'
    BY <2>1 DEF Inv, DataInv
  <2>4. Idle
    BY <2>1 DEF Inv, EdgeInv
  <2>5. OutputInv'
    BY <2>1, <2>4 DEF Inv, OutputInv, StartAt
  <2>6. Running'
    BY <2>1, <2>4, EvalAssumption DEF Inv, CoreInv, Idle, Running, Unheard, StartAt,
      H!NoCause, Never
  <2>7. EdgeInv'
    BY <2>1, <2>4, <2>6 DEF Inv, CoreInv, EdgeInv, Idle, StartAt
  <2> QED
    BY <2>2, <2>3, <2>5, <2>7 DEF Inv
<1>2. ASSUME NEW reg \in {"IIER", "IER", "ICTLR"}, Step(reg), Write(DevicePage, reg),
             UNCHANGED <<csrs, woken, heard>>
      PROVE  Inv'
  <2>1. /\ pc \in {4, 5, 6} /\ pc' = pc + 1 /\ platform = "mini_soc" /\ StartAt = 6
        /\ (pc = 4 <=> reg = "IIER") /\ (pc = 5 <=> reg = "IER")
        /\ (pc = 6 <=> reg = "ICTLR")
        /\ UNCHANGED <<platform, backend, mip, slot, lost, now, line, trap, fired, mie,
                       gie, woken, heard>>
        /\ UNCHANGED <<output, ram, deadline>>
        /\ WriteI2c(reg)
    BY <1>0, <1>2, StepFacts, Statements, WriteEffects DEF csrs, Inv, CoreInv, StartAt,
      WriteI2c
  <2>2. Idle
    BY <2>1 DEF Inv, EdgeInv
  <2>3. /\ regs' = regs \cup {reg}
        /\ pc < 6 => UNCHANGED <<driven, started>>
        /\ pc = 6 => driven' = TRUE /\ started' = now
    <3>1. driven = FALSE
      BY <2>2, Zenon DEF Inv, CoreInv, FlagsInv, Idle
    <3>2. CASE pc < 6
      <4>1. reg # "ICTLR" /\ ~(pc = 6)
        BY <2>1, <3>2
      <4> QED
        BY <2>1, <3>1, <4>1, Zenon DEF WriteI2c
    <3>3. CASE pc = 6
      <4>1. reg = "ICTLR" /\ {"IIER", "IER"} \subseteq regs /\ ~(pc < 6)
        BY <2>1, <3>3 DEF Inv, DataInv
      <4> QED
        BY <2>1, <4>1, Zenon DEF WriteI2c
    <3>4. pc < 6 \/ pc = 6
      BY <2>1
    <3> QED
      BY <3>2, <3>3, <3>4, Zenon
  <2>4. CoreInv'
    <3>1. FlagsInv'
      <4>1. driven' = driven \/ driven' = TRUE
        <5>1. pc < 6 \/ pc = 6
          BY <2>1
        <5> QED
          BY <2>3, <5>1, Zenon
      <4> QED
        BY <2>1, <4>1, Zenon DEF Inv, CoreInv, FlagsInv
    <3> QED
      BY <2>1, <2>3, <3>1 DEF Inv, CoreInv, StartAt, Stubs
  <2>5. DataInv'
    BY <2>1, <2>3 DEF Inv, DataInv
  <2>6. OutputInv'
    BY <2>1, <2>2 DEF Inv, OutputInv, StartAt
  <2>7. EdgeInv'
    BY <2>1, <2>2, <2>3 DEF Inv, CoreInv, EdgeInv, Idle, Raised, Due, Latency, Unheard,
      StartAt, H!NoCause, Never
  <2> QED
    BY <2>4, <2>5, <2>6, <2>7 DEF Inv
<1> QED
  BY <1>1, <1>2 DEF StartDevice

\* A stub consumes the edge in the instant of the edge.
LEMMA StubResumeInv == ASSUME Inv, StubResume PROVE Inv'
<1>0. platform \in Kind
  BY TrapOnlyWhenInjected
<1>1. /\ pc = StartAt + 1 /\ pc' = pc + 1 /\ platform \in Stubs /\ slot = H!NoCause
      /\ woken /\ woken' = FALSE /\ heard' = now
      /\ UNCHANGED <<platform, backend, mip, slot, lost, now, line, trap, fired, mie, gie>>
      /\ UNCHANGED <<output, ram, deadline, regs, driven, started>>
  BY <1>0, StepFacts, Statements DEF StubResume, csrs, device, Inv, CoreInv
<1>2. CoreInv'
  <2>1. FlagsInv'
    BY <1>1, Zenon DEF Inv, CoreInv, FlagsInv
  <2> QED
    BY <1>1, <2>1 DEF Inv, CoreInv, StartAt
<1>3. DataInv'
  BY <1>1 DEF Inv, DataInv, StartAt
<1>4. Raised /\ line
  BY <1>1 DEF Inv, EdgeInv, StartAt, Idle, Running, Raised, Delivered
<1>5. OutputInv'
  BY <1>1, <1>4 DEF Inv, OutputInv, StartAt
<1>6. EdgeInv'
  BY <1>1, <1>4 DEF Inv, CoreInv, EdgeInv, Idle, Raised, Delivered, Due, Latency, Unheard,
    StartAt, H!NoCause, Never
<1> QED
  BY <1>2, <1>3, <1>5, <1>6 DEF Inv

\* main enables interrupts before the timer is started: none is pending.
LEMMA EnableInterruptsInv == ASSUME Inv, EnableInterrupts PROVE Inv'
<1>0. platform \in Kind
  BY TrapOnlyWhenInjected
<1>1. /\ pc \in {2, 3} /\ pc' = pc + 1 /\ platform \notin Stubs /\ ~trap
      /\ pc = 2 => mie' = {H!Timer} /\ gie' = gie
      /\ pc = 3 => gie' = TRUE /\ mie' = mie
      /\ UNCHANGED <<platform, backend, mip, slot, lost, now, line, trap, fired, woken,
                     heard>>
      /\ UNCHANGED <<output, ram, deadline, regs, driven, started>>
  <2>1. CASE Step("mie") /\ mie' = {H!Timer} /\ UNCHANGED gie
    BY <1>0, <2>1, StepFacts, Statements DEF EnableInterrupts, device, Inv, CoreInv
  <2>2. CASE Step("mstatus") /\ gie' = TRUE /\ UNCHANGED mie
    BY <1>0, <2>2, StepFacts, Statements DEF EnableInterrupts, device, Inv, CoreInv
  <2> QED
    BY <2>1, <2>2 DEF EnableInterrupts
<1>2. CoreInv'
  <2>1. FlagsInv'
    BY <1>1, Zenon DEF Inv, CoreInv, FlagsInv
  <2> QED
    BY <1>1, <2>1 DEF Inv, CoreInv, StartAt
<1>3. DataInv'
  BY <1>1 DEF Inv, DataInv, Stubs
<1>4. Idle
  BY <1>1 DEF Inv, EdgeInv, StartAt
<1>5. OutputInv'
  BY <1>1, <1>4 DEF Inv, OutputInv, StartAt
<1>6. EdgeInv'
  BY <1>1, <1>4 DEF EdgeInv, Idle, Unheard, StartAt, H!NoCause, Never
<1> QED
  BY <1>2, <1>3, <1>5, <1>6 DEF Inv

\* main leaves its loop only after the handler.
LEMMA SpinInv == ASSUME Inv, Spin PROVE Inv'
<1>0. platform \in Kind
  BY TrapOnlyWhenInjected
<1>1. /\ pc = StartAt + 1 /\ pc' = pc + 1 /\ platform \notin Stubs /\ ~trap /\ fired
      /\ UNCHANGED <<platform, backend, mip, slot, lost, now, line, trap, fired, mie, gie,
                     woken, heard>>
      /\ UNCHANGED <<output, ram, deadline, regs, driven, started>>
  BY <1>0, StepFacts, Statements DEF Spin, csrs, device, Inv, CoreInv
<1>2. CoreInv'
  <2>1. FlagsInv'
    BY <1>1, Zenon DEF Inv, CoreInv, FlagsInv
  <2> QED
    BY <1>1, <2>1 DEF Inv, CoreInv, StartAt
<1>3. DataInv'
  BY <1>1 DEF Inv, DataInv, StartAt, Stubs
<1>4. Delivered
  BY <1>1 DEF Inv, EdgeInv, StartAt, Idle, Running, Raised, Unheard
<1>5. OutputInv'
  BY <1>1 DEF Inv, OutputInv, StartAt
<1>6. EdgeInv'
  BY <1>1, <1>4 DEF Inv, CoreInv, EdgeInv, Idle, Delivered, Due, Latency, Unheard, StartAt,
    H!NoCause, Never
<1> QED
  BY <1>2, <1>3, <1>5, <1>6 DEF Inv

\* The trap: the core gives up the injected cause.
LEMMA TakeTrapInv == ASSUME Inv, TakeTrap PROVE Inv'
<1>1. /\ slot = H!Timer /\ platform \notin Stubs /\ backend = "riscv_tlm"
      /\ Delivered /\ pc = StartAt + 1 /\ Unheard
      /\ trap' = TRUE /\ gie' = FALSE /\ slot' = H!NoCause /\ heard' = now
      /\ UNCHANGED <<platform, backend, mip, lost, mie, now, line, woken, ram, pc, fired,
                     output>>
      /\ UNCHANGED <<deadline, regs, driven, started>>
  BY TrapOnlyWhenInjected DEF TakeTrap, Unheard, H!EnterTrap, world, device
<1>2. CoreInv'
  <2>1. FlagsInv'
    BY <1>1, Zenon DEF Inv, CoreInv, FlagsInv
  <2>2. gie' <=> (pc' > 3 /\ ~trap')
    BY <1>1, Zenon
  <2> QED
    BY <1>1, <2>1, <2>2 DEF Inv, CoreInv, StartAt
<1>3. DataInv'
  BY <1>1 DEF Inv, DataInv
<1>4. OutputInv'
  BY <1>1 DEF Inv, OutputInv, StartAt
<1>5. EdgeInv'
  BY <1>1 DEF Inv, CoreInv, EdgeInv, Idle, Delivered, Due, Latency, Unheard, StartAt,
    Stubs, H!NoCause, H!Timer, Never
<1> QED
  BY <1>2, <1>3, <1>4, <1>5 DEF Inv

\* The handler leaves the line high, and nothing injects the cause again.
LEMMA TrapHandlerInv == ASSUME Inv, TrapHandler PROVE Inv'
<1>0. platform \in Kind
  BY TrapOnlyWhenInjected
<1>1. /\ trap /\ trap' = FALSE /\ fired' = TRUE /\ gie' = TRUE
      /\ output' = Append(output, "irq")
      /\ UNCHANGED <<platform, backend, mip, slot, lost, mie, now, line, woken, pc, heard>>
      /\ UNCHANGED <<ram, deadline, regs, driven, started>>
  BY <1>0, WriteEffects DEF TrapHandler, H!Mret, world, inputs
<1>2. Delivered /\ pc = StartAt + 1 /\ ~fired /\ platform \notin Stubs
  <2>1. platform \notin Stubs
    BY <1>1 DEF Inv, CoreInv
  <2>2. Delivered /\ pc > StartAt
    BY <1>1 DEF Inv, EdgeInv, Idle, Running, Raised, Unheard
  <2>3. ~fired /\ ~(pc > StartAt + 1)
    BY <1>1, <2>1, <2>2 DEF Delivered, Unheard
  <2>4. pc = StartAt + 1
    BY <2>2, <2>3 DEF Inv, CoreInv, StartAt
  <2> QED
    BY <2>1, <2>2, <2>3, <2>4
<1>3. CoreInv'
  <2>1. FlagsInv'
    BY <1>1, Zenon DEF Inv, CoreInv, FlagsInv
  <2> QED
    BY <1>1, <1>2, <2>1 DEF Inv, CoreInv, StartAt
<1>4. DataInv'
  BY <1>1 DEF Inv, DataInv
<1>5. OutputInv'
  BY <1>1, <1>2, Lines DEF Inv, OutputInv, StartAt
<1>6. EdgeInv'
  BY <1>1, <1>2 DEF Inv, CoreInv, EdgeInv, Idle, Delivered, Due, Latency, Unheard, StartAt,
    Stubs, H!NoCause, H!Timer, Never
<1> QED
  BY <1>3, <1>4, <1>5, <1>6 DEF Inv

\* The timer drives its line when its interval is over.
LEMMA TimerFiresInv == ASSUME Inv, TimerFires PROVE Inv'
<1>1. /\ deadline = now /\ deadline' = Never /\ driven' = TRUE
      /\ UNCHANGED <<platform, backend, mie, gie, ram, pc, trap, fired, output, heard>>
      /\ UNCHANGED <<mip, slot, lost, now, regs, started, line, woken>>
  BY DEF TimerFires, program, world, csrs, inputs
<1>2. Running
  BY <1>1, EvalAssumption DEF Inv, CoreInv, EdgeInv, Idle, Raised, Delivered, Never
<1>3. CoreInv'
  <2>1. FlagsInv'
    BY <1>1, Zenon DEF Inv, CoreInv, FlagsInv
  <2> QED
    BY <1>1, <2>1 DEF Inv, CoreInv, StartAt
<1>4. DataInv' /\ OutputInv'
  BY <1>1 DEF Inv, DataInv, OutputInv, StartAt
<1>5. EdgeInv'
  BY <1>1, <1>2 DEF Inv, CoreInv, EdgeInv, Idle, Running, Raised, Due, Latency, Unheard,
    StartAt, H!NoCause, Never
<1> QED
  BY <1>3, <1>4, <1>5 DEF Inv

\* The rising edge makes the waiting process runnable, once.
LEMMA UpdatePhaseInv == ASSUME Inv, UpdatePhase PROVE Inv'
<1>1. /\ line # driven /\ line' = driven /\ woken' = (woken \/ driven)
      /\ UNCHANGED <<platform, backend, mie, gie, ram, pc, trap, fired, output, heard>>
      /\ UNCHANGED <<mip, slot, lost, now, deadline, regs, driven, started>>
  BY DEF UpdatePhase, program, world, csrs, inputs, device
<1>2. Raised /\ ~line
  BY <1>1, Zenon DEF Inv, CoreInv, FlagsInv, EdgeInv, Idle, Running, Raised, Delivered
<1>3. line' = TRUE /\ woken' = TRUE /\ driven' = TRUE
  BY <1>1, <1>2, Zenon DEF Inv, CoreInv, FlagsInv, Raised
<1>4. CoreInv'
  <2>1. FlagsInv'
    BY <1>1, <1>3, Zenon DEF Inv, CoreInv, FlagsInv
  <2> QED
    BY <1>1, <2>1 DEF Inv, CoreInv, StartAt
<1>5. DataInv' /\ OutputInv'
  BY <1>1 DEF Inv, DataInv, OutputInv, StartAt
<1>6. EdgeInv'
  BY <1>1, <1>2, <1>3 DEF Inv, CoreInv, EdgeInv, Idle, Raised, Due, Latency, Unheard,
    StartAt, H!NoCause, Never
<1> QED
  BY <1>4, <1>5, <1>6 DEF Inv

\* The bridge raises the machine timer interrupt, which riscv_vp ignores.
LEMMA OnTimerIrqInv == ASSUME Inv, OnTimerIrq PROVE Inv'
<1>1. /\ platform \notin Stubs /\ woken /\ woken' = FALSE
      /\ H!RaiseIrq(7)
      /\ UNCHANGED <<platform, backend, mie, gie, ram, pc, trap, fired, output, heard>>
      /\ UNCHANGED <<now, deadline, regs, driven, started, line>>
  BY DEF OnTimerIrq, CauseMachineTimer, program, world, csrs, device, Stubs
<1>2. Raised /\ line /\ slot = H!NoCause
  BY <1>1 DEF Inv, EdgeInv, Idle, Running, Raised, Delivered
<1>3. /\ mip' = mip /\ lost' = lost
      /\ slot' = IF backend = "riscv_tlm" THEN H!Timer ELSE H!NoCause
  BY <1>1, <1>2 DEF H!RaiseIrq, H!Inject, H!inputs, H!Timer
<1>4. CoreInv'
  <2>1. FlagsInv'
    BY <1>1, Zenon DEF Inv, CoreInv, FlagsInv
  <2> QED
    BY <1>1, <1>3, <2>1 DEF Inv, CoreInv, StartAt
<1>5. DataInv' /\ OutputInv'
  BY <1>1 DEF Inv, DataInv, OutputInv, StartAt
<1>6. EdgeInv'
  BY <1>1, <1>2, <1>3 DEF Inv, CoreInv, EdgeInv, Idle, Raised, Delivered, Due, Latency,
    Unheard, StartAt, H!NoCause, H!Timer, Never
<1> QED
  BY <1>4, <1>5, <1>6 DEF Inv

\* Time never passes while the edge is on its way.
LEMMA AdvanceTimeInv == ASSUME Inv, AdvanceTime PROVE Inv'
<1>1. /\ ~Busy /\ ~woken /\ line = driven /\ deadline # now /\ now < MaxNow
      /\ now' = now + 1
      /\ platform \in Stubs => deadline # Never
      /\ platform \notin Stubs => started # Never \/ now < SetupTime
      /\ UNCHANGED <<platform, backend, mie, gie, ram, pc, trap, fired, output, heard>>
      /\ UNCHANGED <<mip, slot, lost, deadline, regs, driven, started, line, woken>>
  BY DEF AdvanceTime, program, world, csrs, inputs, device
<1>2. CoreInv'
  <2>1. FlagsInv'
    BY <1>1, Zenon DEF Inv, CoreInv, FlagsInv
  <2> QED
    BY <1>1, <2>1, EvalAssumption DEF Inv, CoreInv, StartAt
<1>3. DataInv' /\ OutputInv'
  BY <1>1 DEF Inv, DataInv, OutputInv, StartAt
<1>4. CASE Idle
  <2>1. platform \notin Stubs /\ started = Never
    BY <1>1, <1>4 DEF Idle
  <2> QED
    BY <1>1, <1>2, <1>3, <1>4, <2>1, EvalAssumption DEF Inv, CoreInv, EdgeInv, Idle,
      Unheard, StartAt, H!NoCause, Never
<1>5. CASE Running /\ ~Idle
  BY <1>1, <1>2, <1>3, <1>5 DEF Inv, CoreInv, EdgeInv, Running, Unheard, StartAt,
    H!NoCause, Never
<1>6. CASE Delivered /\ ~Idle
  <2>1. platform \notin Stubs
    BY <1>1, <1>6 DEF Delivered
  <2>2. pc > StartAt /\ started \in 0 .. now /\ started <= SetupTime
    BY <1>6 DEF Inv, EdgeInv
  <2>3. Delivered'
    BY <1>1, <1>6, <2>1, <2>2, EvalAssumption DEF Inv, CoreInv, Delivered, Due, Latency,
      Unheard, StartAt, H!NoCause, H!Timer, Never
  <2>4. EdgeInv'
    BY <1>1, <2>2, <2>3 DEF Inv, CoreInv, EdgeInv, StartAt
  <2> QED
    BY <1>2, <1>3, <2>4 DEF Inv
<1>7. ~Raised
  BY <1>1 DEF Raised
<1> QED
  BY <1>4, <1>5, <1>6, <1>7 DEF Inv, EdgeInv

\* Every step preserves the invariant.
LEMMA InvPreserved == Inv /\ [Next]_vars => Inv'
<1> SUFFICES ASSUME Inv, [Next]_vars PROVE Inv'
  OBVIOUS
<1>1. CASE Program
  BY <1>1, WriteUartInv, TestRamInv, StartDeviceInv, StubResumeInv, EnableInterruptsInv,
     SpinInv, TakeTrapInv, TrapHandlerInv DEF Program
<1>2. CASE Kernel
  BY <1>2, TimerFiresInv, UpdatePhaseInv, OnTimerIrqInv, AdvanceTimeInv DEF Kernel
<1>3. CASE UNCHANGED vars
  <2>1. /\ UNCHANGED <<platform, backend, mip, slot, lost, mie, gie, now, deadline, regs,
                       driven>>
        /\ UNCHANGED <<started, line, woken, ram, pc, trap, fired, output, heard>>
    BY <1>3 DEF vars, world, inputs, csrs, device
  <2>2. CoreInv' /\ DataInv' /\ OutputInv'
    BY <2>1 DEF Inv, CoreInv, FlagsInv, DataInv, OutputInv, StartAt
  <2>3. EdgeInv'
    BY <2>1 DEF Inv, EdgeInv, Idle, Running, Raised, Delivered, Due, Latency, Unheard,
      StartAt, Never
  <2> QED
    BY <2>2, <2>3 DEF Inv
<1> QED
  BY <1>1, <1>2, <1>3 DEF Next

\* The invariant holds in every state of a run.
LEMMA Invariance == SafetySpec => []Inv
  BY InitInv, InvPreserved, PTL DEF SafetySpec

-----------------------------------------------------------------------------
(* The properties *)

\* Type correctness: the programs stay within their text, and the deadline of
\* a running timer is never in the past.
THEOREM TypeCorrect == SafetySpec => []TypeOK
<1>1. Inv => TypeOK
  <2> SUFFICES ASSUME Inv PROVE TypeOK
    OBVIOUS
  <2>0. platform \in Kind /\ slot \in {H!NoCause, H!Timer}
    BY TrapOnlyWhenInjected
  <2>1. H!TypeOK
    <3>1. gie \in BOOLEAN
      BY DEF Inv, CoreInv, FlagsInv
    <3> QED
      BY <2>0, <3>1 DEF Inv, CoreInv, H!TypeOK, H!Cause, H!Timer
  <2>2. {driven, line, woken, trap, fired} \subseteq BOOLEAN
    BY DEF Inv, CoreInv, FlagsInv
  <2>3. pc \in 1 .. Len(Code[platform])
    BY <2>0, Statements DEF Inv, CoreInv
  <2>4. deadline \in now .. Never
    BY EvalAssumption DEF Inv, CoreInv, EdgeInv, Idle, Running, Raised, Delivered, Never
  <2>5. started \in 0 .. Never
    BY EvalAssumption DEF Inv, CoreInv, EdgeInv, Idle, Never
  <2>6. heard \in 0 .. Never
    BY <2>5, EvalAssumption DEF Inv, CoreInv, EdgeInv, Idle, Running, Raised, Delivered,
      Unheard, Due, Latency, Never
  <2> QED
    BY <2>1, <2>2, <2>3, <2>4, <2>5, <2>6 DEF TypeOK, Inv, CoreInv, DataInv
<1> QED
  BY <1>1, Invariance, PTL

\* The lines tests/system looks for come in order and each at most once, on
\* every platform and backend.
THEOREM OutputOrdered == SafetySpec => []OutputInOrder
<1>1. Inv => OutputInOrder
  <2> SUFFICES ASSUME Inv PROVE IsPrefix(output, Expected)
    BY DEF OutputInOrder
  <2>1. platform \notin Stubs => backend \in {"riscv_vp", "riscv_tlm"}
    BY DEF Inv, CoreInv
  <2>2. platform \notin Stubs /\ (fired \/ pc > StartAt + 2) => backend = "riscv_tlm"
    BY DEF Inv, CoreInv, EdgeInv, Idle, Running, Raised, Delivered, Unheard, StartAt
  <2> QED
    BY <2>1, <2>2, OutputPrefixes DEF Inv, OutputInv, Expected
<1> QED
  BY <1>1, Invariance, PTL

\* A stub hears of the interrupt exactly the device's latency after starting
\* it, firmware no earlier.
THEOREM InterruptOnTime == SafetySpec => []FiredOnTime
<1>1. Inv => FiredOnTime
  <2> SUFFICES ASSUME Inv, heard # Never
      PROVE /\ started # Never
            /\ heard >= started + Latency
            /\ platform \in Stubs => heard = started + Latency
    BY DEF FiredOnTime
  <2>1. Delivered /\ started \in 0 .. now
    BY DEF Inv, EdgeInv, Idle, Running, Raised, Unheard
  <2> QED
    BY <2>1, EvalAssumption DEF Inv, CoreInv, Delivered, Unheard, Latency, Stubs, Never
<1> QED
  BY <1>1, Invariance, PTL

=============================================================================
