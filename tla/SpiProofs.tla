----------------------------- MODULE SpiProofs ------------------------------
(***************************************************************************)
(* Proofs about the SPI controller for FIFOs of any size and any frames:   *)
(* types, the status register, the interrupt pin, resets and the frame     *)
(* link that the two FIFOs and the shift register implement.               *)
(***************************************************************************)
EXTENDS Spi, SequenceTheorems, TLAPS

-----------------------------------------------------------------------------
(* FIFOs *)

\* What FifoOK says of the fields.
LEMMA FifoFacts ==
    ASSUME NEW f, FifoOK(f)
    PROVE  /\ f.ready \in Seq(Frames) /\ f.written \in Seq(Frames)
           /\ Len(f.ready) \in Nat /\ Len(f.written) \in Nat /\ f.freed \in Nat
           /\ Len(f.ready) + Len(f.written) + f.freed <= FifoSize
           /\ FifoSize \in Nat
  BY SpiAssumption DEF FifoOK

\* Every operation of sc_fifo that its users call keeps the FIFO within its
\* size; nb_write is called with room and nb_read with an entry.
LEMMA FifoOperations ==
    /\ FifoOK(Empty)
    /\ \A f : FifoOK(f) =>
        /\ \A frame \in Frames : NumFree(f) # 0 => FifoOK(Put(f, frame))
        /\ NumAvailable(f) # 0 => FifoOK(Get(f))
        /\ FifoOK(Drain(f))
        /\ FifoOK(Updated(f))
<1>1. FifoOK(Empty)
  BY SpiAssumption DEF FifoOK, Empty
<1>2. ASSUME NEW f, FifoOK(f), NEW frame \in Frames, NumFree(f) # 0
      PROVE  FifoOK(Put(f, frame))
  <2>1. /\ Append(f.written, frame) \in Seq(Frames)
        /\ Len(Append(f.written, frame)) = Len(f.written) + 1
    BY <1>2 DEF FifoOK
  <2> QED
    BY <1>2, <2>1, SpiAssumption DEF FifoOK, NumFree, Put
<1>3. ASSUME NEW f, FifoOK(f), NumAvailable(f) # 0 PROVE FifoOK(Get(f))
  <2>1. Tail(f.ready) \in Seq(Frames) /\ Len(Tail(f.ready)) = Len(f.ready) - 1
    BY <1>3 DEF FifoOK, NumAvailable
  <2> QED
    BY <1>3, <2>1, SpiAssumption DEF FifoOK, NumAvailable, Get
<1>4. ASSUME NEW f, FifoOK(f) PROVE FifoOK(Drain(f))
  BY <1>4, SpiAssumption DEF FifoOK, Drain
<1>5. ASSUME NEW f, FifoOK(f) PROVE FifoOK(Updated(f))
  <2>1. /\ f.ready \o f.written \in Seq(Frames)
        /\ Len(f.ready \o f.written) = Len(f.ready) + Len(f.written)
    BY <1>5 DEF FifoOK
  <2> QED
    BY <1>5, <2>1, SpiAssumption DEF FifoOK, Updated
<1> QED
  BY <1>1, <1>2, <1>3, <1>4, <1>5

-----------------------------------------------------------------------------
(* Types *)

\* Type correctness: neither FIFO overflows, whichever accesses, shifts,
\* methods and resets fall into one delta cycle.
THEOREM TypeCorrect == SafetySpec => []TypeOK
<1>1. Init => TypeOK
  <2> SUFFICES ASSUME Init PROVE TypeOK
    OBVIOUS
  <2>1. FifoOK(tx) /\ FifoOK(rx)
    BY FifoOperations DEF Init
  <2>2. flight \in Seq(Frames) /\ Len(flight) = 0 /\ loc = "start"
    BY DEF Init
  <2>3. accesses \in 0 .. MaxAccess
    BY SpiAssumption DEF Init
  <2>4. runnable \subseteq Process /\ notified \subseteq Event
    BY DEF Init, Process, Event
  <2>5. imsc \subseteq Interrupt /\ ris \subseteq Interrupt /\ mis \subseteq Interrupt /\ sr \subseteq StatusBit
    BY DEF Init
  <2>6. /\ sse \in BOOLEAN /\ transmitting \in BOOLEAN /\ written \in BOOLEAN /\ intr \in BOOLEAN
        /\ resetSr \in {"no", "now", "later"}
    BY DEF Init
  <2> QED
    BY <2>1, <2>2, <2>3, <2>4, <2>5, <2>6 DEF TypeOK
<1>2. TypeOK /\ [Next]_vars => TypeOK'
  <2> SUFFICES ASSUME TypeOK, [Next]_vars PROVE TypeOK'
    OBVIOUS
  <2>1. ASSUME Access PROVE accesses' \in 0 .. MaxAccess
    BY <2>1, SpiAssumption DEF Access, TypeOK
  <2>2. \A t, r, busy : StatusOf(t, r, busy) \subseteq StatusBit /\ LevelsOf(t, r) \subseteq Interrupt
    BY DEF StatusOf, LevelsOf, Interrupt
  <2>3. ASSUME NEW on \in BOOLEAN, WriteCr1(on) PROVE TypeOK'
    BY <2>1, <2>3 DEF WriteCr1, TypeOK, outs, Event
  <2>4. ASSUME NEW frame \in Frames, WriteDr(frame) PROVE TypeOK'
    <3>1. FifoOK(tx')
      BY <2>4, FifoOperations DEF WriteDr, TxHasRoom, TypeOK
    <3>2. sr' \subseteq StatusBit /\ resetSr' \in {"no", "now", "later"}
      BY <2>2, <2>4 DEF WriteDr, SrComputed, TypeOK
    <3> QED
      BY <2>1, <2>4, <3>1, <3>2 DEF WriteDr, TypeOK, outs, regs, Event
  <2>5. ASSUME NEW mask \in MaskValues, WriteImsc(mask) PROVE TypeOK'
    BY <2>1, <2>5, SpiAssumption DEF WriteImsc, TypeOK, outs, Event
  <2>6. ASSUME NEW bits \in SUBSET {"ROR", "RT"}, WriteIcr(bits) PROVE TypeOK'
    BY <2>1, <2>6 DEF WriteIcr, TypeOK, outs, Event
  <2>7. CASE ReadDr
    <3>1. FifoOK(rx')
      BY <2>7, FifoOperations DEF ReadDr, TypeOK
    <3>2. ris' \subseteq Interrupt /\ notified' \subseteq Event
      BY <2>7 DEF ReadDr, TypeOK, Interrupt, Event
    <3> QED
      BY <2>1, <2>7, <3>1, <3>2 DEF ReadDr, TypeOK, outs
  <2>8. CASE StoreFrame
    <3>1. flight[1] \in Frames
      BY <2>8 DEF StoreFrame, TypeOK
    <3>2. FifoOK(rx')
      BY <2>8, <3>1, FifoOperations DEF StoreFrame, TypeOK
    <3>3. ris' \subseteq Interrupt /\ runnable' \subseteq Process
      BY <2>8 DEF StoreFrame, TypeOK, Interrupt
    <3>4. flight' \in Seq(Frames) /\ Len(flight') = 0 /\ loc' = "stored"
      BY <2>8 DEF StoreFrame
    <3> QED
      BY <2>8, <3>2, <3>3, <3>4 DEF StoreFrame, TypeOK, outs
  <2>9. CASE NextFrame
    <3> DEFINE starts == NumAvailable(tx) # 0 /\ sse
    <3>1. FifoOK(tx')
      BY <2>9, FifoOperations DEF NextFrame, TypeOK
    <3>2. /\ flight' \in Seq(Frames) /\ Len(flight') = (IF loc' = "shift" THEN 1 ELSE 0)
          /\ loc' \in {"shift", "idle"}
      <4>1. CASE starts
        <5>1. tx.ready \in Seq(Frames) /\ tx.ready # << >>
          BY <4>1 DEF TypeOK, NumAvailable, FifoOK
        <5>2. Head(tx.ready) \in Frames
          BY <5>1, HeadTailProperties
        <5> QED
          BY <2>9, <4>1, <5>2 DEF NextFrame
      <4>2. CASE ~starts
        BY <2>9, <4>2 DEF NextFrame
      <4> QED
        BY <4>1, <4>2
    <3>3. transmitting' \in BOOLEAN /\ notified' \subseteq Event /\ runnable' \subseteq Process
      BY <2>9 DEF NextFrame, TypeOK, Event
    <3> QED
      BY <2>9, <3>1, <3>2, <3>3 DEF NextFrame, TypeOK, regs, outs
  <2>10. CASE UpdateIntr
    <3>1. ris' \subseteq Interrupt /\ mis' \subseteq Interrupt
      BY <2>2, <2>10 DEF UpdateIntr, TypeOK
    <3> QED
      BY <2>10, <3>1 DEF UpdateIntr, TypeOK
  <2>11. CASE UpdateStatusReg
    <3>1. sr' \subseteq StatusBit /\ resetSr' \in {"no", "now", "later"}
      BY <2>2, <2>11 DEF UpdateStatusReg, SrComputed, TypeOK
    <3> QED
      BY <2>11, <3>1 DEF UpdateStatusReg, TypeOK, regs, outs
  <2>12. CASE HandleReset
    <3>1. FifoOK(tx') /\ FifoOK(rx')
      BY <2>12, FifoOperations DEF HandleReset, TypeOK
    <3>2. sr' \subseteq StatusBit
      BY <2>2, <2>12 DEF HandleReset
    <3> QED
      BY <2>12, <3>1, <3>2 DEF HandleReset, TypeOK, outs, Event, Interrupt
  <2>13. ASSUME NEW fell \in BOOLEAN, DeltaCycle(fell) PROVE TypeOK'
    <3>1. FifoOK(tx') /\ FifoOK(rx')
      BY <2>13, FifoOperations DEF DeltaCycle, TypeOK
    <3>2. runnable' \subseteq Process
      BY <2>13 DEF DeltaCycle, Wakes, Process
    <3> QED
      BY <2>13, <3>1, <3>2 DEF DeltaCycle, TypeOK, regs
  <2>14. CASE ShiftDone \/ PassTime
    <3>1. accesses' \in 0 .. MaxAccess
      BY <2>14, SpiAssumption DEF ShiftDone, PassTime
    <3>2. runnable' \subseteq Process
      BY <2>14 DEF ShiftDone, PassTime, TypeOK, Process
    <3> QED
      BY <2>14, <3>1, <3>2 DEF ShiftDone, PassTime, TypeOK, regs, outs
  <2>15. CASE UNCHANGED vars
    BY <2>15 DEF vars, TypeOK, regs, outs
  <2> QED
    BY <2>3, <2>4, <2>5, <2>6, <2>7, <2>8, <2>9, <2>10, <2>11, <2>12, <2>13, <2>14, <2>15
    DEF Next, BTransport, WriteReg, ReadReg
<1> QED
  BY <1>1, <1>2, PTL DEF SafetySpec

-----------------------------------------------------------------------------
(* What is written in a delta cycle is owed a method run *)

\* Entries written or freed in the present delta cycle change the FIFO levels
\* at its end, and whoever wrote or freed them has made sure of a later run:
\* a frame stored in the receive FIFO leaves transmit at its zero-time wait,
\* a word written to DR has asked for update_intr, and an entry taken from the
\* transmit FIFO for update_status_reg, unless a reset took it.
DeltaInv ==
    /\ Len(rx.written) <= 1
    /\ Len(rx.written) # 0 => loc = "stored" /\ "transmit" \notin runnable
    /\ Len(tx.written) # 0 => "possible_intr" \in notified
    /\ tx.freed # 0 => "status" \in notified \/ resetSr = "now"

\* DeltaInv is invariant.
LEMMA DeltaOwed == SafetySpec => []DeltaInv
<1>1. Init => DeltaInv
  BY DEF Init, DeltaInv, Empty
<1>2. TypeOK /\ DeltaInv /\ [Next]_vars => DeltaInv'
  <2> SUFFICES ASSUME TypeOK, DeltaInv, [Next]_vars PROVE DeltaInv'
    OBVIOUS
  <2> USE DEF DeltaInv
  <2>1. ASSUME NEW on \in BOOLEAN, WriteCr1(on) PROVE DeltaInv'
    BY <2>1 DEF WriteCr1
  <2>2. ASSUME NEW frame \in Frames, WriteDr(frame) PROVE DeltaInv'
    BY <2>2 DEF WriteDr, Put, SrComputed
  <2>3. ASSUME NEW mask \in MaskValues, WriteImsc(mask) PROVE DeltaInv'
    BY <2>3 DEF WriteImsc
  <2>4. ASSUME NEW bits \in SUBSET {"ROR", "RT"}, WriteIcr(bits) PROVE DeltaInv'
    BY <2>4 DEF WriteIcr
  <2>5. CASE ReadDr
    BY <2>5 DEF ReadDr, Get
  <2>6. CASE StoreFrame
    <3>1. Len(rx.written) = 0 /\ rx.written \in Seq(Frames)
      BY <2>6 DEF StoreFrame, TypeOK, FifoOK
    <3>2. Len(rx'.written) <= 1
      <4>1. Len(Append(rx.written, flight[1])) = 1
        BY <3>1
      <4>2. rx'.written \in {rx.written, Append(rx.written, flight[1])}
        BY <2>6 DEF StoreFrame, Put
      <4> QED
        BY <4>1, <4>2
    <3> QED
      BY <2>6, <3>2 DEF StoreFrame
  <2>7. CASE NextFrame
    BY <2>7 DEF NextFrame, Get
  <2>8. CASE UpdateIntr
    BY <2>8 DEF UpdateIntr
  <2>9. CASE UpdateStatusReg
    BY <2>9 DEF UpdateStatusReg, SrComputed
  <2>10. CASE HandleReset
    BY <2>10 DEF HandleReset, Drain
  <2>11. ASSUME NEW fell \in BOOLEAN, DeltaCycle(fell) PROVE DeltaInv'
    BY <2>11 DEF DeltaCycle, Updated
  <2>12. CASE ShiftDone \/ PassTime
    BY <2>12 DEF ShiftDone, PassTime
  <2>13. CASE UNCHANGED vars
    BY <2>13 DEF vars
  <2> QED
    BY <2>1, <2>2, <2>3, <2>4, <2>5, <2>6, <2>7, <2>8, <2>9, <2>10, <2>11, <2>12, <2>13
    DEF Next, BTransport, WriteReg, ReadReg
<1> QED
  BY <1>1, <1>2, TypeCorrect, PTL DEF SafetySpec

\* An update phase with nothing freed, or nothing written, keeps the levels.
LEMMA UpdatedLevels ==
    ASSUME NEW f, FifoOK(f)
    PROVE  /\ f.freed = 0 => NumFree(Updated(f)) = NumFree(f)
           /\ Len(f.written) = 0 => NumAvailable(Updated(f)) = NumAvailable(f)
<1>1. Len(f.ready \o f.written) = Len(f.ready) + Len(f.written)
  BY DEF FifoOK
<1> QED
  BY <1>1, SpiAssumption DEF FifoOK, NumFree, NumAvailable, Updated

-----------------------------------------------------------------------------
(* The status register *)

\* SR is right, or update_status_reg is notified or runnable, or transmit is
\* at its zero-time wait and will notify it.
StatusInv ==
    resetSr = "no" /\ loc # "start" =>
        \/ "status" \in notified \/ "update_status_reg" \in runnable \/ loc = "stored"
        \/ sr = TrueStatus

\* At the end of every instant SR shows the FIFOs and the busy flag, unless it
\* was last computed in the delta cycle of a reset.
THEOREM StatusCorrect == SafetySpec => []StatusAccurateOutsideReset
<1>1. Init => StatusInv
  BY DEF Init, StatusInv
<1>2. TypeOK /\ DeltaInv /\ StatusInv /\ [Next]_vars => StatusInv'
  <2> SUFFICES ASSUME TypeOK, DeltaInv, StatusInv, [Next]_vars PROVE StatusInv'
    OBVIOUS
  <2> USE DEF StatusInv, TrueStatus
  <2>1. ASSUME NEW on \in BOOLEAN, WriteCr1(on) PROVE StatusInv'
    BY <2>1 DEF WriteCr1
  <2>2. ASSUME NEW frame \in Frames, WriteDr(frame) PROVE StatusInv'
    BY <2>2 DEF WriteDr
  <2>3. ASSUME NEW mask \in MaskValues, WriteImsc(mask) PROVE StatusInv'
    BY <2>3 DEF WriteImsc
  <2>4. ASSUME NEW bits \in SUBSET {"ROR", "RT"}, WriteIcr(bits) PROVE StatusInv'
    BY <2>4 DEF WriteIcr
  <2>5. CASE ReadDr
    BY <2>5 DEF ReadDr
  <2>6. CASE StoreFrame
    BY <2>6 DEF StoreFrame
  <2>7. CASE NextFrame
    BY <2>7 DEF NextFrame
  <2>8. CASE UpdateIntr
    BY <2>8 DEF UpdateIntr
  <2>9. CASE UpdateStatusReg
    BY <2>9 DEF UpdateStatusReg
  <2>10. CASE HandleReset
    BY <2>10 DEF HandleReset
  <2>11. ASSUME NEW fell \in BOOLEAN, DeltaCycle(fell) PROVE StatusInv'
    <3> SUFFICES ASSUME resetSr' = "no", loc' # "start", loc' # "stored",
                        "update_status_reg" \notin runnable'
                 PROVE  sr' = StatusOf(tx', rx', transmitting')
      OBVIOUS
    <3>1. resetSr = "no" /\ UNCHANGED <<sr, transmitting, loc>> /\ runnable = {}
      BY <2>11 DEF DeltaCycle
    <3>2. "status" \notin notified
      BY <2>11 DEF DeltaCycle, Wakes
    <3>3. sr = StatusOf(tx, rx, transmitting)
      BY <3>1, <3>2
    <3>4. NumFree(tx') = NumFree(tx) /\ NumAvailable(rx') = NumAvailable(rx)
      <4>1. tx.freed = 0 /\ Len(rx.written) = 0
        BY <3>1, <3>2 DEF DeltaInv
      <4> QED
        BY <2>11, <4>1, UpdatedLevels DEF DeltaCycle, TypeOK
    <3> QED
      BY <3>1, <3>3, <3>4 DEF StatusOf
  <2>12. CASE ShiftDone \/ PassTime
    BY <2>12 DEF ShiftDone, PassTime, Settled
  <2>13. CASE UNCHANGED vars
    BY <2>13 DEF vars
  <2> QED
    BY <2>1, <2>2, <2>3, <2>4, <2>5, <2>6, <2>7, <2>8, <2>9, <2>10, <2>11, <2>12, <2>13
    DEF Next, BTransport, WriteReg, ReadReg
<1>3. StatusInv => StatusAccurateOutsideReset
  BY DEF StatusInv, StatusAccurateOutsideReset, Settled, Pending
<1> QED
  BY <1>1, <1>2, <1>3, TypeCorrect, DeltaOwed, PTL DEF SafetySpec

-----------------------------------------------------------------------------
(* The interrupt pin *)

\* Outside a frame's shift time the value written to the pin and the raw level
\* bits are right, or update_intr will still run in this instant.
InterruptInv ==
    \/ "possible_intr" \in notified
    \/ runnable \cap {"update_intr", "handle_reset"} # {}
    \/ loc \in {"shift", "stored"}
    \/ /\ written <=> ris \cap imsc # {}
       /\ ris \cap {"TX", "RX"} = LevelsOf(tx, rx)

\* At the end of every instant outside a shift the pin is the masked raw
\* status and the raw TX and RX bits show the FIFO levels.
THEOREM InterruptCorrect == SafetySpec => []InterruptAccurate
<1>1. Init => InterruptInv
  BY DEF Init, InterruptInv
<1>2. TypeOK /\ DeltaInv /\ InterruptInv /\ [Next]_vars => InterruptInv'
  <2> SUFFICES ASSUME TypeOK, DeltaInv, InterruptInv, [Next]_vars PROVE InterruptInv'
    OBVIOUS
  <2> USE DEF InterruptInv
  <2>1. ASSUME NEW on \in BOOLEAN, WriteCr1(on) PROVE InterruptInv'
    BY <2>1 DEF WriteCr1, outs
  <2>2. ASSUME NEW frame \in Frames, WriteDr(frame) PROVE InterruptInv'
    BY <2>2 DEF WriteDr
  <2>3. ASSUME NEW mask \in MaskValues, WriteImsc(mask) PROVE InterruptInv'
    BY <2>3 DEF WriteImsc
  <2>4. ASSUME NEW bits \in SUBSET {"ROR", "RT"}, WriteIcr(bits) PROVE InterruptInv'
    BY <2>4 DEF WriteIcr
  <2>5. CASE ReadDr
    BY <2>5 DEF ReadDr
  <2>6. CASE StoreFrame
    BY <2>6 DEF StoreFrame
  <2>7. CASE NextFrame
    BY <2>7 DEF NextFrame, regs, outs
  <2>8. CASE UpdateIntr
    <3>1. written' <=> ris' \cap imsc' # {}
      BY <2>8 DEF UpdateIntr
    <3>2. ris' \cap {"TX", "RX"} = LevelsOf(tx', rx')
      BY <2>8 DEF UpdateIntr, LevelsOf
    <3> QED
      BY <3>1, <3>2
  <2>9. CASE UpdateStatusReg
    BY <2>9 DEF UpdateStatusReg, regs, outs
  <2>10. CASE HandleReset
    BY <2>10 DEF HandleReset
  <2>11. ASSUME NEW fell \in BOOLEAN, DeltaCycle(fell) PROVE InterruptInv'
    <3> SUFFICES ASSUME "update_intr" \notin runnable', loc' \notin {"shift", "stored"}
                 PROVE  /\ written' <=> ris' \cap imsc' # {}
                        /\ ris' \cap {"TX", "RX"} = LevelsOf(tx', rx')
      OBVIOUS
    <3>1. UNCHANGED <<ris, imsc, written, loc>> /\ runnable = {} /\ "possible_intr" \notin notified
      BY <2>11 DEF DeltaCycle, Wakes, regs
    <3>2. NumAvailable(tx') = NumAvailable(tx) /\ NumAvailable(rx') = NumAvailable(rx)
      <4>1. Len(tx.written) = 0 /\ Len(rx.written) = 0
        BY <3>1 DEF DeltaInv
      <4> QED
        BY <2>11, <4>1, UpdatedLevels DEF DeltaCycle, TypeOK
    <3> QED
      BY <3>1, <3>2 DEF LevelsOf
  <2>12. CASE ShiftDone \/ PassTime
    BY <2>12 DEF ShiftDone, PassTime, Settled, regs, outs
  <2>13. CASE UNCHANGED vars
    BY <2>13 DEF vars, regs, outs
  <2> QED
    BY <2>1, <2>2, <2>3, <2>4, <2>5, <2>6, <2>7, <2>8, <2>9, <2>10, <2>11, <2>12, <2>13
    DEF Next, BTransport, WriteReg, ReadReg
<1>3. TypeOK /\ InterruptInv => InterruptAccurate
  BY DEF TypeOK, InterruptInv, InterruptAccurate, Settled, Pending
<1> QED
  BY <1>1, <1>2, <1>3, TypeCorrect, DeltaOwed, PTL DEF SafetySpec

-----------------------------------------------------------------------------
(* The wake-up of transmit *)

\* A word written to DR in the present delta cycle has notified transmit, and
\* a thread asleep with work it may do has a notification on its way.
WakeInv ==
    /\ Len(tx.written) # 0 => "transmission" \in notified
    /\ loc = "start" => "transmit" \in runnable
    /\ loc = "idle" /\ "transmit" \notin runnable /\ sse /\ NumAvailable(tx) # 0
         => "transmission" \in notified

\* At the end of every instant an enabled port with a queued frame is shifting
\* one: no order of writes to DR and CR1, ends of frames and resets lets
\* transmit sleep on it.  It is the safety half of QueuedFrameIsShifted.
NoFrameWaits == Settled /\ sse /\ NumAvailable(tx) # 0 => loc = "shift"

\* The first notification is lost on a thread that is shifting or runnable,
\* but such a thread looks at the FIFO again before it sleeps.
THEOREM NoLostWakeup == SafetySpec => []NoFrameWaits
<1>1. Init => WakeInv
  BY DEF Init, WakeInv, Empty
<1>2. TypeOK /\ WakeInv /\ [Next]_vars => WakeInv'
  <2> SUFFICES ASSUME TypeOK, WakeInv, [Next]_vars PROVE WakeInv'
    OBVIOUS
  <2> USE DEF WakeInv, NumAvailable
  <2>1. ASSUME NEW on \in BOOLEAN, WriteCr1(on) PROVE WakeInv'
    BY <2>1 DEF WriteCr1
  <2>2. ASSUME NEW frame \in Frames, WriteDr(frame) PROVE WakeInv'
    BY <2>2 DEF WriteDr, Put, regs
  <2>3. ASSUME NEW mask \in MaskValues, WriteImsc(mask) PROVE WakeInv'
    BY <2>3 DEF WriteImsc
  <2>4. ASSUME NEW bits \in SUBSET {"ROR", "RT"}, WriteIcr(bits) PROVE WakeInv'
    BY <2>4 DEF WriteIcr
  <2>5. CASE ReadDr
    BY <2>5 DEF ReadDr
  <2>6. CASE StoreFrame
    BY <2>6 DEF StoreFrame
  <2>7. CASE NextFrame
    BY <2>7 DEF NextFrame, Get, regs
  <2>8. CASE UpdateIntr
    BY <2>8 DEF UpdateIntr
  <2>9. CASE UpdateStatusReg
    BY <2>9 DEF UpdateStatusReg, regs
  <2>10. CASE HandleReset
    BY <2>10 DEF HandleReset, Drain
  <2>11. ASSUME NEW fell \in BOOLEAN, DeltaCycle(fell) PROVE WakeInv'
    <3>1. tx.ready \in Seq(Frames) /\ tx.written \in Seq(Frames)
      BY FifoFacts DEF TypeOK
    <3>2. Len(tx'.written) = 0 /\ Len(tx'.ready) = Len(tx.ready) + Len(tx.written)
      BY <2>11, <3>1 DEF DeltaCycle, Updated
    <3>3. loc # "start" /\ "transmit" \notin runnable
      BY <2>11 DEF DeltaCycle
    <3>4. ASSUME loc = "idle", "transmission" \in notified PROVE "transmit" \in runnable'
      BY <2>11, <3>4 DEF DeltaCycle, Wakes
    <3>5. UNCHANGED <<loc, sse>>
      BY <2>11 DEF DeltaCycle, regs
    <3>6. ASSUME loc = "idle", "transmission" \notin notified, sse
          PROVE  Len(tx'.ready) = 0
      <4>1. Len(tx.written) = 0
        BY <3>6
      <4>2. Len(tx.ready) = 0
        BY <3>3, <3>6
      <4> QED
        BY <3>2, <4>1, <4>2
    <3> QED
      BY <3>2, <3>3, <3>4, <3>5, <3>6, Zenon
  <2>12. CASE ShiftDone \/ PassTime
    BY <2>12 DEF ShiftDone, PassTime, regs
  <2>13. CASE UNCHANGED vars
    BY <2>13 DEF vars, regs
  <2> QED
    BY <2>1, <2>2, <2>3, <2>4, <2>5, <2>6, <2>7, <2>8, <2>9, <2>10, <2>11, <2>12, <2>13
    DEF Next, BTransport, WriteReg, ReadReg
<1>3. TypeOK /\ WakeInv => NoFrameWaits
  BY DEF TypeOK, WakeInv, NoFrameWaits, Settled, Pending
<1> QED
  BY <1>1, <1>2, <1>3, TypeCorrect, PTL DEF SafetySpec

-----------------------------------------------------------------------------
(* Frames in the controller *)

\* At most one frame is being shifted or was stored in this delta cycle.
LEMMA InFlight == TypeOK /\ DeltaInv => Len(rx.written) + Len(flight) <= 1
<1> SUFFICES ASSUME TypeOK, DeltaInv PROVE Len(rx.written) + Len(flight) <= 1
  OBVIOUS
<1>1. Len(flight) = (IF loc = "shift" THEN 1 ELSE 0)
  BY DEF TypeOK
<1>2. Len(rx.written) <= 1 /\ (Len(rx.written) # 0 => loc = "stored")
  BY DEF DeltaInv
<1>3. Len(rx.written) \in Nat
  BY DEF TypeOK, FifoOK
<1>4. CASE loc = "shift"
  <2>1. Len(flight) = 1 /\ Len(rx.written) = 0
    BY <1>1, <1>2, <1>4
  <2> QED
    BY <2>1
<1>5. CASE loc # "shift"
  <2>1. Len(flight) = 0
    BY <1>1, <1>5
  <2> QED
    BY <1>2, <1>3, <2>1
<1> QED
  BY <1>4, <1>5

\* Three sequences in a row, as in Link.
LEMMA JoinFacts ==
    ASSUME NEW a \in Seq(Frames), NEW b \in Seq(Frames), NEW c \in Seq(Frames)
    PROVE  /\ a \o b \o c \in Seq(Frames)
           /\ Len(a \o b \o c) = Len(a) + Len(b) + Len(c)
<1>1. a \o b \in Seq(Frames) /\ Len(a \o b) = Len(a) + Len(b)
  BY ConcatProperties
<1> QED
  BY <1>1, ConcatProperties

\* All that survives a reset is the frame being shifted, or stored in this
\* delta cycle, and what the hart wrote to DR in this delta cycle.
THEOREM ResetEmpties == SafetySpec => ResetClearsFifos
<1>1. TypeOK /\ DeltaInv /\ [Next]_vars
        => [HandleReset => Len(Link') <= 1 + Len(tx.written)]_vars
  <2> SUFFICES ASSUME TypeOK, DeltaInv, HandleReset
               PROVE  Len(Link') <= 1 + Len(tx.written)
    OBVIOUS
  <2>1. /\ rx.written \in Seq(Frames) /\ tx.written \in Seq(Frames) /\ flight \in Seq(Frames)
        /\ Len(rx.written) \in Nat /\ Len(flight) \in Nat /\ Len(tx.written) \in Nat
    BY DEF TypeOK, FifoOK
  <2>2. Link' = (<< >> \o rx.written) \o flight \o (<< >> \o tx.written)
    BY DEF HandleReset, Drain, Link
  <2>3. Link' = rx.written \o flight \o tx.written
    BY <2>1, <2>2, ConcatEmptySeq
  <2>4. Len(rx.written) + Len(flight) <= 1
    BY <2>1, InFlight
  <2>5. Len(Link') = Len(rx.written) + Len(flight) + Len(tx.written)
    BY <2>1, <2>3, JoinFacts
  <2> QED
    BY <2>1, <2>4, <2>5
<1> QED
  BY <1>1, TypeCorrect, DeltaOwed, PTL DEF SafetySpec, ResetClearsFifos

-----------------------------------------------------------------------------
(* Sequences: taking a frame from either end or from the middle *)

\* The tail of a join is taken from its first part when that is not empty.
LEMMA TailOfJoin ==
    ASSUME NEW a \in Seq(Frames), NEW b \in Seq(Frames), Len(a) # 0
    PROVE  a \o b # << >> /\ Tail(a \o b) = Tail(a) \o b
<1>1. /\ a \o b \in Seq(Frames) /\ Len(a \o b) = Len(a) + Len(b)
      /\ Len(a) \in Nat /\ Len(b) \in Nat /\ a # << >>
  BY ConcatProperties, EmptySeq, LenProperties
<1>2. a \o b # << >>
  BY <1>1, EmptySeq
<1>3. /\ Tail(a) \in Seq(Frames) /\ Len(Tail(a)) = Len(a) - 1
      /\ \A i \in 1 .. Len(Tail(a)) : Tail(a)[i] = a[i + 1]
  BY <1>1, HeadTailProperties
<1>4. /\ Tail(a \o b) \in Seq(Frames) /\ Len(Tail(a \o b)) = Len(a) + Len(b) - 1
      /\ \A i \in 1 .. Len(Tail(a \o b)) : Tail(a \o b)[i] = (a \o b)[i + 1]
  BY <1>1, <1>2, HeadTailProperties
<1>5. /\ Tail(a) \o b \in Seq(Frames) /\ Len(Tail(a) \o b) = Len(a) - 1 + Len(b)
      /\ \A i \in 1 .. Len(a) - 1 + Len(b) : (Tail(a) \o b)[i] =
            IF i <= Len(a) - 1 THEN Tail(a)[i] ELSE b[i - (Len(a) - 1)]
  BY <1>3, ConcatProperties
<1>6. \A i \in 1 .. Len(a) + Len(b) : (a \o b)[i] = IF i <= Len(a) THEN a[i] ELSE b[i - Len(a)]
  BY ConcatProperties
<1>7. ASSUME NEW i \in 1 .. Len(Tail(a \o b)) PROVE Tail(a \o b)[i] = (Tail(a) \o b)[i]
  <2>1. i + 1 \in 1 .. Len(a) + Len(b) /\ i \in 1 .. Len(a) - 1 + Len(b)
    BY <1>1, <1>4
  <2>2. Tail(a \o b)[i] = IF i + 1 <= Len(a) THEN a[i + 1] ELSE b[i + 1 - Len(a)]
    BY <1>4, <1>6, <2>1
  <2>3. (Tail(a) \o b)[i] = IF i <= Len(a) - 1 THEN Tail(a)[i] ELSE b[i - (Len(a) - 1)]
    BY <1>5, <2>1
  <2>4. i + 1 - Len(a) = i - (Len(a) - 1)
    BY <1>1
  <2>5. i + 1 <= Len(a) <=> i <= Len(a) - 1
    BY <1>1
  <2>6. i <= Len(a) - 1 => Tail(a)[i] = a[i + 1]
    BY <1>1, <1>3
  <2> QED
    BY <2>2, <2>3, <2>4, <2>5, <2>6
<1>8. Len(Tail(a \o b)) = Len(Tail(a) \o b)
  BY <1>1, <1>4, <1>5
<1> QED
  BY <1>2, <1>4, <1>5, <1>7, <1>8, SeqEqual

\* A sequence that is not empty is its head followed by its tail.
LEMMA HeadThenTail ==
    ASSUME NEW a \in Seq(Frames), Len(a) # 0
    PROVE  Head(a) \in Frames /\ Tail(a) \in Seq(Frames) /\ a = <<Head(a)>> \o Tail(a)
<1>1. a # << >> /\ Len(a) \in Nat
  BY EmptySeq, LenProperties
<1>2. 1 \in 1 .. Len(a) /\ Len(a) \in 1 .. Len(a)
  BY <1>1
<1>3. SubSeq(a, 1, Len(a)) = <<a[1]>> \o SubSeq(a, 1 + 1, Len(a))
  BY <1>2, SubSeqRecursiveFirst
<1>4. Tail(a) = SubSeq(a, 2, Len(a)) /\ SubSeq(a, 1, Len(a)) = a /\ Head(a) = a[1]
  BY <1>1, TailIsSubSeq, SubSeqFull
<1> QED
  BY <1>1, <1>3, <1>4, HeadTailProperties

\* A sequence in two parts, each found again.
LEMMA PartsOfJoin ==
    ASSUME NEW a \in Seq(Frames), NEW b \in Seq(Frames)
    PROVE  /\ SubSeq(a \o b, 1, Len(a)) = a
           /\ SubSeq(a \o b, Len(a) + 1, Len(a \o b)) = b
<1>1. /\ a \o b \in Seq(Frames) /\ Len(a \o b) = Len(a) + Len(b)
      /\ Len(a) \in Nat /\ Len(b) \in Nat
  BY ConcatProperties, LenProperties
<1>2. SubSeq(a \o b, 1, Len(a)) = a
  <2>1. CASE Len(a) = 0
    <3>1. SubSeq(a \o b, 1, Len(a)) = << >> /\ a = << >>
      BY <1>1, <2>1, SubSeqEmpty, EmptySeq
    <3> QED
      BY <3>1
  <2>2. CASE Len(a) # 0
    <3>1. 1 \in 1 .. Len(a) /\ Len(a) \in 1 .. Len(a)
      BY <1>1, <2>2
    <3>2. SubSeq(a \o b, 1, Len(a)) = SubSeq(a, 1, Len(a))
      BY <3>1, SubSeqOfConcat1
    <3> QED
      BY <3>2, SubSeqFull
  <2> QED
    BY <2>1, <2>2
<1>3. SubSeq(a \o b, Len(a) + 1, Len(a) + Len(b)) = b
  <2> DEFINE m == Len(a) + 1
             n == Len(a) + Len(b)
  <2>1. CASE Len(b) = 0
    <3>1. m \in Int /\ n \in Int /\ n < m
      BY <1>1, <2>1
    <3>2. SubSeq(a \o b, m, n) = << >> /\ b = << >>
      BY <2>1, <3>1, SubSeqEmpty, EmptySeq
    <3> QED
      BY <3>2
  <2>2. CASE Len(b) # 0
    <3>1. /\ m \in Len(a) + 1 .. Len(a) + Len(b) /\ n \in Len(a) + 1 .. Len(a) + Len(b)
          /\ m - Len(a) = 1 /\ n - Len(a) = Len(b)
      BY <1>1, <2>2
    <3> HIDE DEF m, n
    <3>2. SubSeq(a \o b, m, n) = SubSeq(b, m - Len(a), n - Len(a))
      BY <3>1, SubSeqOfConcat2
    <3> QED
      BY <3>1, <3>2, SubSeqFull DEF m, n
  <2> QED
    BY <2>1, <2>2
<1> QED
  BY <1>1, <1>2, <1>3

-----------------------------------------------------------------------------
(* The frame link *)

\* The operations on sequences, as operators of which the steps below see only
\* the laws that follow.
Nil == << >>
Cat(a, b) == a \o b
One(x) == <<x>>
App(a, x) == Append(a, x)
First(a) == Head(a)
Rest(a) == Tail(a)
Part(a, i, j) == SubSeq(a, i, j)

\* Cat keeps types, adds lengths and is associative.
LEMMA CatLaws ==
    ASSUME NEW a \in Seq(Frames), NEW b \in Seq(Frames), NEW c \in Seq(Frames)
    PROVE  /\ Cat(a, b) \in Seq(Frames)
           /\ Len(Cat(a, b)) = Len(a) + Len(b)
           /\ Cat(Cat(a, b), c) = Cat(a, Cat(b, c))
<1>1. a \o b \in Seq(Frames) /\ Len(a \o b) = Len(a) + Len(b)
  BY ConcatProperties
<1>2. (a \o b) \o c = a \o (b \o c)
  BY ConcatAssociative
<1> QED
  BY <1>1, <1>2 DEF Cat

\* The empty sequence is neutral.
LEMMA CatEmpty ==
    ASSUME NEW a \in Seq(Frames)
    PROVE  /\ Nil \in Seq(Frames) /\ Cat(a, Nil) = a /\ Cat(Nil, a) = a
           /\ Len(a) = 0 => a = Nil
  BY EmptySeq, ConcatEmptySeq DEF Cat, Nil

\* A sequence of length one is its only element.
LEMMA Single ==
    ASSUME NEW a \in Seq(Frames), Len(a) = 1
    PROVE  a[1] \in Frames /\ a = One(a[1])
<1>1. a[1] \in Frames
  OBVIOUS
<1>2. <<a[1]>> \in Seq(Frames) /\ Len(<<a[1]>>) = 1 /\ <<a[1]>>[1] = a[1]
  BY <1>1
<1>3. \A i \in 1 .. Len(a) : a[i] = <<a[1]>>[i]
  BY <1>2
<1>4. a = <<a[1]>>
  BY <1>1, <1>2, <1>3, SeqEqual
<1> QED
  BY <1>1, <1>4 DEF One

\* Append, Head and Tail in terms of Cat and One.
LEMMA CatEnds ==
    ASSUME NEW a \in Seq(Frames), NEW x \in Frames
    PROVE  /\ One(x) \in Seq(Frames) /\ Len(One(x)) = 1
           /\ App(a, x) = Cat(a, One(x))
           /\ Len(a) # 0 => /\ First(a) \in Frames /\ Rest(a) \in Seq(Frames)
                            /\ a = Cat(One(First(a)), Rest(a))
<1>1. <<x>> \in Seq(Frames) /\ Len(<<x>>) = 1
  OBVIOUS
<1>2. Append(a, x) = a \o <<x>>
  BY AppendIsConcat
<1>3. Len(a) # 0 => Head(a) \in Frames /\ Tail(a) \in Seq(Frames) /\ a = <<Head(a)>> \o Tail(a)
  BY HeadThenTail
<1> QED
  BY <1>1, <1>2, <1>3 DEF Cat, One, App, First, Rest

\* Link as a function of its five parts.
Join(r, w, f, t, u) == Cat(Cat(Cat(r, w), f), Cat(t, u))

\* The join of five sequences of frames is one, as long as all of them.
LEMMA JoinOfFive ==
    ASSUME NEW r \in Seq(Frames), NEW w \in Seq(Frames), NEW f \in Seq(Frames),
           NEW t \in Seq(Frames), NEW u \in Seq(Frames)
    PROVE  /\ Join(r, w, f, t, u) \in Seq(Frames)
           /\ Len(Join(r, w, f, t, u)) = Len(r) + Len(w) + Len(f) + Len(t) + Len(u)
           /\ Join(r, w, f, t, u) = Cat(r, Cat(Cat(w, f), Cat(t, u)))
<1> DEFINE a == Cat(r, w)
           b == Cat(t, u)
           c == Cat(w, f)
<1>1. /\ a \in Seq(Frames) /\ Len(a) = Len(r) + Len(w)
      /\ b \in Seq(Frames) /\ Len(b) = Len(t) + Len(u)
      /\ c \in Seq(Frames) /\ Cat(a, f) = Cat(r, c)
  BY CatLaws
<1> HIDE DEF a, b, c
<1>2. Cat(a, f) \in Seq(Frames) /\ Len(Cat(a, f)) = Len(a) + Len(f)
  BY <1>1, CatLaws
<1>3. Cat(Cat(a, f), b) \in Seq(Frames) /\ Len(Cat(Cat(a, f), b)) = Len(Cat(a, f)) + Len(b)
  BY <1>1, <1>2, CatLaws
<1>4. Cat(Cat(r, c), b) = Cat(r, Cat(c, b))
  BY <1>1, CatLaws
<1>5. Len(r) \in Nat /\ Len(w) \in Nat /\ Len(f) \in Nat /\ Len(t) \in Nat /\ Len(u) \in Nat
  BY LenProperties
<1>6. Len(Cat(Cat(a, f), b)) = Len(r) + Len(w) + Len(f) + Len(t) + Len(u)
  BY <1>1, <1>2, <1>3, <1>5
<1> QED
  BY <1>1, <1>3, <1>4, <1>6 DEF Join, a, b, c

\* A frame written to DR joins the end of the link.
LEMMA JoinSend ==
    ASSUME NEW r \in Seq(Frames), NEW w \in Seq(Frames), NEW f \in Seq(Frames),
           NEW t \in Seq(Frames), NEW u \in Seq(Frames), NEW x \in Frames
    PROVE  Join(r, w, f, t, App(u, x)) = App(Join(r, w, f, t, u), x)
<1> DEFINE a == Cat(Cat(r, w), f)
           b == Cat(t, u)
<1>1. Cat(r, w) \in Seq(Frames)
  BY CatLaws
<1>2. a \in Seq(Frames) /\ b \in Seq(Frames) /\ One(x) \in Seq(Frames)
  BY <1>1, CatLaws, CatEnds
<1>3. App(u, x) = Cat(u, One(x))
  BY CatEnds
<1>4. Cat(t, Cat(u, One(x))) = Cat(b, One(x))
  BY <1>2, CatLaws
<1> HIDE DEF a, b
<1>5. Cat(a, b) \in Seq(Frames)
  BY <1>2, CatLaws
<1>6. Cat(a, Cat(b, One(x))) = Cat(Cat(a, b), One(x))
  BY <1>2, CatLaws
<1>7. App(Cat(a, b), x) = Cat(Cat(a, b), One(x))
  BY <1>5, CatEnds
<1> QED
  BY <1>3, <1>4, <1>6, <1>7 DEF Join, a, b

\* A frame read from DR leaves the front of the link.
LEMMA JoinReceive ==
    ASSUME NEW r \in Seq(Frames), NEW w \in Seq(Frames), NEW f \in Seq(Frames),
           NEW t \in Seq(Frames), NEW u \in Seq(Frames), Len(r) # 0
    PROVE  /\ Join(r, w, f, t, u) # << >>
           /\ Join(Rest(r), w, f, t, u) = Rest(Join(r, w, f, t, u))
<1> DEFINE c == Cat(Cat(w, f), Cat(t, u))
           z == Rest(r)
<1>1. Cat(w, f) \in Seq(Frames) /\ Cat(t, u) \in Seq(Frames)
  BY CatLaws
<1>2. c \in Seq(Frames)
  BY <1>1, CatLaws
<1>3. z \in Seq(Frames)
  BY HeadThenTail DEF Rest
<1> HIDE DEF z
<1>4. Join(r, w, f, t, u) = Cat(r, c)
  BY JoinOfFive
<1>5. Join(z, w, f, t, u) = Cat(z, c)
  BY <1>3, JoinOfFive
<1> HIDE DEF c
<1>6. Cat(r, c) # << >> /\ Rest(Cat(r, c)) = Cat(Rest(r), c)
  BY <1>2, TailOfJoin DEF Cat, Rest, z
<1> QED
  BY <1>4, <1>5, <1>6 DEF z

\* Storing the shifted frame in the receive FIFO moves it within the link.
LEMMA JoinStore ==
    ASSUME NEW r \in Seq(Frames), NEW w \in Seq(Frames), NEW f \in Seq(Frames),
           NEW t \in Seq(Frames), NEW u \in Seq(Frames), Len(f) = 1
    PROVE  Join(r, App(w, f[1]), Nil, t, u) = Join(r, w, f, t, u)
<1> DEFINE x == f[1]
<1>1. x \in Frames /\ f = One(x)
  BY Single
<1> HIDE DEF x
<1>2. App(w, x) = Cat(w, f)
  BY <1>1, CatEnds
<1>3. Cat(r, w) \in Seq(Frames) /\ Cat(r, Cat(w, f)) = Cat(Cat(r, w), f)
  BY CatLaws
<1>4. Cat(Cat(r, w), f) \in Seq(Frames)
  BY <1>3, CatLaws
<1>5. Cat(Cat(Cat(r, w), f), Nil) = Cat(Cat(r, w), f)
  BY <1>4, CatEmpty
<1> QED
  BY <1>2, <1>3, <1>5 DEF Join, x

\* Taking the next frame from the transmit FIFO moves it within the link.
LEMMA JoinTake ==
    ASSUME NEW r \in Seq(Frames), NEW w \in Seq(Frames), NEW t \in Seq(Frames),
           NEW u \in Seq(Frames), Len(t) # 0
    PROVE  Join(r, w, One(First(t)), Rest(t), u) = Join(r, w, Nil, t, u)
<1> DEFINE h == One(First(t))
           z == Rest(t)
           a == Cat(r, w)
           b == Cat(z, u)
<1>1. First(t) \in Frames /\ z \in Seq(Frames)
  BY HeadThenTail DEF First, Rest
<1>2. h \in Seq(Frames) /\ t = Cat(h, z)
  BY <1>1, CatEnds
<1>3. a \in Seq(Frames)
  BY CatLaws
<1> HIDE DEF h, z, a
<1>4. b \in Seq(Frames) /\ Cat(Cat(h, z), u) = Cat(h, b)
  BY <1>1, <1>2, CatLaws
<1> HIDE DEF b
<1>5. Cat(Cat(a, h), b) = Cat(a, Cat(h, b))
  BY <1>2, <1>3, <1>4, CatLaws
<1>6. Cat(a, Nil) = a
  BY <1>3, CatEmpty
<1>7. Cat(t, u) = Cat(h, b)
  BY <1>2, <1>4
<1>8. Join(r, w, Nil, t, u) = Cat(a, Cat(h, b))
  BY <1>6, <1>7 DEF Join, a
<1>9. Join(r, w, h, z, u) = Cat(Cat(a, h), b)
  BY DEF Join, a, b
<1> QED
  BY <1>5, <1>8, <1>9 DEF h, z

\* The update of both FIFOs moves frames within the link.
LEMMA JoinUpdate ==
    ASSUME NEW r \in Seq(Frames), NEW w \in Seq(Frames), NEW f \in Seq(Frames),
           NEW t \in Seq(Frames), NEW u \in Seq(Frames)
    PROVE  Join(Cat(r, w), Nil, f, Cat(t, u), Nil) = Join(r, w, f, t, u)
<1>1. Cat(r, w) \in Seq(Frames) /\ Cat(t, u) \in Seq(Frames)
  BY CatLaws
<1>2. Cat(Cat(r, w), Nil) = Cat(r, w) /\ Cat(Cat(t, u), Nil) = Cat(t, u)
  BY <1>1, CatEmpty
<1> QED
  BY <1>2 DEF Join

\* The two parts of Cat, each found again.
LEMMA PartsOfCat ==
    ASSUME NEW a \in Seq(Frames), NEW b \in Seq(Frames)
    PROVE  /\ Part(Cat(a, b), 1, Len(a)) = a
           /\ Part(Cat(a, b), Len(a) + 1, Len(Cat(a, b))) = b
           /\ Len(b) # 0 => Cat(a, b)[Len(a) + 1] = b[1]
<1>1. Len(a) \in Nat /\ Len(b) \in Nat
  BY LenProperties
<1>2. Len(b) # 0 => (a \o b)[Len(a) + 1] = b[1]
  BY <1>1
<1> QED
  BY <1>2, PartsOfJoin DEF Cat, Part

\* k is j without one of its frames, as in FrameLink's Overrun.
DropsOne(j, k) ==
    \E i \in 1 .. Len(j) : k = Cat(Part(j, 1, i - 1), Part(j, i + 1, Len(j)))

\* k is at most one frame of j and then a suffix of j, as in FrameLink's Reset.
ResetOf(j, k) ==
    \E cut \in 1 .. Len(j) + 1 :
        \E shifted \in {Nil} \cup {One(j[i]) : i \in 1 .. cut - 1} :
            k = Cat(shifted, Part(j, cut, Len(j)))

\* An overrun drops the frame being shifted from the middle of the link.
LEMMA JoinOverrun ==
    ASSUME NEW r \in Seq(Frames), NEW w \in Seq(Frames), NEW f \in Seq(Frames),
           NEW t \in Seq(Frames), NEW u \in Seq(Frames), Len(f) = 1
    PROVE  DropsOne(Join(r, w, f, t, u), Join(r, w, Nil, t, u))
<1> DEFINE a == Cat(r, w)
           b == Cat(t, u)
           j == Join(r, w, f, t, u)
           i == Len(a) + 1
<1>1. a \in Seq(Frames) /\ b \in Seq(Frames) /\ j = Cat(Cat(a, f), b)
  BY CatLaws DEF Join
<1>2. Join(r, w, Nil, t, u) = Cat(a, b)
  <2>1. Cat(a, Nil) = a
    BY <1>1, CatEmpty
  <2> QED
    BY <2>1 DEF Join
<1> HIDE DEF a, b, j
<1>3. /\ Cat(a, f) \in Seq(Frames) /\ Len(Cat(a, f)) = Len(a) + Len(f)
      /\ Cat(f, b) \in Seq(Frames) /\ Cat(Cat(a, f), b) = Cat(a, Cat(f, b))
  <2>1. Cat(a, f) \in Seq(Frames) /\ Len(Cat(a, f)) = Len(a) + Len(f)
    BY <1>1, CatLaws
  <2>2. Cat(f, b) \in Seq(Frames)
    BY <1>1, CatLaws
  <2>3. Cat(Cat(a, f), b) = Cat(a, Cat(f, b))
    BY <1>1, CatLaws
  <2> QED
    BY <2>1, <2>2, <2>3
<1>4. j \in Seq(Frames) /\ Len(j) = Len(Cat(a, f)) + Len(b)
  BY <1>1, <1>3, CatLaws
<1>5. Len(a) \in Nat /\ Len(b) \in Nat /\ Len(Cat(a, f)) = i
  BY <1>1, <1>3, LenProperties
<1>6. Part(j, 1, Len(a)) = a
  <2> DEFINE y == Cat(f, b)
  <2>1. y \in Seq(Frames) /\ j = Cat(a, y)
    BY <1>1, <1>3
  <2> HIDE DEF y
  <2>2. Part(Cat(a, y), 1, Len(a)) = a
    BY <1>1, <2>1, PartsOfCat
  <2> QED
    BY <2>1, <2>2
<1>7. Part(j, Len(Cat(a, f)) + 1, Len(j)) = b
  BY <1>1, <1>3, PartsOfCat
<1>8. i \in 1 .. Len(j) /\ i - 1 = Len(a)
  BY <1>4, <1>5
<1>9. Cat(a, b) = Cat(Part(j, 1, i - 1), Part(j, i + 1, Len(j)))
  BY <1>5, <1>6, <1>7, <1>8
<1> QED
  BY <1>2, <1>8, <1>9 DEF DropsOne, j

\* A reset keeps the frame being shifted, if there is one, and the frames
\* written in this delta cycle, a suffix of the link.
LEMMA JoinReset ==
    ASSUME NEW r \in Seq(Frames), NEW w \in Seq(Frames), NEW f \in Seq(Frames),
           NEW t \in Seq(Frames), NEW u \in Seq(Frames), Len(w) + Len(f) <= 1
    PROVE  ResetOf(Join(r, w, f, t, u), Join(Nil, w, f, Nil, u))
<1> DEFINE m == Cat(w, f)
           b == Cat(t, u)
           j == Join(r, w, f, t, u)
           y == Cat(m, t)
           before == Cat(r, y)
           cut == Len(before) + 1
<1>1. /\ m \in Seq(Frames) /\ Len(m) = Len(w) + Len(f) /\ b \in Seq(Frames)
      /\ Len(r) \in Nat /\ Len(w) \in Nat /\ Len(f) \in Nat /\ Len(t) \in Nat /\ Len(u) \in Nat
  BY CatLaws, LenProperties
<1>2. Join(Nil, w, f, Nil, u) = Cat(m, u)
  <2>1. Cat(Nil, w) = w /\ Cat(Nil, u) = u
    BY CatEmpty
  <2> QED
    BY <2>1 DEF Join
<1>3. /\ j = Cat(r, Cat(m, b)) /\ j \in Seq(Frames)
      /\ Len(j) = Len(r) + Len(w) + Len(f) + Len(t) + Len(u)
  BY JoinOfFive
<1> HIDE DEF m, j
<1>4. y \in Seq(Frames) /\ Len(y) = Len(m) + Len(t)
  BY <1>1, CatLaws
<1>5. Cat(m, b) = Cat(y, u)
  BY <1>1, CatLaws
<1> HIDE DEF y, b
<1>6. before \in Seq(Frames) /\ Len(before) = Len(r) + Len(y)
  BY <1>4, CatLaws
<1>7. Cat(r, Cat(y, u)) = Cat(before, u)
  BY <1>4, CatLaws
<1>8. j = Cat(before, u)
  BY <1>3, <1>5, <1>7
<1> HIDE DEF before
<1>9. Part(j, cut, Len(j)) = u
  BY <1>6, <1>8, PartsOfCat
<1>10. cut \in 1 .. Len(j) + 1
  BY <1>1, <1>3, <1>4, <1>6
<1>11. m \in {Nil} \cup {One(j[i]) : i \in 1 .. cut - 1}
  <2>1. CASE Len(m) = 0
    BY <1>1, <2>1, CatEmpty
  <2>2. CASE Len(m) # 0
    <3>1. Len(m) = 1
      BY <1>1, <2>2
    <3>2. m[1] \in Frames /\ m = One(m[1])
      BY <1>1, <3>1, Single
    <3>3. Len(r) + 1 \in 1 .. cut - 1
      <4>1. Len(before) = Len(r) + (1 + Len(t)) /\ Len(before) \in Nat
        <5>1. Len(y) = 1 + Len(t)
          BY <1>4, <3>1
        <5> QED
          BY <1>1, <1>6, <5>1
      <4>2. cut - 1 = Len(before)
        BY <4>1
      <4> QED
        BY <1>1, <4>1, <4>2
    <3>4. j[Len(r) + 1] = m[1]
      <4> DEFINE z == Cat(m, b)
      <4>1. z \in Seq(Frames) /\ Len(z) = Len(m) + Len(b)
        BY <1>1, CatLaws
      <4>2. Len(b) \in Nat
        BY <1>1, LenProperties
      <4>3. z[1] = m[1]
        <5>1. (m \o b)[1] = m[1]
          <6>1. 1 \in 1 .. Len(m) + Len(b) /\ 1 <= Len(m)
            BY <3>1, <4>2
          <6> QED
            BY <1>1, <6>1, ConcatProperties
        <5> QED
          BY <5>1 DEF Cat
      <4> HIDE DEF z
      <4>4. Len(z) # 0
        BY <3>1, <4>1, <4>2
      <4>5. Cat(r, z)[Len(r) + 1] = z[1]
        BY <4>1, <4>4, PartsOfCat
      <4>6. j = Cat(r, z)
        BY <1>3 DEF z
      <4> QED
        BY <4>3, <4>5, <4>6
    <3> QED
      BY <3>2, <3>3, <3>4
  <2> QED
    BY <2>1, <2>2
<1>12. Cat(m, u) = Cat(m, Part(j, cut, Len(j)))
  BY <1>9
<1> QED
  BY <1>2, <1>10, <1>11, <1>12 DEF ResetOf, j

-----------------------------------------------------------------------------
(* The refinement *)

\* The parts of Link and their types.
LEMMA LinkParts ==
    TypeOK => /\ Link = Join(rx.ready, rx.written, flight, tx.ready, tx.written)
              /\ rx.ready \in Seq(Frames) /\ rx.written \in Seq(Frames)
              /\ tx.ready \in Seq(Frames) /\ tx.written \in Seq(Frames)
              /\ flight \in Seq(Frames)
  BY DEF TypeOK, FifoOK, Link, Join, Cat

\* The hart reads the frames it wrote in order, each once; a frame is lost only
\* with ROR recorded in the same step, or in a reset.
THEOREM FrameLinkImplemented == SafetySpec => ImplementsFrameLink
<1> USE DEF LinkSpec!vars
<1>1. Init => LinkSpec!Init
  <2> SUFFICES ASSUME Init PROVE LinkSpec!Init
    OBVIOUS
  <2>1. Link = << >> \o << >> \o << >> \o (<< >> \o << >>)
    BY DEF Init, Link, Empty
  <2>2. << >> \o << >> = << >>
    BY ConcatEmptySeq
  <2> QED
    BY <2>1, <2>2 DEF Init, LinkSpec!Init
<1>2. TypeOK /\ TypeOK' /\ DeltaInv /\ [Next]_vars => [LinkSpec!Next]_(LinkSpec!vars)
  <2> SUFFICES ASSUME TypeOK, TypeOK', DeltaInv, [Next]_vars
               PROVE  LinkSpec!Next \/ UNCHANGED <<Link, "ROR" \in ris>>
    OBVIOUS
  <2> DEFINE r == rx.ready
             w == rx.written
             t == tx.ready
             u == tx.written
  <2>1. /\ Link = Join(r, w, flight, t, u)
        /\ r \in Seq(Frames) /\ w \in Seq(Frames) /\ t \in Seq(Frames) /\ u \in Seq(Frames)
        /\ flight \in Seq(Frames)
    BY LinkParts
  <2>2. Link' = Join(rx'.ready, rx'.written, flight', tx'.ready, tx'.written)
    BY DEF Link, Join, Cat
  <2>4. ASSUME UNCHANGED <<tx, rx, flight>> PROVE UNCHANGED Link
    BY <2>4 DEF Link
  <2> HIDE DEF r, w, t, u
  <2>5. ASSUME NEW on \in BOOLEAN, WriteCr1(on) PROVE UNCHANGED <<Link, "ROR" \in ris>>
    BY <2>4, <2>5 DEF WriteCr1
  <2>6. ASSUME NEW frame \in Frames, WriteDr(frame) PROVE LinkSpec!Next
    <3>1. tx'.ready = t /\ tx'.written = App(u, frame) /\ UNCHANGED <<rx, flight, ris>>
      BY <2>6 DEF WriteDr, Put, App, regs, t, u
    <3>2. Link' = Join(r, w, flight, t, App(u, frame))
      BY <2>2, <3>1 DEF r, w
    <3>3. Join(r, w, flight, t, App(u, frame)) = App(Join(r, w, flight, t, u), frame)
      BY <2>1, JoinSend
    <3>4. Len(Link) < 2 * FifoSize + 1
      <4>1. Len(Link) = Len(r) + Len(w) + Len(flight) + Len(t) + Len(u)
        BY <2>1, JoinOfFive
      <4>2. Len(flight) \in Nat /\ Len(flight) <= 1
        BY DEF TypeOK
      <4>3. /\ Len(r) \in Nat /\ Len(w) \in Nat /\ rx.freed \in Nat
            /\ Len(r) + Len(w) + rx.freed <= FifoSize
        BY FifoFacts DEF TypeOK, r, w
      <4>4. /\ Len(t) \in Nat /\ Len(u) \in Nat /\ tx.freed \in Nat /\ FifoSize \in Nat
            /\ Len(t) + Len(u) + tx.freed <= FifoSize
        BY FifoFacts DEF TypeOK, t, u
      <4>5. FifoSize - (Len(t) + tx.freed) - Len(u) # 0
        BY <2>6 DEF WriteDr, TxHasRoom, NumFree, t, u
      <4>6. Len(t) + Len(u) < FifoSize
        BY <4>4, <4>5
      <4> QED
        BY <4>1, <4>2, <4>3, <4>4, <4>6
    <3> QED
      BY <2>1, <3>1, <3>2, <3>3, <3>4 DEF LinkSpec!Next, LinkSpec!Send, App
  <2>7. ASSUME NEW mask \in MaskValues, WriteImsc(mask) PROVE UNCHANGED <<Link, "ROR" \in ris>>
    BY <2>4, <2>7 DEF WriteImsc
  <2>8. ASSUME NEW bits \in SUBSET {"ROR", "RT"}, WriteIcr(bits)
        PROVE  LinkSpec!Next \/ UNCHANGED <<Link, "ROR" \in ris>>
    <3>1. UNCHANGED Link
      BY <2>4, <2>8 DEF WriteIcr
    <3>2. CASE "ROR" \in bits
      <4>1. ("ROR" \in ris') = FALSE
        BY <2>8, <3>2 DEF WriteIcr
      <4> QED
        BY <3>1, <4>1 DEF LinkSpec!Next, LinkSpec!Clear
    <3>3. CASE "ROR" \notin bits
      <4>1. ("ROR" \in ris') = ("ROR" \in ris)
        BY <2>8, <3>3 DEF WriteIcr
      <4> QED
        BY <3>1, <4>1
    <3> QED
      BY <3>2, <3>3
  <2>9. CASE ReadDr
    <3>1. CASE NumAvailable(rx) = 0
      <4>1. UNCHANGED <<tx, rx, flight>> /\ ("ROR" \in ris') = TRUE
        BY <2>9, <3>1 DEF ReadDr
      <4> QED
        BY <2>4, <4>1 DEF LinkSpec!Next, LinkSpec!Overrun
    <3>2. CASE NumAvailable(rx) # 0
      <4>1. rx'.ready = Rest(r) /\ rx'.written = w /\ UNCHANGED <<tx, flight, ris>>
        <5>1. rx' = Get(rx) /\ UNCHANGED <<tx, flight, ris>>
          BY <2>9, <3>2 DEF ReadDr
        <5> QED
          BY <5>1 DEF Get, Rest, r, w
      <4>2. Len(r) # 0
        BY <3>2 DEF NumAvailable, r
      <4>3. Link' = Join(Rest(r), w, flight, t, u)
        BY <2>2, <4>1 DEF t, u
      <4>4. /\ Join(r, w, flight, t, u) # << >>
            /\ Join(Rest(r), w, flight, t, u) = Rest(Join(r, w, flight, t, u))
        BY <2>1, <4>2, JoinReceive
      <4> QED
        BY <2>1, <4>1, <4>3, <4>4 DEF LinkSpec!Next, LinkSpec!Receive, Rest
    <3> QED
      BY <3>1, <3>2
  <2>10. CASE StoreFrame
    <3>1. Len(flight) = 1 /\ flight' = << >> /\ UNCHANGED tx
      BY <2>10 DEF StoreFrame, TypeOK
    <3>2. CASE NumFree(rx) = 0
      <4>1. UNCHANGED rx /\ ("ROR" \in ris') = TRUE
        BY <2>10, <3>2 DEF StoreFrame
      <4>2. Link' = Join(r, w, Nil, t, u)
        BY <2>2, <3>1, <4>1 DEF r, w, t, u, Nil
      <4>3. DropsOne(Join(r, w, flight, t, u), Join(r, w, Nil, t, u))
        BY <2>1, <3>1, JoinOverrun
      <4>4. DropsOne(Link, Link')
        BY <2>1, <4>2, <4>3
      <4>5. DOMAIN Link = 1 .. Len(Link)
        BY <2>1, JoinOfFive, LenProperties
      <4> QED
        BY <4>1, <4>4, <4>5 DEF LinkSpec!Next, LinkSpec!Overrun, DropsOne, Cat, Part
    <3>3. CASE NumFree(rx) # 0
      <4>1. rx'.ready = r /\ rx'.written = App(w, flight[1]) /\ UNCHANGED ris
        BY <2>10, <3>3 DEF StoreFrame, Put, App, r, w
      <4>2. Link' = Join(r, App(w, flight[1]), Nil, t, u)
        BY <2>2, <3>1, <4>1 DEF t, u, Nil
      <4>3. Join(r, App(w, flight[1]), Nil, t, u) = Join(r, w, flight, t, u)
        BY <2>1, <3>1, JoinStore
      <4> QED
        BY <2>1, <4>1, <4>2, <4>3
    <3> QED
      BY <3>2, <3>3
  <2>11. CASE NextFrame
    <3> DEFINE starts == NumAvailable(tx) # 0 /\ sse
    <3>1. Len(flight) = 0 /\ UNCHANGED <<rx, ris>>
      BY <2>11 DEF NextFrame, TypeOK, regs
    <3>2. CASE starts
      <4>1. tx'.ready = Rest(t) /\ tx'.written = u /\ flight' = One(First(t))
        BY <2>11, <3>2 DEF NextFrame, Get, One, First, Rest, t, u
      <4>2. Len(t) # 0
        BY <3>2 DEF NumAvailable, t
      <4>3. Link' = Join(r, w, One(First(t)), Rest(t), u)
        BY <2>2, <3>1, <4>1 DEF r, w
      <4>4. Join(r, w, One(First(t)), Rest(t), u) = Join(r, w, Nil, t, u)
        BY <2>1, <4>2, JoinTake
      <4>5. flight = Nil
        BY <2>1, <3>1, CatEmpty
      <4> QED
        BY <2>1, <3>1, <4>3, <4>4, <4>5
    <3>3. CASE ~starts
      <4>1. UNCHANGED tx /\ flight' = << >>
        BY <2>11, <3>3 DEF NextFrame
      <4>2. flight = << >>
        BY <2>1, <3>1, CatEmpty DEF Nil
      <4> QED
        BY <2>4, <3>1, <4>1, <4>2
    <3> QED
      BY <3>2, <3>3
  <2>12. CASE UpdateIntr
    <3>1. "ROR" \notin LevelsOf(tx, rx)
      BY DEF LevelsOf
    <3>2. ("ROR" \in ris') = ("ROR" \in ris)
      BY <2>12, <3>1 DEF UpdateIntr
    <3> QED
      BY <2>4, <2>12, <3>2 DEF UpdateIntr
  <2>13. CASE UpdateStatusReg
    BY <2>4, <2>13 DEF UpdateStatusReg, regs
  <2>14. CASE HandleReset
    <3>1. /\ rx'.ready = << >> /\ rx'.written = w /\ tx'.ready = << >> /\ tx'.written = u
          /\ UNCHANGED flight
      BY <2>14 DEF HandleReset, Drain, w, u
    <3>2. ("ROR" \in ris') = FALSE
      BY <2>14 DEF HandleReset
    <3>3. Link' = Join(Nil, w, flight, Nil, u)
      BY <2>2, <3>1 DEF Nil
    <3>4. Len(w) + Len(flight) <= 1
      BY InFlight DEF w
    <3>5. ResetOf(Join(r, w, flight, t, u), Join(Nil, w, flight, Nil, u))
      BY <2>1, <3>4, JoinReset
    <3>6. ResetOf(Link, Link')
      BY <2>1, <3>3, <3>5
    <3> QED
      BY <3>2, <3>6 DEF LinkSpec!Next, LinkSpec!Reset, ResetOf, Cat, One, Part, Nil
  <2>15. ASSUME NEW fell \in BOOLEAN, DeltaCycle(fell) PROVE UNCHANGED <<Link, "ROR" \in ris>>
    <3>1. /\ rx'.ready = Cat(r, w) /\ rx'.written = << >>
          /\ tx'.ready = Cat(t, u) /\ tx'.written = << >>
          /\ UNCHANGED <<flight, ris>>
      BY <2>15 DEF DeltaCycle, Updated, Cat, regs, r, w, t, u
    <3>2. Link' = Join(Cat(r, w), Nil, flight, Cat(t, u), Nil)
      BY <2>2, <3>1 DEF Nil
    <3>3. Join(Cat(r, w), Nil, flight, Cat(t, u), Nil) = Join(r, w, flight, t, u)
      BY <2>1, JoinUpdate
    <3> QED
      BY <2>1, <3>1, <3>2, <3>3
  <2>16. CASE ShiftDone \/ PassTime
    BY <2>4, <2>16 DEF ShiftDone, PassTime, regs
  <2>17. CASE UNCHANGED vars
    BY <2>4, <2>17 DEF vars, regs
  <2> QED
    BY <2>5, <2>6, <2>7, <2>8, <2>9, <2>10, <2>11, <2>12, <2>13, <2>14, <2>15, <2>16, <2>17
    DEF Next, BTransport, WriteReg, ReadReg
<1> QED
  BY <1>1, <1>2, TypeCorrect, DeltaOwed, PTL DEF SafetySpec, ImplementsFrameLink, LinkSpec!Spec

=============================================================================
