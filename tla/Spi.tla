-------------------------------- MODULE Spi ---------------------------------
(***************************************************************************)
(* The PL022-based SPI controller: the thread transmit shifts frames from  *)
(* the transmit to the receive FIFO through the peripheral, the methods    *)
(* update_intr, update_status_reg and handle_reset run on zero-time events *)
(* and on the falling reset edge, and the hart's b_transport may fall      *)
(* between any two of them.  A frame is a value that stands for the word   *)
(* sent and for the peripheral's answer to it; the width mask of CR0, the  *)
(* duration set by CR0 and CPSR, and DMACR are abstracted.                 *)
(***************************************************************************)
EXTENDS Naturals, Sequences

CONSTANTS FifoSize,    \* FIFO_SIZE
          Frames,      \* words software writes to DR
          MaskValues,  \* values software writes to IMSC
          MaxAccess    \* accesses the hart makes before it lets time pass

\* RT (receive timeout) can be masked but is never raised by this model.
Interrupt == {"ROR", "RT", "RX", "TX"}
StatusBit == {"TFE", "TNF", "RNE", "RFF", "BSY"}
Process == {"transmit", "update_intr", "update_status_reg", "handle_reset"}
Event == {"transmission", "possible_intr", "status"}

ASSUME SpiAssumption ==
    /\ FifoSize \in Nat /\ FifoSize >= 2
    /\ Frames # {}
    /\ MaskValues \subseteq SUBSET Interrupt
    /\ MaxAccess \in Nat \ {0}

(* sc_fifo, as its users see it between two update phases: the entries     *)
(* that can be read, those written and the number freed in this delta      *)
(* cycle.  Drain is a loop of nb_read.                                     *)
Empty == [ready |-> << >>, written |-> << >>, freed |-> 0]
NumAvailable(f) == Len(f.ready)
NumFree(f) == FifoSize - (Len(f.ready) + f.freed) - Len(f.written)
Put(f, frame) == [ready |-> f.ready, written |-> Append(f.written, frame), freed |-> f.freed]
Get(f) == [ready |-> Tail(f.ready), written |-> f.written, freed |-> f.freed + 1]
\* Fault: the reset takes one entry instead of all.
DrainOnce(f) == IF f.ready = << >> THEN f ELSE Get(f)

Drain(f) == [ready |-> << >>, written |-> f.written, freed |-> f.freed + Len(f.ready)]
Updated(f) == [ready |-> f.ready \o f.written, written |-> << >>, freed |-> 0]

VARIABLES
    sse,            \* SSE bit of reg_cr1
    imsc,           \* reg_imsc
    ris, mis,       \* reg_ris, reg_mis
    sr,             \* reg_sr
    tx, rx,         \* tx_fifo, rx_fifo
    transmitting,   \* is_transmitting
    flight,         \* data_buffer of transmit: the frame shifted, or none
    loc,            \* transmit: "start", "idle", "shift" (wait(delay)) or
                    \* "stored" (wait(SC_ZERO_TIME))
    runnable,       \* processes in the kernel's runnable set
    notified,       \* events with a pending zero-time notification
    written, intr,  \* value written to and value of the intr signal
    accesses,       \* accesses the hart has made in this instant
    resetSr         \* history: reg_sr dates from the delta cycle of a reset
                    \* ("now" in that cycle, "later" after it), or "no"

regs == <<sse, imsc, ris, mis>>
outs == <<written, intr>>
vars == <<regs, sr, tx, rx, transmitting, flight, loc, runnable, notified, outs, accesses, resetSr>>

\* update_status_reg on given FIFOs and busy flag.
StatusOf(t, r, busy) ==
    {b \in StatusBit :
        \/ b = "RFF" /\ NumAvailable(r) = FifoSize
        \/ b = "RNE" /\ NumAvailable(r) # 0
        \/ b = "TNF" /\ NumFree(t) # 0
        \/ b = "TFE" /\ NumFree(t) = FifoSize
        \/ b = "BSY" /\ (busy \/ NumFree(t) # FifoSize)}

\* The level interrupts update_intr recomputes.
LevelsOf(t, r) ==
    {i \in {"TX", "RX"} :
        \/ i = "TX" /\ NumAvailable(t) <= FifoSize \div 2
        \/ i = "RX" /\ NumAvailable(r) >= FifoSize \div 2}

Init ==
    /\ sse = FALSE /\ imsc = {} /\ ris = {} /\ mis = {} /\ sr = {}
    /\ tx = Empty /\ rx = Empty
    /\ transmitting = FALSE
    /\ flight = << >>
    /\ loc = "start"
    /\ runnable = {"transmit", "handle_reset"}   \* run at initialization
    /\ notified = {}
    /\ written = FALSE /\ intr = FALSE
    /\ accesses = 0
    /\ resetSr = "no"

-----------------------------------------------------------------------------
(* b_transport *)

SrComputed == resetSr' = IF resetSr = "now" THEN "now" ELSE "no"

Access == accesses < MaxAccess /\ accesses' = accesses + 1

\* Fault: enabling the port does not wake the transmit thread.
WriteCr1Quiet(on) ==
    /\ Access
    /\ sse' = on
    /\ UNCHANGED <<imsc, ris, mis, sr, tx, rx, transmitting, flight, loc, runnable, notified, outs, resetSr>>

WriteCr1(on) ==
    /\ Access
    /\ sse' = on
    /\ notified' = notified \cup (IF on THEN {"transmission"} ELSE {})
    /\ UNCHANGED <<imsc, ris, mis, sr, tx, rx, transmitting, flight, loc, runnable, outs, resetSr>>

\* Fault: the full check uses the entries that can be read.
TxHasRoomStale == NumAvailable(tx) < FifoSize

TxHasRoom == NumFree(tx) # 0

\* A write to a full FIFO answers an error and changes nothing but DR.
WriteDr(frame) ==
    /\ Access
    /\ TxHasRoom
    /\ tx' = Put(tx, frame)
    /\ notified' = notified \cup {"possible_intr", "transmission"}
    /\ sr' = StatusOf(tx', rx, transmitting)
    /\ SrComputed
    /\ UNCHANGED <<regs, rx, transmitting, flight, loc, runnable, outs>>

\* Fault: the receive FIFO is popped without asking for a new status.
ReadDrQuiet ==
    /\ Access
    /\ \/ /\ NumAvailable(rx) = 0
          /\ ris' = ris \cup {"ROR"}
          /\ UNCHANGED rx
       \/ /\ NumAvailable(rx) # 0
          /\ rx' = Get(rx)
          /\ UNCHANGED ris
    /\ notified' = notified \cup {"possible_intr"}
    /\ UNCHANGED <<sse, imsc, mis, sr, tx, transmitting, flight, loc, runnable, outs, resetSr>>

ReadDr ==
    /\ Access
    /\ \/ /\ NumAvailable(rx) = 0
          /\ ris' = ris \cup {"ROR"}
          /\ notified' = notified \cup {"possible_intr"}
          /\ UNCHANGED rx
       \/ /\ NumAvailable(rx) # 0
          /\ rx' = Get(rx)
          /\ notified' = notified \cup {"possible_intr", "status"}
          /\ UNCHANGED ris
    /\ UNCHANGED <<sse, imsc, mis, sr, tx, transmitting, flight, loc, runnable, outs, resetSr>>

WriteImsc(mask) ==
    /\ Access
    /\ imsc' = mask
    /\ notified' = notified \cup {"possible_intr"}
    /\ UNCHANGED <<sse, ris, mis, sr, tx, rx, transmitting, flight, loc, runnable, outs, resetSr>>

\* Fault: the raw bits are cleared but the pin is not recomputed.
WriteIcrQuiet(bits) ==
    /\ Access
    /\ ris' = ris \ bits
    /\ UNCHANGED <<sse, imsc, mis, sr, tx, rx, transmitting, flight, loc, runnable, notified, outs, resetSr>>

WriteIcr(bits) ==
    /\ Access
    /\ ris' = ris \ bits
    /\ notified' = notified \cup {"possible_intr"}
    /\ UNCHANGED <<sse, imsc, mis, sr, tx, rx, transmitting, flight, loc, runnable, outs, resetSr>>

\* Writes to other registers, and rejected ones, change no modelled state.
WriteReg ==
    \/ \E on \in BOOLEAN : WriteCr1(on)
    \/ \E frame \in Frames : WriteDr(frame)
    \/ \E mask \in MaskValues : WriteImsc(mask)
    \/ \E bits \in SUBSET {"ROR", "RT"} : WriteIcr(bits)

\* Only a read of the data register changes state.
ReadReg == ReadDr

BTransport == WriteReg \/ ReadReg

-----------------------------------------------------------------------------
(* transmit: one run, from its wake-up to the next wait *)

\* Fault: a frame that finds the receive FIFO full is dropped silently.
StoreFrameSilent ==
    /\ "transmit" \in runnable /\ loc = "shift"
    /\ runnable' = runnable \ {"transmit"}
    /\ loc' = "stored"
    /\ flight' = << >>
    /\ rx' = IF NumFree(rx) = 0 THEN rx ELSE Put(rx, flight[1])
    /\ UNCHANGED <<regs, sr, tx, transmitting, notified, outs, accesses, resetSr>>

\* The end of a frame: store it, or record an overrun, then wait a delta.
StoreFrame ==
    /\ "transmit" \in runnable /\ loc = "shift"
    /\ runnable' = runnable \ {"transmit"}
    /\ loc' = "stored"
    /\ flight' = << >>
    /\ \/ NumFree(rx) = 0 /\ ris' = ris \cup {"ROR"} /\ UNCHANGED rx
       \/ NumFree(rx) # 0 /\ rx' = Put(rx, flight[1]) /\ UNCHANGED ris
    /\ UNCHANGED <<sse, imsc, mis, sr, tx, transmitting, notified, outs, accesses, resetSr>>

\* The top of the loop: take the next frame or go to sleep.
NextFrame ==
    LET starts == NumAvailable(tx) # 0 /\ sse
        done == IF loc = "stored" THEN {"possible_intr"} ELSE {}
    IN
    /\ "transmit" \in runnable /\ loc # "shift"
    /\ runnable' = runnable \ {"transmit"}
    /\ transmitting' = starts
    /\ tx' = IF starts THEN Get(tx) ELSE tx
    /\ flight' = IF starts THEN << Head(tx.ready) >> ELSE << >>
    /\ loc' = IF starts THEN "shift" ELSE "idle"
    /\ notified' = notified \cup {"status"} \cup done
    /\ UNCHANGED <<regs, sr, rx, outs, accesses, resetSr>>

-----------------------------------------------------------------------------
(* The methods *)

UpdateIntr ==
    /\ "update_intr" \in runnable
    /\ runnable' = runnable \ {"update_intr"}
    /\ ris' = (ris \ {"TX", "RX"}) \cup LevelsOf(tx, rx)
    /\ mis' = ris' \cap imsc
    /\ written' = (mis' # {})
    /\ UNCHANGED <<sse, imsc, sr, tx, rx, transmitting, flight, loc, notified, intr, accesses, resetSr>>

UpdateStatusReg ==
    /\ "update_status_reg" \in runnable
    /\ runnable' = runnable \ {"update_status_reg"}
    /\ sr' = StatusOf(tx, rx, transmitting)
    /\ SrComputed
    /\ UNCHANGED <<regs, tx, rx, transmitting, flight, loc, notified, outs, accesses>>

\* The FIFOs are drained of what can be read in this delta cycle; transmit is
\* not told, a frame being shifted stays in flight.
HandleReset ==
    /\ "handle_reset" \in runnable
    /\ runnable' = runnable \ {"handle_reset"}
    /\ sse' = FALSE /\ imsc' = {} /\ ris' = {"TX"} /\ mis' = {}
    /\ tx' = Drain(tx) /\ rx' = Drain(rx)
    /\ transmitting' = FALSE
    /\ notified' = notified \cup {"possible_intr"}
    /\ sr' = StatusOf(tx', rx', FALSE)
    /\ resetSr' = "now"
    /\ UNCHANGED <<flight, loc, outs, accesses>>

-----------------------------------------------------------------------------
(* The simulation kernel *)

\* Something is left to do in this instant once no process is runnable.
Pending ==
    \/ notified # {}
    \/ tx # Updated(tx) \/ rx # Updated(rx)
    \/ written # intr
    \/ loc = "stored"

Wakes(fell) ==
    (IF "status" \in notified THEN {"update_status_reg"} ELSE {})
    \cup (IF "possible_intr" \in notified THEN {"update_intr"} ELSE {})
    \cup (IF loc = "stored" \/ (loc = "idle" /\ "transmission" \in notified)
            THEN {"transmit"} ELSE {})
    \cup (IF fell THEN {"handle_reset"} ELSE {})

\* Update and delta notification; fell: the reset input falls in this update.
DeltaCycle(fell) ==
    /\ runnable = {}
    /\ Pending \/ fell
    /\ tx' = Updated(tx) /\ rx' = Updated(rx)
    /\ intr' = written
    /\ notified' = {}
    /\ runnable' = Wakes(fell)
    /\ resetSr' = IF resetSr = "now" THEN "later" ELSE resetSr
    /\ UNCHANGED <<regs, sr, transmitting, flight, loc, written, accesses>>

\* Time passes; the frame being shifted, if any, may be complete.
Settled == runnable = {} /\ ~Pending

ShiftDone ==
    /\ Settled
    /\ loc = "shift"
    /\ runnable' = {"transmit"}
    /\ accesses' = 0
    /\ UNCHANGED <<regs, sr, tx, rx, transmitting, flight, loc, notified, outs, resetSr>>

PassTime ==
    /\ Settled
    /\ accesses # 0
    /\ accesses' = 0
    /\ UNCHANGED <<regs, sr, tx, rx, transmitting, flight, loc, runnable, notified, outs, resetSr>>

Next ==
    \/ BTransport
    \/ StoreFrame \/ NextFrame
    \/ UpdateIntr \/ UpdateStatusReg \/ HandleReset
    \/ \E fell \in BOOLEAN : DeltaCycle(fell)
    \/ ShiftDone \/ PassTime

\* The kernel runs what is runnable, ends every delta cycle, and a frame's
\* shift time is finite.
Fairness ==
    /\ WF_vars(StoreFrame) /\ WF_vars(NextFrame)
    /\ WF_vars(UpdateIntr) /\ WF_vars(UpdateStatusReg) /\ WF_vars(HandleReset)
    /\ WF_vars(Pending /\ \E fell \in BOOLEAN : DeltaCycle(fell))
    /\ WF_vars(ShiftDone)

SafetySpec == Init /\ [][Next]_vars
Spec == SafetySpec /\ Fairness

-----------------------------------------------------------------------------
(* Properties *)

FifoOK(f) ==
    /\ f \in [ready : Seq(Frames), written : Seq(Frames), freed : 0 .. FifoSize]
    /\ Len(f.ready) + Len(f.written) + f.freed <= FifoSize

\* Type invariant; neither FIFO ever holds more than FIFO_SIZE entries, also
\* counting the ones written or freed in the present delta cycle.
TypeOK ==
    /\ sse \in BOOLEAN /\ transmitting \in BOOLEAN
    /\ imsc \subseteq Interrupt /\ ris \subseteq Interrupt /\ mis \subseteq Interrupt
    /\ sr \subseteq StatusBit
    /\ FifoOK(tx) /\ FifoOK(rx)
    /\ flight \in Seq(Frames) /\ Len(flight) = (IF loc = "shift" THEN 1 ELSE 0)
    /\ loc \in {"start", "idle", "shift", "stored"}
    /\ runnable \subseteq Process /\ notified \subseteq Event
    /\ written \in BOOLEAN /\ intr \in BOOLEAN
    /\ accesses \in 0 .. MaxAccess
    /\ resetSr \in {"no", "now", "later"}

\* What SR should show at the end of an instant.
TrueStatus == StatusOf(tx, rx, transmitting)

\* At the end of every instant SR shows the FIFOs and the busy flag, unless
\* it was last computed in the delta cycle of a reset.
StatusAccurateOutsideReset == Settled /\ resetSr = "no" /\ loc # "start" => sr = TrueStatus

\* README.md line 8: "8-location deep TX and RX FIFOs with accurate Status
\* Register (SR) behavior": at the end of every instant, resets included.
StatusAccurate == Settled /\ loc # "start" => sr = TrueStatus

\* At the end of every instant outside a frame's shift time the pin equals
\* the masked raw status, and the raw TX and RX bits show the FIFO levels.
InterruptAccurate ==
    Settled /\ loc # "shift" =>
        /\ intr <=> ris \cap imsc # {}
        /\ ris \cap {"TX", "RX"} = LevelsOf(tx, rx)

\* No lost wake-up: with the port enabled a queued frame is eventually
\* shifted, unless it is disabled or the FIFO is drained by a reset.
QueuedFrameIsShifted ==
    sse /\ NumAvailable(tx) > 0 ~> loc = "shift" \/ ~sse \/ NumAvailable(tx) = 0

\* The frames in the controller, oldest first: received, being shifted, queued.
Link == (rx.ready \o rx.written) \o flight \o (tx.ready \o tx.written)

LinkSpec == INSTANCE FrameLink
    WITH link <- Link, ror <- "ROR" \in ris, Capacity <- 2 * FifoSize + 1

\* The hart reads the frames it wrote in order, each once; a frame is lost
\* only with ROR recorded in the same step or in a reset, whatever the order
\* of accesses, shifts, methods and resets.
ImplementsFrameLink == LinkSpec!Spec

\* README.md line 25, reset: "clears both FIFOs".  All that survives
\* handle_reset is the frame being shifted (or stored in this delta cycle) and
\* what the hart wrote to DR in this very delta cycle.
ResetClearsFifos == [][HandleReset => Len(Link') <= 1 + Len(tx.written)]_vars

=============================================================================
