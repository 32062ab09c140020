------------------------------- MODULE MemBus -------------------------------
(***************************************************************************)
(* The address decoder bus_router with memory_tlm targets behind it, and   *)
(* the ELF loader that writes the firmware image through the debug         *)
(* transport before the hart runs.  All upstream ports of the router share *)
(* the same handlers, which do not yield, so the initiators' transactions  *)
(* interleave as atomic steps.  A platform binds each range to a memory of *)
(* the range's size and its ranges are disjoint.  Addresses are unsigned   *)
(* and wrap at Word.                                                       *)
(***************************************************************************)
EXTENDS Integers, Sequences

CONSTANTS Word,       \* modulus of the 64-bit address
          Map,        \* the platform's targets, in add_target order: a
                      \* sequence of records [base, size, readOnly]
          Images,     \* ELF images: sequences of PT_LOAD segments, records
                      \* [addr, bytes, inFile]; inFile: the bytes are there
          Byte,       \* values of a byte; a memory is zero-filled
          MaxLen      \* bound on the length of a request

Range(i) == Map[i].base .. Map[i].base + Map[i].size - 1

Target == [base : 0 .. Word - 1, size : 1 .. Word, readOnly : BOOLEAN]
Segment == [addr : 0 .. Word - 1, bytes : Seq(Byte), inFile : BOOLEAN]

ASSUME MemBusAssumption ==
    /\ Word \in Nat \ {0} /\ MaxLen \in Nat
    /\ 0 \in Byte
    /\ Map \in Seq(Target)
    /\ \A i \in DOMAIN Map :
        /\ Map[i].base + Map[i].size <= Word
        /\ \A j \in DOMAIN Map \ {i} : Range(i) \cap Range(j) = {}
    /\ \A img \in Images :
        /\ img \in Seq(Segment)
        /\ \A s \in DOMAIN img : Len(img[s].bytes) <= MaxLen

VARIABLES
    ranges,   \* number of entries of ranges_
    data,     \* data_ of each memory, a function of the offset
    phase,    \* "elaborate", "load", "run", or "aborted" by an exception
    image,    \* the ELF file given to the loader
    loaded,   \* segments load_elf is done with
    last      \* the last transaction and the number of bytes it transferred

vars == <<ranges, data, phase, image, loaded, last>>

NoRequest == [op |-> "none", addr |-> 0, data |-> <<>>, count |-> 0]

\* The address the router passes on to target i for address a.
Offset(i, a) == a - Map[i].base

Init ==
    /\ ranges = 0
    /\ data = [i \in DOMAIN Map |-> [o \in 0 .. Map[i].size - 1 |-> 0]]
    /\ phase = "elaborate"
    /\ image \in Images
    /\ loaded = 0
    /\ last = NoRequest

-----------------------------------------------------------------------------
(* memory_tlm; o is the offset the router passes on *)

Overwrite(i, o, bytes, n) ==
    [data EXCEPT ![i] = [x \in DOMAIN @ |-> IF x \in o .. o + n - 1 THEN bytes[x - o + 1] ELSE @[x]]]

Bytes(i, o, n) == [x \in 1 .. n |-> data[i][o + x - 1]]

Stored(a, bytes, n) == last' = [op |-> "write", addr |-> a, data |-> bytes, count |-> n]
Fetched(a, bytes) == last' = [op |-> "read", addr |-> a, data |-> bytes, count |-> Len(bytes)]

\* An error response: nothing is transferred.
RefuseRead(a) == Fetched(a, <<>>) /\ UNCHANGED data
RefuseWrite(a, bytes) == Stored(a, bytes, 0) /\ UNCHANGED data

\* load and b_transport transfer everything or nothing.
Fits(i, o, len) == o <= Map[i].size /\ len <= Map[i].size - o

\* load, from the platform's constructor: a ROM is filled this way, and a
\* block that does not fit ends the program with an error report.
Load(i, o, bytes) ==
    /\ phase = "elaborate"
    /\ IF Fits(i, o, Len(bytes))
         THEN data' = Overwrite(i, o, bytes, Len(bytes)) /\ UNCHANGED phase
         ELSE phase' = "aborted" /\ UNCHANGED data
    /\ UNCHANGED <<ranges, image, loaded, last>>

\* The transactions carry the initiator's address a, which the router
\* restores after the call, and the offset o it passes on.
BTransportRead(i, a, o, len) ==
    IF Fits(i, o, len)
      THEN Fetched(a, Bytes(i, o, len)) /\ UNCHANGED data
      ELSE RefuseRead(a)

BTransportWrite(i, a, o, bytes) ==
    IF Fits(i, o, Len(bytes)) /\ ~Map[i].readOnly
      THEN /\ data' = Overwrite(i, o, bytes, Len(bytes))
           /\ Stored(a, bytes, Len(bytes))
      ELSE RefuseWrite(a, bytes)

\* transport_dbg transfers what fits, and says how much that is.
Clamp(i, o, len) == IF len <= Map[i].size - o THEN len ELSE Map[i].size - o

DbgRead(i, a, o, len) == Fetched(a, Bytes(i, o, Clamp(i, o, len))) /\ UNCHANGED data

\* Fault: the debug transport reports the length it was asked for.
DbgWriteUnreported(i, a, o, bytes) ==
    IF Map[i].readOnly THEN RefuseWrite(a, bytes)
    ELSE /\ data' = Overwrite(i, o, bytes, Clamp(i, o, Len(bytes)))
         /\ Stored(a, bytes, Len(bytes))

\* Fault: the debug transport is a backdoor into read-only memories too.
DbgWriteRom(i, a, o, bytes) ==
    LET n == Clamp(i, o, Len(bytes)) IN
    data' = Overwrite(i, o, bytes, n) /\ Stored(a, bytes, n)

DbgWrite(i, a, o, bytes) ==
    IF Map[i].readOnly THEN RefuseWrite(a, bytes)
    ELSE LET n == Clamp(i, o, Len(bytes)) IN
         data' = Overwrite(i, o, bytes, n) /\ Stored(a, bytes, n)

-----------------------------------------------------------------------------
(* bus_router *)

\* Fault: the upper bound is part of the region.
ContainsInclusive(i, a) == a >= Map[i].base /\ a <= (Map[i].base + Map[i].size) % Word

\* address_range::contains: the end of the region wraps.
Contains(i, a) == a >= Map[i].base /\ a < (Map[i].base + Map[i].size) % Word

\* decode: the first registered range that contains the address, or none.
Decode(a) ==
    {i \in 1 .. ranges : Contains(i, a) /\ \A j \in 1 .. i - 1 : ~Contains(j, a)}

\* Fault: the table grows past the sockets.
AddTargetUnbounded ==
    /\ phase = "elaborate"
    /\ ranges' = ranges + 1
    /\ UNCHANGED <<data, phase, image, loaded, last>>

\* One socket per entry of Map is constructed; one add_target too many throws.
AddTarget ==
    /\ phase = "elaborate"
    /\ \/ ranges < Len(Map) /\ ranges' = ranges + 1 /\ UNCHANGED phase
       \/ ranges = Len(Map) /\ phase' = "aborted" /\ UNCHANGED ranges
    /\ UNCHANGED <<data, image, loaded, last>>

EndOfElaboration ==
    /\ phase = "elaborate"
    /\ ranges = Len(Map)      \* the kernel refuses unbound sockets
    /\ phase' = "load"
    /\ UNCHANGED <<ranges, data, image, loaded, last>>

\* The router's b_transport and transport_dbg: the decoded target gets the
\* translated address, an address nobody decodes is an error.
Read(a, len) ==
    \/ \E i \in Decode(a) :
        BTransportRead(i, a, Offset(i, a), len) \/ DbgRead(i, a, Offset(i, a), len)
    \/ Decode(a) = {} /\ RefuseRead(a)

WriteDbg(a, bytes) ==
    \/ \E i \in Decode(a) : DbgWrite(i, a, Offset(i, a), bytes)
    \/ Decode(a) = {} /\ RefuseWrite(a, bytes)

Write(a, bytes) ==
    \/ \E i \in Decode(a) : BTransportWrite(i, a, Offset(i, a), bytes)
    \/ WriteDbg(a, bytes)

-----------------------------------------------------------------------------
(* load_elf and dbg_write, before the hart runs *)

\* Fault: the count transport_dbg returns is not looked at.
CompleteUnchecked(n, len) == TRUE

Complete(n, len) == n = len

LoadSegment ==
    /\ phase = "load"
    /\ loaded < Len(image)
    /\ LET s == image[loaded + 1] IN
       \/ /\ s.bytes = <<>>            \* p_filesz == 0
          /\ loaded' = loaded + 1
          /\ UNCHANGED <<data, phase, last>>
       \/ /\ s.bytes # <<>> /\ ~s.inFile
          /\ phase' = "aborted"
          /\ UNCHANGED <<data, loaded, last>>
       \/ /\ s.bytes # <<>> /\ s.inFile
          /\ WriteDbg(s.addr, s.bytes)
          /\ IF Complete(last'.count, Len(s.bytes))
               THEN loaded' = loaded + 1 /\ UNCHANGED phase
               ELSE phase' = "aborted" /\ UNCHANGED loaded
    /\ UNCHANGED <<ranges, image>>

StartHart ==
    /\ phase = "load"
    /\ loaded = Len(image)
    /\ phase' = "run"
    /\ UNCHANGED <<ranges, data, image, loaded, last>>

-----------------------------------------------------------------------------
(* Transactions of the initiators *)

Blocks == UNION {[1 .. n -> Byte] : n \in 0 .. MaxLen}

Transaction ==
    /\ phase = "run"
    /\ \E a \in 0 .. Word - 1 :
        \/ \E len \in 0 .. MaxLen : Read(a, len)
        \/ \E bytes \in Blocks : Write(a, bytes)
    /\ UNCHANGED <<ranges, phase, image, loaded>>

Next ==
    \/ AddTarget
    \/ \E i \in 1 .. ranges : \E o \in 0 .. Map[i].size, bytes \in Blocks : Load(i, o, bytes)
    \/ EndOfElaboration
    \/ LoadSegment
    \/ StartHart
    \/ Transaction

Spec == Init /\ [][Next]_vars

-----------------------------------------------------------------------------
(* Properties *)

\* Type invariant of the router's table, the memories and the loader.
TypeOK ==
    /\ ranges \in 0 .. Len(Map)
    /\ \A i \in DOMAIN Map : data[i] \in [0 .. Map[i].size - 1 -> Byte]
    /\ phase \in {"elaborate", "load", "run", "aborted"}
    /\ image \in Images
    /\ loaded \in 0 .. Len(image)
    /\ last.addr \in 0 .. Word - 1
    /\ last.data \in Blocks
    /\ last.count \in 0 .. MaxLen

\* The byte an initiator should see at a mapped address.
Mapped == UNION {Range(i) : i \in DOMAIN Map}
Home(a) == CHOOSE i \in DOMAIN Map : a \in Range(i)
Contents == [a \in Mapped |-> data[Home(a)][Offset(Home(a), a)]]

\* Router and memories implement one flat memory: a transaction that crosses
\* the end of a region, misses every region, hits a ROM or is clamped by the
\* debug transport changes exactly the bytes it reports, at exactly the
\* addresses it names, and a read returns what was last stored there.
Flat == INSTANCE FlatMemory WITH flat <- Contents, building <- phase = "elaborate"
ImplementsFlatMemory == Flat!FlatSpec

\* Every segment load_elf went past is in memory, byte for byte, except where
\* a later segment overlaps it: a partial, unmapped or read-only write is never
\* taken for success (elf_loader.h line 59).
LoadedSegmentsResident ==
    phase \in {"load", "aborted"} =>
        \A s \in 1 .. loaded : \A k \in DOMAIN image[s].bytes :
            LET a == image[s].addr + k - 1
                Covers(t) == a \in image[t].addr .. image[t].addr + Len(image[t].bytes) - 1
            IN  (\A t \in s + 1 .. Len(image) : ~Covers(t))
                    => a \in Mapped /\ Contents[a] = image[s].bytes[k]

\* After elaboration no path into a read-only memory changes it: neither the
\* loader's backdoor nor a transaction of either kind.
RomStable ==
    [][phase # "elaborate" =>
        \A i \in DOMAIN Map : Map[i].readOnly => data'[i] = data[i]]_vars

=============================================================================
