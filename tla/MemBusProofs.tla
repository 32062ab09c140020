---------------------------- MODULE MemBusProofs ----------------------------
(***************************************************************************)
(* Proofs about the router, the memories and the ELF loader, for any       *)
(* memory map of disjoint regions, any images and any length of request:   *)
(* types, the flat memory they implement, the segments the loader went     *)
(* past and the read-only memories.                                        *)
(***************************************************************************)
EXTENDS MemBus, TLAPS

-----------------------------------------------------------------------------
(* Requests, regions and addresses *)

\* A block is a sequence of bytes no longer than a request.
LEMMA BlocksAreSequences ==
    \A b : b \in Blocks <=> b \in Seq(Byte) /\ Len(b) <= MaxLen
<1> USE MemBusAssumption
<1>1. ASSUME NEW b \in Blocks PROVE b \in Seq(Byte) /\ Len(b) <= MaxLen
  <2>1. PICK n \in 0 .. MaxLen : b \in [1 .. n -> Byte]
    BY DEF Blocks
  <2> QED
    BY <2>1
<1>2. ASSUME NEW b \in Seq(Byte), Len(b) <= MaxLen PROVE b \in Blocks
  <2>1. Len(b) \in 0 .. MaxLen /\ b \in [1 .. Len(b) -> Byte]
    BY <1>2
  <2> QED
    BY <2>1 DEF Blocks
<1> QED
  BY <1>1, <1>2

\* The empty block, of a refused read.
LEMMA EmptyBlock == << >> \in Blocks /\ 0 \in 0 .. MaxLen
<1>1. << >> \in Seq(Byte) /\ Len(<< >>) <= MaxLen /\ 0 \in 0 .. MaxLen
  BY MemBusAssumption
<1> QED
  BY <1>1, BlocksAreSequences

\* What the assumptions say of one region.
LEMMA RegionFacts ==
    ASSUME NEW i \in DOMAIN Map
    PROVE  /\ i \in 1 .. Len(Map)
           /\ Word \in Nat /\ Word > 0
           /\ Map[i].base \in Nat /\ Map[i].size \in Nat
           /\ Map[i].size > 0 /\ Map[i].base < Word
           /\ Map[i].base + Map[i].size <= Word
           /\ Map[i].readOnly \in BOOLEAN
<1>1. Map[i] \in Target
  BY MemBusAssumption
<1> QED
  BY <1>1, MemBusAssumption DEF Target

\* A wrapped upper bound never lies above the true one.
LEMMA WrapShrinks ==
    ASSUME NEW n \in Nat, n <= Word, Word \in Nat, Word > 0
    PROVE  n % Word \in Nat /\ n % Word <= n
<1>1. CASE n < Word
  BY <1>1
<1>2. CASE n = Word
  BY <1>2
<1> QED
  BY <1>1, <1>2

\* A decoded address lies in the region of its target, also where the end of
\* the region wraps: there nothing decodes.
LEMMA DecodeSound ==
    ASSUME ranges \in 0 .. Len(Map), NEW a \in 0 .. Word - 1, NEW i \in Decode(a)
    PROVE  /\ i \in DOMAIN Map /\ a \in Range(i)
           /\ Offset(i, a) \in 0 .. Map[i].size - 1
           /\ Map[i].base + Offset(i, a) = a
<1>1. i \in DOMAIN Map /\ Contains(i, a)
  BY MemBusAssumption DEF Decode
<1>2. a < Map[i].base + Map[i].size /\ a >= Map[i].base
  <2> DEFINE end == Map[i].base + Map[i].size
  <2>1. end \in Nat /\ end <= Word /\ Word \in Nat /\ Word > 0
    BY <1>1, RegionFacts
  <2>2. end % Word \in Nat /\ end % Word <= end
    BY <2>1, WrapShrinks
  <2>3. a >= Map[i].base /\ a < end % Word
    BY <1>1 DEF Contains
  <2> QED
    BY <2>1, <2>2, <2>3
<1> QED
  BY <1>1, <1>2, RegionFacts DEF Range, Offset

\* Regions are disjoint, so an address has one home.
LEMMA HomeUnique ==
    ASSUME NEW i \in DOMAIN Map, NEW a \in Range(i)
    PROVE  a \in Mapped /\ Home(a) = i
<1>1. a \in Mapped
  BY DEF Mapped
<1>2. Home(a) \in DOMAIN Map /\ a \in Range(Home(a))
  BY DEF Home
<1> QED
  BY <1>1, <1>2, MemBusAssumption

\* The home of a mapped address, and the offset in it.
LEMMA HomeOf ==
    ASSUME NEW a \in Mapped
    PROVE  /\ Home(a) \in DOMAIN Map /\ a \in Range(Home(a))
           /\ a \in 0 .. Word - 1
           /\ Offset(Home(a), a) \in 0 .. Map[Home(a)].size - 1
<1>1. PICK i \in DOMAIN Map : a \in Range(i)
  BY DEF Mapped
<1>2. Home(a) = i
  BY <1>1, HomeUnique
<1> QED
  BY <1>1, <1>2, RegionFacts DEF Range, Offset

-----------------------------------------------------------------------------
(* What reaches the memories *)

\* The memories are a function of the target, each of its region's size.
Memories ==
    /\ data = [i \in DOMAIN Map |-> data[i]]
    /\ \A i \in DOMAIN Map : data[i] \in [0 .. Map[i].size - 1 -> Byte]

\* n bytes written at offset o of target i land at the n addresses from
\* base + o on, and nowhere else.
LEMMA OverwriteEffect ==
    ASSUME Memories,
           NEW i \in DOMAIN Map, NEW o \in Nat, NEW n \in Nat, o + n <= Map[i].size,
           NEW bytes \in Blocks, n <= Len(bytes),
           NEW a \in Nat, a = Map[i].base + o,
           data' = Overwrite(i, o, bytes, n)
    PROVE  /\ Memories'
           /\ a .. a + n - 1 \subseteq Mapped
           /\ Contents' = [x \in Mapped |->
                IF x \in a .. a + n - 1 THEN bytes[x - a + 1] ELSE Contents[x]]
           /\ \A j \in DOMAIN Map \ {i} : data'[j] = data[j]
<1> DEFINE new == [x \in 0 .. Map[i].size - 1 |->
               IF x \in o .. o + n - 1 THEN bytes[x - o + 1] ELSE data[i][x]]
<1> HIDE DEF new
<1>1. bytes \in Seq(Byte)
  BY BlocksAreSequences
<1>2. DOMAIN data[i] = 0 .. Map[i].size - 1
  BY DEF Memories
<1>3. data' = [data EXCEPT ![i] = new]
  BY <1>2 DEF Overwrite, new
<1>4. data'[i] = new /\ (\A j \in DOMAIN Map \ {i} : data'[j] = data[j])
  BY <1>3 DEF Memories
<1>5. new \in [0 .. Map[i].size - 1 -> Byte]
  <2> SUFFICES ASSUME NEW x \in 0 .. Map[i].size - 1
               PROVE  (IF x \in o .. o + n - 1 THEN bytes[x - o + 1] ELSE data[i][x]) \in Byte
    BY DEF new
  <2>1. CASE x \in o .. o + n - 1
    <3>1. x - o + 1 \in 1 .. Len(bytes)
      BY <1>1, <2>1, RegionFacts
    <3> QED
      BY <1>1, <2>1, <3>1
  <2>2. CASE x \notin o .. o + n - 1
    BY <2>2 DEF Memories
  <2> QED
    BY <2>1, <2>2
<1>6. Memories'
  BY <1>3, <1>4, <1>5 DEF Memories
<1>7. a .. a + n - 1 \subseteq Range(i)
  <2>1. Map[i].base \in Nat /\ Map[i].size \in Nat
    BY RegionFacts
  <2>2. \A x \in a .. a + n - 1 : x \in Map[i].base .. Map[i].base + Map[i].size - 1
    BY <2>1
  <2> QED
    BY <2>2 DEF Range
<1>8. a .. a + n - 1 \subseteq Mapped
  BY <1>7 DEF Mapped
<1>9. ASSUME NEW x \in Mapped
      PROVE  data'[Home(x)][Offset(Home(x), x)]
                = IF x \in a .. a + n - 1 THEN bytes[x - a + 1] ELSE Contents[x]
  <2>1. Contents[x] = data[Home(x)][Offset(Home(x), x)]
    BY DEF Contents
  <2>2. CASE Home(x) = i
    <3>1. /\ Offset(i, x) \in 0 .. Map[i].size - 1
          /\ x \in Nat /\ Map[i].base \in Nat
          /\ Offset(i, x) = x - Map[i].base
      BY <2>2, HomeOf, RegionFacts DEF Offset
    <3>2. Offset(i, x) \in o .. o + n - 1 <=> x \in a .. a + n - 1
      BY <3>1
    <3>3. Offset(i, x) - o + 1 = x - a + 1
      BY <3>1
    <3> QED
      BY <1>4, <2>1, <2>2, <3>1, <3>2, <3>3 DEF new
  <2>3. CASE Home(x) # i
    <3>1. x \notin a .. a + n - 1
      BY <1>7, <2>3, HomeUnique
    <3> QED
      BY <1>4, <2>1, <2>3, <3>1, HomeOf
  <2> QED
    BY <2>2, <2>3
<1>10. Contents' = [x \in Mapped |-> data'[Home(x)][Offset(Home(x), x)]]
  BY DEF Contents
<1> QED
  BY <1>4, <1>6, <1>8, <1>9, <1>10

\* The read-only memories keep their contents.
RomKept == \A i \in DOMAIN Map : Map[i].readOnly => data'[i] = data[i]

Requests == [op : {"read", "write"}, addr : 0 .. Word - 1, data : Blocks, count : 0 .. MaxLen]

\* What every transaction does: it is one of the flat memory, of the type of
\* a request, and leaves the read-only memories alone.
Effect ==
    /\ Memories'
    /\ last' \in Requests
    /\ Flat!Span(last') \subseteq Mapped
    /\ Flat!Store(last') \/ Flat!Fetch(last')
    /\ RomKept

\* An error response transfers nothing.
LEMMA RefuseEffect ==
    ASSUME Memories, NEW a \in 0 .. Word - 1, NEW bytes \in Blocks,
           RefuseRead(a) \/ RefuseWrite(a, bytes)
    PROVE  Effect
<1>1. Memories' /\ RomKept /\ Contents' = Contents
  BY DEF Memories, RefuseRead, RefuseWrite, RomKept, Contents
<1>2. << >> \in Blocks /\ bytes \in Seq(Byte) /\ 0 \in 0 .. MaxLen
  BY EmptyBlock, BlocksAreSequences
<1>3. a \in Nat /\ a .. a + 0 - 1 = {}
  BY MemBusAssumption
<1>4. CASE RefuseRead(a)
  <2>1. last' = [op |-> "read", addr |-> a, data |-> << >>, count |-> 0]
    BY <1>4 DEF RefuseRead, Fetched
  <2>2. last' \in Requests /\ Flat!Span(last') = {}
    BY <1>2, <1>3, <2>1 DEF Requests, Flat!Span
  <2>3. Flat!Fetch(last')
    BY <1>1, <2>1 DEF Flat!Fetch
  <2> QED
    BY <1>1, <2>2, <2>3 DEF Effect
<1>5. CASE RefuseWrite(a, bytes)
  <2>1. last' = [op |-> "write", addr |-> a, data |-> bytes, count |-> 0]
    BY <1>5 DEF RefuseWrite, Stored
  <2>2. last' \in Requests /\ Flat!Span(last') = {}
    BY <1>2, <1>3, <2>1 DEF Requests, Flat!Span
  <2>3. Contents = [x \in Mapped |-> Contents[x]]
    BY DEF Contents
  <2>4. Flat!Store(last')
    BY <1>1, <1>2, <2>1, <2>2, <2>3 DEF Flat!Store
  <2> QED
    BY <1>1, <2>2, <2>4 DEF Effect
<1> QED
  BY <1>4, <1>5

\* A block stored in a writable region.
LEMMA StoreEffect ==
    ASSUME Memories, NEW i \in DOMAIN Map, ~Map[i].readOnly,
           NEW a \in Range(i), NEW bytes \in Blocks,
           NEW n \in Nat, n <= Len(bytes), Offset(i, a) + n <= Map[i].size,
           data' = Overwrite(i, Offset(i, a), bytes, n),
           Stored(a, bytes, n)
    PROVE  Effect
<1>1. /\ Map[i].base \in Nat /\ Map[i].size \in Nat /\ Word \in Nat
      /\ Map[i].base + Map[i].size <= Word
  BY RegionFacts
<1>2. /\ Offset(i, a) \in Nat /\ Map[i].base + Offset(i, a) = a
      /\ a \in 0 .. Word - 1
  BY <1>1 DEF Offset, Range
<1>3. /\ Memories'
      /\ a .. a + n - 1 \subseteq Mapped
      /\ Contents' = [x \in Mapped |->
            IF x \in a .. a + n - 1 THEN bytes[x - a + 1] ELSE Contents[x]]
      /\ \A j \in DOMAIN Map \ {i} : data'[j] = data[j]
  <2>1. a \in Nat /\ a = Map[i].base + Offset(i, a) /\ Offset(i, a) \in Nat
    BY <1>2
  <2> QED
    BY <2>1, OverwriteEffect
<1>4. bytes \in Seq(Byte) /\ Len(bytes) <= MaxLen /\ MaxLen \in Nat
  BY BlocksAreSequences, MemBusAssumption
<1>5. last' = [op |-> "write", addr |-> a, data |-> bytes, count |-> n]
  BY DEF Stored
<1>6. last' \in Requests
  BY <1>2, <1>4, <1>5 DEF Requests
<1>7. Flat!Span(last') \subseteq Mapped /\ Flat!Store(last')
  BY <1>3, <1>5 DEF Flat!Span, Flat!Store
<1> QED
  BY <1>3, <1>6, <1>7 DEF Effect, RomKept

\* A block fetched from a region.
LEMMA FetchEffect ==
    ASSUME Memories, NEW i \in DOMAIN Map, NEW a \in Range(i),
           NEW n \in 0 .. MaxLen, Offset(i, a) + n <= Map[i].size,
           Fetched(a, Bytes(i, Offset(i, a), n)), UNCHANGED data
    PROVE  Effect
<1> DEFINE bytes == Bytes(i, Offset(i, a), n)
<1>1. /\ Map[i].base \in Nat /\ Map[i].size \in Nat /\ Word \in Nat
      /\ Map[i].base + Map[i].size <= Word /\ MaxLen \in Nat
  BY RegionFacts, MemBusAssumption
<1>2. /\ Offset(i, a) \in Nat /\ Offset(i, a) = a - Map[i].base
      /\ a \in 0 .. Word - 1
  BY <1>1 DEF Offset, Range
<1>3. Memories' /\ RomKept /\ Contents' = Contents
  BY DEF Memories, RomKept, Contents
<1>4. ASSUME NEW k \in 1 .. n
      PROVE  /\ a + k - 1 \in Range(i)
             /\ data[i][Offset(i, a) + k - 1] \in Byte
             /\ data[i][Offset(i, a) + k - 1] = Contents[a + k - 1]
  <2>1. a + k - 1 \in Range(i) /\ Offset(i, a) + k - 1 \in 0 .. Map[i].size - 1
    BY <1>1, <1>2 DEF Range
  <2>2. Offset(i, a + k - 1) = Offset(i, a) + k - 1
    BY <1>1, <1>2 DEF Offset
  <2>3. a + k - 1 \in Mapped /\ Home(a + k - 1) = i
    BY <2>1, HomeUnique
  <2> QED
    BY <2>1, <2>2, <2>3 DEF Contents, Memories
<1>5. bytes = [k \in 1 .. n |-> Contents[a + k - 1]] /\ bytes \in Blocks
  <2>1. bytes = [k \in 1 .. n |-> Contents[a + k - 1]]
    BY <1>4 DEF Bytes
  <2>2. bytes \in [1 .. n -> Byte]
    BY <1>4 DEF Bytes
  <2> QED
    BY <2>1, <2>2 DEF Blocks
<1>6. Len(bytes) = n
  BY <1>1 DEF Bytes
<1> HIDE DEF bytes
<1>7. last' = [op |-> "read", addr |-> a, data |-> bytes, count |-> n]
  BY <1>6 DEF Fetched, bytes
<1>8. last' \in Requests
  BY <1>2, <1>5, <1>7 DEF Requests
<1>9. Flat!Span(last') \subseteq Mapped
  <2> SUFFICES ASSUME NEW x \in a .. a + n - 1 PROVE x \in Mapped
    BY <1>7 DEF Flat!Span
  <2>1. x - a + 1 \in 1 .. n /\ a + (x - a + 1) - 1 = x
    BY <1>1, <1>2
  <2>2. x \in Range(i)
    BY <1>4, <2>1
  <2> QED
    BY <2>2, HomeUnique
<1>10. Flat!Fetch(last')
  BY <1>3, <1>5, <1>7 DEF Flat!Fetch
<1> QED
  BY <1>3, <1>8, <1>9, <1>10 DEF Effect

\* A clamped length is what is left of the region, or what was asked for.
LEMMA ClampFacts ==
    ASSUME NEW i \in DOMAIN Map, NEW o \in 0 .. Map[i].size - 1, NEW len \in Nat
    PROVE  /\ Clamp(i, o, len) \in 0 .. len
           /\ o + Clamp(i, o, len) <= Map[i].size
<1>1. Map[i].size \in Nat
  BY RegionFacts
<1> QED
  BY <1>1 DEF Clamp

\* A read of either kind, wherever it is aimed.
LEMMA ReadEffect ==
    ASSUME Memories, ranges \in 0 .. Len(Map),
           NEW a \in 0 .. Word - 1, NEW len \in 0 .. MaxLen, Read(a, len)
    PROVE  Effect
<1>1. CASE RefuseRead(a)
  BY <1>1, EmptyBlock, RefuseEffect
<1>2. ASSUME NEW i \in Decode(a), ~RefuseRead(a),
             BTransportRead(i, a, Offset(i, a), len) \/ DbgRead(i, a, Offset(i, a), len)
      PROVE  Effect
  <2>1. /\ i \in DOMAIN Map /\ a \in Range(i)
        /\ Offset(i, a) \in 0 .. Map[i].size - 1
    BY <1>2, DecodeSound
  <2>2. Map[i].size \in Nat /\ MaxLen \in Nat /\ len \in Nat
    BY <2>1, RegionFacts, MemBusAssumption
  <2>3. CASE BTransportRead(i, a, Offset(i, a), len)
    <3>1. /\ Fits(i, Offset(i, a), len)
          /\ Fetched(a, Bytes(i, Offset(i, a), len)) /\ UNCHANGED data
      BY <1>2, <2>3 DEF BTransportRead
    <3>2. Offset(i, a) + len <= Map[i].size
      BY <2>1, <2>2, <3>1 DEF Fits
    <3> QED
      BY <2>1, <3>1, <3>2, FetchEffect
  <2>4. CASE DbgRead(i, a, Offset(i, a), len)
    <3> DEFINE n == Clamp(i, Offset(i, a), len)
    <3>1. n \in 0 .. len /\ Offset(i, a) + n <= Map[i].size
      BY <2>1, <2>2, ClampFacts
    <3>2. n \in 0 .. MaxLen
      BY <2>2, <3>1
    <3>3. Fetched(a, Bytes(i, Offset(i, a), n)) /\ UNCHANGED data
      BY <2>4 DEF DbgRead
    <3> HIDE DEF n
    <3> QED
      BY <2>1, <3>1, <3>2, <3>3, FetchEffect
  <2> QED
    BY <1>2, <2>3, <2>4
<1> QED
  BY <1>1, <1>2 DEF Read

\* A write of either kind, wherever it is aimed, reports its own address and
\* block.
LEMMA WriteEffect ==
    ASSUME Memories, ranges \in 0 .. Len(Map),
           NEW a \in 0 .. Word - 1, NEW bytes \in Blocks, Write(a, bytes)
    PROVE  Effect /\ last'.op = "write" /\ last'.addr = a /\ last'.data = bytes
<1>1. \E n : last' = [op |-> "write", addr |-> a, data |-> bytes, count |-> n]
  BY DEF Write, WriteDbg, BTransportWrite, DbgWrite, RefuseWrite, Stored
<1>2. Effect
  <2>1. CASE RefuseWrite(a, bytes)
    BY <2>1, RefuseEffect
  <2>2. ASSUME NEW i \in Decode(a), ~RefuseWrite(a, bytes),
               \/ BTransportWrite(i, a, Offset(i, a), bytes)
               \/ DbgWrite(i, a, Offset(i, a), bytes)
        PROVE  Effect
    <3>1. /\ i \in DOMAIN Map /\ a \in Range(i)
          /\ Offset(i, a) \in 0 .. Map[i].size - 1
      BY <2>2, DecodeSound
    <3>2. Map[i].size \in Nat /\ Len(bytes) \in Nat
      BY <3>1, RegionFacts, BlocksAreSequences
    <3>3. CASE BTransportWrite(i, a, Offset(i, a), bytes)
      <4>1. /\ Fits(i, Offset(i, a), Len(bytes)) /\ ~Map[i].readOnly
            /\ data' = Overwrite(i, Offset(i, a), bytes, Len(bytes))
            /\ Stored(a, bytes, Len(bytes))
        BY <2>2, <3>3 DEF BTransportWrite
      <4>2. Offset(i, a) + Len(bytes) <= Map[i].size /\ Len(bytes) <= Len(bytes)
        BY <3>1, <3>2, <4>1 DEF Fits
      <4> QED
        BY <3>1, <3>2, <4>1, <4>2, StoreEffect
    <3>4. CASE DbgWrite(i, a, Offset(i, a), bytes)
      <4> DEFINE n == Clamp(i, Offset(i, a), Len(bytes))
      <4>1. n \in 0 .. Len(bytes) /\ Offset(i, a) + n <= Map[i].size
        BY <3>1, <3>2, ClampFacts
      <4>2. /\ ~Map[i].readOnly
            /\ data' = Overwrite(i, Offset(i, a), bytes, n) /\ Stored(a, bytes, n)
        BY <2>2, <3>4 DEF DbgWrite
      <4>3. n \in Nat /\ n <= Len(bytes)
        BY <3>2, <4>1
      <4> HIDE DEF n
      <4> QED
        BY <3>1, <4>1, <4>2, <4>3, StoreEffect
    <3> QED
      BY <2>2, <3>3, <3>4
  <2> QED
    BY <2>1, <2>2 DEF Write, WriteDbg
<1> QED
  BY <1>1, <1>2

\* The segment the loader writes is a request of its own.
LEMMA SegmentFacts ==
    ASSUME image \in Images, NEW s \in 1 .. Len(image)
    PROVE  image[s].addr \in 0 .. Word - 1 /\ image[s].bytes \in Blocks
<1>1. image \in Seq(Segment) /\ s \in DOMAIN image
  BY MemBusAssumption
<1>2. image[s] \in Segment /\ Len(image[s].bytes) <= MaxLen
  BY <1>1, MemBusAssumption
<1> QED
  BY <1>2, BlocksAreSequences DEF Segment

-----------------------------------------------------------------------------
(* Types *)

\* load fills a memory from the platform's constructor.
LEMMA LoadEffect ==
    ASSUME Memories, NEW i \in DOMAIN Map, NEW o \in 0 .. Map[i].size,
           NEW bytes \in Blocks, Load(i, o, bytes)
    PROVE  Memories'
<1>1. /\ Map[i].size \in Nat /\ Map[i].base \in Nat
      /\ Len(bytes) \in Nat /\ Len(bytes) <= Len(bytes)
  BY RegionFacts, BlocksAreSequences
<1>2. CASE Fits(i, o, Len(bytes))
  <2>1. o + Len(bytes) <= Map[i].size /\ o \in Nat /\ Map[i].base + o \in Nat
    BY <1>1, <1>2 DEF Fits
  <2>2. data' = Overwrite(i, o, bytes, Len(bytes))
    BY <1>2 DEF Load
  <2> QED
    BY <1>1, <2>1, <2>2, OverwriteEffect
<1>3. CASE UNCHANGED data
  BY <1>3 DEF Memories
<1> QED
  BY <1>2, <1>3 DEF Load

\* A step of the loader writes its segment, or nothing.
LEMMA LoadSegmentEffect ==
    ASSUME TypeOK, Memories, LoadSegment
    PROVE  \/ /\ Effect
              /\ loaded + 1 \in 1 .. Len(image)
              /\ last'.op = "write"
              /\ last'.addr = image[loaded + 1].addr
              /\ last'.data = image[loaded + 1].bytes
              /\ \/ /\ loaded' = loaded + 1 /\ phase' = phase
                    /\ last'.count = Len(image[loaded + 1].bytes)
                 \/ loaded' = loaded /\ phase' = "aborted"
           \/ /\ UNCHANGED <<data, last>>
              /\ \/ /\ loaded' = loaded + 1 /\ phase' = phase
                    /\ image[loaded + 1].bytes = << >>
                 \/ loaded' = loaded /\ phase' = "aborted"
<1>1. image \in Images /\ loaded + 1 \in 1 .. Len(image)
  <2>1. image \in Seq(Segment)
    BY MemBusAssumption DEF TypeOK
  <2> QED
    BY <2>1 DEF TypeOK, LoadSegment
<1>2. image[loaded + 1].addr \in 0 .. Word - 1 /\ image[loaded + 1].bytes \in Blocks
  BY <1>1, SegmentFacts
<1> DEFINE s == image[loaded + 1]
<1>3. CASE WriteDbg(s.addr, s.bytes) /\ s.bytes # << >>
  <2>1. Write(s.addr, s.bytes)
    BY <1>3 DEF Write
  <2>2. Effect /\ last'.op = "write" /\ last'.addr = s.addr /\ last'.data = s.bytes
    BY <1>2, <2>1, WriteEffect DEF TypeOK
  <2>3. \/ loaded' = loaded + 1 /\ phase' = phase /\ last'.count = Len(s.bytes)
        \/ loaded' = loaded /\ phase' = "aborted"
        \/ UNCHANGED <<data, last>> /\ loaded' = loaded /\ phase' = "aborted"
    BY <1>3 DEF LoadSegment, Complete
  <2> QED
    BY <1>1, <2>2, <2>3
<1>4. CASE ~(WriteDbg(s.addr, s.bytes) /\ s.bytes # << >>)
  BY <1>4 DEF LoadSegment
<1> QED
  BY <1>3, <1>4

\* A transaction of an initiator.
LEMMA TransactionEffect ==
    ASSUME TypeOK, Memories, Transaction
    PROVE  Effect
<1>1. ASSUME NEW a \in 0 .. Word - 1, NEW len \in 0 .. MaxLen, Read(a, len) PROVE Effect
  BY <1>1, ReadEffect DEF TypeOK
<1>2. ASSUME NEW a \in 0 .. Word - 1, NEW bytes \in Blocks, Write(a, bytes) PROVE Effect
  BY <1>2, WriteEffect DEF TypeOK
<1> QED
  BY <1>1, <1>2 DEF Transaction

\* Type correctness: the router's table never outgrows its sockets and no
\* access of any path leaves a memory's bounds.
THEOREM TypeCorrect == Spec => [](TypeOK /\ Memories)
<1>1. Init => TypeOK /\ Memories
  <2> SUFFICES ASSUME Init PROVE TypeOK /\ Memories
    OBVIOUS
  <2>1. Memories
    BY MemBusAssumption DEF Init, Memories
  <2>2. image \in Seq(Segment) /\ Len(Map) \in Nat
    BY MemBusAssumption DEF Init
  <2>3. ranges \in 0 .. Len(Map) /\ loaded \in 0 .. Len(image)
    BY <2>2 DEF Init
  <2>4. last.addr \in 0 .. Word - 1 /\ last.data \in Blocks /\ last.count \in 0 .. MaxLen
    BY EmptyBlock, MemBusAssumption DEF Init, NoRequest
  <2> QED
    BY <2>1, <2>3, <2>4 DEF Init, TypeOK, Memories
<1>2. TypeOK /\ Memories /\ [Next]_vars => (TypeOK /\ Memories)'
  <2> SUFFICES ASSUME TypeOK, Memories, [Next]_vars PROVE (TypeOK /\ Memories)'
    OBVIOUS
  <2>1. Len(Map) \in Nat /\ DOMAIN Map = 1 .. Len(Map) /\ image \in Seq(Segment)
    BY MemBusAssumption DEF TypeOK
  <2>2. ASSUME Effect
        PROVE  /\ Memories'
               /\ last'.addr \in 0 .. Word - 1 /\ last'.data \in Blocks
               /\ last'.count \in 0 .. MaxLen
    BY <2>2 DEF Effect, Requests
  <2>3. CASE AddTarget
    BY <2>1, <2>3 DEF AddTarget, TypeOK, Memories
  <2>4. ASSUME NEW i \in 1 .. ranges, NEW o \in 0 .. Map[i].size, NEW bytes \in Blocks,
               Load(i, o, bytes)
        PROVE  (TypeOK /\ Memories)'
    <3>1. i \in DOMAIN Map
      BY <2>1 DEF TypeOK
    <3>2. Memories'
      BY <2>4, <3>1, LoadEffect
    <3> QED
      BY <2>4, <3>2 DEF Load, TypeOK, Memories
  <2>5. CASE EndOfElaboration
    BY <2>5 DEF EndOfElaboration, TypeOK, Memories
  <2>6. CASE LoadSegment
    <3>1. ranges' = ranges /\ image' = image /\ loaded < Len(image) /\ phase \in {"load"}
      BY <2>6 DEF LoadSegment
    <3>2. loaded' \in 0 .. Len(image) /\ phase' \in {"load", "aborted"}
      BY <2>1, <2>6, <3>1, LoadSegmentEffect DEF TypeOK
    <3>3. \/ Effect
          \/ UNCHANGED <<data, last>>
      BY <2>6, LoadSegmentEffect
    <3> QED
      BY <2>2, <3>1, <3>2, <3>3 DEF TypeOK, Memories
  <2>7. CASE StartHart
    BY <2>7 DEF StartHart, TypeOK, Memories
  <2>8. CASE Transaction
    <3>1. Effect
      BY <2>8, TransactionEffect
    <3> QED
      BY <2>2, <2>8, <3>1 DEF Transaction, TypeOK, Memories
  <2>9. CASE UNCHANGED vars
    BY <2>9 DEF vars, TypeOK, Memories
  <2> QED
    BY <2>3, <2>4, <2>5, <2>6, <2>7, <2>8, <2>9 DEF Next
<1> QED
  BY <1>1, <1>2, PTL DEF Spec

-----------------------------------------------------------------------------
(* Read-only memories *)

\* Once the platform is built no step changes a read-only memory: neither the
\* loader through the debug transport nor a transaction of either kind.
THEOREM RomIsStable == Spec => RomStable
<1>1. TypeOK /\ Memories /\ [Next]_vars
        => [phase # "elaborate" =>
              \A i \in DOMAIN Map : Map[i].readOnly => data'[i] = data[i]]_vars
  <2> SUFFICES ASSUME TypeOK, Memories, Next, phase # "elaborate" PROVE RomKept
    BY DEF RomKept
  <2>1. CASE LoadSegment
    BY <2>1, LoadSegmentEffect DEF Effect, RomKept
  <2>2. CASE StartHart
    BY <2>2 DEF StartHart, RomKept
  <2>3. CASE Transaction
    BY <2>3, TransactionEffect DEF Effect
  <2> QED
    BY <2>1, <2>2, <2>3 DEF Next, AddTarget, Load, EndOfElaboration
<1> QED
  BY <1>1, TypeCorrect, PTL DEF Spec, RomStable

-----------------------------------------------------------------------------
(* The flat memory *)

\* The flat view of well-formed memories is a function into the bytes.
LEMMA ContentsTyped == Memories => Contents \in [Mapped -> Byte]
<1> SUFFICES ASSUME Memories, NEW a \in Mapped
             PROVE  data[Home(a)][Offset(Home(a), a)] \in Byte
  BY DEF Contents
<1> QED
  BY HomeOf DEF Memories

\* Router, memories and loader implement the flat memory: every transaction,
\* also one that crosses a region's end, misses every region, hits a ROM or
\* is clamped, stores or fetches exactly the bytes it reports.
THEOREM FlatMemoryImplemented == Spec => ImplementsFlatMemory
<1>1. Init => Flat!FInit
  <2> SUFFICES ASSUME Init PROVE Flat!FInit
    OBVIOUS
  <2>1. ASSUME NEW a \in Mapped PROVE data[Home(a)][Offset(Home(a), a)] = 0
    BY HomeOf DEF Init
  <2>2. Contents = [a \in Mapped |-> 0]
    BY <2>1 DEF Contents
  <2> QED
    BY <2>2 DEF Init, Flat!FInit
<1>2. TypeOK /\ Memories /\ (TypeOK /\ Memories)' /\ [Next]_vars
        => [Flat!Transfer \/ Flat!Preload \/ Flat!Built]_(Flat!fvars)
  <2> SUFFICES ASSUME TypeOK, Memories, Memories', [Next]_vars
               PROVE  Flat!Transfer \/ Flat!Preload \/ Flat!Built \/ UNCHANGED Flat!fvars
    OBVIOUS
  <2>1. ASSUME UNCHANGED data PROVE Contents' = Contents
    BY <2>1 DEF Contents
  <2>2. ASSUME Effect, phase # "elaborate", phase' # "elaborate" PROVE Flat!Transfer
    <3>1. last' \in [op : {"read", "write"}, addr : Nat, data : Seq(Byte), count : Nat]
      BY <2>2, BlocksAreSequences DEF Effect, Requests
    <3> QED
      BY <2>2, <3>1 DEF Effect, Flat!Transfer
  <2>3. CASE AddTarget
    BY <2>1, <2>3 DEF AddTarget, Flat!Built, Flat!fvars
  <2>4. ASSUME NEW i \in 1 .. ranges, NEW o \in 0 .. Map[i].size, NEW bytes \in Blocks,
               Load(i, o, bytes)
        PROVE  Flat!Preload \/ Flat!Built
    <3>1. CASE Fits(i, o, Len(bytes))
      <4>1. Contents' \in [Mapped -> Byte]
        <5>1. (Memories => Contents \in [Mapped -> Byte])'
          BY ContentsTyped, PTL
        <5> QED
          BY <5>1
      <4> QED
        BY <2>4, <3>1, <4>1 DEF Load, Flat!Preload
    <3>2. CASE ~Fits(i, o, Len(bytes))
      BY <2>1, <2>4, <3>2 DEF Load, Flat!Built
    <3> QED
      BY <3>1, <3>2
  <2>5. CASE EndOfElaboration
    BY <2>1, <2>5 DEF EndOfElaboration, Flat!Built
  <2>6. CASE LoadSegment
    <3>1. phase = "load" /\ phase' \in {"load", "aborted"}
      BY <2>6, LoadSegmentEffect DEF LoadSegment
    <3>2. CASE Effect
      BY <2>2, <3>1, <3>2
    <3>3. CASE UNCHANGED <<data, last>>
      BY <2>1, <3>1, <3>3 DEF Flat!fvars
    <3> QED
      BY <2>6, <3>2, <3>3, LoadSegmentEffect
  <2>7. CASE StartHart
    BY <2>1, <2>7 DEF StartHart, Flat!fvars
  <2>8. CASE Transaction
    BY <2>2, <2>8, TransactionEffect DEF Transaction
  <2>9. CASE UNCHANGED vars
    BY <2>1, <2>9 DEF vars, Flat!fvars
  <2> QED
    BY <2>3, <2>4, <2>5, <2>6, <2>7, <2>8, <2>9 DEF Next
<1> QED
  BY <1>1, <1>2, TypeCorrect, PTL DEF Spec, ImplementsFlatMemory, Flat!FlatSpec

-----------------------------------------------------------------------------
(* The loaded image *)

\* The invariant with what the loader starts from: nothing is loaded while the
\* platform is built and its constructor still fills the memories.
LoaderInv ==
    /\ phase = "elaborate" => loaded = 0
    /\ LoadedSegmentsResident

\* Every segment load_elf went past is in memory, byte for byte, except where
\* a later segment overlaps it: no partial, unmapped or read-only write of the
\* debug transport passes for a complete one.
THEOREM SegmentsResident == Spec => []LoadedSegmentsResident
<1>1. Init => LoaderInv
  BY DEF Init, LoaderInv, LoadedSegmentsResident
<1>2. TypeOK /\ Memories /\ LoaderInv /\ [Next]_vars => LoaderInv'
  <2> SUFFICES ASSUME TypeOK, Memories, LoaderInv, [Next]_vars PROVE LoaderInv'
    OBVIOUS
  <2>1. CASE UNCHANGED vars
    BY <2>1 DEF vars, LoaderInv, LoadedSegmentsResident, Contents
  <2>2. ASSUME phase = "elaborate", loaded' = loaded
        PROVE  LoaderInv'
    BY <2>2 DEF LoaderInv, LoadedSegmentsResident
  <2>3. CASE LoadSegment
    <3> DEFINE At(s, k) == image[s].addr + k - 1
               Under(s, k) == \A t \in s + 1 .. Len(image) :
                   At(s, k) \notin image[t].addr .. image[t].addr + Len(image[t].bytes) - 1
               next == loaded + 1
    <3>1. phase = "load" /\ image' = image /\ phase' # "elaborate"
      BY <2>3, LoadSegmentEffect DEF LoadSegment
    <3>2. \A s \in 1 .. loaded : \A k \in DOMAIN image[s].bytes :
            Under(s, k) => At(s, k) \in Mapped /\ Contents[At(s, k)] = image[s].bytes[k]
      BY <3>1 DEF LoaderInv, LoadedSegmentsResident
    <3>3. SUFFICES ASSUME NEW s \in 1 .. loaded', NEW k \in DOMAIN image[s].bytes, Under(s, k)
                   PROVE  At(s, k) \in Mapped /\ Contents'[At(s, k)] = image[s].bytes[k]
      BY <3>1 DEF LoaderInv, LoadedSegmentsResident
    <3>4. /\ image \in Seq(Segment) /\ loaded \in 0 .. Len(image)
          /\ loaded' \in {loaded, next} /\ next \in 1 .. Len(image)
      <4>1. image \in Seq(Segment) /\ loaded \in 0 .. Len(image) /\ loaded < Len(image)
        BY <2>3, MemBusAssumption DEF TypeOK, LoadSegment
      <4> QED
        BY <2>3, <4>1, LoadSegmentEffect
    <3>5. s \in 1 .. Len(image) /\ image[s] \in Segment
      BY <3>4
    <3>6. /\ image[s].addr \in Nat /\ image[s].bytes \in Seq(Byte)
          /\ k \in 1 .. Len(image[s].bytes) /\ At(s, k) \in Nat
      BY <3>5, MemBusAssumption DEF Segment
    <3>7. CASE UNCHANGED <<data, last>> /\ (loaded' = loaded \/ image[next].bytes = << >>)
      <4>1. Contents' = Contents
        BY <3>7 DEF Contents
      <4>2. s \in 1 .. loaded
        BY <3>4, <3>6, <3>7
      <4> QED
        BY <3>2, <3>3, <4>1, <4>2
    <3>8. CASE /\ Effect /\ last'.op = "write"
               /\ last'.addr = image[next].addr /\ last'.data = image[next].bytes
               /\ loaded' = loaded \/ last'.count = Len(image[next].bytes)
      <4> DEFINE t == last'
      <4>1. /\ Flat!Span(t) = t.addr .. t.addr + t.count - 1 /\ Flat!Span(t) \subseteq Mapped
            /\ t.count <= Len(t.data) /\ t.count \in Nat /\ t.addr \in Nat
            /\ Len(t.data) \in Nat
        BY <3>8, BlocksAreSequences, MemBusAssumption
        DEF Effect, Flat!Span, Flat!Store, Flat!Fetch, Requests
      <4>2. Contents' = [x \in Mapped |->
              IF x \in Flat!Span(t) THEN t.data[x - t.addr + 1] ELSE Contents[x]]
        BY <3>8 DEF Effect, Flat!Store, Flat!Fetch
      <4> HIDE DEF t
      <4>3. CASE s \in 1 .. loaded
        <5>1. next \in s + 1 .. Len(image)
          BY <3>4, <4>3
        <5>2. At(s, k) \notin t.addr .. t.addr + Len(t.data) - 1
          BY <3>3, <3>8, <5>1 DEF t
        <5>3. At(s, k) \notin Flat!Span(t)
          BY <3>6, <4>1, <5>2
        <5> QED
          BY <3>2, <3>3, <4>2, <4>3, <5>3
      <4>4. CASE s \notin 1 .. loaded
        <5>1. s = next /\ t.count = Len(image[next].bytes)
          BY <3>4, <3>8, <4>4 DEF t
        <5>2. t.addr = image[s].addr /\ t.data = image[s].bytes
          BY <3>8, <5>1 DEF t
        <5>3. At(s, k) \in Flat!Span(t) /\ At(s, k) - t.addr + 1 = k
          BY <3>6, <4>1, <5>1, <5>2
        <5> QED
          BY <4>1, <4>2, <5>2, <5>3
      <4> QED
        BY <4>3, <4>4
    <3> QED
      BY <2>3, <3>7, <3>8, LoadSegmentEffect
  <2>4. CASE StartHart \/ Transaction
    BY <2>4 DEF StartHart, Transaction, LoaderInv, LoadedSegmentsResident
  <2> QED
    BY <2>1, <2>2, <2>3, <2>4 DEF Next, AddTarget, Load, EndOfElaboration
<1> QED
  BY <1>1, <1>2, TypeCorrect, PTL DEF Spec, LoaderInv

=============================================================================
