------------------------------ MODULE MCMemBus ------------------------------
(* Model of MemBus for TLC: a RAM, a ROM right behind it and a RAM that     *)
(* ends at the top of the address space, where base + size wraps.           *)
EXTENDS MemBus

MCMap == <<[base |-> 1, size |-> 2, readOnly |-> FALSE],
           [base |-> 3, size |-> 1, readOnly |-> TRUE],
           [base |-> 4, size |-> 2, readOnly |-> FALSE]>>

Seg(a, b) == [addr |-> a, bytes |-> b, inFile |-> TRUE]

\* Images that fit, overlap themselves, cross the end of the RAM, hit the ROM,
\* an unmapped address or the wrapped region, are empty or cut short.
MCImages == {<<Seg(1, <<1, 1>>), Seg(2, <<0>>)>>,
             <<Seg(1, <<1>>), Seg(2, <<1, 1>>)>>,
             <<Seg(1, <<>>), Seg(3, <<1>>)>>,
             <<Seg(1, <<1>>), Seg(0, <<1, 1>>)>>,
             <<Seg(4, <<1, 0>>)>>,
             <<[addr |-> 1, bytes |-> <<1>>, inFile |-> FALSE]>>}

=============================================================================
