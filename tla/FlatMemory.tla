----------------------------- MODULE FlatMemory -----------------------------
(***************************************************************************)
(* What a bus with memories behind it promises its initiators: one flat    *)
(* array of bytes over the mapped addresses.  A transaction transfers a    *)
(* prefix of what it asks for, reports how long the prefix is, and touches *)
(* nothing else; a read returns the bytes last stored.                     *)
(***************************************************************************)
EXTENDS Naturals, Sequences

CONSTANTS Mapped,     \* addresses behind which there is a memory
          Byte,       \* values of a byte
          NoRequest   \* value of last before the first transaction

VARIABLES flat,       \* contents of the mapped addresses
          last,       \* the last transaction: operation, address, bytes sent
                      \* or returned, and number of bytes transferred
          building    \* the platform is still being built

fvars == <<flat, last, building>>

FInit ==
    /\ flat = [a \in Mapped |-> 0]
    /\ last = NoRequest
    /\ building = TRUE

Span(t) == t.addr .. t.addr + t.count - 1

Store(t) ==
    /\ t.op = "write"
    /\ t.count <= Len(t.data)
    /\ flat' = [x \in Mapped |-> IF x \in Span(t) THEN t.data[x - t.addr + 1] ELSE flat[x]]

Fetch(t) ==
    /\ t.op = "read"
    /\ t.data = [k \in 1 .. t.count |-> flat[t.addr + k - 1]]
    /\ UNCHANGED flat

Transfer ==
    /\ ~building
    /\ last' \in [op : {"read", "write"}, addr : Nat, data : Seq(Byte), count : Nat]
    /\ Span(last') \subseteq Mapped
    /\ Store(last') \/ Fetch(last')
    /\ UNCHANGED building

\* The host fills memories while it builds the platform, and only then.
Preload ==
    /\ building
    /\ flat' \in [Mapped -> Byte]
    /\ UNCHANGED <<last, building>>

Built == building /\ building' = FALSE /\ UNCHANGED <<flat, last>>

FlatSpec == FInit /\ [][Transfer \/ Preload \/ Built]_fvars

=============================================================================
