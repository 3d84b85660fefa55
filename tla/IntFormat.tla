------------------------------ MODULE IntFormat ------------------------------
(***************************************************************************)
(* How integers are written into packets (picoquic/intformat.c): fixed     *)
(* widths, and variable-length integers of 1, 2, 4 or 8 bytes.  A byte is  *)
(* a number.  A writer returns the bytes, none where they do not fit.      *)
(***************************************************************************)
EXTENDS Integers, Sequences, SequencesExt

\* Big-endian, for numbers below 2^31.
picoformat(n, width) ==
    [i \in 1 .. width |-> IF width - i > 3 THEN 0 ELSE (n \div 256^(width - i)) % 256]

Tagged(bytes, tag) == [bytes EXCEPT ![1] = @ + 64 * tag]

\* Mutant: 64 still written as one byte.
VarintBytes_OffByOne(n) ==
    CASE n =< 64 -> <<n>>
      [] n > 64 /\ n < 16384 -> Tagged(picoformat(n, 2), 1)
      [] n >= 16384 /\ n < 1073741824 -> Tagged(picoformat(n, 4), 2)
      [] OTHER -> Tagged(picoformat(n, 8), 3)

VarintBytes(n) ==
    CASE n < 64 -> <<n>>
      [] n >= 64 /\ n < 16384 -> Tagged(picoformat(n, 2), 1)
      [] n >= 16384 /\ n < 1073741824 -> Tagged(picoformat(n, 4), 2)
      [] OTHER -> Tagged(picoformat(n, 8), 3)

varint_encode(n, room) ==
    IF Len(VarintBytes(n)) =< room THEN VarintBytes(n) ELSE <<>>

varint_skip(b, i) == 2 ^ (b[i] \div 64)

\* Always two bytes: a length that is filled in once the packet is complete.
varint_encode_16(n) == Tagged(picoformat(n % 16384, 2), 1)

\* Reads at index i; length 0 stands for an integer that does not end in b.
varint_decode(b, i) ==
    IF i > Len(b) \/ i + varint_skip(b, i) > Len(b) + 1
    THEN [length |-> 0, value |-> 0]
    ELSE [length |-> varint_skip(b, i),
          value  |-> FoldLeft(LAMBDA v, byte : v * 256 + byte, b[i] % 64,
                              SubSeq(b, i + 1, i + varint_skip(b, i) - 1))]

=============================================================================
