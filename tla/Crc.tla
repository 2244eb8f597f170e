-------------------------------- MODULE Crc --------------------------------
(***************************************************************************)
(* crc32.c, and the division of polynomials that it stands for.  A word is *)
(* the set of the positions, from 0, of its bits that are 1; a byte is one *)
(* of eight bits.                                                          *)
(***************************************************************************)
EXTENDS Integers, Sequences, SequencesExt, FiniteSetsExt

Word == 0..31
Xor(a, b) == (a \ b) \cup (b \ a)

\* 0xEDB88320
Generator == {5, 8, 9, 15, 19, 20, 21, 23, 24, 26, 27, 29, 30, 31}

\* One round of the inner loop.
ShiftOut(crc) == Xor({b - 1 : b \in crc \ {0}}, IF 0 \in crc THEN Generator ELSE {})

ByteDone(crc, byte) == FoldLeft(LAMBDA c, j : ShiftOut(c), Xor(crc, byte), [j \in 1..8 |-> j])

\* before is *p_crc; {} does for NULL, for it is the checksum of nothing.
crc32_compute(data, before) == Word \ FoldLeft(ByteDone, Word \ before, data)

---------------------------------------------------------------------------
(* The definition: what is sent first is the coefficient of the highest    *)
(* power, beginning with the lowest bit of the first byte.  The first 32   *)
(* coefficients are inverted, and so is the remainder of the division by   *)
(* x^32 + x^26 + x^23 + ... + x + 1, where the bits are in turned order.   *)

Divisor == {32} \cup {31 - b : b \in Generator}

Remainder[p \in SUBSET Nat] ==
  IF \A power \in p : power < 32 THEN p
  ELSE LET by == Max(p) - 32 IN Remainder[Xor(p, {power + by : power \in Divisor})]

Definition(data) ==
  LET bits == 8 * Len(data)
      message == {bits + 31 - (8 * (i - 1) + b) : <<i, b>> \in
                    {<<i, b>> \in (1..Len(data)) \X (0..7) : b \in data[i]}}
      first == {bits + j : j \in Word}
  IN Word \ {31 - power : power \in Remainder[Xor(message, first)]}

(* The loop computes the remainder.                                        *)
ComputesDefinition(samples) ==
  \A data \in samples : crc32_compute(data, {}) = Definition(data)

(* A checksum can be continued where another one ended (crc32.h 60-68).    *)
Continues(samples) ==
  \A data, more \in samples :
    crc32_compute(data \o more, {}) = crc32_compute(more, crc32_compute(data, {}))

(* A chunk that was lost, put in twice or exchanged with another makes a   *)
(* different checksum: contents of one length that differ within 32 bits   *)
(* never have the same.                                                    *)
Detects(samples) ==
  \A data, other \in samples :
    Len(data) = Len(other) /\ data # other => crc32_compute(data, {}) # crc32_compute(other, {})
=============================================================================
