------------------------------- MODULE MCDfu -------------------------------
(* Values for the constants of Dfu.  The init packet is one object; the    *)
(* firmware is two full blocks and a short one, a block is a full chunk    *)
(* and a cut one.                                                          *)
EXTENDS Dfu

MCLen            == [COMMAND |-> 3, DATA |-> 7]
MCBlockSize      == [COMMAND |-> 4, DATA |-> 3]
MCRetryCounts    == {0, 4}
MCLargeRetries   == {127}
MCForeign        == {2, 6, 9}

(* What Dfu takes for granted of the checksum, over samples: contents of   *)
(* up to three bytes with no bit, one bit, four and all bits set.          *)
Crc32 == INSTANCE Crc
SampleBytes    == {{}, {0}, {1, 3, 4, 6}, 0..7}
Samples(n) == UNION {[1..k -> SampleBytes] : k \in 0..n}
ASSUME CrcAssumption ==
  /\ Crc32!ComputesDefinition(Samples(3))
  /\ Crc32!Continues(Samples(2))
  /\ Crc32!Detects(Samples(3))
\* The check value of CRC-32: "123456789" gives 0xCBF43926.
ASSUME CheckValue ==
  LET bits(n) == {b \in 0..7 : (n \div 2 ^ b) % 2 = 1}
  IN Crc32!crc32_compute([i \in 1..9 |-> bits(48 + i)], {}) =
       {1, 2, 5, 8, 11, 12, 13, 18, 20, 21, 22, 23, 24, 25, 27, 30, 31}
=============================================================================
