------------------------------- MODULE Stamp --------------------------------
(***************************************************************************)
(* The timestamps that authors sign and messages carry, src/Server/app.py  *)
(* and protocol.py: floating-point seconds, whole microseconds on the wire.*)
(*                                                                         *)
(* From September 2005 to January 2038 a double of time.time() is a        *)
(* multiple of 2^-22 s and, times 1_000_000, of a quarter of a microsecond.*)
(* A whole second is exact in both, so all values are relative to one, as  *)
(* natural numbers of these units.  An operation rounds to the nearest     *)
(* double, halves to the even one.                                         *)
(***************************************************************************)
EXTENDS Integers

\* p / q, rounded to the nearest integer, halves to the even one.
Nearest(p, q) ==
  LET d == p \div q  rest == 2 * (p % q)
  IN IF rest > q \/ (rest = q /\ d % 2 = 1) THEN d + 1 ELSE d

\* t * 1_000_000, in quarters of a microsecond: 4 * 10^6 / 2^22 = 15625 / 2^14.
Quarters(t) == Nearest(t * 15625, 16384)

\* int(t * 1_000_000), the microseconds that are sent, and those that are signed.
Encode(t) == Quarters(t) \div 4

\* read_uint64() / 1_000_000.0: 2^22 / 10^6 = 65536 / 15625.
Decode(n) == Nearest(n * 65536, 15625)

\* timestamp_us = round(t * 1_000_000) / 1_000_000.0
ToMicrosecond(t) == Decode(Nearest(Quarters(t), 4))
=============================================================================
