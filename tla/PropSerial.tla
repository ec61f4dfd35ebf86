------------------------------ MODULE PropSerial ------------------------------
(***************************************************************************)
(* The serial of a prop_info, a 32-bit word: the length of the value in    *)
(* the high 8 bits, kLongFlag in bit 16, a counter in the low 24 bits, of  *)
(* which bit 0 says that the value is being written.  The flag lies inside *)
(* the counter.                                                            *)
(***************************************************************************)
EXTENDS Integers

PROP_INFO_LONG_FLAG == 2^16
LengthUnit          == 2^24

serial_len(s) == s \div LengthUnit
Counter(s)    == s % LengthUnit
HasLongFlag(s) == (s \div PROP_INFO_LONG_FLAG) % 2 = 1
Dirty(s)      == s % 2 = 1

SetDirty(s)   == IF Dirty(s) THEN s ELSE s + 1
ClearDirty(s) == IF Dirty(s) THEN s - 1 ELSE s

\* len << 24, the counter, and the flag or-ed in.
Compose(len, is_long, counter) ==
  len * LengthUnit +
    (IF is_long /\ ~HasLongFlag(counter) THEN counter + PROP_INFO_LONG_FLAG ELSE counter)

compose_initial_serial(len, is_long) == Compose(len, is_long, 0)

\* Update() of a shared area: the counter moves on while waiters are woken ...
compose_visible_serial(serial_dirty, len, is_long) ==
  Compose(len, is_long, Counter(Counter(serial_dirty) + 1))
\* ... and is then put back.
compose_hidden_serial(serial_dirty, len, is_long) ==
  Compose(len, is_long, Counter(ClearDirty(serial_dirty)))
===============================================================================
