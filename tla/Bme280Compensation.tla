------------------------- MODULE Bme280Compensation -------------------------
(***************************************************************************)
(* The arithmetic of the BME280 driver (drivers/bme280): the coefficients  *)
(* in the sensor's memory, the raw readings, and the compensation of one   *)
(* with the other in 32-bit integers.  A result that does not fit is       *)
(* undefined behaviour in C++: Undefined, and so is all that uses it.      *)
(* Blocks of registers are sequences of bytes, counted from 1.             *)
(***************************************************************************)
EXTENDS Integers, Sequences

CONSTANT Undefined

ASSUME UndefinedAssumption == Undefined \notin Int

MaxInt == 2147483647

Abs(n) == IF n < 0 THEN -n ELSE n

Add(a, b) ==
    IF Undefined \in {a, b} THEN Undefined
    ELSE IF IF a >= 0 THEN b <= MaxInt - a ELSE b >= -MaxInt - a THEN a + b ELSE Undefined

Sub(a, b) == IF b = Undefined THEN Undefined ELSE Add(a, -b)

Mul(a, b) ==
    IF Undefined \in {a, b} THEN Undefined
    ELSE IF a = 0 \/ Abs(b) <= MaxInt \div Abs(a) THEN a * b ELSE Undefined

(***************************************************************************)
(* An arithmetic shift to the right rounds down.  One to the left keeps    *)
(* the low 32 bits, which matters for dig_h4 alone.                        *)
(***************************************************************************)
Shr(n, bits) == IF n = Undefined THEN Undefined ELSE n \div 2^bits

Signed(n, bits) == IF n < 2^(bits - 1) THEN n ELSE n - 2^bits
-----------------------------------------------------------------------------
read_uint16_le(block, k) == block[k] + 256 * block[k + 1]

read_int16_le(block, k) == Signed(read_uint16_le(block, k), 16)

(***************************************************************************)
(* load_calibration(): the 26 bytes from 0x88 and the 7 from 0xE1.         *)
(***************************************************************************)
TemperatureBlock(b) ==
    [t1 |-> read_uint16_le(b, 1), t2 |-> read_int16_le(b, 3), t3 |-> read_int16_le(b, 5),
     h1 |-> b[26]]

HumidityBlock(b) ==
    [h2 |-> read_int16_le(b, 1), h3 |-> b[3],
     h4 |-> 16 * b[4] + (b[5] % 16), h5 |-> 16 * b[6] + (b[5] \div 16),
     h6 |-> Signed(b[7], 8)]

(***************************************************************************)
(* read_raw(): 20 bits of temperature, 16 of humidity, in the 8 bytes from *)
(* 0xF7.                                                                   *)
(***************************************************************************)
\* Mutant: all 24 bits of the three registers are taken.
RawTemperatureWide(data) == 65536 * data[4] + 256 * data[5] + data[6]

RawTemperature(data) == 4096 * data[4] + 16 * data[5] + (data[6] \div 16)

RawHumidity(data) == 256 * data[7] + data[8]

(***************************************************************************)
(* compensate_temperature(): the fine temperature, and hundredths of a     *)
(* degree.                                                                 *)
(***************************************************************************)
FineTemperature(t, raw) ==
    LET offset == Sub(Shr(raw, 4), t.t1)
        var1   == Shr(Mul(Sub(Shr(raw, 3), 2 * t.t1), t.t2), 11)
        var2   == Shr(Mul(Shr(Mul(offset, offset), 12), t.t3), 14)
    IN  Add(var1, var2)

compensate_temperature(fine) == Shr(Add(Mul(fine, 5), 128), 8)

(***************************************************************************)
(* compensate_humidity(), in the hundredths that the last division by 100  *)
(* makes of its result.                                                    *)
(***************************************************************************)
Clamped(n) ==
    CASE n = Undefined -> Undefined
      [] n # Undefined /\ n < 0 -> 0
      [] n # Undefined /\ n > 419430400 -> 419430400
      [] OTHER -> n

compensate_humidity(t, h, raw, fine) ==
    LET var1 == Sub(fine, 76800)
        var2 == Shr(Add(Sub(Sub(raw * 2^14, Signed(h.h4, 12) * 2^20), Mul(h.h5, var1)),
                        16384), 15)
        low  == Shr(Mul(var1, h.h6), 10)
        high == Add(Shr(Mul(var1, h.h3), 11), 32768)
        var3 == Add(Mul(Add(Shr(Mul(low, high), 10), 2097152), h.h2), 8192)
        wet  == Mul(var2, Shr(var3, 14))
        bend == Shr(Mul(Shr(Mul(Shr(wet, 15), Shr(wet, 15)), 7), t.h1), 4)
    IN  Shr(Clamped(Sub(wet, bend)), 12)
=============================================================================
