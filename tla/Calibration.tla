---------------------------- MODULE Calibration ----------------------------
(***************************************************************************)
(* SensorMetric::calibrate of the edge firmware (ersha-edge/src/sensor.rs) *)
(* with the integer widths of the code: a percentage is a u8 and is        *)
(* computed as i16, a temperature is an i16, rainfall is a u16 and is      *)
(* computed as i32.                                                        *)
(***************************************************************************)
EXTENDS Integers

MinI16 == -32768
MaxI16 == 32767
MaxU16 == 65535

U8  == 0 .. 255
I16 == MinI16 .. MaxI16
U16 == 0 .. MaxU16

Clamp(v, lo, hi) == IF v < lo THEN lo ELSE IF v > hi THEN hi ELSE v

\* An i16 sum as a release build computes it.
WrapI16(v) == ((v + 32768) % 65536) - 32768

\* Mutant: the sum is taken as an i8 after the cast.
CalibratePercent_Narrow(val, offset) == Clamp(((val + offset + 128) % 256) - 128, 0, 100)

\* SoilMoisture and Humidity: the i16 sum may wrap before it is clamped.
CalibratePercent(val, offset) == Clamp(WrapI16(val + offset), 0, 100)

\* SoilTemp and AirTemp: saturating_add.
CalibrateTemp(val, offset) == Clamp(val + offset, MinI16, MaxI16)

\* Rainfall: no i32 sum of a u16 and an i16 overflows.
CalibrateRainfall(val, offset) == Clamp(val + offset, 0, MaxU16)

\* A debug build panics instead of wrapping.
Overflows(val, offset) == val + offset \notin I16

=============================================================================
