---------------------------- MODULE MCHalfPrecision ----------------------------
(* All floats of six bits of mantissa and exponent fields up to 20, to     *)
(* halves of three bits of each.                                           *)
EXTENDS HalfPrecision
MCInputs == [exponent : 0..Top, mantissa : 0..(2^Bits - 1)]
================================================================================
