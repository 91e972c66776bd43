---------------------------- MODULE MCTemperature ----------------------------
(* A small instance of Temperature: two temperatures.                        *)
EXTENDS Temperature

CONSTANTS t1, t2, cold

MCGood == {cold}
MCTemps == {t1, t2}
=============================================================================
