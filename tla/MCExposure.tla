----------------------------- MODULE MCExposure -----------------------------
(* Small instances of Exposure: the whole detector, a smaller region and a   *)
(* region that the driver refuses.                                           *)
EXTENDS Exposure

CONSTANTS f1, f2, full, half, bad

MCFiles == {f1, f2}
MCOneFile == {f1}
MCFrames == {full, half}
MCOneFrame == {full}
MCFullAndBad == {full, bad}
MCBad == {bad}
MCPixels == [f \in Frames |-> IF f = full THEN 4 ELSE 2]
\* No multiple of the Resolution of the instances, which is 2.
MCTimes == {3}
\* A time that the driver refuses.
MCNegative == {-1}
=============================================================================
