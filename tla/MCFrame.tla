------------------------------- MODULE MCFrame -------------------------------
(* A small instance of Frame: a detector of 5 by 2 pixels and ints of 6 bits. *)
(* Along X everything from nothing to an extent that overflows is asked for,  *)
(* along Y a frame that fits, one that is clipped and one that does not fit.  *)
EXTENDS Frame

MCDetector == [x \in Axes |-> IF x = "X" THEN 5 ELSE 2]
MCFrames ==
  {[x \in Axes |-> IF x = "X" THEN f ELSE g] :
     f \in [bin : {-2, 0, 1, 2, 4, 5}, start : {0, 1, 2, 5, 7}, size : {-2, 0, 1, 2, 9, 17}],
     g \in {[bin |-> 1, start |-> 1, size |-> 2], [bin |-> 1, start |-> 2, size |-> 9],
            [bin |-> 1, start |-> 4, size |-> 1]}}
=============================================================================
