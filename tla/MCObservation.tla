---------------------------- MODULE MCObservation ----------------------------
(* A small instance of Observation: an exposure with a frame and a time; one  *)
(* with a rate, a gain that the server does not know and a header file, after *)
(* a question; one that initialises the camera and keeps the shutter closed;  *)
(* a client that only asks and sets a time; and --stop.                      *)
EXTENDS Observation, TLC

O(flags, set, fits, hdr) ==
  [flags |-> flags, set |-> set @@ [k \in {"SHUTTER"} |-> "a"], fits |-> fits,
   hdr |-> hdr]
No == [k \in {} |-> "a"]
One(c) == [k \in {c} |-> "b"]
MCStandard == [k \in Settings |-> "a"]

MCOptions == {
  O({}, [k \in {"FRAME", "EXPTIME"} |-> "b"], "f1", "none"),
  O({"gettemp"}, [k \in {"RATE", "GAIN"} |-> IF k = "RATE" THEN "b" ELSE "c"],
    "f2", "h2"),
  O({"init", "COOLER", "SETTEMP"}, [k \in {"SHUTTER"} |-> "b"], "f3", "none"),
  O({"gettemp", "FAN"}, One("EXPTIME"), "none", "none"),
  O({"stop"}, No, "none", "none") }
=============================================================================
