------------------------------ MODULE MCStartup ------------------------------
(* A small instance of Startup: the four controls of NewtonCam/main.cpp.     *)
EXTENDS Startup

MCControls == <<"SETTEMP", "COOLER", "FAN", "SHUTTER">>
=============================================================================
