------------------------------ MODULE MCClock ------------------------------
(* The processes that set alarms.                                          *)
EXTENDS Clock

Two == <<"driver", "user">>
=============================================================================
