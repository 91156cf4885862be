------------------------------ MODULE MCBooking ------------------------------
(* Instances of Booking for TLC.                                             *)
EXTENDS Booking

Two == {"s1", "s2"}
Hour == "1h"
Quarter == "15m"
Frames == [s \in Two |-> IF s = "s1" THEN Hour ELSE Quarter]
HourOverQuarter == [f \in {Hour, Quarter} |-> {Hour} \ {f}]
BothUp == [s \in Two |-> "UP"]
=============================================================================
