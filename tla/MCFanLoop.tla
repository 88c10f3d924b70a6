------------------------------ MODULE MCFanLoop ------------------------------
(* FanLoop for TLC: 9.375 C below the setpoint, 15.625 C above it.           *)
EXTENDS FanLoop

MCErrors == {-9375, 15625}

===============================================================================
