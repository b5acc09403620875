---------------------------- MODULE MCEsimSwitch ----------------------------
(* Small instances of EsimSwitch for TLC: what is asked for, of which device. *)
EXTENDS EsimSwitch, TLC

CONSTANTS s1, s2, p1, p2

\* To the two profiles, or one of the calls disables the active one; either of
\* the calls may come first.
Pairs == { s1 :> p2 @@ s2 :> p1, s1 :> p2 @@ s2 :> NoProfile }

Device(cycle, vowifi, off) ==
  [radioCycle |-> cycle, vowifiEnabled |-> vowifi, flightMode |-> off]
\* A recovery without VoWiFi goes where one with a failed SIM authentication goes.
OneDevice == { Device(TRUE, TRUE, FALSE) }
=============================================================================
