-------------------------- MODULE MCTrafficLedger --------------------------
(* A small instance of TrafficLedger: days of three hours of two minutes.  *)
EXTENDS TrafficLedger

\* UTC, a zone a third of a day east of it, as Asia/Shanghai is, and one half an
\* hour farther.
UtcAndEast == {0, 2, 3}
=============================================================================
