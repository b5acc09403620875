----------------------------- MODULE MCSmsInbox -----------------------------
(* A small instance of SmsInbox: a message of one part and one of two.     *)
EXTENDS SmsInbox

CONSTANTS single, long, a, b1, b2

PartsInMessages == [p \in {a, b1, b2} |-> IF p = a THEN single ELSE long]
=============================================================================
