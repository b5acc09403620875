------------------------------ MODULE MbimRpc ------------------------------
(***************************************************************************)
(* What an opened MBIM endpoint promises to those who send it commands,    *)
(* whatever the link does: a transaction is issued once, and comes back    *)
(* once, with the modem's answer to that very command, with an error, or   *)
(* because the caller's time is up.                                        *)
(***************************************************************************)
CONSTANT Txs \* transaction identifiers

VARIABLES
  call,   \* what has become of each transaction, as its caller sees it
  carried \* the commands the modem has carried out
vars == <<call, carried>>

Outcomes == {"answer", "error", "timeout"}

Init == call = [t \in Txs |-> "unused"] /\ carried = {}

Issue(t) ==
  /\ call[t] = "unused"
  /\ call' = [call EXCEPT ![t] = "issued"]
  /\ UNCHANGED carried

\* Possibly long after its caller has given up.
Carry(t) ==
  /\ call[t] # "unused" /\ t \notin carried
  /\ carried' = carried \cup {t}
  /\ UNCHANGED call

Return(t, outcome) ==
  /\ call[t] = "issued"
  /\ outcome = "answer" => t \in carried
  /\ call' = [call EXCEPT ![t] = outcome]
  /\ UNCHANGED carried

Next == \E t \in Txs :
  \/ Issue(t)
  \/ Carry(t)
  \/ \E outcome \in Outcomes : Return(t, outcome)

Safety == Init /\ [][Next]_vars
Spec == Safety /\ \A t \in Txs : WF_vars(\E outcome \in Outcomes : Return(t, outcome))
=============================================================================
