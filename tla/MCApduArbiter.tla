--------------------------- MODULE MCApduArbiter ---------------------------
(* Small instances of ApduArbiter for TLC: who calls, with which arguments. *)
EXTENDS ApduArbiter, TLC

CONSTANTS r1, r2, r3, w1

Lease(type, class) ==
  [leaseType |-> type, mode |-> "MBIM", class |-> class, channel |-> 0,
   scope |-> "exclusive", blocked |-> {}]
QmiChannel(class, ch) ==
  [leaseType |-> "transport", mode |-> "QMI", class |-> class, channel |-> ch,
   scope |-> "qmi_channel", blocked |-> {}]

\* The eSIM switch blocks AKA and SMSC; the default policy is the same set.
SwitchBarrier ==
  [leaseType |-> "barrier", mode |-> "QMI", class |-> "SwitchBarrier", channel |-> 0,
   scope |-> "exclusive", blocked |-> {"USIMAKA", "SMSC"}]
DefaultBarrier == [SwitchBarrier EXCEPT !.class = NoClass, !.blocked = {}]
\* A barrier that names one class only.
NarrowBarrier == [SwitchBarrier EXCEPT !.blocked = {"EUICCWrite", NoClass}]

Session == Lease("session", NoClass)
Oneshot == Lease("oneshot", NoClass)
Transport == Lease("transport", NoClass)
AkaTransport == Lease("transport", "USIMAKA")
Channel1 == QmiChannel("EUICCWrite", 1)
Channel2 == QmiChannel("EUICCWrite", 2)
AkaChannel3 == QmiChannel("USIMAKA", 3)

\* Every way of asking for the card, the legacy session and one-shot calls included.
AllCalls ==
  { Session, Oneshot, Transport, AkaTransport, Channel1, Channel2, AkaChannel3,
    SwitchBarrier, DefaultBarrier, NarrowBarrier }

\* The kinds that wait for different reasons, in pairs and against each other; then
\* the other kinds, each with those it shares, contends or conflicts with: three
\* channels for a window of two, AKA beside older transports, nested barriers.
MadeTogether ==
  { (r1 :> m[1]) @@ (r2 :> m[2]) @@ (r3 :> m[3]) : m \in
    { <<Session, Session, Session>>, <<Session, Session, Transport>>,
      <<Session, Session, SwitchBarrier>>, <<Session, Transport, Transport>>,
      <<Session, Transport, Channel1>>, <<Session, Transport, SwitchBarrier>>,
      <<Transport, Transport, SwitchBarrier>>, <<Transport, Channel1, Channel1>>,
      <<Transport, Channel1, SwitchBarrier>>, <<SwitchBarrier, SwitchBarrier, Transport>>,
      <<Oneshot, Oneshot, Session>>, <<Oneshot, AkaTransport, Channel1>>,
      <<Oneshot, DefaultBarrier, NarrowBarrier>>,
      <<Transport, Transport, AkaTransport>>, <<AkaTransport, AkaTransport, Channel2>>,
      <<Channel1, Channel2, AkaChannel3>>, <<Channel1, Channel2, Transport>>,
      <<AkaChannel3, AkaTransport, DefaultBarrier>>, <<NarrowBarrier, Session, AkaChannel3>>,
      <<NarrowBarrier, Channel1, AkaTransport>> } }
=============================================================================
