------------------------------ MODULE DatagramNet ------------------------------
(***************************************************************************)
(* The network between client and daemon.  A datagram once sent may arrive *)
(* at any later time, any number of times or never: loss, reordering and   *)
(* duplication are all in not saying when.                                 *)
(***************************************************************************)
EXTENDS Codecs

CONSTANT Daemon   \* the address the daemon listens on

VARIABLE net   \* every datagram sent so far

\* sendto: the wire form of a packet between two addresses.
Addressed(from, to, wire) == [seal |-> wire.seal, unit |-> wire.unit, from |-> from, to |-> to]

Transmitted(datagrams) == net' = datagrams \cup net
=============================================================================
