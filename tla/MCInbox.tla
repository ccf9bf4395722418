------------------------------- MODULE MCInbox -------------------------------
(***************************************************************************)
(* Instances of MuxInbox for TLC: small sets of senders and datagrams.     *)
(***************************************************************************)
EXTENDS MuxInbox

Datagram(kind, ip, s, k, m, i, c, enc) ==
  [kind |-> kind, ip |-> ip, session_id |-> s, stream_id |-> k, message_id |-> m,
   fragment_index |-> i, fragment_count |-> c, encrypted |-> enc,
   serial |-> 0, received_ms |-> 0]

Plain(kind, ip, enc) == Datagram(kind, ip, 0, 0, 0, 0, 0, enc)

\* The session, stream and message the client always names are 1, 1 and 1.
Tuple(ip, s, i, c) == Datagram("tuple", ip, s, 1, 1, i, c, TRUE)

\* What is too long is dropped as what comes in the plain is, which stands for both.
SecureTraffic ==
  {Plain("raw", "a", FALSE), Plain("raw", "b", FALSE),
   Plain("undecoded", "a", TRUE),
   Plain("single", "a", TRUE), Plain("single", "a", FALSE),
   Tuple("a", 1, 0, 1), Tuple("b", 2, 0, 1)}

\* With fragments of one message, and a sender whose ids are those of another.
AllTraffic ==
  SecureTraffic \cup {Tuple("a", 1, 0, 2), Tuple("a", 1, 1, 2), Tuple("b", 1, 0, 1)}

SingleTraffic == {Plain("single", "a", TRUE), Plain("raw", "a", FALSE)}

MCBodies ==
  [serial : 0 .. MaxArrivals, wire : Wires, ip : Ips, client : 0 .. 2]
=============================================================================
