------------------------------ MODULE MCStream ------------------------------
(***************************************************************************)
(* Instances of StreamSystem for TLC: small sets of arriving packets.      *)
(***************************************************************************)
EXTENDS StreamSystem

Fragment(s, k, m, i, c) ==
  [session_id |-> s, stream_id |-> k, message_id |-> m,
   fragment_index |-> i, fragment_count |-> c, received_ms |-> 0, body |-> 0]

\* A message of three fragments, whose last one also comes with a wrong count, a
\* message of two, and a singular packet; one that leaves its numbering to the
\* stream layer; and one each of a second session and a second stream.
Packets ==
  {Fragment(1, 1, 1, i, 3) : i \in 0 .. 2}
    \cup {Fragment(1, 1, 1, 2, 4), Fragment(1, 1, 2, 0, 2), Fragment(1, 1, 2, 1, 2)}
    \cup {Fragment(1, 1, 3, 0, 1), Fragment(1, 0, 0, 0, 1)}
    \cup {Fragment(2, 1, 1, 0, 1), Fragment(1, 2, 2, 0, 0)}

NoBody == {0}
=============================================================================
