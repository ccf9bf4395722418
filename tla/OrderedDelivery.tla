--------------------------- MODULE OrderedDelivery ---------------------------
(***************************************************************************)
(* What the stream layer of the mux promises to the code that drains it,   *)
(* independent of slots and trackers:                                      *)
(*   - a fragment is pending at most once;                                 *)
(*   - the fragments of a multi-fragment message leave a stream in the     *)
(*     order 0, 1, 2, ... and, until its run ends, no fragment of another  *)
(*     multi-fragment message leaves that stream;                          *)
(*   - singular packets are not held up by a run;                          *)
(*   - nothing is delivered that was not accepted, and at most Capacity    *)
(*     fragments are pending.                                              *)
(* MuxStream is shown to implement this module.                            *)
(***************************************************************************)
EXTENDS Integers, FiniteSets

CONSTANTS
  Fragments,   \* every fragment that can be accepted
  Capacity     \* how many fragments can be pending

VARIABLES
  pending,     \* the accepted fragments that were neither delivered nor discarded
  run          \* for each stream inside a message, the message and its next index

vars == <<pending, run>>

StreamKey(f)   == <<f.session_id, f.stream_id>>
FragmentKey(f) == <<f.session_id, f.stream_id, f.message_id, f.fragment_index>>
Singular(f)    == f.fragment_count <= 1

Extend(g, k, v) == [x \in DOMAIN g \cup {k} |-> IF x = k THEN v ELSE g[x]]
Without(g, k)   == [x \in DOMAIN g \ {k} |-> g[x]]

RunAfter(f) == [message_id |-> f.message_id, next |-> f.fragment_index + 1]

-----------------------------------------------------------------------------

Init ==
  /\ pending = {}
  /\ run = [k \in {} |-> {}]

\* A fragment joins the pending ones unless one with the same key is pending.
Accept(f) ==
  /\ f \in Fragments
  /\ Cardinality(pending) < Capacity
  /\ \A g \in pending : FragmentKey(g) # FragmentKey(f)
  /\ pending' = pending \cup {f}
  /\ UNCHANGED run

DeliverSingular(f) ==
  /\ f \in pending
  /\ Singular(f)
  /\ f.fragment_index = 0
  /\ pending' = pending \ {f}
  /\ UNCHANGED run

\* The first fragment of a message opens a run on a stream that has none.
DeliverFirst(f) ==
  /\ f \in pending
  /\ ~ Singular(f)
  /\ f.fragment_index = 0
  /\ StreamKey(f) \notin DOMAIN run
  /\ pending' = pending \ {f}
  /\ run' = Extend(run, StreamKey(f), RunAfter(f))

\* The next fragment of the message the run belongs to; it may end the run.
DeliverNext(f) ==
  /\ f \in pending
  /\ ~ Singular(f)
  /\ StreamKey(f) \in DOMAIN run
  /\ run[StreamKey(f)] = [message_id |-> f.message_id, next |-> f.fragment_index]
  /\ pending' = pending \ {f}
  /\ \/ run' = Extend(run, StreamKey(f), RunAfter(f))
     \/ run' = Without(run, StreamKey(f))

\* Fragments that waited too long are forgotten; runs stay where they are.
Discard ==
  /\ pending' \in SUBSET pending
  /\ UNCHANGED run

\* The transport is replaced: everything is forgotten.
Restart ==
  /\ pending' = {}
  /\ run' = [k \in {} |-> {}]

Next ==
  \/ \E f \in pending' : Accept(f)
  \/ \E f \in pending : DeliverSingular(f) \/ DeliverFirst(f) \/ DeliverNext(f)
  \/ Discard
  \/ Restart

Spec == Init /\ [][Next]_vars
=============================================================================
