---------------------------- MODULE StreamSystem ----------------------------
(***************************************************************************)
(* The stream layer of the mux driven by the calls inbox.c makes to it:    *)
(* ingest with the receipt time of the datagram, expire with the time the  *)
(* pump read, drain from the daemon loop, and the reset of a replaced      *)
(* mux.  Packets arrive in any order, again, or never; the clock of one    *)
(* pump may be read before the receipt time of a packet it ingests.        *)
(***************************************************************************)
EXTENDS MuxStream

CONSTANTS
  Arrivals,      \* the packets that can arrive, their received_ms not set
  LastArrival,   \* bound: nothing arrives after this time
  LastTime       \* bound: the clock stops here

ASSUME SystemAssumption ==
  /\ Arrivals \subseteq Packet
  /\ LastArrival \in Nat
  /\ LastTime \in Nat

VARIABLE now

vars == <<ready_queue, ready_count, session_trackers, message_trackers, now>>

Received(a) == [a EXCEPT !.received_ms = now]

\* CLOCK_MONOTONIC counts from boot: the daemon never reads 0.
Init ==
  /\ StreamInit
  /\ now = 1

Arrive(a) ==
  /\ now <= LastArrival
  /\ Ingest(Received(a))
  /\ UNCHANGED now

Deliver == Drain /\ UNCHANGED now

\* inbox.c reads the clock before the datagrams of the pump and after them.
ExpireAt(t) == Expire(t) /\ UNCHANGED now

\* The daemon connects a new mux when the listener's socket changed.
Replace == Reset /\ UNCHANGED now

Tick ==
  /\ now < LastTime
  /\ now' = now + 1
  /\ UNCHANGED streamVars

Next ==
  \/ \E a \in Arrivals : Arrive(a)
  \/ Deliver
  \/ \E t \in 1 .. now : ExpireAt(t)
  \/ Replace
  \/ Tick

Spec == Init /\ [][Next]_vars

\* Time passes, and every iteration of app_daemon_run pumps, which expires, and
\* drains.
Fairness ==
  /\ WF_vars(Tick)
  /\ WF_vars(ExpireAt(now))
  /\ WF_vars(Deliver)

FairSpec == Spec /\ Fairness

-----------------------------------------------------------------------------

TypeOK == StreamTypeOK /\ now \in Nat

\* Slots, trackers and claims implement ordered delivery: the pending
\* fragments are the contents of the slots and a run is a claim of which a
\* fragment was delivered.
Delivery ==
  INSTANCE OrderedDelivery
    WITH Fragments <- Packet,
         Capacity  <- QueueCapacity,
         pending   <- {ready_queue[i] : i \in Occupied},
         run       <- [k \in {k \in DOMAIN message_trackers :
                               message_trackers[k].next_fragment_index > 0} |->
                        [message_id |-> message_trackers[k].message_id,
                         next |-> message_trackers[k].next_fragment_index]]

\* m7mux_stream_ingest, drain and expire together deliver the fragments of a
\* message in order and never interleave two messages of one stream.
DeliversInOrder == Delivery!Spec

\* A claim ends only when the last fragment of its message is drained, or with
\* the mux: neither the expiry of its fragments nor another message of the
\* stream ends it.
ClaimEnds(k) ==
  \/ message_trackers' = [x \in {} |-> FreshTracker]
  \/ /\ message_trackers[k].next_fragment_index + 1 = message_trackers[k].fragment_count
     /\ \E i \in Occupied :
          /\ ready_queue'[i] = Empty
          /\ StreamKey(ready_queue[i]) = k
          /\ ready_queue[i].message_id = message_trackers[k].message_id
          /\ ready_queue[i].fragment_index = message_trackers[k].next_fragment_index

ClaimHeldToTheEnd ==
  [][\A k \in DOMAIN message_trackers :
       /\ Claimed(message_trackers[k])
       /\ k \notin DOMAIN message_trackers'
          \/ message_trackers'[k].message_id # message_trackers[k].message_id
       => ClaimEnds(k)]_vars

\* A slot does not hold on to a packet: it is drained, or it expires even when
\* its message never gets complete.
SlotsEmptyAgain ==
  \A i \in Slots : ready_queue[i] # Empty ~> ready_queue[i] = Empty
=============================================================================
