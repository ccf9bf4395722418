------------------------------ MODULE MuxStream ------------------------------
(***************************************************************************)
(* The stream layer of the m7mux transport (stream.c): a fixed array of    *)
(* ready slots, and trackers that number the streams of a session and the  *)
(* messages of a stream and put the fragments of one message in order.     *)
(*                                                                         *)
(* The arrays of trackers are partial functions: a tracker is found by its *)
(* id only, so its place in the array is not kept, and the capacity of the *)
(* array bounds the domain.  Ready slots keep their index, because drain   *)
(* and ingest both scan them from slot 0.                                  *)
(*                                                                         *)
(* Left out: adapter-owned user data and its copy (body stands for it),    *)
(* labels, addresses and the diagnostics.                                  *)
(***************************************************************************)
EXTENDS Integers, FiniteSets

CONSTANTS
  SessionIds,              \* server session ids (never 0)
  Bodies,                  \* what a packet carries
  StreamIdMod,             \* 2^32: stream ids wrap here
  MessageIdMod,            \* 2^64: message ids wrap here
  QueueCapacity,           \* M7MUX_STREAM_READY_QUEUE_CAPACITY
  SessionTrackerCapacity,  \* M7MUX_STREAM_SESSION_TRACKER_CAPACITY
  StreamTrackerCapacity,   \* M7MUX_STREAM_TRACKER_CAPACITY
  ExpireAfterMs,           \* M7MUX_STREAM_EXPIRE_AFTER_MS
  Empty                    \* a slot whose session_id is 0

StreamIds  == 0 .. (StreamIdMod - 1)
MessageIds == 0 .. (MessageIdMod - 1)
Slots      == 0 .. (QueueCapacity - 1)
StreamKeys == SessionIds \X StreamIds

Packet == [session_id     : SessionIds,
           stream_id      : StreamIds,
           message_id     : MessageIds,
           fragment_index : Nat,
           fragment_count : Nat,
           received_ms    : Nat,
           body           : Bodies]

Tracker == [next_message_id     : MessageIds,
            message_id          : MessageIds,
            next_fragment_index : Nat,
            fragment_count      : Nat]

ASSUME StreamAssumption ==
  /\ SessionIds \subseteq Nat \ {0}
  /\ StreamIdMod \in Nat \ {0, 1}
  /\ MessageIdMod \in Nat \ {0, 1}
  /\ QueueCapacity \in Nat \ {0}
  /\ SessionTrackerCapacity \in Nat
  /\ StreamTrackerCapacity \in Nat
  /\ ExpireAfterMs \in Nat
  /\ Empty \notin Packet

VARIABLES
  ready_queue,       \* slot -> packet, or Empty
  ready_count,
  session_trackers,  \* tracked session -> next_stream_id
  message_trackers   \* <<session, stream>> -> Tracker

streamVars == <<ready_queue, ready_count, session_trackers, message_trackers>>

-----------------------------------------------------------------------------
(* Slots and trackers *)

Put(f, k, v) == [x \in DOMAIN f \cup {k} |-> IF x = k THEN v ELSE f[x]]

Occupied == {i \in Slots : ready_queue[i] # Empty}

SameFragment(p, q) ==
  /\ p.session_id = q.session_id
  /\ p.stream_id = q.stream_id
  /\ p.message_id = q.message_id
  /\ p.fragment_index = q.fragment_index

StreamKey(p) == <<p.session_id, p.stream_id>>
Multi(p)     == p.fragment_count > 1

\* A counter that hands out ids stays above every id it has seen, as far as
\* its width goes.
NextId(next, id, mod) == IF id >= next THEN (id + 1) % mod ELSE next

NextStreamId(s) == IF s \in DOMAIN session_trackers THEN session_trackers[s] ELSE 1

FreshTracker == [next_message_id     |-> 1,
                 message_id          |-> 0,
                 next_fragment_index |-> 0,
                 fragment_count      |-> 0]

TrackerOf(k) ==
  IF k \in DOMAIN message_trackers THEN message_trackers[k] ELSE FreshTracker

StreamsOf(s) == {k \in DOMAIN message_trackers : k[1] = s}

SessionRoom(s) ==
  \/ s \in DOMAIN session_trackers
  \/ Cardinality(DOMAIN session_trackers) < SessionTrackerCapacity

StreamRoom(k) ==
  /\ k[2] # 0
  /\ \/ k \in DOMAIN message_trackers
     \/ Cardinality(StreamsOf(k[1])) < StreamTrackerCapacity

\* The packet with the ids ingest gives it: 0 asks for the next free one.
WithStream(p) ==
  [p EXCEPT !.stream_id = IF @ = 0 THEN NextStreamId(p.session_id) ELSE @]

Identified(p) ==
  LET q == WithStream(p)
  IN  [q EXCEPT !.message_id =
         IF @ = 0 THEN TrackerOf(StreamKey(q)).next_message_id ELSE @]

\* A multi-fragment message claims its stream until its last fragment leaves.
Claimed(t)     == t.message_id # 0
Exhausted(t)   == t.next_fragment_index >= t.fragment_count
Claims(q, t)   == Multi(q) /\ t.message_id # q.message_id

\* Mutant of Admitted: another message may take the stream over.
AdmittedAlways(q, t) == q.message_id # 0

\* Mutant of Admitted: a message id that wrapped to 0 is not noticed.
AdmittedUnnumbered(q, t) == Claims(q, t) => ~ Claimed(t) \/ Exhausted(t)

Admitted(q, t) == q.message_id # 0 /\ (Claims(q, t) => ~ Claimed(t) \/ Exhausted(t))

ClaimedBy(t, q) ==
  [t EXCEPT !.message_id = q.message_id,
            !.next_fragment_index = 0,
            !.fragment_count = q.fragment_count]

\* A claim that does not know its length yet takes it from the packet.
Sized(t, q) ==
  IF Multi(q) /\ t.fragment_count = 0
  THEN [t EXCEPT !.fragment_count = q.fragment_count] ELSE t

-----------------------------------------------------------------------------
(* m7mux_stream_ingest: the trackers change even when the packet is refused *)

CountStream(q) ==
  session_trackers' =
    Put(session_trackers, q.session_id,
        NextId(NextStreamId(q.session_id), q.stream_id, StreamIdMod))

CountedTracker(q) ==
  [TrackerOf(StreamKey(q)) EXCEPT
     !.next_message_id = NextId(@, q.message_id, MessageIdMod)]

TrackerAfter(q) ==
  IF Claims(q, CountedTracker(q)) THEN ClaimedBy(CountedTracker(q), q)
                                  ELSE Sized(CountedTracker(q), q)

\* Mutant of Collides: the scan stops at the count, as if slots were dense.
CollidesBelowCount(q) ==
  \E i \in Occupied : i < ready_count /\ SameFragment(ready_queue[i], q)

Collides(q) == \E i \in Occupied : SameFragment(ready_queue[i], q)
Full        == Occupied = Slots

\* The slot ingest writes.
IsFirstFree(i) == i \in Slots \ Occupied /\ \A j \in Slots \ Occupied : i <= j

\* No room for one more session: nothing happens.
IngestNoSessionTracker(p) ==
  /\ ~ SessionRoom(p.session_id)
  /\ UNCHANGED streamVars

\* No room for one more stream of the session, or its id wrapped to 0.
IngestNoStreamTracker(p) ==
  /\ SessionRoom(p.session_id)
  /\ ~ StreamRoom(StreamKey(WithStream(p)))
  /\ CountStream(WithStream(p))
  /\ UNCHANGED <<ready_queue, ready_count, message_trackers>>

Identifiable(p) ==
  /\ SessionRoom(p.session_id)
  /\ StreamRoom(StreamKey(WithStream(p)))

\* Another message holds the stream, or the message id wrapped to 0.
IngestRefused(p) ==
  LET q == Identified(p)
  IN  /\ Identifiable(p)
      /\ ~ Admitted(q, CountedTracker(q))
      /\ CountStream(q)
      /\ message_trackers' = Put(message_trackers, StreamKey(q), CountedTracker(q))
      /\ UNCHANGED <<ready_queue, ready_count>>

\* The claim is taken although the packet collides or finds no slot.
IngestDropped(p) ==
  LET q == Identified(p)
  IN  /\ Identifiable(p)
      /\ Admitted(q, CountedTracker(q))
      /\ Collides(q) \/ Full
      /\ CountStream(q)
      /\ message_trackers' = Put(message_trackers, StreamKey(q), TrackerAfter(q))
      /\ UNCHANGED <<ready_queue, ready_count>>

Accepts(p) ==
  LET q == Identified(p)
  IN  /\ Identifiable(p)
      /\ Admitted(q, CountedTracker(q))
      /\ ~ Collides(q)
      /\ ~ Full

IngestInto(p, i) ==
  LET q == Identified(p)
  IN  /\ Accepts(p)
      /\ IsFirstFree(i)
      /\ CountStream(q)
      /\ message_trackers' = Put(message_trackers, StreamKey(q), TrackerAfter(q))
      /\ ready_queue' = [ready_queue EXCEPT ![i] = q]
      /\ ready_count' = ready_count + 1

IngestQueued(p) == \E i \in Slots : IngestInto(p, i)

Ingest(p) ==
  \/ IngestNoSessionTracker(p)
  \/ IngestNoStreamTracker(p)
  \/ IngestRefused(p)
  \/ IngestDropped(p)
  \/ IngestQueued(p)

-----------------------------------------------------------------------------
(* m7mux_stream_drain *)

\* Mutant of Deliverable: the claim's index is compared and its message is not.
DeliverableByIndex(p) ==
  /\ p.session_id \in DOMAIN session_trackers
  /\ \/ ~ Multi(p) /\ p.fragment_index = 0
     \/ /\ Multi(p)
        /\ StreamKey(p) \in DOMAIN message_trackers
        /\ p.fragment_index = message_trackers[StreamKey(p)].next_fragment_index

Deliverable(p) ==
  /\ p.session_id \in DOMAIN session_trackers
  /\ p.stream_id # 0
  /\ \/ /\ ~ Multi(p)
        /\ p.fragment_index = 0
     \/ /\ Multi(p)
        /\ StreamKey(p) \in DOMAIN message_trackers
        /\ Claimed(message_trackers[StreamKey(p)])
        /\ p.message_id = message_trackers[StreamKey(p)].message_id
        /\ p.fragment_index = message_trackers[StreamKey(p)].next_fragment_index

Ready == {i \in Occupied : Deliverable(ready_queue[i])}

IsNextReady(i) == i \in Ready /\ \A j \in Ready : i <= j

\* Mutant of Advanced: off by one at the last fragment.
AdvancedPastEnd(t) ==
  IF t.fragment_count = 0 \/ t.next_fragment_index + 1 > t.fragment_count
  THEN [t EXCEPT !.message_id = 0, !.next_fragment_index = 0, !.fragment_count = 0]
  ELSE [t EXCEPT !.next_fragment_index = @ + 1]

\* The tracker after one fragment of its message left: it is free again after
\* the last one.
Advanced(t) ==
  IF t.fragment_count = 0 \/ t.next_fragment_index + 1 >= t.fragment_count
  THEN [t EXCEPT !.message_id = 0, !.next_fragment_index = 0, !.fragment_count = 0]
  ELSE [t EXCEPT !.next_fragment_index = @ + 1]

\* The first deliverable slot is handed to the caller and cleared.
DrainSlot(i) ==
  LET p == ready_queue[i]
  IN  /\ IsNextReady(i)
      /\ ready_queue' = [ready_queue EXCEPT ![i] = Empty]
      /\ ready_count' = IF ready_count > 0 THEN ready_count - 1 ELSE 0
      /\ message_trackers' =
           IF Multi(p)
           THEN [message_trackers EXCEPT ![StreamKey(p)] = Advanced(@)]
           ELSE message_trackers
      /\ UNCHANGED session_trackers

Drain == \E i \in Slots : DrainSlot(i)

-----------------------------------------------------------------------------
(* m7mux_stream_expire and m7mux_stream_state_reset *)

Expired(p, now) ==
  \/ p.received_ms = 0
  \/ now >= p.received_ms /\ now - p.received_ms >= ExpireAfterMs

\* Mutant of Stale: fragments wait for the rest of the message that has the stream.
StaleUnclaimed(now) ==
  {i \in Occupied :
     /\ Expired(ready_queue[i], now)
     /\ StreamKey(ready_queue[i]) \in DOMAIN message_trackers =>
          message_trackers[StreamKey(ready_queue[i])].message_id # ready_queue[i].message_id}

Stale(now) == {i \in Occupied : Expired(ready_queue[i], now)}

\* Mutant of Expire: slots are cleared and not counted.
ExpireUncounted(now) ==
  /\ ready_queue' = [i \in Slots |-> IF i \in Stale(now) THEN Empty ELSE ready_queue[i]]
  /\ UNCHANGED <<ready_count, session_trackers, message_trackers>>

\* Slots are cleared; the trackers keep their claims and their numbering.
Expire(now) ==
  /\ ready_queue' = [i \in Slots |-> IF i \in Stale(now) THEN Empty ELSE ready_queue[i]]
  /\ ready_count' = IF Cardinality(Stale(now)) < ready_count
                    THEN ready_count - Cardinality(Stale(now)) ELSE 0
  /\ UNCHANGED <<session_trackers, message_trackers>>

StreamInit ==
  /\ ready_queue = [i \in Slots |-> Empty]
  /\ ready_count = 0
  /\ session_trackers = [s \in {} |-> 0]
  /\ message_trackers = [k \in {} |-> FreshTracker]

Reset ==
  /\ ready_queue' = [i \in Slots |-> Empty]
  /\ ready_count' = 0
  /\ session_trackers' = [s \in {} |-> 0]
  /\ message_trackers' = [k \in {} |-> FreshTracker]

HasPending == ready_count > 0

-----------------------------------------------------------------------------
(* What holds of the stream layer between its operations *)

\* The slots hold packets with a session and the trackers are inside their
\* arrays, so ids, counters and capacities are what stream.h declares.
StreamTypeOK ==
  /\ ready_queue \in [Slots -> Packet \cup {Empty}]
  /\ ready_count \in 0 .. QueueCapacity
  /\ DOMAIN session_trackers \subseteq SessionIds
  /\ \A s \in DOMAIN session_trackers : session_trackers[s] \in StreamIds
  /\ DOMAIN message_trackers \subseteq StreamKeys
  /\ \A k \in DOMAIN message_trackers : message_trackers[k] \in Tracker

\* m7mux_stream_has_pending looks at the counter only, and the daemon drains
\* while it is not 0: a counter that drifts from the slots strands packets or
\* keeps the loop busy.
CountMatchesQueue == ready_count = Cardinality(Occupied)

\* The collision scan of ingest keeps a fragment from being queued twice, even
\* after slots were drained and expired in any order.
QueueKeysUnique ==
  \A i, j \in Occupied : SameFragment(ready_queue[i], ready_queue[j]) => i = j

FreeOrUnfinished(t) ==
  IF Claimed(t)
  THEN t.fragment_count > 1 /\ t.next_fragment_index < t.fragment_count
  ELSE t.fragment_count = 0 /\ t.next_fragment_index = 0

\* A tracker is either free or inside a message of several fragments with one
\* still to come, so the branch of m7mux_stream_message_tracker_begin that takes
\* over an exhausted claim never runs.
ClaimsHaveFragmentsLeft ==
  \A k \in DOMAIN message_trackers : FreeOrUnfinished(message_trackers[k])

\* Every queued packet has the trackers it is delivered through: no order of
\* refused neighbours, expiries and resets leaves an orphan in the queue, which
\* m7mux_stream_packet_is_deliverable would skip until it expires.
QueuedAreTracked ==
  \A i \in Occupied :
    /\ ready_queue[i].session_id \in DOMAIN session_trackers
    /\ StreamKey(ready_queue[i]) \in DOMAIN message_trackers
    /\ ready_queue[i].message_id # 0
=============================================================================
