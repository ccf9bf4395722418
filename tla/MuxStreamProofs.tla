---------------------------- MODULE MuxStreamProofs ----------------------------
(***************************************************************************)
(* What each operation of the stream layer preserves, for every value of   *)
(* the constants and whoever calls it: the slots and their counter, the    *)
(* trackers and their claims.  StreamSystemProofs and InboxProofs use it.  *)
(***************************************************************************)
EXTENDS MuxStream, FiniteSetTheorems, TLAPS

IdsInRange ==
  /\ DOMAIN session_trackers \subseteq SessionIds
  /\ \A s \in DOMAIN session_trackers : session_trackers[s] \in StreamIds
  /\ DOMAIN message_trackers \subseteq StreamKeys
  /\ \A k \in DOMAIN message_trackers : message_trackers[k] \in Tracker

-----------------------------------------------------------------------------
(* The operators of ingest *)

\* m7mux_stream_find_message_tracker returns a well-formed tracker, found or
\* freshly initialised.
LEMMA TrackerInTracker ==
  ASSUME IdsInRange, NEW k
  PROVE  TrackerOf(k) \in Tracker
BY StreamAssumption DEF IdsInRange, TrackerOf, FreshTracker, Tracker, MessageIds

\* The next stream id of a session fits its width, also for a new session.
LEMMA NextStreamIdInStreamIds ==
  ASSUME IdsInRange, NEW s
  PROVE  NextStreamId(s) \in StreamIds
BY StreamAssumption DEF IdsInRange, NextStreamId, StreamIds

\* The id counters of ingest stay inside their width.
LEMMA NextIdInRange ==
  ASSUME NEW mod \in Nat \ {0}, NEW next \in 0 .. (mod - 1), NEW id \in 0 .. (mod - 1)
  PROVE  NextId(next, id, mod) \in 0 .. (mod - 1)
BY DEF NextId

\* Numbering the stream leaves a packet of the same session.
LEMMA WithStreamIsPacket ==
  ASSUME IdsInRange, NEW p \in Packet
  PROVE  /\ WithStream(p) \in Packet
         /\ WithStream(p).session_id = p.session_id
BY NextStreamIdInStreamIds DEF WithStream, Packet

\* Numbering stream and message leaves a packet of the same session, whose
\* stream is one the trackers can hold.
LEMMA IdentifiedIsPacket ==
  ASSUME IdsInRange, NEW p \in Packet
  PROVE  /\ Identified(p) \in Packet
         /\ Identified(p).session_id = p.session_id
         /\ StreamKey(Identified(p)) = StreamKey(WithStream(p))
         /\ StreamKey(Identified(p)) \in StreamKeys
BY WithStreamIsPacket, TrackerInTracker
   DEF Identified, Packet, Tracker, StreamKey, StreamKeys

\* The tracker is still one after it counted the message.
LEMMA CountedInTracker ==
  ASSUME IdsInRange, NEW q \in Packet
  PROVE  /\ CountedTracker(q) \in Tracker
         /\ CountedTracker(q).message_id = TrackerOf(StreamKey(q)).message_id
         /\ CountedTracker(q).next_fragment_index
              = TrackerOf(StreamKey(q)).next_fragment_index
         /\ CountedTracker(q).fragment_count = TrackerOf(StreamKey(q)).fragment_count
<1>1. TrackerOf(StreamKey(q)) \in Tracker
  BY TrackerInTracker
<1>2. NextId(TrackerOf(StreamKey(q)).next_message_id, q.message_id, MessageIdMod)
        \in MessageIds
  BY <1>1, NextIdInRange, StreamAssumption DEF Tracker, Packet, MessageIds
<1> QED
  BY <1>1, <1>2 DEF CountedTracker, Tracker

\* The tracker is still one after the packet's claim.
LEMMA AfterInTracker ==
  ASSUME IdsInRange, NEW q \in Packet
  PROVE  TrackerAfter(q) \in Tracker
BY CountedInTracker DEF TrackerAfter, ClaimedBy, Sized, Tracker, Packet

-----------------------------------------------------------------------------
(* The slots *)

QueueOK ==
  /\ ready_queue \in [Slots -> Packet \cup {Empty}]
  /\ CountMatchesQueue
  /\ QueueKeysUnique

\* There are finitely many occupied slots, as many as Cardinality says, and no
\* more than the capacity.
LEMMA OccupiedFinite ==
  /\ IsFiniteSet(Occupied)
  /\ Cardinality(Occupied) \in 0 .. QueueCapacity
<1>1. IsFiniteSet(Slots) /\ Cardinality(Slots) = QueueCapacity
  BY FS_Interval, StreamAssumption DEF Slots
<1>2. Occupied \in SUBSET Slots
  BY DEF Occupied
<1> QED
  BY <1>1, <1>2, FS_Subset, FS_CardinalityType, StreamAssumption

\* The only step of ingest that touches the slots fills a free one.
LEMMA IngestQueue ==
  ASSUME QueueOK, IdsInRange, NEW p \in Packet, Ingest(p)
  PROVE  QueueOK'
<1>1. CASE UNCHANGED <<ready_queue, ready_count>>
  BY <1>1 DEF QueueOK, CountMatchesQueue, QueueKeysUnique, Occupied, Slots, SameFragment
<1>2. ASSUME NEW i \in Slots, IngestInto(p, i)
      PROVE  QueueOK'
  <2> DEFINE q == Identified(p)
  <2>1. q \in Packet /\ q # Empty
    BY IdentifiedIsPacket, StreamAssumption
  <2>2. ready_queue' = [ready_queue EXCEPT ![i] = q] /\ ready_count' = ready_count + 1
    BY <1>2 DEF IngestInto
  <2>3. i \notin Occupied /\ Occupied' = Occupied \cup {i}
    BY <1>2, <2>1, <2>2 DEF IngestInto, IsFirstFree, QueueOK, Occupied
  <2>4. ready_queue' \in [Slots -> Packet \cup {Empty}]
    BY <2>1, <2>2 DEF QueueOK
  <2>5. CountMatchesQueue'
    BY <2>2, <2>3, OccupiedFinite, FS_AddElement DEF QueueOK, CountMatchesQueue
  <2>6. QueueKeysUnique'
    <3>1. \A j \in Occupied : ~ SameFragment(ready_queue[j], q)
      BY <1>2 DEF IngestInto, Accepts, Collides
    <3>2. \A j \in Occupied : ready_queue'[j] = ready_queue[j]
      BY <2>2, <2>3 DEF QueueOK, Occupied
    <3>3. ready_queue'[i] = q
      BY <2>2 DEF QueueOK
    <3> QED
      BY <2>3, <3>1, <3>2, <3>3 DEF QueueOK, QueueKeysUnique, SameFragment
  <2> QED
    BY <2>4, <2>5, <2>6 DEF QueueOK
<1> QED
  BY <1>1, <1>2 DEF Ingest, IngestNoSessionTracker, IngestNoStreamTracker,
     IngestRefused, IngestDropped, IngestQueued, streamVars

\* drain empties one slot and counts it.
LEMMA DrainQueue ==
  ASSUME QueueOK, NEW i \in Slots, DrainSlot(i)
  PROVE  QueueOK'
<1>1. i \in Occupied
  BY DEF DrainSlot, IsNextReady, Ready
<1>2. Occupied' = Occupied \ {i} /\ \A j \in Occupied' : ready_queue'[j] = ready_queue[j]
  BY DEF DrainSlot, QueueOK, Occupied
<1>3. ready_queue' \in [Slots -> Packet \cup {Empty}]
  BY DEF DrainSlot, QueueOK
<1>4. ready_count' = Cardinality(Occupied) - 1
  <2>1. Cardinality(Occupied) # 0
    BY <1>1, OccupiedFinite, FS_EmptySet
  <2> QED
    BY <2>1, OccupiedFinite DEF DrainSlot, QueueOK, CountMatchesQueue
<1>5. CountMatchesQueue'
  BY <1>1, <1>2, <1>4, OccupiedFinite, FS_RemoveElement DEF CountMatchesQueue
<1>6. QueueKeysUnique'
  BY <1>2 DEF QueueOK, QueueKeysUnique, SameFragment
<1> QED
  BY <1>3, <1>5, <1>6 DEF QueueOK

\* expire counts exactly the slots it clears.
LEMMA ExpireQueue ==
  ASSUME QueueOK, NEW t, Expire(t)
  PROVE  QueueOK'
<1>1. Stale(t) \subseteq Occupied
  BY DEF Stale
<1>2. Occupied' = Occupied \ Stale(t)
  BY <1>1 DEF Expire, QueueOK, Occupied
<1>3. \A j \in Occupied' : ready_queue'[j] = ready_queue[j]
  BY <1>2 DEF Expire, Occupied
<1>4. ready_queue' \in [Slots -> Packet \cup {Empty}]
  BY DEF Expire, QueueOK
<1>5. CountMatchesQueue'
  <2>1. /\ IsFiniteSet(Stale(t))
        /\ Cardinality(Stale(t)) <= Cardinality(Occupied)
        /\ Cardinality(Stale(t)) \in Nat
    BY <1>1, OccupiedFinite, FS_Subset, FS_CardinalityType
  <2>2. Occupied \cap Stale(t) = Stale(t)
    BY <1>1
  <2>3. Cardinality(Occupied') = Cardinality(Occupied) - Cardinality(Stale(t))
    BY <1>2, <2>2, OccupiedFinite, FS_Difference
  <2> QED
    BY <2>1, <2>3, OccupiedFinite DEF Expire, QueueOK, CountMatchesQueue
<1>6. QueueKeysUnique'
  BY <1>2, <1>3 DEF QueueOK, QueueKeysUnique, SameFragment
<1> QED
  BY <1>4, <1>5, <1>6 DEF QueueOK

-----------------------------------------------------------------------------
(* The trackers *)

TrackersOK ==
  /\ IdsInRange
  /\ ClaimsHaveFragmentsLeft
  /\ QueuedAreTracked

\* Counting a message does not touch the claim.
LEMMA CountedIsUnfinished ==
  ASSUME IdsInRange, ClaimsHaveFragmentsLeft, NEW q \in Packet
  PROVE  FreeOrUnfinished(CountedTracker(q))
<1>1. FreeOrUnfinished(TrackerOf(StreamKey(q)))
  BY DEF ClaimsHaveFragmentsLeft, TrackerOf, FreshTracker, FreeOrUnfinished, Claimed
<1> QED
  BY <1>1, CountedInTracker DEF FreeOrUnfinished, Claimed

\* A message with several fragments that gets past the admission claims the
\* stream with its first fragment still to come.
LEMMA AfterIsUnfinished ==
  ASSUME IdsInRange, ClaimsHaveFragmentsLeft, NEW q \in Packet,
         Admitted(q, CountedTracker(q))
  PROVE  FreeOrUnfinished(TrackerAfter(q))
<1> DEFINE t == CountedTracker(q)
<1>1. FreeOrUnfinished(t) /\ t \in Tracker
  BY CountedIsUnfinished, CountedInTracker
<1>2. q.message_id # 0
  BY DEF Admitted
<1>3. CASE Claims(q, t)
  <2>1. TrackerAfter(q) = ClaimedBy(t, q)
    BY <1>3 DEF TrackerAfter
  <2>2. /\ ClaimedBy(t, q).message_id = q.message_id
        /\ ClaimedBy(t, q).next_fragment_index = 0
        /\ ClaimedBy(t, q).fragment_count = q.fragment_count
    BY <1>1 DEF ClaimedBy, Tracker
  <2> QED
    BY <1>2, <1>3, <2>1, <2>2 DEF Claims, Multi, FreeOrUnfinished, Claimed, Packet
<1>4. CASE ~ Claims(q, t)
  <2>1. ~ (Multi(q) /\ t.fragment_count = 0)
    BY <1>1, <1>2, <1>4 DEF Claims, FreeOrUnfinished, Claimed
  <2>2. TrackerAfter(q) = t
    BY <1>4, <2>1 DEF TrackerAfter, Sized
  <2> QED
    BY <1>1, <2>2
<1> QED
  BY <1>3, <1>4

\* One more stream counted and one tracker of that stream replaced.
LEMMA TrackerReplaced ==
  ASSUME TrackersOK, NEW q \in Packet, NEW t \in Tracker,
         StreamKey(q) \in StreamKeys,
         FreeOrUnfinished(t),
         CountStream(q),
         message_trackers' = Put(message_trackers, StreamKey(q), t)
  PROVE  /\ IdsInRange'
         /\ ClaimsHaveFragmentsLeft'
         /\ DOMAIN session_trackers \subseteq DOMAIN session_trackers'
         /\ DOMAIN message_trackers \subseteq DOMAIN message_trackers'
         /\ q.session_id \in DOMAIN session_trackers'
         /\ StreamKey(q) \in DOMAIN message_trackers'
<1> DEFINE n == NextId(NextStreamId(q.session_id), q.stream_id, StreamIdMod)
<1>1. n \in StreamIds
  BY NextStreamIdInStreamIds, NextIdInRange, StreamAssumption
     DEF TrackersOK, StreamIds, Packet
<1>2. session_trackers' = Put(session_trackers, q.session_id, n)
  BY DEF CountStream
<1>3. q.session_id \in SessionIds
  BY DEF Packet
<1>4. /\ DOMAIN session_trackers' = DOMAIN session_trackers \cup {q.session_id}
      /\ \A s \in DOMAIN session_trackers' :
           session_trackers'[s] = IF s = q.session_id THEN n ELSE session_trackers[s]
  BY <1>2 DEF Put
<1>5. /\ DOMAIN message_trackers' = DOMAIN message_trackers \cup {StreamKey(q)}
      /\ \A k \in DOMAIN message_trackers' :
           message_trackers'[k] = IF k = StreamKey(q) THEN t ELSE message_trackers[k]
  BY DEF Put
<1>6. IdsInRange'
  BY <1>1, <1>3, <1>4, <1>5 DEF TrackersOK, IdsInRange, StreamKeys, StreamIds, Tracker,
     MessageIds
<1>7. ClaimsHaveFragmentsLeft'
  BY <1>5 DEF TrackersOK, ClaimsHaveFragmentsLeft, FreeOrUnfinished, Claimed
<1> QED
  BY <1>4, <1>5, <1>6, <1>7

\* Every branch of ingest keeps the trackers in order, and the packet it queues
\* has its two trackers and an id.
LEMMA IngestTrackers ==
  ASSUME QueueOK, TrackersOK, NEW p \in Packet, Ingest(p)
  PROVE  TrackersOK'
<1> DEFINE q == Identified(p)
<1>0. /\ q \in Packet
      /\ StreamKey(q) \in StreamKeys
      /\ CountedTracker(q) \in Tracker /\ FreeOrUnfinished(CountedTracker(q))
      /\ TrackerAfter(q) \in Tracker
  BY IdentifiedIsPacket, CountedInTracker, CountedIsUnfinished, AfterInTracker
     DEF TrackersOK
<1>1. CASE IngestNoSessionTracker(p)
  BY <1>1 DEF IngestNoSessionTracker, streamVars, TrackersOK, IdsInRange,
     ClaimsHaveFragmentsLeft, QueuedAreTracked, Occupied
<1>2. CASE IngestNoStreamTracker(p)
  <2> DEFINE w == WithStream(p)
  <2> DEFINE n == NextId(NextStreamId(w.session_id), w.stream_id, StreamIdMod)
  <2>1. w \in Packet
    BY WithStreamIsPacket DEF TrackersOK
  <2>2. n \in StreamIds
    BY <2>1, NextStreamIdInStreamIds, NextIdInRange, StreamAssumption
       DEF TrackersOK, StreamIds, Packet
  <2>3. session_trackers' = Put(session_trackers, w.session_id, n)
    BY <1>2 DEF IngestNoStreamTracker, CountStream
  <2>4. /\ DOMAIN session_trackers' = DOMAIN session_trackers \cup {w.session_id}
        /\ \A s \in DOMAIN session_trackers' :
             session_trackers'[s] = IF s = w.session_id THEN n ELSE session_trackers[s]
    BY <2>3 DEF Put
  <2>5. w.session_id \in SessionIds
    BY <2>1 DEF Packet
  <2>6. UNCHANGED <<ready_queue, message_trackers>>
    BY <1>2 DEF IngestNoStreamTracker
  <2>7. IdsInRange'
    BY <2>2, <2>4, <2>5, <2>6 DEF TrackersOK, IdsInRange, StreamIds, StreamKeys
  <2> QED
    BY <2>4, <2>6, <2>7 DEF TrackersOK, ClaimsHaveFragmentsLeft, QueuedAreTracked, Occupied
<1>3. CASE IngestRefused(p)
  BY <1>0, <1>3, TrackerReplaced
     DEF IngestRefused, TrackersOK, QueuedAreTracked, Occupied
<1>4. CASE IngestDropped(p)
  <2>1. FreeOrUnfinished(TrackerAfter(q))
    BY <1>0, <1>4, AfterIsUnfinished DEF IngestDropped, TrackersOK
  <2> QED
    BY <1>0, <1>4, <2>1, TrackerReplaced
       DEF IngestDropped, TrackersOK, QueuedAreTracked, Occupied
<1>5. ASSUME NEW i \in Slots, IngestInto(p, i)
      PROVE  TrackersOK'
  <2>1. Admitted(q, CountedTracker(q))
    BY <1>5 DEF IngestInto, Accepts
  <2>2. FreeOrUnfinished(TrackerAfter(q))
    BY <1>0, <2>1, AfterIsUnfinished DEF TrackersOK
  <2>3. /\ IdsInRange'
        /\ ClaimsHaveFragmentsLeft'
        /\ DOMAIN session_trackers \subseteq DOMAIN session_trackers'
        /\ DOMAIN message_trackers \subseteq DOMAIN message_trackers'
        /\ q.session_id \in DOMAIN session_trackers'
        /\ StreamKey(q) \in DOMAIN message_trackers'
    BY <1>0, <1>5, <2>2, TrackerReplaced DEF IngestInto
  <2>4. /\ ready_queue' = [ready_queue EXCEPT ![i] = q]
        /\ \A j \in Slots : ready_queue'[j] = IF j = i THEN q ELSE ready_queue[j]
    BY <1>5 DEF IngestInto, QueueOK
  <2>5. q.message_id # 0
    BY <2>1 DEF Admitted
  <2> QED
    BY <2>3, <2>4, <2>5 DEF TrackersOK, QueuedAreTracked, Occupied
<1> QED
  BY <1>1, <1>2, <1>3, <1>4, <1>5 DEF Ingest, IngestQueued

\* drain moves a claim to its next fragment or gives it up with the last one.
LEMMA AdvancedIsUnfinished ==
  ASSUME NEW t \in Tracker, FreeOrUnfinished(t), Claimed(t)
  PROVE  Advanced(t) \in Tracker /\ FreeOrUnfinished(Advanced(t))
<1>1. CASE t.next_fragment_index + 1 >= t.fragment_count
  <2>1. Advanced(t) = [t EXCEPT !.message_id = 0, !.next_fragment_index = 0,
                                !.fragment_count = 0]
    BY <1>1 DEF Advanced
  <2>2. 0 \in MessageIds
    BY StreamAssumption DEF MessageIds
  <2>3. Advanced(t) = [next_message_id |-> t.next_message_id, message_id |-> 0,
                       next_fragment_index |-> 0, fragment_count |-> 0]
    BY <2>1 DEF Tracker
  <2>4. /\ Advanced(t) \in Tracker
        /\ Advanced(t).message_id = 0
        /\ Advanced(t).next_fragment_index = 0
        /\ Advanced(t).fragment_count = 0
    BY <2>2, <2>3 DEF Tracker
  <2> QED
    BY <2>4 DEF FreeOrUnfinished, Claimed
<1>2. CASE ~ (t.next_fragment_index + 1 >= t.fragment_count)
  <2>1. Advanced(t) = [t EXCEPT !.next_fragment_index = @ + 1]
    BY <1>2 DEF Advanced, FreeOrUnfinished
  <2>2. /\ Advanced(t) \in Tracker
        /\ Advanced(t).message_id = t.message_id
        /\ Advanced(t).next_fragment_index = t.next_fragment_index + 1
        /\ Advanced(t).fragment_count = t.fragment_count
    BY <2>1 DEF Tracker
  <2> QED
    BY <1>2, <2>2 DEF FreeOrUnfinished, Claimed, Tracker
<1> QED
  BY <1>1, <1>2

\* drain keeps the trackers in order; the packets it leaves keep theirs.
LEMMA DrainTrackers ==
  ASSUME QueueOK, TrackersOK, NEW i \in Slots, DrainSlot(i)
  PROVE  TrackersOK'
<1> DEFINE p == ready_queue[i]
<1>1. i \in Occupied /\ Deliverable(p)
  BY DEF DrainSlot, IsNextReady, Ready
<1>2. Occupied' \subseteq Occupied /\ \A j \in Occupied' : ready_queue'[j] = ready_queue[j]
  BY DEF DrainSlot, QueueOK, Occupied
<1>3. UNCHANGED session_trackers
  BY DEF DrainSlot
<1>4. CASE Multi(p)
  <2> DEFINE t == message_trackers[StreamKey(p)]
  <2>1. /\ StreamKey(p) \in DOMAIN message_trackers
        /\ t \in Tracker
        /\ FreeOrUnfinished(t)
        /\ Claimed(t)
    BY <1>1, <1>4 DEF Deliverable, TrackersOK, IdsInRange, ClaimsHaveFragmentsLeft
  <2>2. Advanced(t) \in Tracker /\ FreeOrUnfinished(Advanced(t))
    BY <2>1, AdvancedIsUnfinished
  <2>3. /\ DOMAIN message_trackers' = DOMAIN message_trackers
        /\ \A k \in DOMAIN message_trackers :
             message_trackers'[k] = IF k = StreamKey(p) THEN Advanced(t)
                                                      ELSE message_trackers[k]
    BY <1>4, <2>1 DEF DrainSlot
  <2>4. IdsInRange'
    BY <1>3, <2>2, <2>3 DEF TrackersOK, IdsInRange, StreamIds, StreamKeys, Tracker
  <2>5. ClaimsHaveFragmentsLeft'
    BY <2>2, <2>3 DEF TrackersOK, ClaimsHaveFragmentsLeft, FreeOrUnfinished, Claimed
  <2> QED
    BY <1>2, <1>3, <2>3, <2>4, <2>5 DEF TrackersOK, QueuedAreTracked
<1>5. CASE ~ Multi(p)
  <2>1. UNCHANGED message_trackers
    BY <1>5 DEF DrainSlot
  <2> QED
    BY <1>2, <1>3, <2>1
       DEF TrackersOK, IdsInRange, ClaimsHaveFragmentsLeft, QueuedAreTracked
<1> QED
  BY <1>4, <1>5

\* expire leaves the trackers alone.
LEMMA ExpireTrackers ==
  ASSUME QueueOK, TrackersOK, NEW t, Expire(t)
  PROVE  TrackersOK'
<1>1. Occupied' \subseteq Occupied /\ \A j \in Occupied' : ready_queue'[j] = ready_queue[j]
  BY DEF Expire, QueueOK, Occupied
<1> QED
  BY <1>1 DEF Expire, TrackersOK, IdsInRange, ClaimsHaveFragmentsLeft, QueuedAreTracked
=============================================================================
