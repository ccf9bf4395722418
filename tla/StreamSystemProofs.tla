-------------------------- MODULE StreamSystemProofs --------------------------
(***************************************************************************)
(* Proofs, for every value of the constants, of what StreamSystem's runs   *)
(* check: types and bounds, the slot counter, the uniqueness of queued     *)
(* fragments, the claims and the trackers of queued packets, and that      *)
(* slots and trackers implement OrderedDelivery: fragments of a message    *)
(* leave in order and runs of one stream do not interleave.                *)
(***************************************************************************)
EXTENDS StreamSystem, MuxStreamProofs, FunctionTheorems

\* Setting the receipt time of an arriving packet leaves a packet.
LEMMA ReceivedIsPacket ==
  ASSUME NEW a \in Arrivals, now \in Nat
  PROVE  Received(a) \in Packet
BY SystemAssumption DEF Received, Packet

-----------------------------------------------------------------------------
(* The inductive invariant of the system *)

IInv ==
  /\ QueueOK
  /\ TrackersOK
  /\ now \in Nat

\* A new mux satisfies the inductive invariant.
LEMMA InitEstablishesIInv == Init => IInv
<1> SUFFICES ASSUME Init PROVE IInv
  OBVIOUS
<1>1. Occupied = {}
  BY DEF Init, StreamInit, Occupied
<1>2. QueueOK
  BY <1>1, FS_EmptySet DEF Init, StreamInit, QueueOK, CountMatchesQueue, QueueKeysUnique
<1>3. TrackersOK
  BY <1>1 DEF Init, StreamInit, TrackersOK, IdsInRange, ClaimsHaveFragmentsLeft,
     QueuedAreTracked
<1> QED
  BY <1>2, <1>3 DEF Init, IInv

\* Every call of the daemon's loop preserves the inductive invariant.
LEMMA NextPreservesIInv == IInv /\ [Next]_vars => IInv'
<1> SUFFICES ASSUME IInv, [Next]_vars PROVE IInv'
  OBVIOUS
<1> USE DEF IInv
<1>1. ASSUME NEW a \in Arrivals, Arrive(a)
      PROVE  IInv'
  BY <1>1, ReceivedIsPacket, IngestQueue, IngestTrackers DEF Arrive, TrackersOK
<1>2. CASE Deliver
  BY <1>2, DrainQueue, DrainTrackers DEF Deliver, Drain
<1>3. ASSUME NEW t \in 1 .. now, ExpireAt(t)
      PROVE  IInv'
  BY <1>3, ExpireQueue, ExpireTrackers DEF ExpireAt
<1>4. CASE Replace
  <2>1. Occupied' = {}
    BY <1>4 DEF Replace, Reset, Occupied
  <2>2. QueueOK'
    BY <1>4, <2>1, FS_EmptySet
       DEF Replace, Reset, QueueOK, CountMatchesQueue, QueueKeysUnique
  <2>3. TrackersOK'
    BY <1>4, <2>1 DEF Replace, Reset, TrackersOK, IdsInRange, ClaimsHaveFragmentsLeft,
       QueuedAreTracked
  <2> QED
    BY <1>4, <2>2, <2>3 DEF Replace
<1>5. CASE UNCHANGED streamVars /\ now' \in Nat
  BY <1>5 DEF streamVars, QueueOK, CountMatchesQueue, QueueKeysUnique, Occupied,
     SameFragment, TrackersOK, IdsInRange, ClaimsHaveFragmentsLeft, QueuedAreTracked
<1>6. CASE Tick
  BY <1>5, <1>6 DEF Tick
<1>7. CASE UNCHANGED vars
  BY <1>5, <1>7 DEF vars, streamVars
<1> QED
  BY <1>1, <1>2, <1>3, <1>4, <1>6, <1>7 DEF Next

\* The inductive invariant holds in every reachable state of the stream layer.
THEOREM Invariance == Spec => []IInv
BY InitEstablishesIInv, NextPreservesIInv, PTL DEF Spec

-----------------------------------------------------------------------------

\* Types, ids and capacities of stream.h, for every reachable state.
THEOREM TypeCorrect == Spec => []TypeOK
<1>1. IInv => TypeOK
  BY OccupiedFinite DEF IInv, QueueOK, TrackersOK, IdsInRange, TypeOK, StreamTypeOK,
     CountMatchesQueue
<1> QED
  BY <1>1, Invariance, PTL

\* The counter behind m7mux_stream_has_pending is exact.
THEOREM CountCorrect == Spec => []CountMatchesQueue
<1>1. IInv => CountMatchesQueue
  BY DEF IInv, QueueOK
<1> QED
  BY <1>1, Invariance, PTL

\* No fragment is in two slots.
THEOREM KeysUnique == Spec => []QueueKeysUnique
<1>1. IInv => QueueKeysUnique
  BY DEF IInv, QueueOK
<1> QED
  BY <1>1, Invariance, PTL

\* A claim has a fragment left to wait for, so message_tracker_begin never takes
\* over an exhausted one.
THEOREM ClaimsUnfinished == Spec => []ClaimsHaveFragmentsLeft
<1>1. IInv => ClaimsHaveFragmentsLeft
  BY DEF IInv, TrackersOK
<1> QED
  BY <1>1, Invariance, PTL

\* Every queued packet has the session and the stream tracker drain looks up.
THEOREM QueuedTracked == Spec => []QueuedAreTracked
<1>1. IInv => QueuedAreTracked
  BY DEF IInv, TrackersOK
<1> QED
  BY <1>1, Invariance, PTL

-----------------------------------------------------------------------------
(* The refinement of OrderedDelivery *)

\* The claims of which a fragment was delivered, and the runs they stand for.
Started == {k \in DOMAIN message_trackers : message_trackers[k].next_fragment_index > 0}

Runs == [k \in Started |-> [message_id |-> message_trackers[k].message_id,
                            next |-> message_trackers[k].next_fragment_index]]

\* The contents of the slots.
Contents == {ready_queue[i] : i \in Occupied}

-----------------------------------------------------------------------------
(* What ingest does to a claim *)

\* m7mux_stream_message_tracker_begin: a message that is let in leaves a claim
\* as it is, and a claim that is not started does not become one that is.
LEMMA AdmissionKeepsClaim ==
  ASSUME IdsInRange, ClaimsHaveFragmentsLeft, NEW q \in Packet,
         Admitted(q, CountedTracker(q))
  PROVE  LET t == TrackerOf(StreamKey(q))
             u == TrackerAfter(q)
         IN  /\ u.next_fragment_index = t.next_fragment_index
             /\ Claimed(t) => u.message_id = t.message_id
<1> DEFINE t == TrackerOf(StreamKey(q))
<1> DEFINE c == CountedTracker(q)
<1>1. /\ c \in Tracker
      /\ FreeOrUnfinished(c)
      /\ c.message_id = t.message_id
      /\ c.next_fragment_index = t.next_fragment_index
  BY CountedInTracker, CountedIsUnfinished
<1>2. CASE Claims(q, c)
  <2>1. ~ Claimed(c)
    BY <1>1, <1>2 DEF Admitted, Exhausted, FreeOrUnfinished, Tracker
  <2>2. c.next_fragment_index = 0
    BY <1>1, <2>1 DEF FreeOrUnfinished
  <2>3. TrackerAfter(q).next_fragment_index = 0
    BY <1>1, <1>2 DEF TrackerAfter, ClaimedBy, Tracker
  <2> QED
    BY <1>1, <2>1, <2>2, <2>3 DEF Claimed
<1>3. CASE ~ Claims(q, c)
  <2>1. /\ TrackerAfter(q).message_id = c.message_id
        /\ TrackerAfter(q).next_fragment_index = c.next_fragment_index
    BY <1>1, <1>3 DEF TrackerAfter, Sized, Tracker
  <2> QED
    BY <1>1, <2>1
<1> QED
  BY <1>2, <1>3

\* Ingest replaces the tracker of one stream by one with the same claim and the
\* same next fragment, or leaves the trackers alone.
ClaimsKept ==
  /\ DOMAIN message_trackers \subseteq DOMAIN message_trackers'
  /\ \A k \in DOMAIN message_trackers' :
       /\ message_trackers'[k].next_fragment_index = TrackerOf(k).next_fragment_index
       /\ Claimed(TrackerOf(k)) => message_trackers'[k].message_id = TrackerOf(k).message_id

\* One tracker replaced by one with the same claim: every claim is kept.
LEMMA ReplacementKeepsClaims ==
  ASSUME NEW k, NEW u, message_trackers' = Put(message_trackers, k, u),
         u.next_fragment_index = TrackerOf(k).next_fragment_index,
         Claimed(TrackerOf(k)) => u.message_id = TrackerOf(k).message_id
  PROVE  ClaimsKept
BY DEF ClaimsKept, Put, TrackerOf

\* No branch of m7mux_stream_ingest takes a claim away or moves it.
LEMMA IngestKeepsClaims ==
  ASSUME IInv, NEW p \in Packet, Ingest(p)
  PROVE  ClaimsKept
<1> DEFINE q == Identified(p)
<1>1. q \in Packet /\ IdsInRange /\ ClaimsHaveFragmentsLeft
  BY IdentifiedIsPacket DEF IInv, TrackersOK
<1>2. CASE UNCHANGED message_trackers
  BY <1>2 DEF ClaimsKept, TrackerOf
<1>3. CASE IngestRefused(p)
  BY <1>1, <1>3, CountedInTracker, ReplacementKeepsClaims DEF IngestRefused
<1>4. CASE Admitted(q, CountedTracker(q))
           /\ message_trackers' = Put(message_trackers, StreamKey(q), TrackerAfter(q))
  BY <1>1, <1>4, AdmissionKeepsClaim, ReplacementKeepsClaims
<1> QED
  BY <1>2, <1>3, <1>4 DEF Ingest, IngestNoSessionTracker, IngestNoStreamTracker,
     IngestDropped, IngestQueued, IngestInto, Accepts, streamVars

\* A step that keeps the claims keeps the runs.
LEMMA ClaimsKeptRunsKept ==
  ASSUME IInv, ClaimsKept
  PROVE  Runs' = Runs
<1>1. \A k \in DOMAIN message_trackers :
        /\ message_trackers[k].next_fragment_index \in Nat
        /\ FreeOrUnfinished(message_trackers[k])
        /\ TrackerOf(k) = message_trackers[k]
  BY DEF IInv, TrackersOK, IdsInRange, ClaimsHaveFragmentsLeft, Tracker, TrackerOf
<1>2. \A k \in DOMAIN message_trackers' \ DOMAIN message_trackers :
        message_trackers'[k].next_fragment_index = 0
  BY DEF ClaimsKept, TrackerOf, FreshTracker
<1>3. Started' = Started
  BY <1>1, <1>2 DEF Started, ClaimsKept
<1>4. \A k \in Started : Claimed(message_trackers[k])
  BY <1>1 DEF Started, FreeOrUnfinished
<1>5. \A k \in Started :
        /\ message_trackers'[k].message_id = message_trackers[k].message_id
        /\ message_trackers'[k].next_fragment_index = message_trackers[k].next_fragment_index
  BY <1>1, <1>4 DEF Started, ClaimsKept
<1> QED
  BY <1>3, <1>5 DEF Runs

-----------------------------------------------------------------------------
(* The steps *)

\* Distinct slots hold distinct fragments, so the slots emptied and the
\* fragments gone are the same number.
LEMMA ContentsBounded ==
  /\ IsFiniteSet(Contents)
  /\ Cardinality(Contents) \in Nat
  /\ Cardinality(Contents) <= Cardinality(Occupied)
<1> DEFINE f == [i \in Occupied |-> ready_queue[i]]
<1>1. f \in Surjection(Occupied, Contents)
  BY DEF Contents, Surjection
<1> QED
  BY <1>1, OccupiedFinite, FS_Surjection, FS_CardinalityType

\* Cardinality of the abstract module is the same operator.
LEMMA SameCardinality == \A S : Delivery!Cardinality(S) = Cardinality(S)
BY DEF Delivery!Cardinality, Cardinality

\* The packet that ingest queues is accepted.
LEMMA QueuedIsAccepted ==
  ASSUME IInv, NEW p \in Packet, NEW i \in Slots, IngestInto(p, i)
  PROVE  \E f \in Contents' : Delivery!Accept(f)
<1> DEFINE q == Identified(p)
<1>1. q \in Packet /\ q # Empty
  BY IdentifiedIsPacket, StreamAssumption DEF IInv, TrackersOK
<1>2. /\ i \notin Occupied
      /\ Occupied' = Occupied \cup {i}
      /\ ready_queue'[i] = q
      /\ \A j \in Occupied : ready_queue'[j] = ready_queue[j]
  BY <1>1 DEF IngestInto, IsFirstFree, IInv, QueueOK, Occupied
<1>3. Contents' = Contents \cup {q}
  BY <1>2 DEF Contents
<1>4. Cardinality(Contents) < QueueCapacity
  <2>1. IsFiniteSet(Slots) /\ Cardinality(Slots) = QueueCapacity
    BY FS_Interval, StreamAssumption DEF Slots
  <2>2. Occupied \cup {i} \in SUBSET Slots
    BY DEF Occupied
  <2>3. Cardinality(Occupied \cup {i}) = Cardinality(Occupied) + 1
    BY <1>2, OccupiedFinite, FS_AddElement
  <2>4. Cardinality(Occupied \cup {i}) <= QueueCapacity
    BY <2>1, <2>2, FS_Subset
  <2> QED
    BY <2>3, <2>4, ContentsBounded, OccupiedFinite, StreamAssumption
<1>5. \A g \in Contents : Delivery!FragmentKey(g) # Delivery!FragmentKey(q)
  BY DEF Contents, Delivery!FragmentKey, IngestInto, Accepts, Collides, SameFragment
<1>6. Runs' = Runs
  <2>1. Ingest(p)
    BY DEF Ingest, IngestQueued
  <2> QED
    BY <2>1, IngestKeepsClaims, ClaimsKeptRunsKept
<1> QED
  BY <1>1, <1>3, <1>4, <1>5, <1>6, SameCardinality
     DEF Delivery!Accept, Contents, Runs, Started

\* Every call of m7mux_stream_ingest accepts a fragment or changes nothing the
\* drain can tell.
LEMMA IngestRefines ==
  ASSUME IInv, NEW p \in Packet, Ingest(p)
  PROVE  [Delivery!Next]_(Delivery!vars)
<1>1. CASE UNCHANGED ready_queue
  <2>1. Contents' = Contents
    BY <1>1 DEF Contents, Occupied
  <2>2. Runs' = Runs
    BY IngestKeepsClaims, ClaimsKeptRunsKept
  <2> QED
    BY <2>1, <2>2 DEF Delivery!vars, Contents, Runs, Started
<1>2. ASSUME NEW i \in Slots, IngestInto(p, i)
      PROVE  Delivery!Next
  BY <1>2, QueuedIsAccepted DEF Delivery!Next, Contents
<1> QED
  BY <1>1, <1>2 DEF Ingest, IngestNoSessionTracker, IngestNoStreamTracker,
     IngestRefused, IngestDropped, IngestQueued, streamVars

\* What the claim of a stream becomes when m7mux_stream_drain takes its next
\* fragment.
LEMMA DrainMovesClaim ==
  ASSUME IInv, NEW i \in Slots, DrainSlot(i), Multi(ready_queue[i])
  PROVE  LET k == StreamKey(ready_queue[i])
             t == message_trackers[k]
         IN  /\ k \in DOMAIN message_trackers
             /\ t.message_id = ready_queue[i].message_id
             /\ t.next_fragment_index = ready_queue[i].fragment_index
             /\ t \in Tracker /\ Claimed(t) /\ FreeOrUnfinished(t)
             /\ DOMAIN message_trackers' = DOMAIN message_trackers
             /\ message_trackers' = [message_trackers EXCEPT ![k] = Advanced(t)]
<1>1. Deliverable(ready_queue[i])
  BY DEF DrainSlot, IsNextReady, Ready
<1> QED
  BY <1>1 DEF Deliverable, DrainSlot, IInv, TrackersOK, IdsInRange, ClaimsHaveFragmentsLeft

\* The two outcomes of the end of m7mux_stream_drain: the claim waits for the
\* next fragment, or the last one left and the stream is free.
LEMMA AdvancedCases ==
  ASSUME NEW t \in Tracker, Claimed(t), FreeOrUnfinished(t)
  PROVE  \/ /\ Advanced(t).message_id = t.message_id
            /\ Advanced(t).next_fragment_index = t.next_fragment_index + 1
         \/ /\ t.next_fragment_index > 0
            /\ t.next_fragment_index + 1 = t.fragment_count
            /\ Advanced(t).next_fragment_index = 0
<1>1. /\ t.fragment_count > 1
      /\ t.next_fragment_index < t.fragment_count
      /\ t.next_fragment_index \in Nat /\ t.fragment_count \in Nat
  BY DEF FreeOrUnfinished, Tracker
<1>2. CASE t.next_fragment_index + 1 >= t.fragment_count
  <2>1. Advanced(t) = [t EXCEPT !.message_id = 0, !.next_fragment_index = 0,
                                !.fragment_count = 0]
    BY <1>2 DEF Advanced
  <2>2. Advanced(t).next_fragment_index = 0
    BY <2>1 DEF Tracker
  <2> QED
    BY <1>1, <1>2, <2>2
<1>3. CASE t.next_fragment_index + 1 < t.fragment_count
  <2>1. Advanced(t) = [t EXCEPT !.next_fragment_index = @ + 1]
    BY <1>1, <1>3 DEF Advanced
  <2> QED
    BY <2>1 DEF Tracker
<1> QED
  BY <1>1, <1>2, <1>3

\* drain takes one fragment out of the slots.
LEMMA DrainTakesOne ==
  ASSUME IInv, NEW i \in Slots, DrainSlot(i)
  PROVE  /\ ready_queue[i] \in Contents
         /\ ready_queue[i] \in Packet
         /\ Contents' = Contents \ {ready_queue[i]}
<1>1. i \in Occupied /\ ready_queue' = [ready_queue EXCEPT ![i] = Empty]
  BY DEF DrainSlot, IsNextReady, Ready
<1>2. Occupied' = Occupied \ {i} /\ \A j \in Occupied' : ready_queue'[j] = ready_queue[j]
  BY <1>1 DEF IInv, QueueOK, Occupied
<1>3. \A j \in Occupied : ready_queue[j] = ready_queue[i] => j = i
  BY <1>1 DEF IInv, QueueOK, QueueKeysUnique, SameFragment
<1>4. ready_queue[i] \in Packet
  BY <1>1 DEF IInv, QueueOK, Occupied
<1> QED
  BY <1>1, <1>2, <1>3, <1>4 DEF Contents

\* A singular packet leaves as one; the trackers do not change.
LEMMA SingularLeaves ==
  ASSUME IInv, NEW i \in Slots, DrainSlot(i), ~ Multi(ready_queue[i])
  PROVE  Delivery!Next
<1> DEFINE p == ready_queue[i]
<1>1. p \in Contents /\ p \in Packet /\ Contents' = Contents \ {p}
  BY DrainTakesOne
<1>2. p.fragment_index = 0 /\ p.fragment_count <= 1
  BY <1>1 DEF DrainSlot, IsNextReady, Ready, Deliverable, Multi, Packet
<1>3. Runs' = Runs
  BY DEF DrainSlot, Runs, Started
<1>4. \E f \in Contents : Delivery!DeliverSingular(f)
  BY <1>1, <1>2, <1>3 DEF Delivery!DeliverSingular, Delivery!Singular, Contents, Runs, Started
<1> QED
  BY <1>4 DEF Delivery!Next, Contents

\* The first fragment of a message opens a run: its claim is moved to fragment 1
\* because a message of several fragments does not end with its first.
LEMMA FirstLeaves ==
  ASSUME IInv, NEW i \in Slots, DrainSlot(i), Multi(ready_queue[i]),
         ready_queue[i].fragment_index = 0
  PROVE  Delivery!Next
<1> DEFINE p == ready_queue[i]
<1> DEFINE k == StreamKey(p)
<1> DEFINE t == message_trackers[k]
<1>1. p \in Contents /\ p \in Packet /\ Contents' = Contents \ {p}
  BY DrainTakesOne
<1>2. /\ k \in DOMAIN message_trackers
      /\ t.message_id = p.message_id
      /\ t.next_fragment_index = 0
      /\ t \in Tracker /\ Claimed(t) /\ FreeOrUnfinished(t)
      /\ DOMAIN message_trackers' = DOMAIN message_trackers
      /\ message_trackers' = [message_trackers EXCEPT ![k] = Advanced(t)]
  BY DrainMovesClaim
<1>3. Advanced(t).message_id = p.message_id /\ Advanced(t).next_fragment_index = 1
  BY <1>2, AdvancedCases
<1>4. k \notin Started /\ Started' = Started \cup {k}
  BY <1>2, <1>3 DEF Started
<1>5. Runs' = [x \in Started \cup {k} |->
                 IF x = k THEN [message_id |-> p.message_id, next |-> 1] ELSE Runs[x]]
  BY <1>2, <1>3, <1>4 DEF Runs, Started
<1>6. \E f \in Contents : Delivery!DeliverFirst(f)
  <2>1. ~ Delivery!Singular(p)
    BY <1>1 DEF Multi, Delivery!Singular, Packet
  <2>2. Delivery!StreamKey(p) = k
    BY DEF Delivery!StreamKey, StreamKey
  <2>3. DOMAIN Runs = Started
    BY DEF Runs
  <2>4. Runs' = Delivery!Extend(Runs, k, Delivery!RunAfter(p))
    BY <1>1, <1>5, <2>3 DEF Delivery!Extend, Delivery!RunAfter
  <2> QED
    BY <1>1, <1>4, <2>1, <2>2, <2>3, <2>4 DEF Delivery!DeliverFirst, Contents, Runs, Started
<1> QED
  BY <1>6 DEF Delivery!Next, Contents

\* A later fragment continues its run, or ends it with the claim.
LEMMA LaterLeaves ==
  ASSUME IInv, NEW i \in Slots, DrainSlot(i), Multi(ready_queue[i]),
         ready_queue[i].fragment_index # 0
  PROVE  Delivery!Next
<1> DEFINE p == ready_queue[i]
<1> DEFINE k == StreamKey(p)
<1> DEFINE t == message_trackers[k]
<1>1. p \in Contents /\ p \in Packet /\ Contents' = Contents \ {p}
  BY DrainTakesOne
<1>2. /\ k \in DOMAIN message_trackers
      /\ t.message_id = p.message_id
      /\ t.next_fragment_index = p.fragment_index
      /\ t \in Tracker /\ Claimed(t) /\ FreeOrUnfinished(t)
      /\ DOMAIN message_trackers' = DOMAIN message_trackers
      /\ message_trackers' = [message_trackers EXCEPT ![k] = Advanced(t)]
  BY DrainMovesClaim
<1>3. k \in Started /\ Runs[k] = [message_id |-> p.message_id, next |-> p.fragment_index]
  BY <1>1, <1>2 DEF Started, Runs, Packet
<1>4. \/ Runs' = [x \in Started \cup {k} |->
                   IF x = k THEN [message_id |-> p.message_id, next |-> p.fragment_index + 1]
                            ELSE Runs[x]]
      \/ Runs' = [x \in Started \ {k} |-> Runs[x]]
  <2>1. CASE /\ Advanced(t).message_id = t.message_id
             /\ Advanced(t).next_fragment_index = t.next_fragment_index + 1
    <3>1. Started' = Started \cup {k}
      BY <1>1, <1>2, <1>3, <2>1 DEF Started, Packet
    <3> QED
      BY <1>2, <1>3, <2>1, <3>1 DEF Runs, Started
  <2>2. CASE Advanced(t).next_fragment_index = 0
    <3>1. Started' = Started \ {k}
      BY <1>2, <2>2 DEF Started
    <3> QED
      BY <1>2, <3>1 DEF Runs, Started
  <2> QED
    BY <1>2, <2>1, <2>2, AdvancedCases
<1>5. \E f \in Contents : Delivery!DeliverNext(f)
  <2>1. ~ Delivery!Singular(p)
    BY <1>1 DEF Multi, Delivery!Singular, Packet
  <2>2. Delivery!StreamKey(p) = k
    BY DEF Delivery!StreamKey, StreamKey
  <2>3. DOMAIN Runs = Started
    BY DEF Runs
  <2>4. \/ Runs' = Delivery!Extend(Runs, k, Delivery!RunAfter(p))
        \/ Runs' = Delivery!Without(Runs, k)
    BY <1>4, <2>3 DEF Delivery!Extend, Delivery!Without, Delivery!RunAfter
  <2> QED
    BY <1>1, <1>3, <2>1, <2>2, <2>3, <2>4 DEF Delivery!DeliverNext, Contents, Runs, Started
<1> QED
  BY <1>5 DEF Delivery!Next, Contents

\* m7mux_stream_expire forgets fragments and leaves the runs where they are.
LEMMA ExpireRefines ==
  ASSUME IInv, NEW t, Expire(t)
  PROVE  Delivery!Next
<1>1. Contents' \in SUBSET Contents
  <2>1. Occupied' \subseteq Occupied /\ \A j \in Occupied' : ready_queue'[j] = ready_queue[j]
    BY DEF Expire, IInv, QueueOK, Occupied
  <2> QED
    BY <2>1 DEF Contents
<1>2. Runs' = Runs
  BY DEF Expire, Runs, Started
<1> QED
  BY <1>1, <1>2 DEF Delivery!Next, Delivery!Discard, Contents, Runs, Started

\* m7mux_stream_state_reset forgets everything.
LEMMA ResetRefines ==
  ASSUME Reset
  PROVE  Delivery!Next
<1>1. Contents' = {}
  BY DEF Reset, Contents, Occupied
<1>2. Runs' = [k \in {} |-> {}]
  BY DEF Reset, Runs, Started
<1> QED
  BY <1>1, <1>2 DEF Delivery!Next, Delivery!Restart, Contents, Runs, Started

-----------------------------------------------------------------------------

\* A new mux has nothing pending and no run.
LEMMA InitRefines == Init => Delivery!Init
<1> SUFFICES ASSUME Init PROVE Delivery!Init
  OBVIOUS
<1>1. Contents = {} /\ Runs = [k \in {} |-> {}]
  BY DEF Init, StreamInit, Contents, Occupied, Runs, Started
<1> QED
  BY <1>1 DEF Delivery!Init, Contents, Runs, Started

\* Every call of the daemon's loop is a step of ordered delivery, or changes
\* nothing of it.
LEMMA NextRefines == IInv /\ [Next]_vars => [Delivery!Next]_(Delivery!vars)
<1> SUFFICES ASSUME IInv, [Next]_vars PROVE [Delivery!Next]_(Delivery!vars)
  OBVIOUS
<1>1. ASSUME NEW a \in Arrivals, Arrive(a)
      PROVE  [Delivery!Next]_(Delivery!vars)
  BY <1>1, ReceivedIsPacket, IngestRefines DEF Arrive, IInv
<1>2. ASSUME NEW i \in Slots, DrainSlot(i)
      PROVE  Delivery!Next
  BY <1>2, SingularLeaves, FirstLeaves, LaterLeaves
<1>3. CASE Next /\ UNCHANGED streamVars
  BY <1>3 DEF streamVars, Delivery!vars, Occupied
<1>4. CASE UNCHANGED vars
  BY <1>4 DEF vars, Delivery!vars, Occupied
<1> QED
  BY <1>1, <1>2, <1>3, <1>4, ExpireRefines, ResetRefines
     DEF Next, Deliver, Drain, ExpireAt, Replace, Tick

\* m7mux_stream_ingest, drain, expire and reset implement ordered delivery with
\* any number of slots, trackers, sessions and ids.
THEOREM DeliveryRefined == Spec => DeliversInOrder
BY InitRefines, NextRefines, Invariance, PTL DEF Spec, DeliversInOrder, Delivery!Spec

-----------------------------------------------------------------------------
(* A claim ends with its last fragment *)

\* What ClaimHeldToTheEnd says of one step.
ClaimsEndProperly ==
  \A k \in DOMAIN message_trackers :
    /\ Claimed(message_trackers[k])
    /\ k \notin DOMAIN message_trackers'
       \/ message_trackers'[k].message_id # message_trackers[k].message_id
    => ClaimEnds(k)

\* drain gives up a claim only when the fragment it hands out is the last.
LEMMA DrainEndsClaim ==
  ASSUME IInv, NEW i \in Slots, DrainSlot(i)
  PROVE  ClaimsEndProperly
<1>1. CASE ~ Multi(ready_queue[i])
  BY <1>1 DEF DrainSlot, ClaimsEndProperly
<1>2. CASE Multi(ready_queue[i])
  <2> DEFINE k == StreamKey(ready_queue[i])
  <2> DEFINE t == message_trackers[k]
  <2>1. /\ k \in DOMAIN message_trackers
        /\ t.message_id = ready_queue[i].message_id
        /\ t.next_fragment_index = ready_queue[i].fragment_index
        /\ t \in Tracker /\ Claimed(t) /\ FreeOrUnfinished(t)
        /\ message_trackers' = [message_trackers EXCEPT ![k] = Advanced(t)]
    BY <1>2, DrainMovesClaim
  <2>2. i \in Occupied /\ ready_queue'[i] = Empty
    BY DEF DrainSlot, IsNextReady, Ready, IInv, QueueOK
  <2>3. ASSUME Advanced(t).message_id # t.message_id
        PROVE  ClaimEnds(k)
    BY <2>1, <2>2, <2>3, AdvancedCases DEF ClaimEnds
  <2> QED
    BY <2>1, <2>3 DEF ClaimsEndProperly
<1> QED
  BY <1>1, <1>2

\* Neither ingest nor expire nor the passing of time ends a claim.
LEMMA StepEndsClaims == IInv /\ [Next]_vars => [ClaimsEndProperly]_vars
<1> SUFFICES ASSUME IInv, [Next]_vars PROVE [ClaimsEndProperly]_vars
  OBVIOUS
<1>1. ASSUME NEW a \in Arrivals, Arrive(a)
      PROVE  ClaimsEndProperly
  <2>1. ClaimsKept
    BY <1>1, ReceivedIsPacket, IngestKeepsClaims DEF Arrive, IInv
  <2> QED
    BY <2>1 DEF ClaimsKept, ClaimsEndProperly, TrackerOf
<1>2. CASE Deliver
  BY <1>2, DrainEndsClaim DEF Deliver, Drain
<1>3. CASE UNCHANGED message_trackers
  BY <1>3 DEF ClaimsEndProperly
<1>4. CASE Replace
  BY <1>4 DEF Replace, Reset, ClaimsEndProperly, ClaimEnds
<1> QED
  BY <1>1, <1>2, <1>3, <1>4 DEF Next, ExpireAt, Expire, Tick, streamVars, vars

\* A stream stays with its message until the last fragment was drained or the
\* mux was replaced, for every length of a message and every order of arrival.
THEOREM ClaimHeld == Spec => ClaimHeldToTheEnd
BY StepEndsClaims, Invariance, PTL
   DEF Spec, ClaimHeldToTheEnd, ClaimsEndProperly
=============================================================================
