------------------------------ MODULE InboxProofs ------------------------------
(***************************************************************************)
(* Proofs, for every value of the constants, of what the inbox's run       *)
(* checks: sessions stay apart, queued packets keep the session their      *)
(* sender opened, user data is freed with its packet, and packets of one   *)
(* part are handed over in the order of their arrival.                     *)
(***************************************************************************)
EXTENDS MuxInbox, MuxStreamProofs, SequenceTheorems

-----------------------------------------------------------------------------
(* The inductive invariant *)

\* Ids are handed out in order, and only v4 has ids of the client's own.
SessionsOK ==
  /\ SessionTypeOK
  /\ SessionsDistinct
  /\ \A j \in Active :
       /\ sessions[j].session_id < next_session_id
       /\ sessions[j].wire # "tuple" =>
            sessions[j].client_session_id \in {0, sessions[j].session_id}

\* What is under way is traffic, received by now.
Waits == {d \in Traffic : d.kind = "tuple" => d.session_id # 0}

TrafficOK ==
  /\ socket \in Seq(Waits)
  /\ ring \in Seq(Waits)
  /\ Len(socket) <= SocketCapacity
  /\ Len(ring) <= RingCapacity
  /\ \A k \in DOMAIN ring : ring[k].received_ms <= now
  /\ arrived \in 0 .. MaxArrivals
  /\ now \in Nat
  /\ session_by_client \in BOOLEAN
  /\ phase \in {"pump", "read", "ingest", "drain"}

\* Datagrams wait in the order of their arrival: first in the ring, then in the
\* socket.
WaitInOrder ==
  /\ \A k, l \in DOMAIN socket : k < l => socket[k].serial < socket[l].serial
  /\ \A k, l \in DOMAIN ring : k < l => ring[k].serial < ring[l].serial
  /\ \A k \in DOMAIN ring, l \in DOMAIN socket : ring[k].serial < socket[l].serial
  /\ \A k \in DOMAIN socket : socket[k].serial < arrived
  /\ \A k \in DOMAIN ring : ring[k].serial < arrived

\* The session of a packet outlives it.
Belongs(p) ==
  \E j \in Active :
    /\ sessions[j].session_id = p.session_id
    /\ LookedUpBy(sessions[j], p.body)
    /\ sessions[j].expires_at_ms >= p.received_ms + SessionTimeoutMs

QueuedOK ==
  \A i \in Occupied :
    /\ ready_queue[i].stream_id # 0
    /\ ready_queue[i].received_ms <= now
    /\ Belongs(ready_queue[i])

\* Queued packets are of different datagrams, all older than those that wait.
QueuedBeforeWaiting ==
  /\ \A i \in Occupied : ready_queue[i].body.serial \in 0 .. arrived - 1
  /\ \A i, j \in Occupied :
       ready_queue[i].body.serial = ready_queue[j].body.serial => i = j
  /\ \A i \in Occupied, k \in DOMAIN ring :
       ready_queue[i].body.serial < ring[k].serial
  /\ \A i \in Occupied, k \in DOMAIN socket :
       ready_queue[i].body.serial < socket[k].serial

\* The packets of one part, which drain never waits with.
WholeSlots ==
  {i \in Occupied : ~ Multi(ready_queue[i]) /\ ready_queue[i].fragment_index = 0}

\* Slots are in the order of arrival because a pump starts with no packet of
\* one part in the queue, and only fills free slots from the lowest.
WholeInOrder ==
  /\ \A i, j \in WholeSlots : i < j => ready_queue[i].body.serial < ready_queue[j].body.serial
  /\ phase \in {"pump", "read"} => WholeSlots = {}
  /\ phase = "ingest" => \A i \in WholeSlots, j \in Slots : j < i => j \in Occupied

InboxInv ==
  /\ QueueOK
  /\ TrackersOK
  /\ SessionsOK
  /\ NewSessionsUntracked
  /\ TrafficOK
  /\ WaitInOrder
  /\ QueuedOK
  /\ QueuedBeforeWaiting
  /\ UsersAreQueued
  /\ WholeInOrder

-----------------------------------------------------------------------------
(* Sessions *)

\* What normalize says of a sender: only v4 names a session, and marks it as the
\* client's.
SenderOK(u, byClient) ==
  /\ u.wire \in Wires
  /\ u.ip \in Ips
  /\ u.session_id \in Nat
  /\ u.wire = "tuple" => byClient /\ u.session_id # 0
  /\ u.wire # "tuple" => u.session_id = 0

\* Sessions that are there stay what they were, and live as long or longer.
SessionsStay(t) ==
  \A j \in Active :
    /\ sessions'[j] # NoSession
    /\ sessions'[j].session_id = sessions[j].session_id
    /\ sessions'[j].wire = sessions[j].wire
    /\ sessions'[j].client_session_id = sessions[j].client_session_id
    /\ sessions[j].wire # "tuple" => sessions'[j].ip = sessions[j].ip
    /\ \/ sessions'[j].expires_at_ms = sessions[j].expires_at_ms
       \/ sessions'[j].expires_at_ms = t + SessionTimeoutMs

\* The session of the datagram that was just admitted.
SessionOf(u, t, id) ==
  \E j \in SessionSlots :
    /\ sessions'[j] # NoSession
    /\ sessions'[j].session_id = id
    /\ sessions'[j].wire = u.wire
    /\ u.wire # "tuple" => sessions'[j].ip = u.ip
    /\ u.wire = "tuple" => sessions'[j].client_session_id = u.session_id
    /\ sessions'[j].expires_at_ms = t + SessionTimeoutMs

\* A datagram is only matched with a session of its own codec and, but for v4, of its
\* own address: codecs v1 to v3 name no session to be found by.
LEMMA KnownIsOwn ==
  ASSUME SessionsOK, NEW u, NEW byClient, SenderOK(u, byClient),
         NEW j \in Known(u, byClient)
  PROVE  /\ j \in Active
         /\ sessions[j].wire = u.wire
         /\ u.wire # "single"
         /\ u.wire # "tuple" => sessions[j].ip = u.ip
         /\ u.wire = "tuple" => sessions[j].client_session_id = u.session_id
<1>1. CASE u.wire = "tuple"
  BY <1>1, TrafficAssumption DEF SenderOK, Known, ById, ByClientSession
<1>2. CASE u.wire # "tuple"
  <2>1. ById(u, byClient) = {}
    BY <1>2 DEF SenderOK, ById, ByClientSession, BySession
  <2>2. u.wire = RawWire /\ j \in RawByIp(u.ip)
    BY <2>1 DEF Known
  <2> QED
    BY <1>2, <2>2, TrafficAssumption DEF RawByIp
<1> QED
  BY <1>1, <1>2

\* What a datagram changes of its session.
LEMMA RefreshedRecord ==
  ASSUME NEW s \in Session, NEW w \in Wires, NEW a \in Ips, NEW e \in Nat
  PROVE  [s EXCEPT !.wire = w, !.ip = a, !.expires_at_ms = e]
           = [session_id |-> s.session_id, client_session_id |-> s.client_session_id,
              wire |-> w, ip |-> a, expires_at_ms |-> e]
<1>1. PICK x \in Session : x = [s EXCEPT !.wire = w]
  BY DEF Session
<1>2. PICK y \in Session : y = [x EXCEPT !.ip = a]
  BY DEF Session
<1>3. PICK z \in Session : z = [y EXCEPT !.expires_at_ms = e]
  BY DEF Session
<1>4. z = [session_id |-> s.session_id, client_session_id |-> s.client_session_id,
           wire |-> w, ip |-> a, expires_at_ms |-> e]
  BY <1>1, <1>2, <1>3 DEF Session
<1>5. z = [s EXCEPT !.wire = w, !.ip = a, !.expires_at_ms = e]
  BY <1>1, <1>2, <1>3
<1> QED
  BY <1>4, <1>5

\* m7mux_session_ingest with a session that is there.
LEMMA RefreshedSessions ==
  ASSUME SessionsOK, NEW u, NEW byClient, SenderOK(u, byClient),
         NEW t \in Nat, NEW id, RefreshSession(u, byClient, t, id)
  PROVE  /\ SessionsOK'
         /\ SessionsStay(t)
         /\ SessionOf(u, t, id)
         /\ id \in Nat \ {0}
         /\ id < next_session_id
<1>1. PICK j \in SessionSlots :
        /\ FirstOf(j, Known(u, byClient))
        /\ id = sessions[j].session_id
        /\ sessions' = [sessions EXCEPT ![j].wire = u.wire,
                                        ![j].ip = u.ip,
                                        ![j].expires_at_ms = t + SessionTimeoutMs]
        /\ UNCHANGED next_session_id
  BY DEF RefreshSession
<1>2. /\ j \in Active
      /\ sessions[j].wire = u.wire
      /\ u.wire # "tuple" => sessions[j].ip = u.ip
      /\ u.wire = "tuple" => sessions[j].client_session_id = u.session_id
  BY <1>1, KnownIsOwn DEF FirstOf
<1>3. sessions[j] \in Session
  BY <1>2 DEF SessionsOK, SessionTypeOK, Active
<1> DEFINE r == [session_id        |-> id,
                 client_session_id |-> sessions[j].client_session_id,
                 wire              |-> u.wire,
                 ip                |-> u.ip,
                 expires_at_ms     |-> t + SessionTimeoutMs]
<1>4. /\ r \in Session
      /\ r.session_id = id
      /\ r.wire = u.wire
      /\ r.client_session_id = sessions[j].client_session_id
      /\ r.ip = u.ip
      /\ r.expires_at_ms = t + SessionTimeoutMs
  <2>1. id \in Nat \ {0} /\ sessions[j].client_session_id \in Nat
    BY <1>1, <1>3 DEF Session
  <2>2. t + SessionTimeoutMs \in Nat
    BY SessionAssumption
  <2> QED
    BY <2>1, <2>2 DEF Session, SenderOK
<1>5. sessions' = [sessions EXCEPT ![j] = r]
  <2>1. sessions' = [sessions EXCEPT ![j] = [sessions[j] EXCEPT
                      !.wire = u.wire, !.ip = u.ip, !.expires_at_ms = t + SessionTimeoutMs]]
    BY <1>1 DEF SessionsOK, SessionTypeOK
  <2>2. [sessions[j] EXCEPT
           !.wire = u.wire, !.ip = u.ip, !.expires_at_ms = t + SessionTimeoutMs] = r
    <3>1. u.wire \in Wires /\ u.ip \in Ips /\ t + SessionTimeoutMs \in Nat
      BY SessionAssumption DEF SenderOK
    <3> HIDE DEF r
    <3>2. r = [session_id |-> sessions[j].session_id,
               client_session_id |-> sessions[j].client_session_id,
               wire |-> u.wire, ip |-> u.ip, expires_at_ms |-> t + SessionTimeoutMs]
      BY <1>1 DEF r
    <3> QED
      BY <1>3, <3>1, <3>2, RefreshedRecord, Zenon
  <2> QED
    BY <2>1, <2>2
<1>6. /\ sessions' \in [SessionSlots -> Session \cup {NoSession}]
      /\ Active' = Active
      /\ sessions'[j] = r
      /\ \A k \in SessionSlots \ {j} : sessions'[k] = sessions[k]
  BY <1>2, <1>4, <1>5, SessionAssumption DEF SessionsOK, SessionTypeOK, Active
<1>7. SessionsStay(t)
  BY <1>1, <1>2, <1>4, <1>6 DEF SessionsStay, Active
<1>8. SessionOf(u, t, id)
  BY <1>2, <1>4, <1>6 DEF SessionOf, Active
<1>9. SessionsOK'
  <2>1. SessionTypeOK'
    BY <1>1, <1>6 DEF SessionsOK, SessionTypeOK
  <2>2. \A k \in Active :
          /\ sessions'[k].session_id = sessions[k].session_id
          /\ sessions'[k].wire = sessions[k].wire
          /\ sessions'[k].client_session_id = sessions[k].client_session_id
          /\ sessions[k].wire # "tuple" => sessions'[k].ip = sessions[k].ip
    BY <1>7 DEF SessionsStay
  <2>3. SessionsDistinct'
    BY <1>6, <2>2, TrafficAssumption DEF SessionsOK, SessionsDistinct
  <2>4. \A k \in Active' :
          /\ sessions'[k].session_id < next_session_id'
          /\ sessions'[k].wire # "tuple" =>
               sessions'[k].client_session_id \in {0, sessions'[k].session_id}
    <3> SUFFICES ASSUME NEW k \in Active
                 PROVE  /\ sessions'[k].session_id < next_session_id'
                        /\ sessions'[k].wire # "tuple" =>
                             sessions'[k].client_session_id \in {0, sessions'[k].session_id}
      BY <1>6
    <3>1. /\ sessions[k].session_id < next_session_id
          /\ sessions[k].wire # "tuple" =>
               sessions[k].client_session_id \in {0, sessions[k].session_id}
      BY DEF SessionsOK
    <3> QED
      BY <1>1, <2>2, <3>1
  <2> QED
    BY <2>1, <2>3, <2>4 DEF SessionsOK
<1> QED
  BY <1>1, <1>2, <1>3, <1>7, <1>8, <1>9 DEF SessionsOK, Session

\* m7mux_session_ingest with a new session: its id is above every one in use.
LEMMA CreatedSession ==
  ASSUME SessionsOK, NEW u, NEW byClient, SenderOK(u, byClient),
         NEW t \in Nat, NEW id, CreateSession(u, byClient, t, id)
  PROVE  /\ SessionsOK'
         /\ SessionsStay(t)
         /\ SessionOf(u, t, id)
         /\ id = next_session_id
         /\ next_session_id' = id + 1
<1>1. /\ Known(u, byClient) = {}
      /\ id = next_session_id
      /\ id \in Nat \ {0}
      /\ next_session_id' = id + 1
  BY DEF CreateSession, SenderOK, SessionsOK, SessionTypeOK
<1> DEFINE n == NewSession(u, byClient, t, id)
<1>2. PICK j \in SessionSlots : j \notin Active /\ sessions' = [sessions EXCEPT ![j] = n]
  BY DEF CreateSession, FirstOf
<1>3. /\ n \in Session
      /\ n.session_id = id
      /\ n.wire = u.wire
      /\ n.ip = u.ip
      /\ n.expires_at_ms = t + SessionTimeoutMs
      /\ n.client_session_id = IF ~ byClient THEN 0
                               ELSE IF u.session_id # 0 THEN u.session_id ELSE id
  BY <1>1, SessionAssumption DEF NewSession, Session, SenderOK
<1>4. /\ sessions' \in [SessionSlots -> Session \cup {NoSession}]
      /\ Active' = Active \cup {j}
      /\ sessions'[j] = n
      /\ \A k \in Active : sessions'[k] = sessions[k]
  BY <1>2, <1>3, SessionAssumption DEF SessionsOK, SessionTypeOK, Active
<1>5. SessionsStay(t)
  BY <1>4 DEF SessionsStay, Active
<1>6. SessionOf(u, t, id)
  BY <1>3, <1>4, SessionAssumption DEF SessionOf, SenderOK
<1>7. \A k \in Active :
        /\ sessions[k] \in Session
        /\ sessions[k].session_id # id
        /\ ~ (/\ sessions[k].wire = n.wire
              /\ sessions[k].client_session_id = n.client_session_id
              /\ n.client_session_id # 0)
        /\ ~ (sessions[k].wire = RawWire /\ n.wire = RawWire /\ sessions[k].ip = n.ip)
  <2> SUFFICES ASSUME NEW k \in Active
               PROVE  /\ sessions[k] \in Session
                      /\ sessions[k].session_id # id
                      /\ ~ (/\ sessions[k].wire = n.wire
                            /\ sessions[k].client_session_id = n.client_session_id
                            /\ n.client_session_id # 0)
                      /\ ~ (/\ sessions[k].wire = RawWire
                            /\ n.wire = RawWire
                            /\ sessions[k].ip = n.ip)
    OBVIOUS
  <2>1. sessions[k] \in Session
    BY DEF SessionsOK, SessionTypeOK, Active
  <2>2. sessions[k].session_id \in Nat /\ sessions[k].session_id < id
    BY <1>1, <2>1 DEF SessionsOK, Session
  <2>3. sessions[k].session_id # id
    BY <1>1, <2>2
  <2>4. CASE u.wire = "tuple"
    <3>1. k \notin ByClientSession(u.session_id, u.wire)
      BY <1>1, <2>4, TrafficAssumption DEF SenderOK, Known, ById
    <3>2. n.client_session_id = u.session_id /\ u.session_id # 0
      BY <1>3, <2>4 DEF SenderOK
    <3> QED
      BY <1>3, <2>1, <2>3, <2>4, <3>1, <3>2, TrafficAssumption DEF ByClientSession
  <2>5. CASE u.wire # "tuple"
    <3>1. n.client_session_id \in {0, id}
      BY <1>3, <2>5 DEF SenderOK
    <3>2. sessions[k].wire = n.wire => sessions[k].client_session_id \in {0, sessions[k].session_id}
      BY <1>3, <2>5 DEF SessionsOK
    <3>3. u.wire = RawWire => k \notin RawByIp(u.ip)
      BY <1>1, <2>5 DEF SenderOK, Known, ById, ByClientSession, BySession
    <3> QED
      BY <1>3, <2>1, <2>3, <3>1, <3>2, <3>3 DEF RawByIp
  <2> QED
    BY <2>4, <2>5
<1>8. SessionsOK'
  <2>1. SessionTypeOK'
    BY <1>1, <1>4 DEF SessionTypeOK
  <2>2. SessionsDistinct'
    BY <1>3, <1>4, <1>7 DEF SessionsOK, SessionsDistinct
  <2>3. \A k \in Active' :
          /\ sessions'[k].session_id < next_session_id'
          /\ sessions'[k].wire # "tuple" =>
               sessions'[k].client_session_id \in {0, sessions'[k].session_id}
    <3>1. ASSUME NEW k \in Active
          PROVE  sessions[k].session_id < id + 1
      BY <1>1, <1>7, <3>1 DEF SessionsOK, Session
    <3>2. id < id + 1
      BY <1>1
    <3>3. n.wire # "tuple" => n.client_session_id \in {0, id}
      BY <1>3 DEF SenderOK
    <3> QED
      BY <1>1, <1>3, <1>4, <3>1, <3>2, <3>3 DEF SessionsOK
  <2> QED
    BY <2>1, <2>2, <2>3 DEF SessionsOK
<1> QED
  BY <1>1, <1>5, <1>6, <1>8

-----------------------------------------------------------------------------
(* What ingest does to slots and trackers *)

\* Numbering changes nothing else, and no packet without a stream is queued.
LEMMA IdentifiedKeeps ==
  ASSUME IdsInRange, NEW p \in Packet
  PROVE  /\ Identified(p).session_id = p.session_id
         /\ Identified(p).fragment_index = p.fragment_index
         /\ Identified(p).fragment_count = p.fragment_count
         /\ Identified(p).received_ms = p.received_ms
         /\ Identified(p).body = p.body
         /\ Accepts(p) => Identified(p).stream_id # 0
<1> DEFINE w == WithStream(p)
<1>1. /\ w \in Packet
      /\ w.session_id = p.session_id
      /\ w.fragment_index = p.fragment_index
      /\ w.fragment_count = p.fragment_count
      /\ w.received_ms = p.received_ms
      /\ w.body = p.body
  BY WithStreamIsPacket DEF WithStream, Packet
<1>2. /\ Identified(p).session_id = w.session_id
      /\ Identified(p).stream_id = w.stream_id
      /\ Identified(p).fragment_index = w.fragment_index
      /\ Identified(p).fragment_count = w.fragment_count
      /\ Identified(p).received_ms = w.received_ms
      /\ Identified(p).body = w.body
  BY <1>1 DEF Identified, Packet
<1>3. Accepts(p) => w.stream_id # 0
  BY DEF Accepts, Identifiable, StreamRoom, StreamKey
<1> QED
  BY <1>1, <1>2, <1>3

\* m7mux_stream_ingest tracks no other session than the packet's; it fills the
\* first free slot with the numbered packet, or no slot.
LEMMA IngestShape ==
  ASSUME IdsInRange, NEW p \in Packet, Ingest(p)
  PROVE  /\ DOMAIN session_trackers' \subseteq DOMAIN session_trackers \cup {p.session_id}
         /\ ~ Accepts(p) => UNCHANGED <<ready_queue, ready_count>>
         /\ Accepts(p) =>
              \E i \in Slots :
                IsFirstFree(i) /\ ready_queue' = [ready_queue EXCEPT ![i] = Identified(p)]
<1> DEFINE q == Identified(p)
<1>1. q.session_id = p.session_id /\ WithStream(p).session_id = p.session_id
  BY IdentifiedIsPacket, WithStreamIsPacket
<1>2. \A r : CountStream(r) =>
        DOMAIN session_trackers' = DOMAIN session_trackers \cup {r.session_id}
  BY DEF CountStream, Put
<1>3. CASE IngestNoSessionTracker(p)
  BY <1>3 DEF IngestNoSessionTracker, streamVars, Accepts, Identifiable
<1>4. CASE IngestNoStreamTracker(p)
  BY <1>1, <1>2, <1>4 DEF IngestNoStreamTracker, Accepts, Identifiable
<1>5. CASE IngestRefused(p)
  BY <1>1, <1>2, <1>5 DEF IngestRefused, Accepts
<1>6. CASE IngestDropped(p)
  BY <1>1, <1>2, <1>6 DEF IngestDropped, Accepts
<1>7. ASSUME NEW i \in Slots, IngestInto(p, i)
      PROVE  /\ Accepts(p)
             /\ IsFirstFree(i)
             /\ CountStream(q)
             /\ ready_queue' = [ready_queue EXCEPT ![i] = q]
  BY <1>7 DEF IngestInto
<1> QED
  BY <1>1, <1>2, <1>3, <1>4, <1>5, <1>6, <1>7 DEF Ingest, IngestQueued

\* drain and expire leave the other slots as they are.
LEMMA DrainShape ==
  ASSUME QueueOK, NEW i \in Slots, DrainSlot(i)
  PROVE  /\ i \in Ready /\ \A j \in Ready : i <= j
         /\ Occupied' = Occupied \ {i}
         /\ \A j \in Occupied' : ready_queue'[j] = ready_queue[j]
         /\ UNCHANGED session_trackers
BY DEF DrainSlot, IsNextReady, QueueOK, Occupied

LEMMA ExpireShape ==
  ASSUME QueueOK, NEW t, Expire(t)
  PROVE  /\ Occupied' = Occupied \ Stale(t)
         /\ \A j \in Occupied' : ready_queue'[j] = ready_queue[j]
         /\ UNCHANGED session_trackers
BY DEF Expire, QueueOK, Occupied, Stale

-----------------------------------------------------------------------------
(* Datagrams *)

\* normalize makes a packet of every datagram and tells its sender's codec.
LEMMA TrafficIsPacket ==
  ASSUME NEW d \in Traffic, d.serial \in 0 .. MaxArrivals - 1, NEW id \in SessionIds
  PROVE  /\ PacketOf(d, id) \in Packet
         /\ PacketOf(d, id).session_id = id
         /\ PacketOf(d, id).received_ms = d.received_ms
         /\ PacketOf(d, id).body = Body(d)
<1>1. WireOf(d) \in Wires /\ d.ip \in Ips /\ UnitOf(d).session_id \in ClientIds \cup {0}
  BY TrafficAssumption DEF WireOf, Decoded, UnitOf, Traffic
<1>2. Body(d) \in [serial : 0 .. MaxArrivals - 1, wire : Wires, ip : Ips,
                   client : ClientIds \cup {0}]
  BY <1>1 DEF Body
<1>3. Body(d) \in Bodies
  BY <1>2, TrafficAssumption
<1>4. 0 \in StreamIds /\ 1 \in StreamIds /\ 0 \in MessageIds
  BY StreamAssumption DEF StreamIds, MessageIds
<1>5. /\ PacketOf(d, id).stream_id \in StreamIds
      /\ PacketOf(d, id).message_id \in MessageIds
      /\ PacketOf(d, id).fragment_index \in Nat
      /\ PacketOf(d, id).fragment_count \in Nat
      /\ d.received_ms \in Nat
  BY <1>4 DEF PacketOf, Traffic
<1> QED
  BY <1>3, <1>5 DEF PacketOf, Packet

\* Only v4 names a session, and it never names 0.
LEMMA TrafficHasSender ==
  ASSUME NEW d \in Waits
  PROVE  /\ SenderOK(UnitOf(d), ControlAfter(d))
         /\ UnitOf(d).wire = WireOf(d)
         /\ UnitOf(d).ip = d.ip
         /\ Decoded(d) <=> WireOf(d) # RawWire
BY TrafficAssumption DEF SenderOK, UnitOf, ControlAfter, WireOf, Decoded, Waits, Traffic

-----------------------------------------------------------------------------
(* Queues of datagrams *)

\* One more at the end.
LEMMA AppendShape ==
  ASSUME NEW S, NEW q \in Seq(S), NEW e \in S
  PROVE  /\ Append(q, e) \in Seq(S)
         /\ Len(Append(q, e)) = Len(q) + 1
         /\ \A k \in DOMAIN Append(q, e) :
              \/ k \in DOMAIN q /\ Append(q, e)[k] = q[k]
              \/ k = Len(q) + 1 /\ Append(q, e)[k] = e
<1>1. /\ Append(q, e) \in Seq(S)
      /\ Len(Append(q, e)) = Len(q) + 1
      /\ \A k \in 1 .. Len(q) : Append(q, e)[k] = q[k]
      /\ Append(q, e)[Len(q) + 1] = e
  BY AppendProperties
<1>2. DOMAIN Append(q, e) = 1 .. Len(q) + 1 /\ DOMAIN q = 1 .. Len(q) /\ Len(q) \in Nat
  BY <1>1, LenProperties
<1> QED
  BY <1>1, <1>2

\* One less at the front.
LEMMA TailShape ==
  ASSUME NEW S, NEW q \in Seq(S), q # <<>>
  PROVE  /\ Head(q) \in S
         /\ Head(q) = q[1]
         /\ 1 \in DOMAIN q
         /\ Tail(q) \in Seq(S)
         /\ Len(Tail(q)) = Len(q) - 1
         /\ \A k \in DOMAIN Tail(q) :
              k \in Nat /\ k # 0 /\ k + 1 \in DOMAIN q /\ Tail(q)[k] = q[k + 1]
<1>1. /\ Head(q) \in S
      /\ Tail(q) \in Seq(S)
      /\ Len(Tail(q)) = Len(q) - 1
      /\ \A k \in 1 .. Len(q) - 1 : Tail(q)[k] = q[k + 1]
      /\ Head(q) = q[1]
  BY HeadTailProperties
<1>2. /\ DOMAIN Tail(q) = 1 .. Len(q) - 1
      /\ DOMAIN q = 1 .. Len(q)
      /\ Len(q) \in Nat
      /\ Len(q) # 0
  BY <1>1, LenProperties, EmptySeq
<1> QED
  BY <1>1, <1>2

\* The first n taken away.
LEMMA RestShape ==
  ASSUME NEW S, NEW q \in Seq(S), NEW n \in 0 .. Len(q)
  PROVE  /\ SubSeq(q, n + 1, Len(q)) \in Seq(S)
         /\ Len(SubSeq(q, n + 1, Len(q))) = Len(q) - n
         /\ \A k \in DOMAIN SubSeq(q, n + 1, Len(q)) :
              /\ k \in Nat \ {0}
              /\ k + n \in DOMAIN q
              /\ SubSeq(q, n + 1, Len(q))[k] = q[k + n]
<1>1. Len(q) \in Nat /\ DOMAIN q = 1 .. Len(q)
  BY LenProperties
<1>2. n + 1 \in 1 .. Len(q) + 1
  BY <1>1
<1>3. \A k \in n + 1 .. Len(q) : k \in 1 .. Len(q) /\ q[k] \in S
  BY <1>1, ElementOfSeq
<1>4. /\ SubSeq(q, n + 1, Len(q)) \in Seq(S)
      /\ Len(SubSeq(q, n + 1, Len(q))) = IF n + 1 <= Len(q) THEN Len(q) - (n + 1) + 1 ELSE 0
      /\ \A k \in 1 .. Len(q) - (n + 1) + 1 :
           SubSeq(q, n + 1, Len(q))[k] = q[n + 1 + k - 1]
  BY <1>1, <1>2, <1>3, SubSeqProperties
<1>5. Len(SubSeq(q, n + 1, Len(q))) = Len(q) - n
  <2>1. \A m \in Nat : n \in 0 .. m =>
          (IF n + 1 <= m THEN m - (n + 1) + 1 ELSE 0) = m - n
    OBVIOUS
  <2> QED
    BY <1>1, <1>4, <2>1, Zenon
<1>6. DOMAIN SubSeq(q, n + 1, Len(q)) = 1 .. Len(q) - n
  BY <1>4, <1>5, LenProperties
<1>7. ASSUME NEW k \in 1 .. Len(q) - n
      PROVE  /\ k \in Nat \ {0}
             /\ k + n \in DOMAIN q
             /\ SubSeq(q, n + 1, Len(q))[k] = q[k + n]
  <2>1. k \in 1 .. Len(q) - (n + 1) + 1 /\ n + 1 + k - 1 = k + n
    BY <1>1
  <2> QED
    BY <1>1, <1>4, <2>1
<1> QED
  BY <1>4, <1>5, <1>6, <1>7

-----------------------------------------------------------------------------
(* What a step leaves alone *)

\* Slots and trackers are as they were.
LEMMA StreamsUnchanged ==
  ASSUME QueueOK, TrackersOK, UNCHANGED streamVars
  PROVE  /\ QueueOK'
         /\ TrackersOK'
         /\ Occupied' = Occupied
         /\ WholeSlots' = WholeSlots
         /\ UNCHANGED <<ready_queue, session_trackers>>
BY DEF streamVars, QueueOK, CountMatchesQueue, QueueKeysUnique, Occupied, SameFragment,
   TrackersOK, IdsInRange, ClaimsHaveFragmentsLeft, QueuedAreTracked, WholeSlots, Multi

\* Sessions are as they were.
LEMMA SessionsUnchanged ==
  ASSUME SessionsOK, UNCHANGED sessionVars
  PROVE  /\ SessionsOK'
         /\ Active' = Active
         /\ sessions' = sessions
         /\ next_session_id' = next_session_id
BY DEF sessionVars, SessionsOK, SessionTypeOK, SessionsDistinct, Active

\* Slots were only cleared.
SlotsCleared ==
  /\ Occupied' \subseteq Occupied
  /\ \A i \in Occupied' : ready_queue'[i] = ready_queue[i]

\* Packets that stay keep their sessions as long as these stay.
LEMMA QueuedKeepSessions ==
  ASSUME QueuedOK, SlotsCleared, UNCHANGED sessions,
         now \in Nat, now' \in Nat, now <= now', QueueOK
  PROVE  QueuedOK'
<1> SUFFICES ASSUME NEW i \in Occupied'
             PROVE  /\ ready_queue'[i].stream_id # 0
                    /\ ready_queue'[i].received_ms <= now'
                    /\ Belongs(ready_queue[i])'
  BY DEF QueuedOK
<1>1. /\ i \in Occupied
      /\ ready_queue'[i] = ready_queue[i]
      /\ ready_queue[i].received_ms \in Nat
  BY DEF SlotsCleared, QueueOK, Occupied, Packet
<1>2. ready_queue[i].received_ms <= now /\ Belongs(ready_queue[i])
  BY <1>1 DEF QueuedOK
<1>3. Belongs(ready_queue[i])'
  BY <1>1, <1>2 DEF Belongs, Active, LookedUpBy
<1> QED
  BY <1>1, <1>2, <1>3 DEF QueuedOK

\* Clearing slots does not disturb the order of what is left.
LEMMA WholeStay ==
  ASSUME SlotsCleared
  PROVE  /\ WholeSlots' \subseteq WholeSlots
         /\ \A i \in WholeSlots' : ready_queue'[i] = ready_queue[i]
BY DEF SlotsCleared, WholeSlots, Multi

\* The user data of the packets that leave is freed, no other: serials tell
\* datagrams apart.
LEMMA FreedWithPacket ==
  ASSUME UsersAreQueued, QueuedBeforeWaiting, SlotsCleared,
         users' = users \ {ready_queue[i].body.serial : i \in Occupied \ Occupied'}
  PROVE  UsersAreQueued'
<1> DEFINE Kept(n) == \E i \in Occupied : ready_queue[i].body.wire # RawWire
                                          /\ ready_queue[i].body.serial = n
<1>1. \A n : n \in users <=> Kept(n)
  BY DEF UsersAreQueued
<1>2. \A n : n \in users' <=>
        \E i \in Occupied' : ready_queue'[i].body.wire # RawWire
                             /\ ready_queue'[i].body.serial = n
  BY <1>1 DEF QueuedBeforeWaiting, SlotsCleared
<1>3. users' = {b.serial : b \in {c \in {ready_queue'[i].body : i \in Occupied'} :
                                    c.wire # RawWire}}
  BY <1>2
<1> QED
  BY <1>3 DEF UsersAreQueued

\* Time passes.
LEMMA TickPreserves ==
  ASSUME InboxInv, Tick
  PROVE  InboxInv'
<1>1. /\ UNCHANGED <<streamVars, sessionVars, inboxVars, arrived>>
      /\ now' = now + 1
      /\ now \in Nat
  BY DEF Tick, InboxInv, TrafficOK
<1>2. QueueOK' /\ TrackersOK' /\ Occupied' = Occupied /\ WholeSlots' = WholeSlots
      /\ ready_queue' = ready_queue /\ session_trackers' = session_trackers
  BY <1>1, StreamsUnchanged DEF InboxInv
<1>3. SessionsOK' /\ sessions' = sessions /\ next_session_id' = next_session_id
  BY <1>1, SessionsUnchanged DEF InboxInv
<1>4. NewSessionsUntracked'
  BY <1>2, <1>3 DEF InboxInv, NewSessionsUntracked
<1>5. TrafficOK'
  <2>1. \A k \in DOMAIN ring : ring[k].received_ms \in Nat /\ ring[k].received_ms <= now
    BY ElementOfSeq, LenProperties DEF InboxInv, TrafficOK, Waits, Traffic
  <2>2. UNCHANGED <<socket, ring, arrived, session_by_client, phase>>
    BY <1>1 DEF inboxVars
  <2>3. \A k \in DOMAIN ring : ring[k].received_ms <= now'
    BY <1>1, <2>1
  <2> QED
    BY <1>1, <2>2, <2>3 DEF InboxInv, TrafficOK
<1>6. WaitInOrder' /\ QueuedBeforeWaiting' /\ UsersAreQueued'
  BY <1>1, <1>2 DEF InboxInv, WaitInOrder, QueuedBeforeWaiting, UsersAreQueued, inboxVars
<1>7. QueuedOK'
  BY <1>1, <1>2, <1>3, QueuedKeepSessions DEF InboxInv, SlotsCleared
<1>8. WholeInOrder'
  BY <1>1, <1>2 DEF InboxInv, WholeInOrder, inboxVars
<1> QED
  BY <1>2, <1>3, <1>4, <1>5, <1>6, <1>7, <1>8 DEF InboxInv

\* A datagram gets the next serial when it arrives.
LEMMA ArrivePreserves ==
  ASSUME InboxInv, NEW d \in Datagrams, Arrive(d)
  PROVE  InboxInv'
<1> DEFINE e == [d EXCEPT !.serial = arrived]
<1>1. /\ arrived \in 0 .. MaxArrivals
      /\ arrived < MaxArrivals
      /\ Len(socket) < SocketCapacity
      /\ socket' = Append(socket, e)
      /\ arrived' = arrived + 1
      /\ UNCHANGED <<streamVars, sessionVars, ring, session_by_client, users, phase, now>>
  BY DEF Arrive, InboxInv, TrafficOK
<1>2. e \in Waits /\ e.serial = arrived
  <2>1. d \in Traffic /\ (d.kind = "tuple" => d.session_id # 0)
    BY TrafficAssumption
  <2> QED
    BY <1>1, <2>1 DEF Waits, Traffic
<1>3. socket \in Seq(Waits) /\ Len(socket) \in Nat /\ SocketCapacity \in Nat
  BY LenProperties, TrafficAssumption DEF InboxInv, TrafficOK
<1>4. /\ socket' \in Seq(Waits)
      /\ Len(socket') = Len(socket) + 1
      /\ \A k \in DOMAIN socket' :
           \/ k \in DOMAIN socket /\ socket'[k] = socket[k]
           \/ k = Len(socket) + 1 /\ socket'[k] = e
  BY <1>1, <1>2, <1>3, AppendShape
<1>5. /\ DOMAIN socket = 1 .. Len(socket)
      /\ \A k \in DOMAIN socket : socket[k].serial \in Nat
  BY <1>3, ElementOfSeq, LenProperties DEF Waits, Traffic
<1>6. QueueOK' /\ TrackersOK' /\ Occupied' = Occupied /\ WholeSlots' = WholeSlots
      /\ ready_queue' = ready_queue /\ session_trackers' = session_trackers
  BY <1>1, StreamsUnchanged DEF InboxInv
<1>7. SessionsOK' /\ sessions' = sessions /\ next_session_id' = next_session_id
  BY <1>1, SessionsUnchanged DEF InboxInv
<1>8. NewSessionsUntracked'
  BY <1>6, <1>7 DEF InboxInv, NewSessionsUntracked
<1>9. TrafficOK'
  <2>1. Len(socket') <= SocketCapacity /\ arrived' \in 0 .. MaxArrivals
    BY <1>1, <1>3, <1>4, TrafficAssumption
  <2> QED
    BY <1>1, <1>4, <2>1 DEF InboxInv, TrafficOK
<1>10. WaitInOrder'
  <2>1. \A k \in DOMAIN socket : socket[k].serial < arrived
    BY DEF InboxInv, WaitInOrder
  <2>2. \A k \in DOMAIN socket' : socket'[k].serial < arrived'
    BY <1>1, <1>2, <1>4, <1>5, <2>1
  <2>3. \A k, l \in DOMAIN socket : k < l => socket[k].serial < socket[l].serial
    BY DEF InboxInv, WaitInOrder
  <2>4. ASSUME NEW k \in DOMAIN socket', NEW l \in DOMAIN socket', k < l
        PROVE  socket'[k].serial < socket'[l].serial
    <3>1. k \in DOMAIN socket /\ socket'[k] = socket[k]
      BY <1>3, <1>4, <1>5, <2>4
    <3> QED
      BY <1>2, <1>4, <2>1, <2>3, <2>4, <3>1
  <2>5. \A k \in DOMAIN ring : ring[k].serial < arrived
    BY DEF InboxInv, WaitInOrder
  <2>6. ring' = ring
    BY <1>1
  <2>7. \A k \in DOMAIN ring', l \in DOMAIN socket' : ring'[k].serial < socket'[l].serial
    BY <1>2, <1>4, <2>5, <2>6 DEF InboxInv, WaitInOrder
  <2>8. \A k \in DOMAIN ring' : ring'[k].serial < arrived'
    <3>1. \A k \in DOMAIN ring : ring[k].serial \in Nat
      BY ElementOfSeq, LenProperties DEF InboxInv, TrafficOK, Waits, Traffic
    <3> QED
      BY <1>1, <2>5, <2>6, <3>1
  <2>9. \A k, l \in DOMAIN ring' : k < l => ring'[k].serial < ring'[l].serial
    BY <2>6 DEF InboxInv, WaitInOrder
  <2> QED
    BY <2>2, <2>4, <2>7, <2>8, <2>9 DEF WaitInOrder
<1>11. QueuedOK'
  BY <1>1, <1>6, <1>7, QueuedKeepSessions DEF InboxInv, SlotsCleared, TrafficOK
<1>12. QueuedBeforeWaiting'
  <2>1. \A i \in Occupied : ready_queue[i].body.serial \in 0 .. arrived - 1
    BY DEF InboxInv, QueuedBeforeWaiting
  <2>2. \A i \in Occupied : /\ ready_queue[i].body.serial \in 0 .. arrived' - 1
                            /\ ready_queue[i].body.serial < e.serial
    BY <1>1, <1>2, <2>1
  <2>3. \A i \in Occupied, k \in DOMAIN socket' : ready_queue[i].body.serial < socket'[k].serial
    BY <1>4, <2>2 DEF InboxInv, QueuedBeforeWaiting
  <2>4. ring' = ring
    BY <1>1
  <2> QED
    BY <1>6, <2>2, <2>3, <2>4 DEF InboxInv, QueuedBeforeWaiting
<1>13. UsersAreQueued'
  BY <1>1, <1>6 DEF InboxInv, UsersAreQueued
<1>14. WholeInOrder'
  BY <1>1, <1>6 DEF InboxInv, WholeInOrder
<1> QED
  BY <1>6, <1>7, <1>8, <1>9, <1>10, <1>11, <1>12, <1>13, <1>14 DEF InboxInv

\* The start of m7mux_inbox_pump: a session that times out leaves no packet, for
\* packets do not live longer than sessions and are expired at the same time.
LEMMA PumpStartPreserves ==
  ASSUME InboxInv, PumpStart
  PROVE  InboxInv'
<1>1. /\ phase = "pump"
      /\ phase' = "read"
      /\ session_by_client' = FALSE
      /\ ExpireSessions(now)
      /\ Expire(now)
      /\ users' = users \ SerialsAt(Stale(now))
      /\ UNCHANGED <<socket, ring, arrived, now>>
  BY DEF PumpStart
<1>2. now \in Nat /\ SessionTimeoutMs \in Nat /\ ExpireAfterMs \in Nat
  BY SessionAssumption, StreamAssumption DEF InboxInv, TrafficOK
<1>3. QueueOK' /\ TrackersOK'
  BY <1>1, ExpireQueue, ExpireTrackers DEF InboxInv
<1>4. /\ Occupied' = Occupied \ Stale(now)
      /\ \A j \in Occupied' : ready_queue'[j] = ready_queue[j]
      /\ UNCHANGED session_trackers
  BY <1>1, ExpireShape DEF InboxInv
<1>5. SlotsCleared
  BY <1>4 DEF SlotsCleared
<1>6. /\ sessions' = [j \in SessionSlots |-> IF j \in TimedOut(now) THEN NoSession ELSE sessions[j]]
      /\ next_session_id' = next_session_id
      /\ Active' = Active \ TimedOut(now)
      /\ \A j \in Active' : sessions'[j] = sessions[j]
  BY <1>1 DEF ExpireSessions, Active
<1>7. SessionsOK'
  <2>1. SessionTypeOK'
    BY <1>6 DEF InboxInv, SessionsOK, SessionTypeOK
  <2>2. SessionsDistinct'
    BY <1>6 DEF InboxInv, SessionsOK, SessionsDistinct
  <2> QED
    BY <1>6, <2>1, <2>2 DEF InboxInv, SessionsOK
<1>8. NewSessionsUntracked'
  BY <1>4, <1>6 DEF InboxInv, NewSessionsUntracked
<1>9. TrafficOK'
  BY <1>1 DEF InboxInv, TrafficOK
<1>10. WaitInOrder'
  BY <1>1 DEF InboxInv, WaitInOrder
<1>11. QueuedOK'
  <2> SUFFICES ASSUME NEW i \in Occupied'
               PROVE  /\ ready_queue'[i].stream_id # 0
                      /\ ready_queue'[i].received_ms <= now'
                      /\ Belongs(ready_queue[i])'
    BY DEF QueuedOK
  <2>1. /\ i \in Occupied
        /\ ~ Expired(ready_queue[i], now)
        /\ ready_queue'[i] = ready_queue[i]
        /\ ready_queue[i].received_ms \in Nat
    BY <1>4 DEF Stale, InboxInv, QueueOK, Occupied, Packet
  <2>2. /\ ready_queue[i].stream_id # 0
        /\ ready_queue[i].received_ms <= now
        /\ Belongs(ready_queue[i])
    BY <2>1 DEF InboxInv, QueuedOK
  <2>3. PICK j \in Active :
          /\ sessions[j].session_id = ready_queue[i].session_id
          /\ LookedUpBy(sessions[j], ready_queue[i].body)
          /\ sessions[j].expires_at_ms >= ready_queue[i].received_ms + SessionTimeoutMs
    BY <2>2 DEF Belongs
  <2>4. sessions[j].expires_at_ms \in Nat
    BY DEF InboxInv, SessionsOK, SessionTypeOK, Active, Session
  <2>5. now - ready_queue[i].received_ms < SessionTimeoutMs
    BY <1>2, <2>1, <2>2, InboxAssumption DEF Expired
  <2>6. j \notin TimedOut(now)
    BY <1>2, <2>1, <2>3, <2>4, <2>5 DEF TimedOut
  <2>7. j \in Active' /\ sessions'[j] = sessions[j]
    BY <1>6, <2>6
  <2>8. Belongs(ready_queue[i])'
    BY <2>1, <2>3, <2>7 DEF Belongs, LookedUpBy
  <2> QED
    BY <1>1, <2>1, <2>2, <2>8
<1>12. QueuedBeforeWaiting'
  BY <1>1, <1>5 DEF InboxInv, QueuedBeforeWaiting, SlotsCleared
<1>13. UsersAreQueued'
  <2>1. Occupied \ Occupied' = Stale(now)
    BY <1>4 DEF Stale
  <2>2. users' = users \ {ready_queue[i].body.serial : i \in Occupied \ Occupied'}
    BY <1>1, <2>1 DEF SerialsAt
  <2> QED
    BY <1>5, <2>2, FreedWithPacket DEF InboxInv
<1>14. WholeInOrder'
  BY <1>1, <1>5, WholeStay DEF InboxInv, WholeInOrder
<1> QED
  BY <1>3, <1>7, <1>8, <1>9, <1>10, <1>11, <1>12, <1>13, <1>14 DEF InboxInv

\* The receipt time is all that reading a datagram changes.
LEMMA StampedWaits ==
  ASSUME NEW d \in Waits, NEW t \in Nat
  PROVE  /\ [d EXCEPT !.received_ms = t] \in Waits
         /\ [d EXCEPT !.received_ms = t].serial = d.serial
         /\ [d EXCEPT !.received_ms = t].received_ms = t
BY DEF Waits, Traffic

\* A sequence is as long as its domain says.
LEMMA SameInterval ==
  ASSUME NEW m \in Nat, NEW n \in Nat, 1 .. m = 1 .. n
  PROVE  m = n
OBVIOUS

\* m7mux_ingress_pump moves what came first from the socket to an empty ring.
LEMMA ReadShape ==
  ASSUME InboxInv, ReadSocket, ring = <<>>
  PROVE  /\ ring' \in Seq(Waits)
         /\ Len(ring') <= RingCapacity
         /\ socket' \in Seq(Waits)
         /\ Len(socket') <= SocketCapacity
         /\ \A k \in DOMAIN ring' :
              /\ k \in DOMAIN socket
              /\ ring'[k].serial = socket[k].serial
              /\ ring'[k].received_ms = now
         /\ \E n \in Nat :
              /\ \A k \in DOMAIN ring' : k \in 1 .. n
              /\ \A k \in DOMAIN socket' :
                   k \in Nat \ {0} /\ k + n \in DOMAIN socket /\ socket'[k] = socket[k + n]
<1>1. /\ ring' = [n \in 1 .. ReadCount |-> [socket[n] EXCEPT !.received_ms = now]]
      /\ socket' = SubSeq(socket, ReadCount + 1, Len(socket))
  BY DEF ReadSocket
<1>2. /\ socket \in Seq(Waits)
      /\ Len(socket) \in Nat
      /\ Len(socket) <= SocketCapacity
      /\ DOMAIN socket = 1 .. Len(socket)
      /\ \A k \in DOMAIN socket : socket[k] \in Waits
      /\ now \in Nat
      /\ SocketCapacity \in Nat
  BY ElementOfSeq, LenProperties, TrafficAssumption DEF InboxInv, TrafficOK
<1>3. ReadCount \in 0 .. Len(socket) /\ ReadCount \in Nat /\ ReadCount <= RingCapacity
  BY <1>2, InboxAssumption DEF ReadCount
<1>4. \A k \in 1 .. ReadCount :
        LET d == [socket[k] EXCEPT !.received_ms = now]
        IN  /\ k \in DOMAIN socket
            /\ d \in Waits
            /\ d.serial = socket[k].serial
            /\ d.received_ms = now
  <2> SUFFICES ASSUME NEW k \in 1 .. ReadCount
               PROVE  LET d == [socket[k] EXCEPT !.received_ms = now]
                      IN  /\ k \in DOMAIN socket
                          /\ d \in Waits
                          /\ d.serial = socket[k].serial
                          /\ d.received_ms = now
    OBVIOUS
  <2>1. k \in DOMAIN socket /\ socket[k] \in Waits
    BY <1>2, <1>3
  <2> QED
    BY <1>2, <2>1, StampedWaits
<1>5. ring' \in [1 .. ReadCount -> Waits]
  BY <1>1, <1>4
<1>6. ring' \in Seq(Waits) /\ DOMAIN ring' = 1 .. ReadCount /\ Len(ring') = ReadCount
  <2>1. ring' \in Seq(Waits)
    BY <1>3, <1>5, SeqDef
  <2>2. DOMAIN ring' = 1 .. Len(ring') /\ Len(ring') \in Nat
    BY <2>1, LenProperties
  <2>3. DOMAIN ring' = 1 .. ReadCount
    BY <1>5
  <2> QED
    BY <1>3, <2>1, <2>2, <2>3, SameInterval, Zenon
<1>7. \A k \in DOMAIN ring' : /\ k \in DOMAIN socket
                             /\ ring'[k].serial = socket[k].serial
                             /\ ring'[k].received_ms = now
  BY <1>1, <1>4, <1>6
<1>8. /\ socket' \in Seq(Waits)
      /\ Len(socket') = Len(socket) - ReadCount
      /\ \A k \in DOMAIN socket' :
           /\ k \in Nat \ {0}
           /\ k + ReadCount \in DOMAIN socket
           /\ socket'[k] = socket[k + ReadCount]
  BY <1>1, <1>2, <1>3, RestShape
<1>9. Len(socket') <= SocketCapacity
  BY <1>2, <1>3, <1>8
<1> QED
  BY <1>3, <1>6, <1>7, <1>8, <1>9

\* The read keeps the order of arrival, and starts the ingestion with no packet
\* of one part in the queue.
LEMMA ReadSocketPreserves ==
  ASSUME InboxInv, ReadSocket
  PROVE  InboxInv'
<1>1. /\ phase = "read"
      /\ phase' = "ingest"
      /\ UNCHANGED <<streamVars, sessionVars, session_by_client, users, arrived, now>>
  BY DEF ReadSocket
<1>2. QueueOK' /\ TrackersOK' /\ Occupied' = Occupied /\ WholeSlots' = WholeSlots
      /\ ready_queue' = ready_queue /\ session_trackers' = session_trackers
  BY <1>1, StreamsUnchanged DEF InboxInv
<1>3. SessionsOK' /\ sessions' = sessions /\ next_session_id' = next_session_id
  BY <1>1, SessionsUnchanged DEF InboxInv
<1>4. NewSessionsUntracked'
  BY <1>2, <1>3 DEF InboxInv, NewSessionsUntracked
<1>5. QueuedOK'
  BY <1>1, <1>2, <1>3, QueuedKeepSessions DEF InboxInv, SlotsCleared, TrafficOK
<1>6. UsersAreQueued'
  BY <1>1, <1>2 DEF InboxInv, UsersAreQueued
<1>7. WholeInOrder'
  BY <1>1, <1>2 DEF InboxInv, WholeInOrder
<1>8. TrafficOK' /\ WaitInOrder' /\ QueuedBeforeWaiting'
  <2>1. CASE ring # <<>>
    <3>1. UNCHANGED <<ring, socket>>
      BY <2>1 DEF ReadSocket
    <3> QED
      BY <1>1, <1>2, <3>1 DEF InboxInv, TrafficOK, WaitInOrder, QueuedBeforeWaiting
  <2>2. CASE ring = <<>>
    <3>1. /\ ring' \in Seq(Waits)
          /\ Len(ring') <= RingCapacity
          /\ socket' \in Seq(Waits)
          /\ Len(socket') <= SocketCapacity
          /\ \A k \in DOMAIN ring' : /\ k \in DOMAIN socket
                                    /\ ring'[k].serial = socket[k].serial
                                    /\ ring'[k].received_ms = now
      BY <2>2, ReadShape
    <3>2. PICK n \in Nat :
            /\ \A k \in DOMAIN ring' : k \in 1 .. n
            /\ \A k \in DOMAIN socket' :
                 k \in Nat \ {0} /\ k + n \in DOMAIN socket /\ socket'[k] = socket[k + n]
      BY <2>2, ReadShape
    <3>3. now \in Nat /\ \A k \in DOMAIN ring' : ring'[k].received_ms <= now
      BY <3>1 DEF InboxInv, TrafficOK
    <3>4. TrafficOK'
      BY <1>1, <3>1, <3>3 DEF InboxInv, TrafficOK
    <3>5. \A k, l \in DOMAIN socket : k < l => socket[k].serial < socket[l].serial
      BY DEF InboxInv, WaitInOrder
    <3>6. /\ \A k, l \in DOMAIN ring' : k < l => ring'[k].serial < ring'[l].serial
          /\ \A k \in DOMAIN ring' : ring'[k].serial < arrived'
      BY <1>1, <3>1, <3>5 DEF InboxInv, WaitInOrder
    <3>7. /\ \A k, l \in DOMAIN socket' : k < l => socket'[k].serial < socket'[l].serial
          /\ \A k \in DOMAIN socket' : socket'[k].serial < arrived'
      <4>1. \A k, l \in DOMAIN socket' : k < l => k + n < l + n
        BY <3>2
      <4> QED
        BY <1>1, <3>2, <3>5, <4>1 DEF InboxInv, WaitInOrder
    <3>8. \A k \in DOMAIN ring', l \in DOMAIN socket' : ring'[k].serial < socket'[l].serial
      <4>1. \A k \in DOMAIN ring', l \in DOMAIN socket' : k < l + n
        BY <3>2
      <4> QED
        BY <3>1, <3>2, <3>5, <4>1
    <3>9. WaitInOrder'
      BY <3>6, <3>7, <3>8 DEF WaitInOrder
    <3>10. QueuedBeforeWaiting'
      BY <1>1, <1>2, <3>1, <3>2 DEF InboxInv, QueuedBeforeWaiting
    <3> QED
      BY <3>4, <3>9, <3>10
  <2> QED
    BY <2>1, <2>2
<1> QED
  BY <1>2, <1>3, <1>4, <1>5, <1>6, <1>7, <1>8 DEF InboxInv

\* The end of m7mux_inbox_pump expires packets and leaves the sessions.
LEMMA PumpEndPreserves ==
  ASSUME InboxInv, PumpEnd
  PROVE  InboxInv'
<1>1. /\ phase' = "drain"
      /\ Expire(now)
      /\ users' = users \ SerialsAt(Stale(now))
      /\ UNCHANGED <<sessionVars, socket, ring, session_by_client, arrived, now>>
  BY DEF PumpEnd
<1>2. QueueOK' /\ TrackersOK'
  BY <1>1, ExpireQueue, ExpireTrackers DEF InboxInv
<1>3. /\ Occupied' = Occupied \ Stale(now)
      /\ \A j \in Occupied' : ready_queue'[j] = ready_queue[j]
      /\ UNCHANGED session_trackers
  BY <1>1, ExpireShape DEF InboxInv
<1>4. SlotsCleared
  BY <1>3 DEF SlotsCleared
<1>5. SessionsOK' /\ sessions' = sessions /\ next_session_id' = next_session_id
  BY <1>1, SessionsUnchanged DEF InboxInv
<1>6. NewSessionsUntracked'
  BY <1>3, <1>5 DEF InboxInv, NewSessionsUntracked
<1>7. TrafficOK' /\ WaitInOrder'
  BY <1>1 DEF InboxInv, TrafficOK, WaitInOrder
<1>8. QueuedOK'
  BY <1>1, <1>4, <1>5, QueuedKeepSessions DEF InboxInv, TrafficOK
<1>9. QueuedBeforeWaiting'
  BY <1>1, <1>4 DEF InboxInv, QueuedBeforeWaiting, SlotsCleared
<1>10. UsersAreQueued'
  <2>1. Occupied \ Occupied' = Stale(now)
    BY <1>3 DEF Stale
  <2>2. users' = users \ {ready_queue[i].body.serial : i \in Occupied \ Occupied'}
    BY <1>1, <2>1 DEF SerialsAt
  <2> QED
    BY <1>4, <2>2, FreedWithPacket DEF InboxInv
<1>11. WholeInOrder'
  BY <1>1, <1>4, WholeStay DEF InboxInv, WholeInOrder
<1> QED
  BY <1>2, <1>5, <1>6, <1>7, <1>8, <1>9, <1>10, <1>11 DEF InboxInv

\* The daemon takes one packet and frees its data.
LEMMA HandOverPreserves ==
  ASSUME InboxInv, NEW i \in Slots, HandOver(i)
  PROVE  InboxInv'
<1>1. /\ phase = "drain"
      /\ DrainSlot(i)
      /\ users' = users \ {ready_queue[i].body.serial}
      /\ UNCHANGED <<sessionVars, socket, ring, session_by_client, phase, arrived, now>>
  BY DEF HandOver
<1>2. QueueOK' /\ TrackersOK'
  BY <1>1, DrainQueue, DrainTrackers DEF InboxInv
<1>3. /\ i \in Occupied
      /\ Occupied' = Occupied \ {i}
      /\ \A j \in Occupied' : ready_queue'[j] = ready_queue[j]
      /\ UNCHANGED session_trackers
  BY <1>1, DrainShape DEF InboxInv, Ready
<1>4. SlotsCleared
  BY <1>3 DEF SlotsCleared
<1>5. SessionsOK' /\ sessions' = sessions /\ next_session_id' = next_session_id
  BY <1>1, SessionsUnchanged DEF InboxInv
<1>6. NewSessionsUntracked'
  BY <1>3, <1>5 DEF InboxInv, NewSessionsUntracked
<1>7. TrafficOK' /\ WaitInOrder'
  BY <1>1 DEF InboxInv, TrafficOK, WaitInOrder
<1>8. QueuedOK'
  BY <1>1, <1>4, <1>5, QueuedKeepSessions DEF InboxInv, TrafficOK
<1>9. QueuedBeforeWaiting'
  BY <1>1, <1>4 DEF InboxInv, QueuedBeforeWaiting, SlotsCleared
<1>10. UsersAreQueued'
  <2>1. Occupied \ Occupied' = {i}
    BY <1>3
  <2>2. users' = users \ {ready_queue[j].body.serial : j \in Occupied \ Occupied'}
    BY <1>1, <2>1
  <2> QED
    BY <1>4, <2>2, FreedWithPacket DEF InboxInv
<1>11. WholeInOrder'
  BY <1>1, <1>4, WholeStay DEF InboxInv, WholeInOrder
<1> QED
  BY <1>2, <1>5, <1>6, <1>7, <1>8, <1>9, <1>10, <1>11 DEF InboxInv

\* The daemon leaves its loop with nothing of one part in the queue: such a
\* packet has its session tracked and a stream, so drain would return it.
LEMMA DrainEndPreserves ==
  ASSUME InboxInv, DrainEnd
  PROVE  InboxInv'
<1>1. /\ ~ HasPending \/ Ready = {}
      /\ phase' = "pump"
      /\ UNCHANGED <<streamVars, sessionVars, socket, ring, session_by_client, users,
                     arrived, now>>
  BY DEF DrainEnd
<1>2. QueueOK' /\ TrackersOK' /\ Occupied' = Occupied /\ WholeSlots' = WholeSlots
      /\ ready_queue' = ready_queue /\ session_trackers' = session_trackers
  BY <1>1, StreamsUnchanged DEF InboxInv
<1>3. SessionsOK' /\ sessions' = sessions /\ next_session_id' = next_session_id
  BY <1>1, SessionsUnchanged DEF InboxInv
<1>4. NewSessionsUntracked'
  BY <1>2, <1>3 DEF InboxInv, NewSessionsUntracked
<1>5. TrafficOK' /\ WaitInOrder'
  BY <1>1 DEF InboxInv, TrafficOK, WaitInOrder
<1>6. QueuedOK'
  BY <1>1, <1>2, <1>3, QueuedKeepSessions DEF InboxInv, SlotsCleared, TrafficOK
<1>7. QueuedBeforeWaiting' /\ UsersAreQueued'
  BY <1>1, <1>2 DEF InboxInv, QueuedBeforeWaiting, UsersAreQueued
<1>8. WholeSlots = {}
  <2>1. CASE ~ HasPending
    <3>1. ready_count = 0 /\ ready_count = Cardinality(Occupied)
      <4>1. ready_count \in Nat
        BY OccupiedFinite DEF InboxInv, QueueOK, CountMatchesQueue
      <4> QED
        BY <2>1, <4>1 DEF HasPending, InboxInv, QueueOK, CountMatchesQueue
    <3>2. Occupied = {}
      BY <3>1, OccupiedFinite, FS_EmptySet
    <3> QED
      BY <3>2 DEF WholeSlots
  <2>2. CASE Ready = {}
    <3>1. WholeSlots \subseteq Ready
      BY DEF WholeSlots, Ready, Deliverable, InboxInv, TrackersOK, QueuedAreTracked, QueuedOK
    <3> QED
      BY <2>2, <3>1
  <2> QED
    BY <1>1, <2>1, <2>2
<1>9. WholeInOrder'
  BY <1>1, <1>2, <1>8 DEF WholeInOrder
<1> QED
  BY <1>2, <1>3, <1>4, <1>5, <1>6, <1>7, <1>9 DEF InboxInv

\* A mux without packets, sessions or datagrams.
LEMMA NewMux ==
  ASSUME QueueOK, Occupied = {}, TrackersOK, DOMAIN session_trackers = {},
         sessions = [j \in SessionSlots |-> NoSession], next_session_id = 1,
         socket = <<>>, ring = <<>>, users = {},
         arrived \in 0 .. MaxArrivals, now \in Nat, session_by_client \in BOOLEAN,
         phase \in {"pump", "read", "ingest", "drain"}
  PROVE  InboxInv
<1>1. Active = {}
  BY DEF Active
<1>2. SessionsOK
  BY <1>1 DEF SessionsOK, SessionTypeOK, SessionsDistinct
<1>3. /\ socket \in Seq(Waits) /\ ring \in Seq(Waits)
      /\ Len(socket) = 0 /\ Len(ring) = 0
      /\ DOMAIN socket = {} /\ DOMAIN ring = {}
  <2>1. <<>> \in Seq(Waits) /\ Len(<<>>) = 0 /\ DOMAIN <<>> = 1 .. Len(<<>>)
    BY EmptySeq, LenProperties
  <2> QED
    BY <2>1
<1>4. TrafficOK
  BY <1>3, InboxAssumption, TrafficAssumption DEF TrafficOK
<1>5. WaitInOrder /\ QueuedBeforeWaiting /\ QueuedOK /\ NewSessionsUntracked
  BY <1>3 DEF WaitInOrder, QueuedBeforeWaiting, QueuedOK, NewSessionsUntracked
<1>6. UsersAreQueued
  BY DEF UsersAreQueued
<1>7. WholeInOrder
  BY DEF WholeInOrder, WholeSlots
<1> QED
  BY <1>2, <1>4, <1>5, <1>6, <1>7 DEF InboxInv

\* The daemon starts with a new mux.
LEMMA InitEstablishesInboxInv ==
  ASSUME Init
  PROVE  InboxInv
<1>1. Occupied = {}
  BY DEF Init, StreamInit, Occupied
<1>2. QueueOK
  BY <1>1, FS_EmptySet DEF Init, StreamInit, QueueOK, CountMatchesQueue, QueueKeysUnique
<1>3. TrackersOK /\ DOMAIN session_trackers = {}
  BY <1>1 DEF Init, StreamInit, TrackersOK, IdsInRange, ClaimsHaveFragmentsLeft,
     QueuedAreTracked
<1>4. arrived \in 0 .. MaxArrivals /\ now \in Nat
  BY TrafficAssumption DEF Init
<1> QED
  BY <1>1, <1>2, <1>3, <1>4, NewMux DEF Init, SessionInit

\* A new mux for a new socket.
LEMMA ReplacePreserves ==
  ASSUME InboxInv, Replace
  PROVE  InboxInv'
<1>1. /\ Reset
      /\ ResetSessions
      /\ socket' = <<>> /\ ring' = <<>> /\ users' = {}
      /\ UNCHANGED <<session_by_client, phase, arrived, now>>
  BY DEF Replace
<1>2. Occupied' = {}
  BY <1>1 DEF Reset, Occupied
<1>3. QueueOK'
  BY <1>1, <1>2, FS_EmptySet DEF Reset, QueueOK, CountMatchesQueue, QueueKeysUnique
<1>4. TrackersOK' /\ DOMAIN session_trackers' = {}
  BY <1>1, <1>2 DEF Reset, TrackersOK, IdsInRange, ClaimsHaveFragmentsLeft,
     QueuedAreTracked
<1>5. Active' = {}
  BY <1>1 DEF ResetSessions, Active
<1>6. SessionsOK'
  BY <1>1, <1>5 DEF ResetSessions, SessionsOK, SessionTypeOK, SessionsDistinct
<1>7. /\ socket' \in Seq(Waits) /\ ring' \in Seq(Waits)
      /\ Len(socket') = 0 /\ Len(ring') = 0
      /\ DOMAIN socket' = {} /\ DOMAIN ring' = {}
  <2>1. <<>> \in Seq(Waits) /\ Len(<<>>) = 0 /\ DOMAIN <<>> = 1 .. Len(<<>>)
    BY EmptySeq, LenProperties
  <2> QED
    BY <1>1, <2>1
<1>8. TrafficOK'
  BY <1>1, <1>7, InboxAssumption, TrafficAssumption DEF InboxInv, TrafficOK
<1>9. WaitInOrder' /\ QueuedBeforeWaiting' /\ QueuedOK' /\ NewSessionsUntracked'
  BY <1>2, <1>4, <1>7 DEF WaitInOrder, QueuedBeforeWaiting, QueuedOK, NewSessionsUntracked
<1>10. UsersAreQueued'
  BY <1>1, <1>2 DEF UsersAreQueued
<1>11. WholeInOrder'
  BY <1>2 DEF WholeInOrder, WholeSlots
<1> QED
  BY <1>3, <1>4, <1>6, <1>8, <1>9, <1>10, <1>11 DEF InboxInv

-----------------------------------------------------------------------------
(* The datagram at the head of the ring *)

\* It is older than all that waits behind it, and newer than all that is queued.
LEMMA HeadIsNext ==
  ASSUME InboxInv, TakeFromRing
  PROVE  LET d == Head(ring)
         IN  /\ d \in Waits
             /\ d.serial \in 0 .. arrived - 1
             /\ d.received_ms \in Nat
             /\ d.received_ms <= now
             /\ \A k \in DOMAIN ring' : d.serial < ring'[k].serial
             /\ \A k \in DOMAIN socket' : d.serial < socket'[k].serial
             /\ \A i \in Occupied : ready_queue[i].body.serial < d.serial
<1> DEFINE d == Head(ring)
<1>1. ring # <<>> /\ ring' = Tail(ring) /\ socket' = socket
  BY DEF TakeFromRing
<1>2. ring \in Seq(Waits)
  BY DEF InboxInv, TrafficOK
<1>3. /\ d \in Waits
      /\ d = ring[1]
      /\ 1 \in DOMAIN ring
      /\ \A k \in DOMAIN ring' :
           k \in Nat /\ k # 0 /\ k + 1 \in DOMAIN ring /\ ring'[k] = ring[k + 1]
  BY <1>1, <1>2, TailShape
<1>4. d.serial \in Nat /\ d.received_ms \in Nat
  BY <1>3 DEF Waits, Traffic
<1>5. arrived \in Nat /\ d.serial < arrived
  BY <1>3, TrafficAssumption DEF InboxInv, TrafficOK, WaitInOrder
<1>6. d.serial \in 0 .. arrived - 1
  BY <1>4, <1>5
<1>7. d.received_ms <= now
  BY <1>3 DEF InboxInv, TrafficOK
<1>8. \A k \in DOMAIN ring' : d.serial < ring'[k].serial
  <2>1. \A k \in DOMAIN ring' : 1 < k + 1
    BY <1>3
  <2> QED
    BY <1>3, <2>1 DEF InboxInv, WaitInOrder
<1>9. \A k \in DOMAIN socket' : d.serial < socket'[k].serial
  BY <1>1, <1>3 DEF InboxInv, WaitInOrder
<1>10. \A i \in Occupied : ready_queue[i].body.serial < d.serial
  BY <1>3 DEF InboxInv, QueuedBeforeWaiting
<1> QED
  BY <1>3, <1>4, <1>6, <1>7, <1>8, <1>9, <1>10

\* What waits behind it keeps its order.
LEMMA TakeKeepsTraffic ==
  ASSUME InboxInv, TakeFromRing, phase' \in {"ingest", "drain"}
  PROVE  /\ TrafficOK'
         /\ WaitInOrder'
         /\ \A i \in Occupied, k \in DOMAIN ring' : ready_queue[i].body.serial < ring'[k].serial
<1>1. /\ ring # <<>>
      /\ ring' = Tail(ring)
      /\ session_by_client' = ControlAfter(Head(ring))
      /\ UNCHANGED <<socket, arrived, now>>
  BY DEF TakeFromRing
<1>2. ring \in Seq(Waits) /\ Len(ring) \in Nat /\ Len(ring) <= RingCapacity
  BY LenProperties DEF InboxInv, TrafficOK
<1>3. /\ ring' \in Seq(Waits)
      /\ Len(ring') = Len(ring) - 1
      /\ \A k \in DOMAIN ring' :
           k \in Nat /\ k # 0 /\ k + 1 \in DOMAIN ring /\ ring'[k] = ring[k + 1]
  BY <1>1, <1>2, TailShape
<1>4. Len(ring') <= RingCapacity
  BY <1>2, <1>3, InboxAssumption
<1>5. session_by_client' \in BOOLEAN
  BY <1>1 DEF InboxInv, TrafficOK, ControlAfter
<1>6. TrafficOK'
  BY <1>1, <1>3, <1>4, <1>5 DEF InboxInv, TrafficOK
<1>7. \A k, l \in DOMAIN ring' : k < l => ring'[k].serial < ring'[l].serial
  <2>1. \A k, l \in DOMAIN ring' : k < l => k + 1 < l + 1
    BY <1>3
  <2> QED
    BY <1>3, <2>1 DEF InboxInv, WaitInOrder
<1>8. WaitInOrder'
  BY <1>1, <1>3, <1>7 DEF InboxInv, WaitInOrder
<1> QED
  BY <1>3, <1>6, <1>8 DEF InboxInv, QueuedBeforeWaiting

\* normalize or the session layer refuses the datagram: nothing else happens.
LEMMA DiscardPreserves ==
  ASSUME InboxInv, TakeFromRing, UNCHANGED <<streamVars, sessionVars, users>>,
         phase' \in {phase, "drain"}
  PROVE  InboxInv'
<1>1. phase = "ingest" /\ UNCHANGED <<socket, arrived, now>>
  BY DEF TakeFromRing
<1>2. QueueOK' /\ TrackersOK' /\ Occupied' = Occupied /\ WholeSlots' = WholeSlots
      /\ ready_queue' = ready_queue /\ session_trackers' = session_trackers
  BY StreamsUnchanged DEF InboxInv
<1>3. SessionsOK' /\ sessions' = sessions /\ next_session_id' = next_session_id
  BY SessionsUnchanged DEF InboxInv
<1>4. NewSessionsUntracked'
  BY <1>2, <1>3 DEF InboxInv, NewSessionsUntracked
<1>5. /\ TrafficOK'
      /\ WaitInOrder'
      /\ \A i \in Occupied, k \in DOMAIN ring' : ready_queue[i].body.serial < ring'[k].serial
  BY <1>1, TakeKeepsTraffic
<1>6. QueuedOK'
  BY <1>1, <1>2, <1>3, QueuedKeepSessions DEF InboxInv, SlotsCleared, TrafficOK
<1>7. QueuedBeforeWaiting' /\ UsersAreQueued'
  BY <1>1, <1>2, <1>5 DEF InboxInv, QueuedBeforeWaiting, UsersAreQueued
<1>8. WholeInOrder'
  BY <1>1, <1>2 DEF InboxInv, WholeInOrder
<1> QED
  BY <1>2, <1>3, <1>4, <1>5, <1>6, <1>7, <1>8 DEF InboxInv

\* Packets keep their sessions while one is refreshed or made.
LEMMA BelongsStays ==
  ASSUME SessionsStay(now), NEW p \in Packet, Belongs(p),
         p.received_ms <= now, now \in Nat
  PROVE  \E j \in Active' :
           /\ sessions'[j].session_id = p.session_id
           /\ LookedUpBy(sessions'[j], p.body)
           /\ sessions'[j].expires_at_ms >= p.received_ms + SessionTimeoutMs
<1>1. PICK j \in Active :
        /\ sessions[j].session_id = p.session_id
        /\ LookedUpBy(sessions[j], p.body)
        /\ sessions[j].expires_at_ms >= p.received_ms + SessionTimeoutMs
  BY DEF Belongs
<1>2. /\ j \in Active'
      /\ sessions'[j].session_id = sessions[j].session_id
      /\ sessions'[j].wire = sessions[j].wire
      /\ sessions'[j].client_session_id = sessions[j].client_session_id
      /\ sessions[j].wire # "tuple" => sessions'[j].ip = sessions[j].ip
      /\ \/ sessions'[j].expires_at_ms = sessions[j].expires_at_ms
         \/ sessions'[j].expires_at_ms = now + SessionTimeoutMs
  BY DEF SessionsStay, Active
<1>3. LookedUpBy(sessions'[j], p.body)
  BY <1>1, <1>2 DEF LookedUpBy
<1>4. now + SessionTimeoutMs >= p.received_ms + SessionTimeoutMs
  BY SessionAssumption DEF Packet
<1> QED
  BY <1>1, <1>2, <1>3, <1>4

\* A unit that has its session goes into the queue with it, or is refused and
\* leaves nothing behind: the slot it takes is above every packet of one part.
LEMMA EnqueuePreserves ==
  ASSUME InboxInv, TakeFromRing, NEW id \in SessionIds,
         SessionsOK', SessionsStay(now), SessionOf(UnitOf(Head(ring)), now, id),
         id < next_session_id', next_session_id <= next_session_id',
         Enqueue(Head(ring), id)
  PROVE  InboxInv'
<1> DEFINE d == Head(ring)
<1> DEFINE p == PacketOf(d, id)
<1> DEFINE q == Identified(p)
<1>1. phase = "ingest" /\ UNCHANGED <<socket, arrived, now>>
  BY DEF TakeFromRing
<1>2. /\ d \in Waits
      /\ d.serial \in 0 .. arrived - 1
      /\ d.received_ms \in Nat
      /\ d.received_ms <= now
      /\ \A k \in DOMAIN ring' : d.serial < ring'[k].serial
      /\ \A k \in DOMAIN socket' : d.serial < socket'[k].serial
      /\ \A i \in Occupied : ready_queue[i].body.serial < d.serial
  BY HeadIsNext
<1>3. now \in Nat /\ arrived \in 0 .. MaxArrivals /\ MaxArrivals \in Nat
  BY TrafficAssumption DEF InboxInv, TrafficOK
<1>4. /\ p \in Packet
      /\ p.session_id = id
      /\ p.received_ms = d.received_ms
      /\ p.body = Body(d)
  <2>1. d.serial \in 0 .. MaxArrivals - 1 /\ d \in Traffic
    BY <1>2, <1>3 DEF Waits
  <2> QED
    BY <2>1, TrafficIsPacket
<1>5. IdsInRange /\ QueueOK /\ TrackersOK
  BY DEF InboxInv, TrackersOK
<1>6. /\ q \in Packet
      /\ q # Empty
      /\ q.session_id = id
      /\ q.received_ms = d.received_ms
      /\ q.body = Body(d)
      /\ Accepts(p) => q.stream_id # 0
  BY <1>4, <1>5, IdentifiedKeeps, IdentifiedIsPacket, StreamAssumption
<1>7. Ingest(p) /\ phase' \in {"ingest", "drain"}
  BY <1>1 DEF Enqueue
<1>8. QueueOK' /\ TrackersOK'
  BY <1>4, <1>5, <1>7, IngestQueue, IngestTrackers
<1>9. /\ DOMAIN session_trackers' \subseteq DOMAIN session_trackers \cup {id}
      /\ ~ Accepts(p) => UNCHANGED <<ready_queue, ready_count>>
      /\ Accepts(p) =>
           \E i \in Slots : IsFirstFree(i) /\ ready_queue' = [ready_queue EXCEPT ![i] = q]
  BY <1>4, <1>5, <1>7, IngestShape
<1>10. NewSessionsUntracked'
  <2>1. next_session_id \in Nat /\ next_session_id' \in Nat
    BY DEF InboxInv, SessionsOK, SessionTypeOK
  <2>2. \A s \in DOMAIN session_trackers : s \in Nat /\ s < next_session_id
    BY <1>5, StreamAssumption DEF IdsInRange, InboxInv, NewSessionsUntracked
  <2>3. \A s \in DOMAIN session_trackers : s < next_session_id'
    BY <2>1, <2>2
  <2> QED
    BY <1>9, <2>3 DEF NewSessionsUntracked
<1>11. /\ TrafficOK'
       /\ WaitInOrder'
       /\ \A i \in Occupied, k \in DOMAIN ring' : ready_queue[i].body.serial < ring'[k].serial
  BY <1>7, TakeKeepsTraffic
<1>12. \A i \in Occupied :
         /\ ready_queue[i] \in Packet
         /\ ready_queue[i].stream_id # 0
         /\ ready_queue[i].received_ms <= now
         /\ Belongs(ready_queue[i])
  BY DEF InboxInv, QueuedOK, QueueOK, Occupied
<1>13. \A i \in Occupied :
         \E j \in Active' :
           /\ sessions'[j].session_id = ready_queue[i].session_id
           /\ LookedUpBy(sessions'[j], ready_queue[i].body)
           /\ sessions'[j].expires_at_ms >= ready_queue[i].received_ms + SessionTimeoutMs
  BY <1>3, <1>12, BelongsStays
<1>14. \E j \in Active' :
         /\ sessions'[j].session_id = q.session_id
         /\ LookedUpBy(sessions'[j], q.body)
         /\ sessions'[j].expires_at_ms >= q.received_ms + SessionTimeoutMs
  <2>1. PICK j \in SessionSlots :
          /\ sessions'[j] # NoSession
          /\ sessions'[j].session_id = id
          /\ sessions'[j].wire = UnitOf(d).wire
          /\ UnitOf(d).wire # "tuple" => sessions'[j].ip = UnitOf(d).ip
          /\ UnitOf(d).wire = "tuple" => sessions'[j].client_session_id = UnitOf(d).session_id
          /\ sessions'[j].expires_at_ms = now + SessionTimeoutMs
    BY DEF SessionOf
  <2>2. /\ q.body.wire = UnitOf(d).wire
        /\ q.body.ip = UnitOf(d).ip
        /\ q.body.client = UnitOf(d).session_id
    BY <1>6 DEF Body, UnitOf
  <2>3. now + SessionTimeoutMs >= q.received_ms + SessionTimeoutMs
    BY <1>2, <1>3, <1>6, SessionAssumption
  <2> QED
    BY <1>6, <2>1, <2>2, <2>3 DEF LookedUpBy, Active
<1>15. CASE ~ Accepts(p)
  <2>1. /\ UNCHANGED <<ready_queue, users>>
        /\ phase' = "drain"
    BY <1>9, <1>15 DEF Enqueue
  <2>2. Occupied' = Occupied /\ WholeSlots' = WholeSlots
    BY <2>1 DEF Occupied, WholeSlots, Multi
  <2>3. QueuedOK'
    BY <1>1, <1>12, <1>13, <2>1, <2>2 DEF QueuedOK, Belongs
  <2>4. QueuedBeforeWaiting' /\ UsersAreQueued' /\ WholeInOrder'
    BY <1>1, <1>11, <2>1, <2>2 DEF InboxInv, QueuedBeforeWaiting, UsersAreQueued, WholeInOrder
  <2> QED
    BY <1>8, <1>10, <1>11, <2>3, <2>4 DEF InboxInv
<1>16. CASE Accepts(p)
  <2>1. PICK i \in Slots : IsFirstFree(i) /\ ready_queue' = [ready_queue EXCEPT ![i] = q]
    BY <1>9, <1>16
  <2>2. /\ phase' = "ingest"
        /\ users' = users \cup (IF Decoded(d) THEN {d.serial} ELSE {})
    BY <1>1, <1>16 DEF Enqueue
  <2>3. /\ i \notin Occupied
        /\ \A j \in Slots : j < i => j \in Occupied
    BY <2>1 DEF IsFirstFree, Slots
  <2>4. /\ Occupied' = Occupied \cup {i}
        /\ ready_queue'[i] = q
        /\ \A j \in Occupied : ready_queue'[j] = ready_queue[j]
    BY <1>5, <1>6, <2>1, <2>3 DEF QueueOK, Occupied
  <2>5. q.body.serial = d.serial /\ q.body.wire = WireOf(d)
    BY <1>6 DEF Body
  <2>6. QueuedOK'
    BY <1>1, <1>2, <1>6, <1>12, <1>13, <1>14, <1>16, <2>4 DEF QueuedOK, Belongs
  <2>7. QueuedBeforeWaiting'
    <3>1. \A j \in Occupied' :
            \/ j \in Occupied /\ ready_queue'[j] = ready_queue[j]
            \/ j = i /\ ready_queue'[j].body.serial = d.serial
      BY <2>4, <2>5
    <3>2. \A j \in Occupied' : ready_queue'[j].body.serial \in 0 .. arrived' - 1
      BY <1>1, <1>2, <3>1 DEF InboxInv, QueuedBeforeWaiting
    <3>3. \A j \in Occupied : ready_queue[j].body.serial # d.serial
      BY <1>2, <1>3 DEF InboxInv, QueuedBeforeWaiting
    <3>4. \A j, k \in Occupied' :
            ready_queue'[j].body.serial = ready_queue'[k].body.serial => j = k
      BY <3>1, <3>3 DEF InboxInv, QueuedBeforeWaiting
    <3>5. \A j \in Occupied', k \in DOMAIN ring' : ready_queue'[j].body.serial < ring'[k].serial
      BY <1>2, <1>11, <3>1
    <3>6. \A j \in Occupied', k \in DOMAIN socket' :
            ready_queue'[j].body.serial < socket'[k].serial
      BY <1>1, <1>2, <3>1 DEF InboxInv, QueuedBeforeWaiting
    <3> QED
      BY <3>2, <3>4, <3>5, <3>6 DEF QueuedBeforeWaiting
  <2>8. UsersAreQueued'
    <3>1. Decoded(d) <=> WireOf(d) # RawWire
      BY <1>2, TrafficHasSender
    <3>2. \A n : n \in users <=>
            \E j \in Occupied : /\ ready_queue[j].body.wire # RawWire
                                /\ ready_queue[j].body.serial = n
      BY DEF InboxInv, UsersAreQueued
    <3>3. \A n : n \in users' <=>
            \E j \in Occupied' : /\ ready_queue'[j].body.wire # RawWire
                                 /\ ready_queue'[j].body.serial = n
      BY <2>2, <2>4, <2>5, <3>1, <3>2
    <3>4. users' = {b.serial : b \in {c \in {ready_queue'[j].body : j \in Occupied'} :
                                        c.wire # RawWire}}
      BY <3>3
    <3> QED
      BY <3>4 DEF UsersAreQueued
  <2>9. WholeInOrder'
    <3>1. \A j \in WholeSlots' : j = i \/ j \in WholeSlots
      BY <2>4 DEF WholeSlots, Multi
    <3>2. \A j \in WholeSlots : j \in Occupied /\ j < i
      <4>1. \A j \in WholeSlots : j \in Occupied /\ ~ (i < j)
        BY <1>1, <2>3 DEF InboxInv, WholeInOrder, WholeSlots
      <4> QED
        BY <2>3, <4>1 DEF Occupied, Slots
    <3>3. \A j, k \in WholeSlots' :
            j < k => ready_queue'[j].body.serial < ready_queue'[k].body.serial
      <4>1. \A j, k \in WholeSlots' : j < k => j \in WholeSlots
        BY <3>1, <3>2 DEF WholeSlots, Occupied, Slots
      <4> QED
        BY <1>2, <2>4, <2>5, <3>1, <3>2, <4>1 DEF InboxInv, WholeInOrder
    <3>4. \A j \in WholeSlots', k \in Slots : k < j => k \in Occupied'
      BY <1>1, <2>3, <2>4, <3>1 DEF InboxInv, WholeInOrder
    <3> QED
      BY <2>2, <3>3, <3>4 DEF WholeInOrder
  <2> QED
    BY <1>8, <1>10, <1>11, <2>6, <2>7, <2>8, <2>9 DEF InboxInv
<1> QED
  BY <1>15, <1>16

\* The unit of a session that is there, or of one made for it.
LEMMA AdmitPreserves ==
  ASSUME InboxInv, AdmitToSession \/ AdmitToNewSession
  PROVE  InboxInv'
<1> DEFINE d == Head(ring)
<1>1. TakeFromRing
  BY DEF AdmitToSession, AdmitToNewSession
<1>2. SenderOK(UnitOf(d), ControlAfter(d))
  BY <1>1, HeadIsNext, TrafficHasSender
<1>3. now \in Nat /\ SessionsOK /\ next_session_id \in Nat
  BY DEF InboxInv, TrafficOK, SessionsOK, SessionTypeOK
<1>4. CASE AdmitToSession
  <2>1. PICK id \in SessionIds :
          RefreshSession(UnitOf(d), ControlAfter(d), now, id) /\ Enqueue(d, id)
    BY <1>4 DEF AdmitToSession
  <2>2. next_session_id' = next_session_id
    BY <2>1 DEF RefreshSession
  <2>3. /\ SessionsOK'
        /\ SessionsStay(now)
        /\ SessionOf(UnitOf(d), now, id)
        /\ id < next_session_id
    BY <1>2, <1>3, <2>1, RefreshedSessions
  <2> QED
    BY <1>1, <1>3, <2>1, <2>2, <2>3, EnqueuePreserves
<1>5. CASE AdmitToNewSession
  <2>1. PICK id \in SessionIds :
          CreateSession(UnitOf(d), ControlAfter(d), now, id) /\ Enqueue(d, id)
    BY <1>5 DEF AdmitToNewSession
  <2>2. /\ SessionsOK'
        /\ SessionsStay(now)
        /\ SessionOf(UnitOf(d), now, id)
        /\ id = next_session_id
        /\ next_session_id' = id + 1
    BY <1>2, <1>3, <2>1, CreatedSession
  <2>3. id < next_session_id' /\ next_session_id <= next_session_id'
    BY <1>3, <2>2
  <2> QED
    BY <1>1, <2>1, <2>2, <2>3, EnqueuePreserves
<1> QED
  BY <1>4, <1>5

-----------------------------------------------------------------------------

\* Every step of the inbox and of the loop around it preserves the invariant.
LEMMA NextPreservesInboxInv ==
  ASSUME InboxInv, [Next]_vars
  PROVE  InboxInv'
<1>1. ASSUME NEW d \in Datagrams, Arrive(d) PROVE InboxInv'
  BY <1>1, ArrivePreserves
<1>2. CASE Tick
  BY <1>2, TickPreserves
<1>3. CASE PumpStart
  BY <1>3, PumpStartPreserves
<1>4. CASE ReadSocket
  BY <1>4, ReadSocketPreserves
<1>5. CASE SkipDatagram \/ RefuseDatagram
  BY <1>5, DiscardPreserves DEF SkipDatagram, RefuseDatagram
<1>6. CASE AdmitToSession \/ AdmitToNewSession
  BY <1>6, AdmitPreserves
<1>7. CASE PumpEnd
  BY <1>7, PumpEndPreserves
<1>8. ASSUME NEW i \in Slots, HandOver(i) PROVE InboxInv'
  BY <1>8, HandOverPreserves
<1>9. CASE DrainEnd
  BY <1>9, DrainEndPreserves
<1>10. CASE Replace
  BY <1>10, ReplacePreserves
<1>11. CASE UNCHANGED vars
  <2>1. UNCHANGED <<streamVars, sessionVars, socket, ring, session_by_client, users,
                    phase, arrived, now>>
    BY <1>11 DEF vars, inboxVars
  <2>2. QueueOK' /\ TrackersOK' /\ Occupied' = Occupied /\ WholeSlots' = WholeSlots
        /\ ready_queue' = ready_queue /\ session_trackers' = session_trackers
    BY <2>1, StreamsUnchanged DEF InboxInv
  <2>3. SessionsOK' /\ sessions' = sessions /\ next_session_id' = next_session_id
    BY <2>1, SessionsUnchanged DEF InboxInv
  <2>4. NewSessionsUntracked' /\ TrafficOK' /\ WaitInOrder'
    BY <2>1, <2>2, <2>3 DEF InboxInv, NewSessionsUntracked, TrafficOK, WaitInOrder
  <2>5. QueuedOK'
    BY <2>1, <2>2, <2>3, QueuedKeepSessions DEF InboxInv, SlotsCleared, TrafficOK
  <2>6. QueuedBeforeWaiting' /\ UsersAreQueued' /\ WholeInOrder'
    BY <2>1, <2>2 DEF InboxInv, QueuedBeforeWaiting, UsersAreQueued, WholeInOrder
  <2> QED
    BY <2>2, <2>3, <2>4, <2>5, <2>6 DEF InboxInv
<1> QED
  BY <1>1, <1>2, <1>3, <1>4, <1>5, <1>6, <1>7, <1>8, <1>9, <1>10, <1>11 DEF Next, Loop

\* The invariant of the inbox holds in every reachable state, whatever arrives
\* between any two steps.
THEOREM InboxInvariance == Spec => []InboxInv
<1>1. Init => InboxInv
  BY InitEstablishesInboxInv
<1>2. InboxInv /\ [Next]_vars => InboxInv'
  BY NextPreservesInboxInv
<1> QED
  BY <1>1, <1>2, PTL DEF Spec

\* The bounds of ring, slots, sessions and trackers, and the types of what they
\* hold.
THEOREM InboxTypes == Spec => []TypeOK
<1>1. InboxInv => TypeOK
  <2> SUFFICES ASSUME InboxInv PROVE TypeOK
    OBVIOUS
  <2>1. StreamTypeOK
    BY OccupiedFinite DEF InboxInv, QueueOK, TrackersOK, IdsInRange, StreamTypeOK,
       CountMatchesQueue
  <2>2. users \subseteq 0 .. MaxArrivals - 1
    <3>1. arrived \in 0 .. MaxArrivals /\ MaxArrivals \in Nat
      BY TrafficAssumption DEF InboxInv, TrafficOK
    <3>2. \A i \in Occupied : ready_queue[i].body.serial \in 0 .. MaxArrivals - 1
      BY <3>1 DEF InboxInv, QueuedBeforeWaiting
    <3> QED
      BY <3>2 DEF InboxInv, UsersAreQueued
  <2> QED
    BY <2>1, <2>2 DEF InboxInv, SessionsOK, TrafficOK, TypeOK
<1> QED
  BY <1>1, InboxInvariance, PTL

\* m7mux_session_ingest never finds two sessions for one sender, nor one id for
\* two sessions.
THEOREM SessionsApart == Spec => []SessionsDistinct
<1>1. InboxInv => SessionsDistinct
  BY DEF InboxInv, SessionsOK
<1> QED
  BY <1>1, InboxInvariance, PTL

\* session.c and inbox.c: no packet is queued without its session, or in one that the
\* lookup it came by would not find: its sender's address, or for codec v4 the session
\* id its client chose, whichever sender chose it last.
THEOREM PacketsBelong == Spec => []QueuedBelongToSession
<1>1. InboxInv => QueuedBelongToSession
  BY DEF InboxInv, QueuedOK, Belongs, QueuedBelongToSession
<1> QED
  BY <1>1, InboxInvariance, PTL

\* The stream layer has no tracker of a session that is still to come.
THEOREM FreshSessionsUntracked == Spec => []NewSessionsUntracked
<1>1. InboxInv => NewSessionsUntracked
  BY DEF InboxInv
<1> QED
  BY <1>1, InboxInvariance, PTL

\* User data is freed with its packet, once, on each of the paths it leaves by.
THEOREM UserDataOwned == Spec => []UsersAreQueued
<1>1. InboxInv => UsersAreQueued
  BY DEF InboxInv
<1> QED
  BY <1>1, InboxInvariance, PTL

\* A step that hands over i takes the lowest slot that is ready.
LEMMA HandOverTakesLowest ==
  ASSUME InboxInv, [Next]_vars, NEW i \in Occupied, phase = "drain", HandedOver(i)
  PROVE  i \in Ready /\ \A j \in Ready : i <= j
<1>1. ready_queue' # ready_queue
  BY DEF HandedOver
<1>2. ~ UNCHANGED vars
  BY <1>1 DEF vars, streamVars
<1>3. PICK k \in Slots : HandOver(k)
  BY <1>1, <1>2 DEF Next, Loop, Arrive, Tick, PumpStart, ReadSocket, SkipDatagram,
     RefuseDatagram, AdmitToSession, AdmitToNewSession, TakeFromRing, PumpEnd, DrainEnd,
     Replace, streamVars
<1>4. /\ Occupied' = Occupied \ {k}
      /\ k \in Ready /\ \A j \in Ready : k <= j
  BY <1>3, DrainShape DEF HandOver, InboxInv
<1>5. i \notin Occupied'
  BY DEF HandedOver, Occupied
<1> QED
  BY <1>4, <1>5

\* app_daemon_run hands over the packets of one part in the order in which they
\* arrived, although drain looks at slot numbers only.
THEOREM HandoverInOrder == Spec => HandoverInArrivalOrder
<1> DEFINE A == \A i, j \in Occupied :
                  /\ phase = "drain"
                  /\ HandedOver(i)
                  /\ j \in Ready
                  /\ StreamKey(ready_queue[i]) = StreamKey(ready_queue[j])
                  /\ ~ Multi(ready_queue[i])
                  /\ ~ Multi(ready_queue[j])
                  => ready_queue[i].body.serial <= ready_queue[j].body.serial
<1>1. ASSUME InboxInv, [Next]_vars PROVE [A]_vars
  <2> SUFFICES ASSUME NEW i \in Occupied, NEW j \in Occupied,
                      phase = "drain", HandedOver(i), j \in Ready,
                      ~ Multi(ready_queue[i]), ~ Multi(ready_queue[j])
               PROVE  ready_queue[i].body.serial <= ready_queue[j].body.serial
    OBVIOUS
  <2>1. i <= j
    BY <1>1, HandOverTakesLowest
  <2>2. i \in Ready
    BY <1>1, HandOverTakesLowest
  <2>3. i \in WholeSlots /\ j \in WholeSlots
    BY <2>2 DEF WholeSlots, Ready, Deliverable
  <2>4. \A k \in Occupied : ready_queue[k].body.serial \in Int
    BY <1>1, TrafficAssumption DEF InboxInv, QueuedBeforeWaiting, TrafficOK
  <2> QED
    BY <1>1, <2>1, <2>3, <2>4 DEF InboxInv, WholeInOrder, Occupied, Slots
<1>2. Spec => [][A]_vars
  BY <1>1, InboxInvariance, PTL DEF Spec
<1> QED
  BY <1>2 DEF HandoverInArrivalOrder
=============================================================================
