------------------------------- MODULE MuxInbox -------------------------------
(***************************************************************************)
(* The receiving side of the mux as the daemon runs it: the socket, the    *)
(* ingress ring (ingress.c), normalize (normalize.c), sessions, streams,   *)
(* and the loop of app_daemon_run that pumps the inbox and then drains     *)
(* everything deliverable (inbox.c, runner.c).  One thread runs the loop;  *)
(* datagrams arrive and time passes between any two of its steps.          *)
(*                                                                         *)
(* normalize is modelled by the kinds of datagrams the codecs tell apart:  *)
(*   "raw"        no codec wants it, or its codec fails to decode it       *)
(*   "oversize"   likewise, and it is longer than a packet's raw bytes     *)
(*   "single"     codecs v1 to v3: no session, stream or message id        *)
(*   "tuple"      codec v4: ids and fragment numbers chosen by the client  *)
(*   "undecoded"  codec v4 recognizes it and cannot decrypt it             *)
(* Adapter-owned user data is the set of datagrams whose data is allocated.*)
(***************************************************************************)
EXTENDS MuxStream, MuxSession, Sequences

CONSTANTS
  Datagrams,      \* what can arrive
  Secure,         \* the listening server's secure flag when the mux was made
  RingCapacity,   \* M7MUX_INGRESS_QUEUE_CAPACITY
  SocketCapacity, \* bound: datagrams that fit the socket's buffer
  MaxArrivals,    \* bound: datagrams that arrive in a behaviour
  LastTime        \* bound: the clock stops here

VARIABLES
  socket,         \* datagrams the kernel holds
  ring,           \* the ingress queue
  session_by_client,  \* the control record of the running pump
  users,          \* serials of datagrams whose user data is allocated
  phase,          \* where the loop is: "pump", "read", "ingest" or "drain"
  arrived,        \* how many datagrams arrived: the next serial
  now

inboxVars == <<socket, ring, session_by_client, users, phase>>
vars == <<streamVars, sessionVars, inboxVars, arrived, now>>

ASSUME InboxAssumption ==
  /\ Secure \in BOOLEAN
  /\ RingCapacity \in Nat \ {0}
  /\ ExpireAfterMs <= SessionTimeoutMs

-----------------------------------------------------------------------------
(* m7mux_normalize_packet *)

Decoded(d) == d.kind \in {"single", "tuple"}

\* The mux policy the daemon set: only encrypted units, or only plain ones.
EncryptionAllowed(d) == d.encrypted = Secure

Normalizes(d) ==
  /\ d.kind # "oversize"
  /\ Decoded(d) => EncryptionAllowed(d)

\* The codec of v4 marks the session as the client's before it decodes, and
\* nothing takes the mark back before the pump ends.
ControlAfter(d) == session_by_client \/ d.kind \in {"tuple", "undecoded"}

WireOf(d) == IF Decoded(d) THEN d.kind ELSE RawWire

UnitOf(d) ==
  [wire       |-> WireOf(d),
   ip         |-> d.ip,
   session_id |-> IF d.kind = "tuple" THEN d.session_id ELSE 0]

Body(d) == [serial |-> d.serial, wire |-> WireOf(d), ip |-> d.ip,
            client |-> UnitOf(d).session_id]

\* What the codecs can make of traffic.  A client of v4 names a session of its
\* own: the knocker always says 1.
Kinds     == {"raw", "oversize", "single", "tuple", "undecoded"}
ClientIds == {d.session_id : d \in Datagrams}

Traffic == [kind           : Kinds,
            ip             : Ips,
            session_id     : ClientIds,
            stream_id      : StreamIds,
            message_id     : MessageIds,
            fragment_index : Nat,
            fragment_count : Nat,
            encrypted      : BOOLEAN,
            serial         : Nat,
            received_ms    : Nat]

ASSUME TrafficAssumption ==
  /\ Wires = {RawWire, "single", "tuple"}
  /\ RawWire \notin {"single", "tuple"}
  /\ Datagrams \subseteq Traffic
  /\ ClientIds \subseteq Nat
  /\ \A d \in Datagrams : d.kind = "tuple" => d.session_id # 0
  /\ SocketCapacity \in Nat
  /\ MaxArrivals \in Nat
  /\ [serial : 0 .. MaxArrivals - 1, wire : Wires, ip : Ips, client : ClientIds \cup {0}]
       \subseteq Bodies

PacketOf(d, id) ==
  [session_id     |-> id,
   stream_id      |-> CASE d.kind = "tuple"  -> d.stream_id
                        [] d.kind = "single" -> 0
                        [] OTHER             -> 1,
   message_id     |-> IF d.kind = "tuple" THEN d.message_id ELSE 0,
   fragment_index |-> IF d.kind = "tuple" THEN d.fragment_index ELSE 0,
   fragment_count |-> CASE d.kind = "tuple"  -> d.fragment_count
                        [] d.kind = "single" -> 1
                        [] OTHER             -> 0,
   received_ms    |-> d.received_ms,
   body           |-> Body(d)]

-----------------------------------------------------------------------------

Init ==
  /\ StreamInit
  /\ SessionInit
  /\ socket = <<>>
  /\ ring = <<>>
  /\ session_by_client = FALSE
  /\ users = {}
  /\ phase = "pump"
  /\ arrived = 0
  /\ now = 1

\* A datagram reaches the socket, whatever the loop is doing.
Arrive(d) ==
  /\ arrived < MaxArrivals
  /\ Len(socket) < SocketCapacity
  /\ socket' = Append(socket, [d EXCEPT !.serial = arrived])
  /\ arrived' = arrived + 1
  /\ UNCHANGED <<streamVars, sessionVars, ring, session_by_client, users, phase, now>>

Tick ==
  /\ now < LastTime
  /\ now' = now + 1
  /\ UNCHANGED <<streamVars, sessionVars, inboxVars, arrived>>

SerialsAt(S) == {ready_queue[i].body.serial : i \in S}

ReadCount == IF Len(socket) < RingCapacity THEN Len(socket) ELSE RingCapacity

\* The start of m7mux_inbox_pump: expire at the time read there.
PumpStart ==
  /\ phase = "pump"
  /\ phase' = "read"
  /\ session_by_client' = FALSE
  /\ ExpireSessions(now)
  /\ Expire(now)
  /\ users' = users \ SerialsAt(Stale(now))
  /\ UNCHANGED <<socket, ring, arrived, now>>

\* Mutant of ReadSocket: a ring that was not emptied counts as nothing read.
ReadSocketOrLeave ==
  /\ phase = "read"
  /\ phase' = IF ring = <<>> THEN "ingest" ELSE "drain"
  /\ IF ring = <<>>
     THEN /\ ring' = [n \in 1 .. ReadCount |-> [socket[n] EXCEPT !.received_ms = now]]
          /\ socket' = SubSeq(socket, ReadCount + 1, Len(socket))
     ELSE UNCHANGED <<ring, socket>>
  /\ UNCHANGED <<streamVars, sessionVars, session_by_client, users, arrived, now>>

\* m7mux_ingress_pump waits, then reads the socket, unless an earlier pump left
\* datagrams in the ring.
ReadSocket ==
  /\ phase = "read"
  /\ phase' = "ingest"
  /\ IF ring = <<>>
     THEN /\ ring' = [n \in 1 .. ReadCount |-> [socket[n] EXCEPT !.received_ms = now]]
          /\ socket' = SubSeq(socket, ReadCount + 1, Len(socket))
     ELSE UNCHANGED <<ring, socket>>
  /\ UNCHANGED <<streamVars, sessionVars, session_by_client, users, arrived, now>>

\* The datagram at the head of the ring, in the loop of m7mux_inbox_pump.
TakeFromRing ==
  /\ phase = "ingest"
  /\ ring # <<>>
  /\ ring' = Tail(ring)
  /\ session_by_client' = ControlAfter(Head(ring))
  /\ UNCHANGED <<socket, arrived, now>>

SkipDatagram ==
  /\ TakeFromRing
  /\ ~ Normalizes(Head(ring))
  /\ UNCHANGED <<streamVars, sessionVars, users, phase>>

\* No session: the pump is over, whatever the ring still holds.
RefuseDatagram ==
  /\ TakeFromRing
  /\ Normalizes(Head(ring))
  /\ NoSessionFor(UnitOf(Head(ring)), ControlAfter(Head(ring)))
  /\ phase' = "drain"
  /\ UNCHANGED <<streamVars, sessionVars, users>>

\* Mutant of Enqueue: the user data of a refused packet is not freed.
EnqueueUnreleased(d, id) ==
  /\ Ingest(PacketOf(d, id))
  /\ phase' = IF Accepts(PacketOf(d, id)) THEN phase ELSE "drain"
  /\ users' = users \cup (IF Decoded(d) THEN {d.serial} ELSE {})

\* The stream layer gets the unit under the id of its session; a refusal also
\* ends the pump.
Enqueue(d, id) ==
  /\ Ingest(PacketOf(d, id))
  /\ IF Accepts(PacketOf(d, id))
     THEN /\ users' = users \cup (IF Decoded(d) THEN {d.serial} ELSE {})
          /\ UNCHANGED phase
     ELSE /\ phase' = "drain"
          /\ UNCHANGED users

AdmitToSession ==
  LET d == Head(ring)
  IN  /\ TakeFromRing
      /\ Normalizes(d)
      /\ \E id \in SessionIds :
           RefreshSession(UnitOf(d), ControlAfter(d), now, id) /\ Enqueue(d, id)

AdmitToNewSession ==
  LET d == Head(ring)
  IN  /\ TakeFromRing
      /\ Normalizes(d)
      /\ \E id \in SessionIds :
           CreateSession(UnitOf(d), ControlAfter(d), now, id) /\ Enqueue(d, id)

\* The ring is empty: expire again and leave the pump.
PumpEnd ==
  /\ phase = "ingest"
  /\ ring = <<>>
  /\ phase' = "drain"
  /\ Expire(now)
  /\ users' = users \ SerialsAt(Stale(now))
  /\ UNCHANGED <<sessionVars, socket, ring, session_by_client, arrived, now>>

\* One turn of the loop of app_daemon_run that hands packets to the jobs.
HandOver(i) ==
  /\ phase = "drain"
  /\ HasPending
  /\ DrainSlot(i)
  /\ users' = users \ {ready_queue[i].body.serial}
  /\ UNCHANGED <<sessionVars, socket, ring, session_by_client, phase, arrived, now>>

\* Mutant of DrainEnd: the loop takes what it likes and pumps again.
DrainEndEarly ==
  /\ phase = "drain"
  /\ phase' = "pump"
  /\ UNCHANGED <<streamVars, sessionVars, socket, ring, session_by_client, users,
                 arrived, now>>

DrainEnd ==
  /\ phase = "drain"
  /\ ~ HasPending \/ Ready = {}
  /\ phase' = "pump"
  /\ UNCHANGED <<streamVars, sessionVars, socket, ring, session_by_client, users,
                 arrived, now>>

\* The listener has another socket: the daemon makes a new mux for it.
Replace ==
  /\ phase = "pump"
  /\ Reset
  /\ ResetSessions
  /\ socket' = <<>>
  /\ ring' = <<>>
  /\ users' = {}
  /\ UNCHANGED <<session_by_client, phase, arrived, now>>

Loop ==
  \/ PumpStart
  \/ ReadSocket
  \/ SkipDatagram
  \/ RefuseDatagram
  \/ AdmitToSession
  \/ AdmitToNewSession
  \/ PumpEnd
  \/ \E i \in Slots : HandOver(i)
  \/ DrainEnd

Next ==
  \/ \E d \in Datagrams : Arrive(d)
  \/ Tick
  \/ Loop
  \/ Replace

Spec == Init /\ [][Next]_vars

\* The loop of app_daemon_run runs until the daemon is told to stop: it always has a
\* next step and its waits are bounded, so it takes steps for ever.  And time passes.
FairSpec == Spec /\ []<><<Loop>>_vars /\ WF_vars(Tick)

-----------------------------------------------------------------------------

TypeOK ==
  /\ StreamTypeOK
  /\ SessionTypeOK
  /\ Len(socket) <= SocketCapacity
  /\ Len(ring) <= RingCapacity
  /\ session_by_client \in BOOLEAN
  /\ users \subseteq 0 .. MaxArrivals - 1
  /\ phase \in {"pump", "read", "ingest", "drain"}

\* Every queued packet belongs to a session that is still active, that is of its
\* codec, and that it was looked up by: the sender's address, or, for codec v4, the
\* session id the client chose.  The first part rests on the timeouts of session.c and
\* stream.c and on the order in which inbox.c expires them; the last on the lookups of
\* session.c, with the control record m7mux_inbox_pump carries from one datagram to
\* the next.  What the lookup of v4 leaves out is left out here: senders that choose
\* one id share a session and its address is that of the last one, whose packets are
\* queued or not.
LookedUpBy(s, b) ==
  /\ s.wire = b.wire
  /\ b.wire # "tuple" => s.ip = b.ip
  /\ b.wire = "tuple" => s.client_session_id = b.client

QueuedBelongToSession ==
  \A i \in Occupied :
    \E j \in Active :
      /\ sessions[j].session_id = ready_queue[i].session_id
      /\ LookedUpBy(sessions[j], ready_queue[i].body)

\* A new session starts with fresh streams: the stream layer, which keeps the
\* trackers of sessions that timed out, has none for an id that is still to be
\* handed out.
NewSessionsUntracked == \A s \in DOMAIN session_trackers : s < next_session_id

\* The user data a codec allocated is freed exactly when its packet leaves the
\* queue: drained, expired, refused by either layer or reset with the mux.
UsersAreQueued ==
  users = {b.serial : b \in {c \in {ready_queue[i].body : i \in Occupied} : c.wire # RawWire}}

\* Packets of one part are handed over in the order in which they arrived, as
\* far as a session and a stream go, though drain only looks at slot numbers:
\* the daemon drains all it can before it pumps again, after an aborted pump
\* too.
HandedOver(i) == ready_queue[i] # Empty /\ ready_queue'[i] = Empty

HandoverInArrivalOrder ==
  [][\A i, j \in Occupied :
       /\ phase = "drain"
       /\ HandedOver(i)
       /\ j \in Ready
       /\ StreamKey(ready_queue[i]) = StreamKey(ready_queue[j])
       /\ ~ Multi(ready_queue[i])
       /\ ~ Multi(ready_queue[j])
       => ready_queue[i].body.serial <= ready_queue[j].body.serial]_vars

\* Every datagram that reached the socket is looked at, whatever aborts the pumps
\* before it: when no more come, none is left in the ring or the socket.
Backlog == socket # <<>> \/ ring # <<>>

ArrivalsAreTaken == Backlog ~> ~ Backlog

\* The comment of m7mux_session_ingest: the session made for a single packet is
\* "later cleaned up".  What the stream layer keeps for a session goes with it.
SessionIsCleanedUp ==
  \A s \in SessionIds :
    s \in DOMAIN session_trackers /\ (\A j \in Active : sessions[j].session_id # s)
      ~> s \notin DOMAIN session_trackers
=============================================================================
