------------------------------ MODULE MuxSession ------------------------------
(***************************************************************************)
(* The session layer of the mux (session.c): a fixed array that maps what  *)
(* a datagram says about its sender to a session id of the server.         *)
(*                                                                         *)
(* wire stands for the pair of wire version and wire form.  Left out: the  *)
(* sender's port and its encryption mark, which a session only stores, and *)
(* session_count, which nothing reads.                                     *)
(***************************************************************************)
EXTENDS Integers

CONSTANTS
  Wires,             \* kinds of codec; RawWire is the absence of one
  RawWire,
  Ips,
  SessionCapacity,   \* M7MUX_SESSION_SESSION_CAPACITY
  SessionTimeoutMs,  \* M7MUX_SESSION_SESSION_TIMEOUT_MS
  NoSession          \* a slot that is not active

SessionSlots == 0 .. (SessionCapacity - 1)

Session == [session_id        : Nat \ {0},
            client_session_id : Nat,
            wire              : Wires,
            ip                : Ips,
            expires_at_ms     : Nat]

ASSUME SessionAssumption ==
  /\ RawWire \in Wires
  /\ SessionCapacity \in Nat \ {0}
  /\ SessionTimeoutMs \in Nat \ {0}
  /\ NoSession \notin Session

VARIABLES
  sessions,          \* slot -> session, or NoSession
  next_session_id

sessionVars == <<sessions, next_session_id>>

-----------------------------------------------------------------------------
(* Lookups.  A unit u is what normalize made of a datagram; byClient says   *)
(* that its session id was chosen by the client.                            *)

Active == {j \in SessionSlots : sessions[j] # NoSession}

BySession(id) == {j \in Active : id # 0 /\ sessions[j].session_id = id}

ByClientSession(id, wire) ==
  {j \in Active : /\ id # 0
                  /\ sessions[j].client_session_id = id
                  /\ sessions[j].wire = wire}

\* Mutant of RawByIp: any raw session will do.
RawByAnyIp(ip) == {j \in Active : sessions[j].wire = RawWire}

RawByIp(ip) == {j \in Active : sessions[j].wire = RawWire /\ sessions[j].ip = ip}

\* The lookup by id, by the one kind of id the unit has.
ById(u, byClient) ==
  IF byClient THEN ByClientSession(u.session_id, u.wire) ELSE BySession(u.session_id)

\* Mutant of Known: no lookup by address.
KnownById(u, byClient) == ById(u, byClient)

\* A raw datagram carries no id: its address stands for one.
Known(u, byClient) ==
  IF ById(u, byClient) = {} /\ u.wire = RawWire THEN RawByIp(u.ip)
                                                ELSE ById(u, byClient)

FirstOf(j, S) == j \in S /\ \A k \in S : j <= k

-----------------------------------------------------------------------------
(* m7mux_session_ingest at time t; id is the server's id of the session *)

RefreshSession(u, byClient, t, id) ==
  \E j \in SessionSlots :
    /\ FirstOf(j, Known(u, byClient))
    /\ id = sessions[j].session_id
    /\ sessions' = [sessions EXCEPT ![j].wire = u.wire,
                                    ![j].ip = u.ip,
                                    ![j].expires_at_ms = t + SessionTimeoutMs]
    /\ UNCHANGED next_session_id

NewSession(u, byClient, t, id) ==
  [session_id        |-> id,
   client_session_id |-> IF ~ byClient THEN 0
                         ELSE IF u.session_id # 0 THEN u.session_id ELSE id,
   wire              |-> u.wire,
   ip                |-> u.ip,
   expires_at_ms     |-> t + SessionTimeoutMs]

CreateSession(u, byClient, t, id) ==
  /\ Known(u, byClient) = {}
  /\ id = IF byClient \/ u.session_id = 0 THEN next_session_id ELSE u.session_id
  /\ \E j \in SessionSlots :
       /\ FirstOf(j, SessionSlots \ Active)
       /\ sessions' = [sessions EXCEPT ![j] = NewSession(u, byClient, t, id)]
  /\ next_session_id' = IF id >= next_session_id THEN id + 1 ELSE next_session_id

\* Every slot is taken: the datagram gets no session.
NoSessionFor(u, byClient) ==
  /\ Known(u, byClient) = {}
  /\ Active = SessionSlots

-----------------------------------------------------------------------------
(* m7mux_session_expire and m7mux_session_state_reset *)

TimedOut(t) == {j \in Active : sessions[j].expires_at_ms # 0 /\ sessions[j].expires_at_ms <= t}

\* Mutant of ExpireSessions: numbering starts over when no session is left.
ExpireAndRenumber(t) ==
  /\ sessions' = [j \in SessionSlots |-> IF j \in TimedOut(t) THEN NoSession ELSE sessions[j]]
  /\ next_session_id' = IF TimedOut(t) = Active THEN 1 ELSE next_session_id

ExpireSessions(t) ==
  /\ sessions' = [j \in SessionSlots |-> IF j \in TimedOut(t) THEN NoSession ELSE sessions[j]]
  /\ UNCHANGED next_session_id

SessionInit ==
  /\ sessions = [j \in SessionSlots |-> NoSession]
  /\ next_session_id = 1

ResetSessions ==
  /\ sessions' = [j \in SessionSlots |-> NoSession]
  /\ next_session_id' = 1

-----------------------------------------------------------------------------

\* Sessions are in their array with the fields session.h declares.
SessionTypeOK ==
  /\ sessions \in [SessionSlots -> Session \cup {NoSession}]
  /\ next_session_id \in Nat \ {0}

\* Every way into a session is unambiguous: no two active sessions have the
\* same server id, the same client id under one codec, or, both raw, the same
\* address, although slots are freed and reused in any order.
SessionsDistinct ==
  \A j, k \in Active :
    \/ sessions[j].session_id = sessions[k].session_id
    \/ /\ sessions[j].wire = sessions[k].wire
       /\ sessions[j].client_session_id = sessions[k].client_session_id
       /\ sessions[j].client_session_id # 0
    \/ /\ sessions[j].wire = RawWire
       /\ sessions[k].wire = RawWire
       /\ sessions[j].ip = sessions[k].ip
    => j = k
=============================================================================
