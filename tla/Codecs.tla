-------------------------------- MODULE Codecs --------------------------------
(***************************************************************************)
(* The four wire codecs (shared/knock/codec) as the mux uses them: what it *)
(* takes to encode a packet, into how many datagrams, and what becomes of  *)
(* a datagram on its way in (normalize.c).                                 *)
(*                                                                         *)
(* Cryptography is symbolic.  A datagram sealed for a key pair opens with  *)
(* that key pair; a signature names its key and what it was made of; bytes *)
(* that do not open or do not parse are Opaque.  Field layouts are left    *)
(* out.                                                                    *)
(***************************************************************************)
EXTENDS Integers, Sequences

CONSTANTS
  PayloadMax,       \* bytes of payload a datagram of each version has room for
  UserPayloadMax,   \* M7MUX_USER_DATA_PAYLOAD_MAX
  EgressCapacity,   \* M7MUX_EGRESS_QUEUE_CAPACITY
  NoKey             \* a key that is NULL; as a seal, no encryption

Versions == 1 .. 4

ASSUME CodecsAssumption ==
  /\ PayloadMax \in [Versions -> Nat \ {0}]
  /\ UserPayloadMax \in Nat
  /\ EgressCapacity \in Nat \ {0}
  \* 199 bytes of user data, in 512 of v4
  /\ UserPayloadMax <= PayloadMax[4]

\* What no prefix of a dead drop matches: bytes of a structured datagram.
Opaque == <<-1>>

-----------------------------------------------------------------------------
(* Fragments of a payload of length len, as codec v4 cuts it *)

Required(len) ==
  IF len = 0 THEN 1
  ELSE len \div PayloadMax[4] + (IF len % PayloadMax[4] = 0 THEN 0 ELSE 1)

\* How many datagrams the outbox makes of a packet; 0 refuses it.  Only v4 cuts a
\* payload, and it is forced to a count or finds its own.
FragmentCount(v, len, forced) ==
  CASE forced > 1 -> IF v = 4 /\ forced >= Required(len) THEN forced ELSE 0
    [] forced <= 1 /\ v = 4 -> Required(len)
    [] OTHER -> IF len <= PayloadMax[v] THEN 1 ELSE 0

FragmentLength(len, count, i) ==
  len \div count + (IF i < len % count THEN 1 ELSE 0)

\* Mutant of FragmentOffset: the longer fragments before this one are forgotten.
FragmentOffsetEven(len, count, i) == i * (len \div count)

FragmentOffset(len, count, i) ==
  i * (len \div count) + (IF i < len % count THEN i ELSE len % count)

FragmentBody(body, count, i) ==
  LET offset == FragmentOffset(Len(body), count, i)
  IN  SubSeq(body, offset + 1, offset + FragmentLength(Len(body), count, i))

-----------------------------------------------------------------------------
(* Units: what a datagram says.  Those of version 0 are raw bytes. *)

NoSignature == [key |-> NoKey, of |-> <<>>]

Unit(v, user, action, challenge, body, sig) ==
  [version |-> v, user |-> user, action |-> action, challenge |-> challenge,
   body |-> body, sig |-> sig, index |-> 0, count |-> 1]

RawUnit(body) == Unit(0, 0, 0, 0, body, NoSignature)

\* Every version has its own digest, and none covers the fragment's place.
Digest(v, u) == <<v, u.version, u.user, u.action, u.challenge, u.body>>

Signature(v, u, key) == [key |-> key, of |-> Digest(v, u)]

ValidSignature(v, u, key) == key # NoKey /\ u.sig = Signature(v, u, key)

\* v3 and v4 seal whatever they are told.
Sealed(v, encrypted) == encrypted \/ v >= 3

\* The body of a packet has the room of its version.
Fits(u) == Len(u.body) <= PayloadMax[u.version]

\* A session has the keys of one side: it seals for public and signs with hmac.
CanEncode(u, encrypted, auth, session) ==
  /\ Fits(u)
  /\ auth => session.hmac # NoKey
  /\ Sealed(u.version, encrypted) => session.public # NoKey

SealOf(u, encrypted, session) ==
  IF Sealed(u.version, encrypted) THEN session.public ELSE NoKey

SignedUnit(u, auth, session) ==
  IF auth THEN [u EXCEPT !.sig = Signature(u.version, u, session.hmac)] ELSE u

Encoded(u, encrypted, auth, session) ==
  [seal |-> SealOf(u, encrypted, session), unit |-> SignedUnit(u, auth, session)]

\* The packets a payload leaves in: whole, or as so many fragments of v4.
Fragments(u, count) ==
  IF count = 1 THEN {u}
  ELSE {[u EXCEPT !.body = FragmentBody(u.body, count, i), !.index = i, !.count = count]
          : i \in 0 .. count - 1}

\* m7mux_outbox_stage_common, into an empty egress queue.
CanStage(u, forced, encrypted, auth, session) ==
  LET count == FragmentCount(u.version, Len(u.body), forced)
  IN  /\ count \in 1 .. EgressCapacity
      /\ \A f \in Fragments(u, count) : CanEncode(f, encrypted, auth, session)

StagedWires(u, forced, encrypted, auth, session) ==
  {Encoded(f, encrypted, auth, session)
     : f \in Fragments(u, FragmentCount(u.version, Len(u.body), forced))}

-----------------------------------------------------------------------------
(* Datagrams coming in: context has the keys that open them.  v1 and v2 look *)
(* at the clock, fresh says how that went.                                   *)

\* v1 and v2 are tried on the plain bytes and on what the server key opens.
DetectedTimed(context, d, fresh) == fresh /\ d.seal \in {NoKey, context.key}

\* v3 and v4 go by the outer header, which nobody seals.
Detected(context, d, fresh) ==
  CASE d.unit.version = 0 -> FALSE
    [] d.unit.version \in {1, 2} -> DetectedTimed(context, d, fresh)
    [] OTHER -> TRUE

\* v1 and v2 take no plain packet on a secure server.
PlainTaken(context, d) == d.seal = NoKey => ~ context.secure

\* v3 and v4 open the key of the packet, and with it the packet.
Opens(context, d) == d.seal # NoKey /\ d.seal = context.private

\* All hand a payload up as far as user data can hold it.
FitsUser(d) == Len(d.unit.body) <= UserPayloadMax

Decoded(context, d) ==
  /\ IF d.unit.version \in {1, 2} THEN PlainTaken(context, d) ELSE Opens(context, d)
  /\ FitsUser(d)

\* m7mux_normalize_encryption_allowed
EncryptionAllowed(context, policy, encrypted) ==
  CASE policy = "YES" -> encrypted
    [] policy = "NO" -> ~ encrypted
    [] OTHER -> context.secure => encrypted

Structured(context, d, fresh) == Detected(context, d, fresh) /\ Decoded(context, d)

\* m7mux_normalize_packet: what cannot be decoded is raw, and passes the policy.
Lane(context, policy, d, fresh) ==
  CASE ~ Structured(context, d, fresh) -> "raw"
    [] EncryptionAllowed(context, policy, Sealed(d.unit.version, d.seal # NoKey)) -> "structured"
    [] OTHER -> "dropped"

\* The ways a datagram can go, whatever the clock says.
Lanes(context, policy, d) == {Lane(context, policy, d, fresh) : fresh \in BOOLEAN}

\* The bytes of a datagram as the raw lane sees them.
RawBytes(d) == IF d.unit.version = 0 /\ d.seal = NoKey THEN d.unit.body ELSE Opaque
=============================================================================
