---------------------------- MODULE ExchangeProofs ----------------------------
(***************************************************************************)
(* Proofs, for every value of the constants: how codec v4 cuts a payload;  *)
(* and what Exchange's run checks: what runs was requested, what a client  *)
(* reports was run, and replies leave in the keys of the configuration of  *)
(* that moment.                                                            *)
(***************************************************************************)
EXTENDS Exchange, Induction, SequenceTheorems

(* How codec v4 cuts a payload, for every length and every count *)

\* What integer division promises.
LEMMA Division ==
  ASSUME NEW len \in Nat, NEW count \in Nat \ {0}
  PROVE  /\ len \div count \in Nat
         /\ len % count \in 0 .. count - 1
         /\ len = count * (len \div count) + (len % count)
  BY SMT

LEMMA Times ==
  ASSUME NEW i \in Nat, NEW q \in Nat
  PROVE  /\ i * q \in Nat
         /\ (i + 1) * q = i * q + q
         /\ i * q = q * i
         /\ 0 * q = 0
  BY SMT

LEMMA Monotone ==
  ASSUME NEW a \in Nat, NEW b \in Nat, NEW q \in Nat, a <= b
  PROVE  a * q <= b * q /\ q * a <= q * b
  BY SMT

\* The datagrams a payload requires have room for it.
LEMMA RequiredHasRoom ==
  ASSUME NEW len \in Nat
  PROVE  /\ Required(len) \in Nat \ {0}
         /\ len <= Required(len) * PayloadMax[4]
<1> DEFINE p == PayloadMax[4]
           q == len \div p
           r == len % p
<1>1. p \in Nat \ {0}
  BY CodecsAssumption DEF Versions
<1>2. q \in Nat /\ r \in 0 .. p - 1 /\ len = p * q + r
  BY <1>1, Division
<1>3. CASE len = 0
  BY <1>1, <1>3 DEF Required
<1>4. CASE len # 0 /\ r = 0
  <2>1. Required(len) = q
    BY <1>2, <1>4 DEF Required
  <2>2. q # 0
    BY <1>1, <1>2, <1>4
  <2> QED
    BY <1>1, <1>2, <1>4, <2>1, <2>2
<1>5. CASE len # 0 /\ r # 0
  <2>1. Required(len) = q + 1
    BY <1>2, <1>5 DEF Required
  <2>2. (q + 1) * p = p * q + p /\ p * q \in Nat
    <3> HIDE DEF q
    <3> QED
      BY <1>1, <1>2, Times
  <2>3. len <= (q + 1) * p
    BY <1>1, <1>2, <2>2
  <2> QED
    BY <1>2, <2>1, <2>3
<1> QED
  BY <1>3, <1>4, <1>5

\* codec/v4/v4.c, shared_knock_codec_v4_encode_fragment: a fragment starts where
\* the one before it ends, the first at the first byte and the last ends at the
\* last: no byte of the payload is sent twice or left out.
THEOREM FragmentsTile ==
  ASSUME NEW len \in Nat, NEW count \in Nat \ {0}
  PROVE  /\ FragmentOffset(len, count, 0) = 0
         /\ \A i \in 0 .. count - 1 :
              FragmentOffset(len, count, i + 1)
                = FragmentOffset(len, count, i) + FragmentLength(len, count, i)
         /\ FragmentOffset(len, count, count) = len
<1> DEFINE q == len \div count
           r == len % count
<1>1. q \in Nat /\ r \in 0 .. count - 1 /\ len = count * q + r
  BY Division
<1>2. FragmentOffset(len, count, 0) = 0
  BY <1>1, Times DEF FragmentOffset
<1>3. ASSUME NEW i \in 0 .. count - 1
      PROVE  FragmentOffset(len, count, i + 1)
               = FragmentOffset(len, count, i) + FragmentLength(len, count, i)
  <2>1. i \in Nat /\ i * q \in Nat /\ (i + 1) * q = i * q + q
    BY <1>1, Times
  <2>2. CASE i < r
    BY <1>1, <2>1, <2>2 DEF FragmentOffset, FragmentLength
  <2>3. CASE ~ (i < r)
    BY <1>1, <2>1, <2>3 DEF FragmentOffset, FragmentLength
  <2> QED
    BY <2>2, <2>3
<1>4. FragmentOffset(len, count, count) = len
  <2>1. ~ (count < r)
    BY <1>1
  <2> QED
    BY <1>1, <2>1 DEF FragmentOffset
<1> QED
  BY <1>2, <1>3, <1>4

\* codec/v4/v4.c, shared_knock_codec_v4_count_fragments: it accepts a forced count
\* when the payload does not require more, and every fragment then has room in a
\* datagram, the longer first ones too.
THEOREM FragmentsFit ==
  ASSUME NEW len \in Nat, NEW count \in Nat \ {0}, count >= Required(len),
         NEW i \in 0 .. count - 1
  PROVE  FragmentLength(len, count, i) \in 0 .. PayloadMax[4]
<1> DEFINE p == PayloadMax[4]
           q == len \div count
           r == len % count
<1>1. p \in Nat \ {0}
  BY CodecsAssumption DEF Versions
<1>2. q \in Nat /\ r \in 0 .. count - 1 /\ len = count * q + r
  BY Division
<1>3. count * q + r <= count * p
  <2>1. Required(len) \in Nat /\ len <= Required(len) * p
    BY RequiredHasRoom
  <2>2. Required(len) * p <= count * p
    BY <1>1, <2>1, Monotone
  <2>3. Required(len) * p \in Nat /\ count * p \in Nat
    BY <1>1, <2>1, Times
  <2> QED
    BY <1>2, <2>1, <2>2, <2>3
<1>4. q <= p
  <2> SUFFICES ASSUME p + 1 <= q PROVE FALSE
    BY <1>1, <1>2
  <2>1. count * (p + 1) <= count * q
    BY <1>1, <1>2, Monotone
  <2>2. count * (p + 1) = count * p + count
    BY <1>1
  <2> QED
    BY <1>1, <1>2, <1>3, <2>1, <2>2
<1>5. q = p => r = 0
  BY <1>1, <1>2, <1>3
<1> QED
  BY <1>1, <1>2, <1>4, <1>5 DEF FragmentLength

-----------------------------------------------------------------------------
(* What was cut is put together again *)

\* How far the fragments before a place reach.
LEMMA OffsetInside ==
  ASSUME NEW len \in Nat, NEW count \in Nat \ {0}, NEW i \in 0 .. count
  PROVE  FragmentOffset(len, count, i) \in 0 .. len
<1> DEFINE q == len \div count
           r == len % count
<1>1. q \in Nat /\ r \in 0 .. count - 1 /\ len = count * q + r
  BY Division
<1>2. i * q \in Nat /\ count * q \in Nat /\ i * q <= count * q
  <2> HIDE DEF q
  <2>1. i \in Nat /\ i <= count
    OBVIOUS
  <2> QED
    BY <1>1, <2>1, Times, Monotone
<1>3. FragmentOffset(len, count, i) = i * q + (IF i < r THEN i ELSE r)
  BY DEF FragmentOffset
<1> HIDE DEF q, r
<1> QED
  BY <1>1, <1>2, <1>3

LEMMA LengthIsNat ==
  ASSUME NEW len \in Nat, NEW count \in Nat \ {0}, NEW i \in 0 .. count - 1
  PROVE  FragmentLength(len, count, i) \in Nat
BY Division DEF FragmentLength

\* FlattenSeq is a recursive function, and there is only one.
Flattens(f, parts) ==
  f = [i \in 1 .. Len(parts) |-> IF i = 1 THEN parts[i] ELSE f[i - 1] \o parts[i]]

LEMMA FlattensOnce ==
  ASSUME NEW parts, Len(parts) \in Nat,
         NEW f, Flattens(f, parts), NEW g, Flattens(g, parts)
  PROVE  \A i \in 1 .. Len(parts) : f[i] = g[i]
<1> DEFINE P == {i \in Nat : i \in 1 .. Len(parts) => f[i] = g[i]}
<1>1. /\ \A i \in 1 .. Len(parts) : f[i] = IF i = 1 THEN parts[i] ELSE f[i - 1] \o parts[i]
      /\ \A i \in 1 .. Len(parts) : g[i] = IF i = 1 THEN parts[i] ELSE g[i - 1] \o parts[i]
  BY DEF Flattens
<1>2. 0 \in P
  OBVIOUS
<1>3. ASSUME NEW n \in Nat, n \in P PROVE n + 1 \in P
  <2> SUFFICES ASSUME n + 1 \in 1 .. Len(parts) PROVE f[n + 1] = g[n + 1]
    OBVIOUS
  <2>1. CASE n = 0
    BY <1>1, <2>1
  <2>2. CASE n # 0
    <3>1. n \in 1 .. Len(parts) /\ (n + 1) - 1 = n /\ n + 1 # 1
      BY <2>2
    <3>2. f[n] = g[n]
      BY <1>3, <3>1
    <3>3. f[n + 1] = f[n] \o parts[n + 1] /\ g[n + 1] = g[n] \o parts[n + 1]
      BY <1>1, <3>1
    <3> QED
      BY <3>2, <3>3
  <2> QED
    BY <2>1, <2>2
<1>4. Nat \subseteq P
  <2> HIDE DEF P
  <2> QED
    BY <1>2, <1>3, SetInduction
<1> QED
  BY <1>4

\* codec/v4/v4.c, shared_knock_codec_v4_encode_fragment: fragments in the order of
\* their places are the payload, whatever its length and their count.
THEOREM FragmentsReassemble ==
  ASSUME NEW S, NEW body \in Seq(S), NEW count \in Nat \ {0}
  PROVE  FlattenSeq([i \in 1 .. count |-> FragmentBody(body, count, i - 1)]) = body
<1> DEFINE len     == Len(body)
           off(i)  == FragmentOffset(len, count, i)
           part(i) == FragmentBody(body, count, i - 1)
           parts   == [i \in 1 .. count |-> part(i)]
           whole   == [i \in 1 .. count |-> SubSeq(body, 1, off(i))]
<1>1. len \in Nat
  OBVIOUS
<1>2. off(0) = 0 /\ off(count) = len
  BY <1>1, FragmentsTile
<1>3. ASSUME NEW i \in 1 .. count
      PROVE  /\ off(i) \in 0 .. len
             /\ off(i - 1) \in 0 .. off(i)
             /\ part(i) = SubSeq(body, off(i - 1) + 1, off(i))
  <2>1. i - 1 \in 0 .. count - 1 /\ i \in 0 .. count /\ (i - 1) + 1 = i /\ i - 1 \in 0 .. count
    OBVIOUS
  <2>2. off(i) = off(i - 1) + FragmentLength(len, count, i - 1)
    BY <1>1, <2>1, FragmentsTile
  <2>3. FragmentLength(len, count, i - 1) \in Nat
    BY <1>1, <2>1, LengthIsNat
  <2>4. off(i) \in 0 .. len /\ off(i - 1) \in 0 .. len
    BY <1>1, <2>1, OffsetInside
  <2>5. part(i) = SubSeq(body, off(i - 1) + 1, off(i - 1) + FragmentLength(len, count, i - 1))
    BY DEF FragmentBody
  <2> HIDE DEF off
  <2> QED
    BY <2>2, <2>3, <2>4, <2>5
<1> HIDE DEF off, part
<1>4. ASSUME NEW i \in 1 .. count
      PROVE  whole[i] = IF i = 1 THEN parts[i] ELSE whole[i - 1] \o parts[i]
  <2>1. /\ off(i) \in 0 .. len
        /\ off(i - 1) \in 0 .. off(i)
        /\ parts[i] = SubSeq(body, off(i - 1) + 1, off(i))
    BY <1>3
  <2>2. CASE i = 1
    <3>1. off(i - 1) = 0
      BY <1>2, <2>2
    <3>2. off(i - 1) + 1 = 1
      BY <3>1
    <3>3. parts[i] = SubSeq(body, off(i - 1) + 1, off(i))
      BY <2>1
    <3>4. whole[i] = SubSeq(body, 1, off(i))
      OBVIOUS
    <3> QED
      BY <2>2, <3>2, <3>3, <3>4
  <2>3. CASE i # 1
    <3>1. i - 1 \in 1 .. count
      BY <2>3
    <3>2. whole[i - 1] = SubSeq(body, 1, off(i - 1)) /\ whole[i] = SubSeq(body, 1, off(i))
      BY <3>1
    <3>3. /\ 1 \in 1 .. Len(body) + 1
          /\ off(i - 1) \in 1 - 1 .. Len(body)
          /\ off(i) \in off(i - 1) .. Len(body)
      BY <1>1, <2>1
    <3>4. SubSeq(body, 1, off(i - 1)) \o SubSeq(body, off(i - 1) + 1, off(i))
            = SubSeq(body, 1, off(i))
      BY <3>3, ConcatAdjacentSubSeq
    <3> QED
      BY <2>1, <2>3, <3>2, <3>4
  <2> QED
    BY <2>2, <2>3
<1>5. Len(parts) = count /\ Len(parts) \in Nat
  OBVIOUS
<1>6. Flattens(whole, parts)
  <2> DEFINE made == [i \in 1 .. Len(parts) |-> IF i = 1 THEN parts[i] ELSE whole[i - 1] \o parts[i]]
  <2> HIDE DEF parts
  <2>1. made = [i \in 1 .. count |-> IF i = 1 THEN parts[i] ELSE whole[i - 1] \o parts[i]]
    BY <1>5
  <2>2. whole = made
    BY <1>4, <2>1
  <2> QED
    BY <2>2 DEF Flattens
<1> DEFINE flatten == CHOOSE f : f = [i \in 1 .. Len(parts) |->
                                      IF i = 1 THEN parts[i] ELSE f[i - 1] \o parts[i]]
<1>7. FlattenSeq(parts) = flatten[Len(parts)]
  <2> HIDE DEF parts
  <2> QED
    BY <1>5 DEF FlattenSeq
<1>8. Flattens(flatten, parts)
  <2> HIDE DEF parts, whole
  <2> QED
    BY <1>6 DEF Flattens
<1>9. flatten[count] = whole[count]
  <2> HIDE DEF parts, whole, flatten
  <2> QED
    BY <1>5, <1>6, <1>8, FlattensOnce
<1>10. whole[count] = SubSeq(body, 1, len)
  BY <1>2
<1>11. SubSeq(body, 1, len) = body
  BY SubSeqFull
<1>12. FlattenSeq(parts) = body
  <2> HIDE DEF parts, whole, flatten
  <2> QED
    BY <1>5, <1>7, <1>9, <1>10, <1>11
<1> QED
  BY <1>12 DEF part

-----------------------------------------------------------------------------
(* Units and bags *)

UnitShape(u) ==
  u = [version |-> u.version, user |-> u.user, action |-> u.action,
       challenge |-> u.challenge, body |-> u.body, sig |-> u.sig,
       index |-> u.index, count |-> u.count]

\* A signature changes nothing else of a unit.
LEMMA SignedKeeps ==
  ASSUME NEW u, UnitShape(u), NEW auth, NEW session
  PROVE  LET s == SignedUnit(u, auth, session)
         IN  /\ UnitShape(s)
             /\ s.version = u.version
             /\ s.user = u.user
             /\ s.action = u.action
             /\ s.challenge = u.challenge
             /\ s.body = u.body
             /\ s.index = u.index
             /\ s.count = u.count
             /\ auth => s.sig = Signature(u.version, u, session.hmac)
             /\ ~ auth => s.sig = u.sig
BY DEF SignedUnit, UnitShape

LEMMA BagGrows ==
  ASSUME NEW B, NEW x
  PROVE  BagToSet(B (+) SetToBag({x})) = BagToSet(B) \cup {x}
BY DEF BagToSet, SetToBag, (+)

-----------------------------------------------------------------------------
(* The inductive invariant *)

\* What a client sent, that has started and could.
Requested(d) ==
  \E c \in Clients :
    /\ client[c].phase # "idle"
    /\ CanSend(c)
    /\ \E w \in RequestWires(c) : d = Addressed(Options[c].address, Daemon, w)

\* What the daemon answered: the outcome of something it ran.
Replied(d) ==
  /\ d.from = Daemon
  /\ d.to # Daemon
  /\ d.unit.action = 0
  /\ d.unit.version # 0 =>
       \E r \in Runs :
         /\ d.unit.user = r.unit.user
         /\ d.unit.challenge = r.unit.challenge
         /\ d.unit.body[1] = (IF r.ok THEN 1 ELSE 2)
         /\ d.unit.body[2] = r.unit.action
         /\ r.ok \in BOOLEAN

\* Nobody else sends: every datagram is a request or a reply.
NetOK == \A d \in net : Requested(d) \/ Replied(d)

\* The daemon only holds and queues what reached it.
Arrived == {d \in net : d.to = Daemon}
Pending == {Job(d) : d \in Arrived} \cup {RawJob(d) : d \in Arrived}

DaemonOK ==
  /\ up \in BOOLEAN
  /\ config \in Configs
  /\ jobs \in Seq(Pending)
  /\ Len(jobs) <= JobCapacity
  /\ held \subseteq Arrived
  /\ \A d, e \in held : d.unit.index = e.unit.index => d = e
  /\ claim \in [next : Nat, count : Nat]
  /\ claim.count > 0 => claim.count > 1 /\ claim.next < claim.count

\* The exit status is the first one until something was heard or the time is up.
ClientsOK ==
  /\ client \in [Clients -> [phase : {"idle", "waiting", "done"}, heard : BOOLEAN, status : 0 .. 2]]
  /\ \A c \in Clients :
       client[c].phase # "done" /\ ~ client[c].heard => client[c].status = 1

\* What a client that waits has sent is all of its request.
SentOK ==
  \A c \in Clients :
    client[c].phase = "waiting" =>
      /\ CanSend(c)
      /\ \A w \in RequestWires(c) : Addressed(Options[c].address, Daemon, w) \in net

ExchangeInv ==
  /\ NetOK
  /\ SentOK
  /\ DaemonOK
  /\ ClientsOK
  /\ RanWasRequested
  /\ AnswerMeansRun

-----------------------------------------------------------------------------
(* Requests *)

\* A fragment says whose it is; only its body and its place are its own.
LEMMA FragmentKeeps ==
  ASSUME NEW u, UnitShape(u), u.count = 1, NEW n \in Nat, NEW f \in Fragments(u, n)
  PROVE  /\ UnitShape(f)
         /\ f.version = u.version
         /\ f.user = u.user
         /\ f.action = u.action
         /\ f.challenge = u.challenge
         /\ f.sig = u.sig
         /\ f.count \in Nat
<1>1. CASE n = 1
  BY <1>1 DEF Fragments
<1>2. CASE n # 1
  <2>1. PICK i \in 0 .. n - 1 :
          f = [u EXCEPT !.body = FragmentBody(u.body, n, i), !.index = i, !.count = n]
    BY <1>2 DEF Fragments
  <2> DEFINE b == FragmentBody(u.body, n, i)
  <2> HIDE DEF b
  <2>2. f = [u EXCEPT !.body = b, !.index = i, !.count = n]
    BY <2>1 DEF b
  <2>3. f = [version |-> u.version, user |-> u.user, action |-> u.action,
             challenge |-> u.challenge, body |-> b, sig |-> u.sig,
             index |-> i, count |-> n]
    BY <2>2 DEF UnitShape
  <2> QED
    BY <2>3 DEF UnitShape
<1> QED
  BY <1>1, <1>2

\* Every datagram of a client carries its ids, and a signature only if the client
\* signs; none of its key otherwise.
LEMMA RequestShape ==
  ASSUME NEW c \in Clients, CanSend(c), NEW w \in RequestWires(c)
  PROVE  /\ Options[c].drop => w.unit.version = 0 /\ w.unit.count = 1
         /\ ~ Options[c].drop =>
              /\ w.unit.version = Options[c].protocol
              /\ w.unit.user = Options[c].user
              /\ w.unit.action = Options[c].action
              /\ w.unit.challenge = c
              /\ w.unit.count \in Nat
              /\ Options[c].hmacMode = "normal" => w.unit.sig.key = Options[c].hmac
              /\ Options[c].hmacMode # "normal" => w.unit.sig.key = NoKey
<1> DEFINE o == Options[c]
<1>1. CASE o.drop
  BY <1>1 DEF RequestWires, RawUnit, Unit
<1>2. CASE ~ o.drop
  <2> DEFINE u == RequestUnit(c)
             n == FragmentCount(u.version, Len(u.body), o.fragments)
  <2>1. /\ UnitShape(u)
        /\ u.version = o.protocol
        /\ u.user = o.user
        /\ u.action = o.action
        /\ u.challenge = c
        /\ u.count = 1
        /\ u.sig.key = NoKey
    BY DEF RequestUnit, Unit, UnitShape, DummySignature, NoSignature
  <2>2. n \in 1 .. EgressCapacity
    BY <1>2 DEF CanSend, CanStage
  <2>3. n \in Nat
    BY <2>2, CodecsAssumption
  <2>4. PICK f \in Fragments(u, n) :
          w = Encoded(f, o.encrypt, Authenticates(c), ClientSession(c))
    BY <1>2 DEF RequestWires, StagedWires
  <2> HIDE DEF u, n
  <2>5. /\ UnitShape(f)
        /\ f.version = u.version
        /\ f.user = u.user
        /\ f.action = u.action
        /\ f.challenge = u.challenge
        /\ f.sig = u.sig
        /\ f.count \in Nat
    BY <2>1, <2>3, FragmentKeeps
  <2>6. w.unit = SignedUnit(f, Authenticates(c), ClientSession(c))
    BY <2>4 DEF Encoded
  <2>7. /\ w.unit.version = f.version
        /\ w.unit.user = f.user
        /\ w.unit.action = f.action
        /\ w.unit.challenge = f.challenge
        /\ w.unit.count = f.count
        /\ Authenticates(c) => w.unit.sig = Signature(f.version, f, ClientSession(c).hmac)
        /\ ~ Authenticates(c) => w.unit.sig = f.sig
    BY <2>5, <2>6, SignedKeeps
  <2>8. Authenticates(c) => w.unit.sig.key = o.hmac
    BY <2>7 DEF Authenticates, ClientSession, Signature
  <2> QED
    BY <1>2, <2>1, <2>5, <2>7, <2>8 DEF Authenticates
<1> QED
  BY <1>1, <1>2

\* What passes the signature check of a user was sent by a client with that
\* user's key: nobody else signs with it.
LEMMA SignedByClient ==
  ASSUME NEW d \in Arrived, NetOK, NEW key,
         ValidSignature(d.unit.version, d.unit, key), d.unit.version # 0
  PROVE  \E c \in Clients :
           /\ RequestOf(c, d.unit)
           /\ client[c].phase # "idle"
           /\ Options[c].hmacMode = "normal"
           /\ Options[c].hmac = key
           /\ d.unit.body \in FragmentsOf(c)
<1>1. d \in net /\ d.to = Daemon
  BY DEF Arrived
<1>2. PICK c \in Clients :
        /\ client[c].phase # "idle"
        /\ CanSend(c)
        /\ \E w \in RequestWires(c) : d = Addressed(Options[c].address, Daemon, w)
  BY <1>1 DEF NetOK, Requested, Replied
<1>3. PICK w \in RequestWires(c) : d = Addressed(Options[c].address, Daemon, w)
  BY <1>2
<1>4. d.unit = w.unit
  BY <1>3 DEF Addressed
<1>5. ~ Options[c].drop
  BY <1>2, <1>4, RequestShape
<1>6. key # NoKey /\ d.unit.sig.key = key
  BY DEF ValidSignature, Signature
<1>7. /\ RequestOf(c, d.unit)
      /\ d.unit.challenge = c
      /\ Options[c].hmacMode = "normal"
      /\ Options[c].hmac = key
  BY <1>2, <1>4, <1>5, <1>6, RequestShape DEF RequestOf
<1>8. d.unit.body \in FragmentsOf(c)
  BY <1>1, <1>7 DEF FragmentsOf
<1> QED
  BY <1>2, <1>7, <1>8
-----------------------------------------------------------------------------
(* What a step that touches less leaves true *)

\* Nothing sent is taken back, and who started stays started.
Onward ==
  /\ net \subseteq net'
  /\ \A c \in Clients : client[c].phase # "idle" => client'[c].phase # "idle"
  /\ Runs \subseteq Runs'

LEMMA NetGrows ==
  ASSUME NetOK, Onward, \A d \in net' \ net : Requested(d)' \/ Replied(d)'
  PROVE  NetOK'
<1> SUFFICES ASSUME NEW d \in net PROVE Requested(d)' \/ Replied(d)'
  BY DEF NetOK
<1>1. CASE Requested(d)
  BY <1>1 DEF Requested, Onward
<1>2. CASE Replied(d)
  <2>1. CASE d.unit.version = 0
    BY <1>2, <2>1 DEF Replied
  <2>2. CASE d.unit.version # 0
    BY <1>2, <2>2 DEF Replied, Onward
  <2> QED
    BY <2>1, <2>2
<1> QED
  BY <1>1, <1>2 DEF NetOK

LEMMA PendingGrows ==
  ASSUME net \subseteq net'
  PROVE  Arrived \subseteq Arrived' /\ Pending \subseteq Pending'
BY DEF Arrived, Pending, Job, RawJob

LEMMA QueueStays ==
  ASSUME net \subseteq net', jobs \in Seq(Pending)
  PROVE  jobs \in Seq(Pending')
<1>1. Pending \subseteq Pending'
  BY PendingGrows
<1> DEFINE P == Pending
           Q == Pending'
<1>2. P \subseteq Q /\ jobs \in Seq(P)
  BY <1>1
<1> HIDE DEF P, Q
<1>3. jobs \in Seq(Q)
  BY <1>2
<1> QED
  BY <1>3 DEF Q

\* What was sent stays sent; a client that starts sends all of its request.
LEMMA SentStays ==
  ASSUME SentOK, net \subseteq net',
         \A c \in Clients :
           client'[c].phase = "waiting" => client[c].phase = "waiting" \/ Send(c)
  PROVE  SentOK'
<1> SUFFICES ASSUME NEW c \in Clients, client'[c].phase = "waiting"
             PROVE  /\ CanSend(c)
                    /\ \A w \in RequestWires(c) : Addressed(Options[c].address, Daemon, w) \in net'
  BY DEF SentOK
<1>1. CASE client[c].phase = "waiting"
  BY <1>1 DEF SentOK
<1>2. CASE Send(c)
  BY <1>2 DEF Send, Transmitted
<1> QED
  BY <1>1, <1>2

\* What ran stays requested while nothing else runs.
LEMMA RequestsStay ==
  ASSUME RanWasRequested, Onward, Runs' = Runs
  PROVE  RanWasRequested'
<1> SUFFICES ASSUME NEW r \in Runs
             PROVE  \E c \in Clients :
                      /\ RequestOf(c, r.unit)
                      /\ client'[c].phase # "idle"
                      /\ Options[c].hmacMode = "normal"
                      /\ Options[c].hmac = r.key
                      /\ r.unit.body \in FragmentsOf(c)'
  BY DEF RanWasRequested, RequestOf
<1>1. PICK c \in Clients :
        /\ RequestOf(c, r.unit)
        /\ client[c].phase # "idle"
        /\ Options[c].hmacMode = "normal"
        /\ Options[c].hmac = r.key
        /\ r.unit.body \in FragmentsOf(c)
  BY DEF RanWasRequested
<1>2. FragmentsOf(c) \subseteq FragmentsOf(c)'
  BY DEF Onward, FragmentsOf
<1> QED
  BY <1>1, <1>2 DEF Onward

\* What a client reports stays answered.
LEMMA AnswersStay ==
  ASSUME AnswerMeansRun, Onward, client' = client
  PROVE  AnswerMeansRun'
BY DEF AnswerMeansRun, Onward, RequestOf

-----------------------------------------------------------------------------
(* The steps of a client *)

\* A valid reply to a client is the outcome of its own request.
LEMMA ReplyMeansRun ==
  ASSUME NetOK, NEW c \in Clients, ~ Options[c].drop,
         NEW d \in net, Hears(c, d, "structured"), Valid(c, d.unit)
  PROVE  \E r \in Runs : RequestOf(c, r.unit) /\ r.ok = (StatusOf(d.unit) = 0)
<1>1. d.to # Daemon
  BY KnockerAssumption DEF Hears
<1>2. ~ Requested(d)
  BY <1>1 DEF Requested, Addressed
<1>3. Replied(d) /\ d.unit.version # 0
  BY <1>2 DEF NetOK, Valid
<1>4. PICK r \in Runs :
        /\ d.unit.user = r.unit.user
        /\ d.unit.challenge = r.unit.challenge
        /\ d.unit.body[1] = (IF r.ok THEN 1 ELSE 2)
        /\ d.unit.body[2] = r.unit.action
        /\ r.ok \in BOOLEAN
  BY <1>3 DEF Replied
<1>5. RequestOf(c, r.unit)
  BY <1>4 DEF RequestOf, Valid
<1>6. r.ok = (StatusOf(d.unit) = 0)
  BY <1>4 DEF StatusOf
<1> QED
  BY <1>5, <1>6

\* A client only ever moves on.
LEMMA ClientOnward ==
  ASSUME ClientsOK, KnockerNext, UNCHANGED daemonVars
  PROVE  Onward /\ Runs' = Runs
<1>1. Runs' = Runs
  BY DEF daemonVars, Runs
<1>2. PICK c \in Clients :
        \/ Send(c)
        \/ FailToSend(c)
        \/ \E d \in net : (HearReply(c, d) \/ HearOther(c, d)) /\ UNCHANGED net
        \/ GiveUp(c) /\ UNCHANGED net
  BY DEF KnockerNext
<1>3. net \subseteq net'
  BY <1>2 DEF Send, Transmitted, FailToSend
<1> DEFINE Moving == \A b \in Clients : client[b].phase # "idle" => client'[b].phase # "idle"
<1>4. Moving
  <2> USE DEF ClientsOK
  <2>1. CASE Send(c)
    BY <2>1 DEF Send
  <2>2. CASE FailToSend(c)
    BY <2>2 DEF FailToSend
  <2>3. ASSUME NEW d \in net, HearReply(c, d) PROVE Moving
    BY <2>3 DEF HearReply
  <2>4. ASSUME NEW d \in net, HearOther(c, d) PROVE Moving
    BY <2>4 DEF HearOther
  <2>5. CASE GiveUp(c)
    BY <2>5 DEF GiveUp
  <2> QED
    BY <1>2, <2>1, <2>2, <2>3, <2>4, <2>5
<1> QED
  BY <1>1, <1>3, <1>4 DEF Onward

LEMMA ClientNet ==
  ASSUME ClientsOK, NetOK, KnockerNext, UNCHANGED daemonVars
  PROVE  NetOK'
<1>1. Onward
  BY ClientOnward
<1>2. ASSUME NEW c \in Clients, Send(c), NEW d \in net' \ net
      PROVE  Requested(d)'
  <2>1. \E w \in RequestWires(c) : d = Addressed(Options[c].address, Daemon, w)
    BY <1>2 DEF Send, Transmitted
  <2>2. client'[c].phase # "idle"
    BY <1>2 DEF Send, ClientsOK
  <2>3. CanSend(c)
    BY <1>2 DEF Send
  <2> QED
    BY <2>1, <2>2, <2>3 DEF Requested
<1>3. \A d \in net' \ net : Requested(d)'
  BY <1>2 DEF KnockerNext, FailToSend
<1> QED
  BY <1>1, <1>3, NetGrows

LEMMA ClientSent ==
  ASSUME ClientsOK, SentOK, KnockerNext, UNCHANGED daemonVars
  PROVE  SentOK'
<1>1. net \subseteq net'
  BY ClientOnward DEF Onward
<1>2. PICK b \in Clients :
        \/ Send(b)
        \/ FailToSend(b)
        \/ \E d \in net : (HearReply(b, d) \/ HearOther(b, d)) /\ UNCHANGED net
        \/ GiveUp(b) /\ UNCHANGED net
  BY DEF KnockerNext
<1> SUFFICES ASSUME NEW c \in Clients, client'[c].phase = "waiting"
             PROVE  client[c].phase = "waiting" \/ Send(c)
  BY <1>1, SentStays
<1> USE DEF ClientsOK
<1>3. CASE Send(b)
  <2>1. CASE c = b
    BY <1>3, <2>1
  <2>2. CASE c # b
    BY <1>3, <2>2 DEF Send
  <2> QED
    BY <2>1, <2>2
<1>4. CASE FailToSend(b)
  BY <1>4 DEF FailToSend
<1>5. ASSUME NEW d \in net, HearReply(b, d)
      PROVE  client[c].phase = "waiting"
  BY <1>5 DEF HearReply
<1>6. ASSUME NEW d \in net, HearOther(b, d)
      PROVE  client[c].phase = "waiting"
  BY <1>6 DEF HearOther
<1>7. CASE GiveUp(b)
  BY <1>7 DEF GiveUp
<1> QED
  BY <1>2, <1>3, <1>4, <1>5, <1>6, <1>7

\* A client as a record of its three fields.
As(phase, heard, status) == [phase |-> phase, heard |-> heard, status |-> status]

Phases == {"idle", "waiting", "done"}

\* What an update of some of its fields makes of it.
LEMMA Moved ==
  ASSUME ClientsOK, NEW c \in Clients, NEW p, NEW h, NEW f
  PROVE  /\ f = [client EXCEPT ![c].phase = p] =>
              f = [client EXCEPT ![c] = As(p, client[c].heard, client[c].status)]
         /\ f = [client EXCEPT ![c].heard = h] =>
              f = [client EXCEPT ![c] = As(client[c].phase, h, client[c].status)]
<1>1. client \in [Clients -> [phase : Phases, heard : BOOLEAN, status : 0 .. 2]]
  BY DEF ClientsOK, Phases
<1>2. ASSUME f = [client EXCEPT ![c].phase = p]
      PROVE  f = [client EXCEPT ![c] = As(p, client[c].heard, client[c].status)]
  <2>1. f[c] = As(p, client[c].heard, client[c].status)
    BY <1>1, <1>2 DEF As
  <2>2. f \in [Clients -> {f[x] : x \in Clients}] /\ \A x \in Clients \ {c} : f[x] = client[x]
    BY <1>1, <1>2
  <2> QED
    BY <1>1, <2>1, <2>2
<1>3. ASSUME f = [client EXCEPT ![c].heard = h]
      PROVE  f = [client EXCEPT ![c] = As(client[c].phase, h, client[c].status)]
  <2>1. f[c] = As(client[c].phase, h, client[c].status)
    BY <1>1, <1>3 DEF As
  <2>2. f \in [Clients -> {f[x] : x \in Clients}] /\ \A x \in Clients \ {c} : f[x] = client[x]
    BY <1>1, <1>3
  <2> QED
    BY <1>1, <2>1, <2>2
<1> QED
  BY <1>2, <1>3

\* The first thing it hears decides; what it hears later may only confirm another
\* outcome of its own request.
LEMMA ClientAnswers ==
  ASSUME NetOK, ClientsOK, AnswerMeansRun, KnockerNext, UNCHANGED daemonVars
  PROVE  ClientsOK' /\ AnswerMeansRun'
<1> DEFINE Runned(c, status) == \E r \in Runs : RequestOf(c, r.unit) /\ r.ok = (status = 0)
           Own(c, k) == k.heard /\ ~ Options[c].drop /\ k.status # 1 => Runned(c, k.status)
           Early(k) == k.phase # "done" /\ ~ k.heard => k.status = 1
           Kind == [phase : Phases, heard : BOOLEAN, status : 0 .. 2]
<1>1. Runs' = Runs
  BY ClientOnward
<1>2. /\ client \in [Clients -> Kind]
      /\ \A c \in Clients : Early(client[c]) /\ Own(c, client[c])
  BY DEF ClientsOK, AnswerMeansRun, Phases
<1> SUFFICES /\ client' \in [Clients -> Kind]
             /\ \A c \in Clients : Early(client'[c]) /\ Own(c, client'[c])
  BY <1>1 DEF ClientsOK, AnswerMeansRun, RequestOf, Phases
<1>3. PICK c \in Clients :
        \/ Send(c)
        \/ FailToSend(c)
        \/ \E d \in net : HearReply(c, d) \/ HearOther(c, d)
        \/ GiveUp(c)
  BY DEF KnockerNext
<1> DEFINE k == client[c]
<1>4. SUFFICES \E n \in Kind : client' = [client EXCEPT ![c] = n] /\ Early(n) /\ Own(c, n)
  <2>1. PICK n \in Kind : client' = [client EXCEPT ![c] = n] /\ Early(n) /\ Own(c, n)
    BY <1>4
  <2> HIDE DEF Kind, Early, Own
  <2> QED
    BY <1>2, <2>1
<1>5. k \in Kind /\ Early(k) /\ Own(c, k)
  BY <1>2
<1>6. ASSUME NEW p \in Phases, NEW h \in BOOLEAN, NEW s \in 0 .. 2,
             client' = [client EXCEPT ![c] = As(p, h, s)],
             p = "done" \/ h \/ s = 1,
             h /\ ~ Options[c].drop /\ s # 1 => Runned(c, s)
      PROVE  \E n \in Kind : client' = [client EXCEPT ![c] = n] /\ Early(n) /\ Own(c, n)
  <2> HIDE DEF Runned
  <2>1. As(p, h, s) \in Kind /\ Early(As(p, h, s)) /\ Own(c, As(p, h, s))
    BY <1>6 DEF As
  <2> HIDE DEF Kind, Early, Own
  <2> QED
    BY <1>6, <2>1
<1> HIDE DEF Runned
<1>7. CASE Send(c)
  <2>1. client' = [client EXCEPT ![c] = As("waiting", k.heard, k.status)] /\ k.phase = "idle"
    <3>1. client' = [client EXCEPT ![c].phase = "waiting"] /\ k.phase = "idle"
      BY <1>7 DEF Send
    <3> QED
      BY <3>1, Moved, Zenon
  <2> QED
    BY <1>5, <1>6, <2>1 DEF Phases
<1>8. CASE FailToSend(c)
  <2>1. client' = [client EXCEPT ![c] = As("done", k.heard, k.status)]
    <3>1. client' = [client EXCEPT ![c].phase = "done"]
      BY <1>8 DEF FailToSend
    <3> QED
      BY <3>1, Moved, Zenon
  <2> QED
    BY <1>5, <1>6, <2>1 DEF Phases
<1>9. ASSUME NEW d \in net, HearReply(c, d)
      PROVE  \E n \in Kind : client' = [client EXCEPT ![c] = n] /\ Early(n) /\ Own(c, n)
  <2> DEFINE s == IF Options[c].drop THEN 0 ELSE StatusOf(d.unit)
  <2>1. client' = [client EXCEPT ![c] = As(k.phase, TRUE, s)]
    <3>1. client' = [client EXCEPT ![c].heard = TRUE, ![c].status = s]
      BY <1>9 DEF HearReply
    <3> HIDE DEF s
    <3>2. client'[c] = As(k.phase, TRUE, s)
      BY <1>2, <3>1 DEF As
    <3>3. /\ client' \in [Clients -> {client'[x] : x \in Clients}]
          /\ \A x \in Clients \ {c} : client'[x] = client[x]
      BY <1>2, <3>1
    <3> QED
      BY <1>2, <3>2, <3>3
  <2>2. s \in 0 .. 2
    BY DEF StatusOf
  <2>3. ~ Options[c].drop => Runned(c, s)
    BY <1>9, ReplyMeansRun DEF HearReply, Runned
  <2> HIDE DEF s
  <2> QED
    BY <1>5, <1>6, <2>1, <2>2, <2>3 DEF Phases
<1>10. ASSUME NEW d \in net, HearOther(c, d)
       PROVE  \E n \in Kind : client' = [client EXCEPT ![c] = n] /\ Early(n) /\ Own(c, n)
  <2>1. client' = [client EXCEPT ![c] = As(k.phase, TRUE, k.status)] /\ k.phase = "waiting"
    <3>1. client' = [client EXCEPT ![c].heard = TRUE] /\ k.phase = "waiting"
      BY <1>10 DEF HearOther, Hears, Waiting
    <3> QED
      BY <3>1, Moved, Zenon
  <2> QED
    BY <1>5, <1>6, <2>1 DEF Phases
<1>11. CASE GiveUp(c)
  <2> DEFINE s == IF k.heard THEN k.status ELSE 0
  <2>1. client' = [client EXCEPT ![c] = As("done", k.heard, s)]
    <3>1. client' = [client EXCEPT ![c].phase = "done", ![c].status = s]
      BY <1>5, <1>11 DEF GiveUp
    <3> HIDE DEF s
    <3>2. client'[c] = As("done", k.heard, s)
      BY <1>2, <3>1 DEF As
    <3>3. /\ client' \in [Clients -> {client'[x] : x \in Clients}]
          /\ \A x \in Clients \ {c} : client'[x] = client[x]
      BY <1>2, <3>1
    <3> QED
      BY <1>2, <3>2, <3>3
  <2>2. s \in 0 .. 2 /\ (k.heard => s = k.status)
    BY <1>5
  <2> HIDE DEF s
  <2> QED
    BY <1>5, <1>6, <2>1, <2>2 DEF Phases
<1> QED
  BY <1>3, <1>7, <1>8, <1>9, <1>10, <1>11
-----------------------------------------------------------------------------
(* Replies *)

\* A payload that user data has room for leaves in one packet, also with v4.
LEMMA OnePacket ==
  ASSUME NEW v, NEW len \in Nat, len <= UserPayloadMax, FragmentCount(v, len, 1) # 0
  PROVE  FragmentCount(v, len, 1) = 1
<1> DEFINE p == PayloadMax[4]
           q == len \div p
           r == len % p
<1>1. p \in Nat \ {0} /\ len <= p
  BY CodecsAssumption DEF Versions
<1>2. q \in Nat /\ r \in 0 .. p - 1 /\ len = p * q + r
  BY <1>1, Division
<1>3. Required(len) = 1
  <2>1. Required(len) = IF len = 0 THEN 1 ELSE q + (IF r = 0 THEN 0 ELSE 1)
    BY DEF Required
  <2> HIDE DEF p, q, r
  <2>2. CASE len = 0 \/ q = 0
    <3>1. q = 0 => p * q = 0
      BY <1>1
    <3> QED
      BY <1>1, <1>2, <2>1, <2>2, <3>1
  <2>3. CASE len # 0 /\ q = 1
    <3>1. p * q = p
      BY <1>1, <2>3
    <3> QED
      BY <1>1, <1>2, <2>1, <2>3, <3>1
  <2>4. CASE 2 <= q
    <3>1. p * 2 <= p * q
      BY <1>1, <1>2, <2>4, Monotone
    <3>2. p * 2 = p + p
      BY <1>1
    <3> QED
      BY <1>1, <1>2, <3>1, <3>2
  <2> QED
    BY <1>2, <2>2, <2>3, <2>4
<1>4. CASE v = 4
  BY <1>3, <1>4 DEF FragmentCount
<1>5. CASE v # 4
  BY <1>5 DEF FragmentCount
<1> QED
  BY <1>4, <1>5

\* The text of a reply comes after its status and the request's action.
LEMMA ReplyBegins ==
  ASSUME NEW u, NEW ok \in BOOLEAN, NEW text \in Nat
  PROVE  LET body == ReplyBody(u, ok, text)
         IN  /\ Len(body) \in Nat
             /\ body[1] = (IF ok THEN 1 ELSE 2)
             /\ body[2] = u.action
<1> DEFINE head == <<IF ok THEN 1 ELSE 2, u.action, 0>>
           tail == Zeros(text)
           E    == {0, 1, 2, u.action}
<1>1. head \in Seq(E) /\ Len(head) = 3
  OBVIOUS
<1>2. tail \in Seq(E) /\ Len(tail) = text
  BY DEF Zeros
<1>3. /\ Len(head \o tail) = Len(head) + Len(tail)
      /\ \A i \in 1 .. Len(head) + Len(tail) :
           (head \o tail)[i] = IF i <= Len(head) THEN head[i] ELSE tail[i - Len(head)]
  <2> HIDE DEF head, tail, E
  <2> QED
    BY <1>1, <1>2, ConcatProperties, Zenon
<1>4. head[1] = (IF ok THEN 1 ELSE 2) /\ head[2] = u.action
  OBVIOUS
<1>5. /\ Len(head \o tail) \in Nat
      /\ (head \o tail)[1] = head[1]
      /\ (head \o tail)[2] = head[2]
  <2> HIDE DEF head, tail
  <2> QED
    BY <1>1, <1>2, <1>3
<1>6. ReplyBody(u, ok, text) = head \o tail
  BY DEF ReplyBody
<1> HIDE DEF head, tail
<1> QED
  BY <1>4, <1>5, <1>6

\* What leaves for a staged reply: the reply itself, in one packet, signed with
\* the key of its session and sealed for it or not at all.
LEMMA StagedReply ==
  ASSUME NEW u, UnitShape(u), Len(u.body) \in Nat, Len(u.body) <= UserPayloadMax,
         NEW encrypted, NEW session, CanStage(u, 1, encrypted, TRUE, session),
         NEW w \in StagedWires(u, 1, encrypted, TRUE, session)
  PROVE  /\ w.unit.version = u.version
         /\ w.unit.user = u.user
         /\ w.unit.action = u.action
         /\ w.unit.challenge = u.challenge
         /\ w.unit.body = u.body
         /\ w.unit.sig.key = session.hmac
         /\ w.seal \in {NoKey, session.public}
<1> DEFINE n == FragmentCount(u.version, Len(u.body), 1)
<1>1. n \in 1 .. EgressCapacity
  BY DEF CanStage
<1>2. n = 1
  <2>1. n # 0
    BY <1>1, CodecsAssumption
  <2> QED
    BY <2>1, OnePacket
<1>3. w = Encoded(u, encrypted, TRUE, session)
  BY <1>2 DEF StagedWires, Fragments
<1>4. w.unit = SignedUnit(u, TRUE, session) /\ w.seal = SealOf(u, encrypted, session)
  BY <1>3 DEF Encoded
<1>5. w.seal \in {NoKey, session.public}
  BY <1>4 DEF SealOf
<1> DEFINE sig == Signature(u.version, u, session.hmac)
<1>6. w.unit = [u EXCEPT !.sig = sig]
  BY <1>4 DEF SignedUnit
<1>7. sig.key = session.hmac
  BY DEF Signature
<1> HIDE DEF sig
<1> QED
  BY <1>5, <1>6, <1>7 DEF UnitShape

\* A job is a packet some client sent, or raw bytes.
LEMMA JobShape ==
  ASSUME NetOK, NEW job \in Pending
  PROVE  /\ job.from # Daemon
         /\ job.unit.version # 0 => \E d \in Arrived : job.unit = d.unit
<1>1. PICK d \in Arrived : job = Job(d) \/ job = RawJob(d)
  BY DEF Pending
<1>2. d \in net /\ d.to = Daemon
  BY DEF Arrived
<1>3. PICK c \in Clients : \E w \in RequestWires(c) : d = Addressed(Options[c].address, Daemon, w)
  BY <1>2 DEF NetOK, Requested, Replied
<1>4. d.from # Daemon
  BY <1>3, KnockerAssumption DEF Addressed
<1>5. CASE job = Job(d)
  BY <1>4, <1>5 DEF Job
<1>6. CASE job = RawJob(d)
  BY <1>4, <1>6 DEF RawJob, RawUnit, Unit
<1> QED
  BY <1>1, <1>5, <1>6

LEMMA NextIsPending ==
  ASSUME DaemonOK, NEW job, NextJob(job)
  PROVE  job \in Pending /\ jobs' \in Seq(Pending) /\ Len(jobs') <= JobCapacity
<1> DEFINE P == Pending
<1>1. jobs \in Seq(P) /\ jobs # <<>> /\ job = Head(jobs) /\ jobs' = Tail(jobs)
  BY DEF DaemonOK, NextJob
<1>2. Len(jobs) <= JobCapacity /\ JobCapacity \in Nat
  BY DispatchAssumption DEF DaemonOK
<1> HIDE DEF P
<1>3. job \in P /\ jobs' \in Seq(P) /\ Len(jobs') = Len(jobs) - 1
  BY <1>1
<1>4. Len(jobs') <= JobCapacity
  BY <1>1, <1>2, <1>3
<1> QED
  BY <1>3, <1>4 DEF P

LEMMA EnqueuedIsPending ==
  ASSUME DaemonOK, NEW job \in Pending, Enqueued(job)
  PROVE  jobs' \in Seq(Pending) /\ Len(jobs') <= JobCapacity
<1> DEFINE P == Pending
<1>1. jobs \in Seq(P) /\ Len(jobs) <= JobCapacity /\ JobCapacity \in Nat
  BY DispatchAssumption DEF DaemonOK
<1>2. job \in P /\ jobs' = (IF Len(jobs) < JobCapacity THEN Append(jobs, job) ELSE jobs)
  BY DEF Enqueued
<1> HIDE DEF P
<1>3. jobs' \in Seq(P) /\ Len(jobs') <= JobCapacity
  BY <1>1, <1>2
<1> QED
  BY <1>3 DEF P
-----------------------------------------------------------------------------
(* The steps of the daemon that take packets in *)

\* The way in: nothing leaves and nothing runs.
TakesIn ==
  \/ Receive
  \/ \E d \in held : HandOver(d) \/ ExpireFragment(d)
  \/ ExpireSession

\* A fragment that arrived has a count: a client made it.
LEMMA CountIsNat ==
  ASSUME NetOK, NEW d \in Arrived
  PROVE  d.unit.count \in Nat
<1>1. d \in net /\ d.to = Daemon
  BY DEF Arrived
<1>2. PICK c \in Clients :
        CanSend(c) /\ \E w \in RequestWires(c) : d = Addressed(Options[c].address, Daemon, w)
  BY <1>1 DEF NetOK, Requested, Replied
<1>3. PICK w \in RequestWires(c) : d = Addressed(Options[c].address, Daemon, w)
  BY <1>2
<1>4. w.unit.count \in Nat
  BY <1>2, RequestShape
<1> QED
  BY <1>3, <1>4 DEF Addressed

LEMMA TakingInKeeps ==
  ASSUME NetOK, DaemonOK, TakesIn, UNCHANGED net
  PROVE  DaemonOK' /\ UNCHANGED ran
<1> DEFINE Places(h) == \A d, e \in h : d.unit.index = e.unit.index => d = e
           ClaimOK(k) == /\ k \in [next : Nat, count : Nat]
                         /\ k.count > 0 => k.count > 1 /\ k.next < k.count
           QueueOK(q) == q \in Seq(Pending) /\ Len(q) <= JobCapacity
<1>1. Arrived' = Arrived /\ Pending' = Pending
  BY DEF Arrived, Pending
<1>2. /\ up \in BOOLEAN
      /\ config \in Configs
      /\ QueueOK(jobs)
      /\ held \subseteq Arrived
      /\ Places(held)
      /\ ClaimOK(claim)
  BY DEF DaemonOK
<1> DEFINE Kept == /\ UNCHANGED <<up, config, ran>>
                   /\ QueueOK(jobs')
                   /\ held' \subseteq Arrived
                   /\ Places(held')
                   /\ ClaimOK(claim')
<1>3. SUFFICES Kept
  BY <1>1, <1>2 DEF DaemonOK
<1> HIDE DEF QueueOK
<1>4. ClaimOK(Free)
  BY DEF Free
<1>5. ASSUME NEW d \in net, ReceiveRaw(d)
      PROVE  Kept
  <2>1. d \in Arrived
    BY <1>5 DEF ReceiveRaw, Accepted, Arrived
  <2>2. RawJob(d) \in Pending /\ Enqueued(RawJob(d))
    BY <1>5, <2>1 DEF ReceiveRaw, Pending
  <2>3. QueueOK(jobs')
    BY <2>2, EnqueuedIsPending DEF QueueOK
  <2> QED
    BY <1>2, <1>5, <2>3 DEF ReceiveRaw
<1>6. ASSUME NEW d \in net, ReceiveWhole(d)
      PROVE  Kept
  <2>1. d \in Arrived
    BY <1>6 DEF ReceiveWhole, Accepted, Arrived
  <2>2. Job(d) \in Pending /\ Enqueued(Job(d))
    BY <1>6, <2>1 DEF ReceiveWhole, Pending
  <2>3. QueueOK(jobs')
    BY <2>2, EnqueuedIsPending DEF QueueOK
  <2> QED
    BY <1>2, <1>6, <2>3 DEF ReceiveWhole
<1>7. ASSUME NEW d \in net, ReceiveFragment(d)
      PROVE  Kept
  <2>1. d \in Arrived /\ d.unit.count > 1
    BY <1>7 DEF ReceiveFragment, Accepted, Arrived
  <2>2. d.unit.count \in Nat
    BY <2>1, CountIsNat
  <2>3. claim' = claim \/ claim' = [next |-> 0, count |-> d.unit.count]
    BY <1>7 DEF ReceiveFragment
  <2>4. ClaimOK(claim')
    BY <1>2, <2>1, <2>2, <2>3
  <2>5. held' = held \/ (~ Collides(d) /\ held' = held \cup {d})
    BY <1>7 DEF ReceiveFragment
  <2>6. held' \subseteq Arrived /\ Places(held')
    BY <1>2, <2>1, <2>5 DEF Collides
  <2> QED
    BY <1>2, <1>7, <2>4, <2>6 DEF ReceiveFragment
<1>8. ASSUME NEW d \in held, HandOver(d)
      PROVE  Kept
  <2>1. Job(d) \in Pending /\ Enqueued(Job(d))
    BY <1>2, <1>8 DEF HandOver, Pending
  <2>2. QueueOK(jobs')
    BY <2>1, EnqueuedIsPending DEF QueueOK
  <2>3. CASE claim.next + 1 < claim.count
    <3>1. claim' = [claim EXCEPT !.next = claim.next + 1]
      BY <1>8, <2>3 DEF HandOver
    <3>2. ClaimOK(claim')
      BY <1>2, <2>3, <3>1
    <3> QED
      BY <1>2, <1>8, <2>2, <3>2 DEF HandOver
  <2>4. CASE ~ (claim.next + 1 < claim.count)
    <3>1. ClaimOK(claim')
      BY <1>4, <1>8, <2>4 DEF HandOver
    <3> QED
      BY <1>2, <1>8, <2>2, <3>1 DEF HandOver
  <2> QED
    BY <2>3, <2>4
<1>9. ASSUME NEW d \in held, ExpireFragment(d)
      PROVE  Kept
  BY <1>2, <1>9 DEF ExpireFragment
<1>10. CASE ExpireSession
  BY <1>2, <1>4, <1>10 DEF ExpireSession
<1> QED
  BY <1>5, <1>6, <1>7, <1>8, <1>9, <1>10 DEF TakesIn, Receive

-----------------------------------------------------------------------------
(* The steps of the daemon that run a job *)

\* What is answered is the outcome of the job that was run, in the keys its user
\* has in the configuration the step leaves.
LEMMA AnswerIsReply ==
  ASSUME NEW job, job.from # Daemon, job.unit.version # 0,
         NEW ok \in BOOLEAN, NEW text \in Nat, Answer(job, ok, text),
         NEW r \in Runs', r.unit = job.unit, r.ok = ok
  PROVE  /\ net \subseteq net'
         /\ up' \in {up, FALSE}
         /\ \A d \in net' \ net :
              /\ Replied(d)'
              /\ d.unit.user = job.unit.user
              /\ d.seal \in {NoKey, ReplySession(job).public}
              /\ d.unit.sig.key = ReplySession(job).hmac
<1> DEFINE u == ReplyUnit(job.unit, ok, text)
           s == ReplySession(job)
<1>1. CASE Staged(job, u)
  <2>1. /\ net' = {Addressed(Daemon, job.from, w) :
                     w \in StagedWires(u, 1, job.encrypted, TRUE, s)} \cup net
        /\ up' = up
    BY <1>1 DEF Answer, Transmitted
  <2>2. /\ UnitShape(u)
        /\ u.version = job.unit.version
        /\ u.user = job.unit.user
        /\ u.action = 0
        /\ u.challenge = job.unit.challenge
        /\ u.body = ReplyBody(job.unit, ok, text)
    BY DEF ReplyUnit, Unit, UnitShape
  <2>3. /\ Len(u.body) \in Nat
        /\ u.body[1] = (IF ok THEN 1 ELSE 2)
        /\ u.body[2] = job.unit.action
    BY <2>2, ReplyBegins
  <2>4. Len(u.body) <= UserPayloadMax /\ CanStage(u, 1, job.encrypted, TRUE, s)
    BY <1>1 DEF Staged
  <2> HIDE DEF u, s
  <2>5. ASSUME NEW d \in net' \ net
        PROVE  /\ Replied(d)'
               /\ d.unit.user = job.unit.user
               /\ d.seal \in {NoKey, s.public}
               /\ d.unit.sig.key = s.hmac
    <3>1. PICK w \in StagedWires(u, 1, job.encrypted, TRUE, s) :
            d = Addressed(Daemon, job.from, w)
      BY <2>1
    <3>2. /\ w.unit.version = u.version
          /\ w.unit.user = u.user
          /\ w.unit.action = u.action
          /\ w.unit.challenge = u.challenge
          /\ w.unit.body = u.body
          /\ w.unit.sig.key = s.hmac
          /\ w.seal \in {NoKey, s.public}
      BY <2>2, <2>3, <2>4, StagedReply
    <3>3. d.from = Daemon /\ d.to = job.from /\ d.unit = w.unit /\ d.seal = w.seal
      BY <3>1 DEF Addressed
    <3>4. /\ d.unit.action = 0
          /\ d.unit.user = r.unit.user
          /\ d.unit.challenge = r.unit.challenge
          /\ d.unit.body[1] = (IF r.ok THEN 1 ELSE 2)
          /\ d.unit.body[2] = r.unit.action
          /\ r.ok \in BOOLEAN
      BY <2>2, <2>3, <3>2, <3>3
    <3>5. Replied(d)'
      BY <3>3, <3>4 DEF Replied
    <3> QED
      BY <2>2, <3>2, <3>3, <3>5
  <2> QED
    BY <2>1, <2>5 DEF s
<1>2. CASE ~ Staged(job, u)
  BY <1>2 DEF Answer
<1> QED
  BY <1>1, <1>2
\* What runs was requested by the client that signed it, whatever the job queue
\* and the stream did to it on the way.
LEMMA RunsAsRequested ==
  ASSUME ExchangeInv, net \subseteq net', UNCHANGED client,
         NEW kind, NEW job, RunKind(kind, job), NEW ok \in BOOLEAN, Recorded(job, ok)
  PROVE  /\ Onward
         /\ RanWasRequested'
         /\ \E r \in Runs' : r.unit = job.unit /\ r.ok = ok
         /\ job.from # Daemon
         /\ \A text \in Texts(job) : text \in Nat
<1> DEFINE r == [unit |-> job.unit, key |-> UserOf(config, job.unit).hmac, ok |-> ok]
<1>1. NetOK /\ DaemonOK /\ RanWasRequested
  BY DEF ExchangeInv
<1>2. NextJob(job) /\ job.unit.version # 0 /\ Runnable(job)
  BY DEF RunKind
<1>3. job \in Pending
  BY <1>1, <1>2, NextIsPending
<1>4. PICK d \in Arrived : job.unit = d.unit
  BY <1>1, <1>2, <1>3, JobShape
<1>5. Runs' = Runs \cup {r}
  <2>1. ran' = ran (+) SetToBag({r})
    BY DEF Recorded
  <2> HIDE DEF r
  <2> QED
    BY <2>1, BagGrows DEF Runs
<1>6. Onward
  BY <1>5 DEF Onward
<1>7. ValidSignature(d.unit.version, d.unit, UserOf(config, job.unit).hmac)
  BY <1>2, <1>4 DEF Runnable, Authorized
<1>8. PICK c \in Clients :
        /\ RequestOf(c, d.unit)
        /\ client[c].phase # "idle"
        /\ Options[c].hmacMode = "normal"
        /\ Options[c].hmac = UserOf(config, job.unit).hmac
        /\ d.unit.body \in FragmentsOf(c)
  BY <1>1, <1>2, <1>4, <1>7, SignedByClient
<1> DEFINE Asked(q) == \E b \in Clients :
                         /\ RequestOf(b, q.unit)
                         /\ client'[b].phase # "idle"
                         /\ Options[b].hmacMode = "normal"
                         /\ Options[b].hmac = q.key
                         /\ q.unit.body \in FragmentsOf(b)'
<1>9. \A b \in Clients : FragmentsOf(b) \subseteq FragmentsOf(b)'
  BY DEF FragmentsOf
<1>10. \A q \in Runs : Asked(q)
  BY <1>1, <1>9 DEF RanWasRequested
<1>11. Asked(r)
  BY <1>4, <1>8, <1>9
<1>12. RanWasRequested'
  <2>1. \A q \in Runs' : Asked(q)
    BY <1>5, <1>10, <1>11
  <2> QED
    BY <2>1 DEF RanWasRequested, RequestOf
<1>13. \A text \in Texts(job) : text \in Nat
  BY <1>1, <1>2, DispatchAssumption DEF DaemonOK, Runnable, Bound, Texts, ActionOf
<1>14. job.from # Daemon
  BY <1>1, <1>3, JobShape
<1>15. r \in Runs' /\ r.unit = job.unit /\ r.ok = ok
  BY <1>5
<1> HIDE DEF r
<1> QED
  BY <1>6, <1>12, <1>13, <1>14, <1>15

\* What a reply carries of the keys the step leaves.
KeyedReply(d) ==
  d.from = Daemon /\ d.unit.version # 0 =>
    /\ d.unit.user \in DOMAIN config'.users
    /\ d.seal \in {NoKey, config'.users[d.unit.user].public}
    /\ d.unit.sig.key = config'.users[d.unit.user].hmac

\* Everything but the client side is in order after a step that runs a job.
RunOK ==
  /\ Onward
  /\ RanWasRequested'
  /\ up' \in BOOLEAN
  /\ \A d \in net' \ net : Replied(d)' /\ KeyedReply(d)

LEMMA RunDropOK ==
  ASSUME ExchangeInv, RunDrop, UNCHANGED client
  PROVE  RunOK
<1>1. PICK job \in ToSet(jobs) :
        /\ NextJob(job)
        /\ \/ Transmitted({Addressed(Daemon, job.from, [seal |-> NoKey, unit |-> RawUnit(Opaque)])})
           \/ UNCHANGED net
  BY DEF RunDrop
<1>2. NetOK /\ DaemonOK /\ RanWasRequested
  BY DEF ExchangeInv
<1>3. job.from # Daemon
  BY <1>1, <1>2, NextIsPending, JobShape
<1>4. Runs' = Runs /\ up' \in BOOLEAN
  BY <1>2 DEF RunDrop, Runs, DaemonOK
<1>5. Onward
  BY <1>1, <1>4 DEF Onward, Transmitted
<1>6. RanWasRequested'
  BY <1>2, <1>4, <1>5, RequestsStay
<1>7. ASSUME NEW d \in net' \ net PROVE Replied(d)' /\ KeyedReply(d)
  <2>1. d = Addressed(Daemon, job.from, [seal |-> NoKey, unit |-> RawUnit(Opaque)])
    BY <1>1 DEF Transmitted
  <2>2. d.from = Daemon /\ d.to = job.from /\ d.unit.version = 0 /\ d.unit.action = 0
    BY <2>1 DEF Addressed, RawUnit, Unit
  <2> QED
    BY <1>3, <2>2 DEF Replied, KeyedReply
<1> QED
  BY <1>4, <1>5, <1>6, <1>7 DEF RunOK

LEMMA RefuseOK ==
  ASSUME ExchangeInv, Refuse, UNCHANGED client
  PROVE  RunOK
<1>1. /\ UNCHANGED <<net, up>>
      /\ Runs' = Runs
  BY DEF Refuse, Silent, Runs
<1>2. Onward
  BY <1>1 DEF Onward
<1>3. RanWasRequested'
  BY <1>1, <1>2, RequestsStay DEF ExchangeInv
<1> QED
  BY <1>1, <1>2, <1>3 DEF RunOK, ExchangeInv, DaemonOK

\* A job that was run and is answered for its user in the configuration left.
LEMMA AnsweredOK ==
  ASSUME ExchangeInv, UNCHANGED client, NEW kind, NEW job, RunKind(kind, job),
         NEW ok \in BOOLEAN, Recorded(job, ok), NEW text \in Texts(job),
         job.unit.user \in DOMAIN config'.users, Answer(job, ok, text)
  PROVE  RunOK
<1>1. net \subseteq net'
  BY DEF Answer, Transmitted
<1>2. /\ Onward
      /\ RanWasRequested'
      /\ job.from # Daemon
      /\ text \in Nat
  BY <1>1, RunsAsRequested
<1>3. PICK r \in Runs' : r.unit = job.unit /\ r.ok = ok
  BY <1>1, RunsAsRequested
<1>4. job.unit.version # 0
  BY DEF RunKind
<1>5. /\ up' \in {up, FALSE}
      /\ \A d \in net' \ net :
           /\ Replied(d)'
           /\ d.unit.user = job.unit.user
           /\ d.seal \in {NoKey, ReplySession(job).public}
           /\ d.unit.sig.key = ReplySession(job).hmac
  BY <1>2, <1>3, <1>4, AnswerIsReply
<1>6. \A d \in net' \ net : KeyedReply(d)
  BY <1>5 DEF KeyedReply, ReplySession, UserOf
<1>7. up' \in BOOLEAN
  BY <1>5 DEF ExchangeInv, DaemonOK
<1> QED
  BY <1>2, <1>5, <1>6, <1>7 DEF RunOK

LEMMA RunHandlerOK ==
  ASSUME ExchangeInv, RunHandler, UNCHANGED client
  PROVE  RunOK
<1>0. PICK job \in ToSet(jobs) :
        /\ RunKind("handler", job)
        /\ UNCHANGED config
        /\ \E ok \in BOOLEAN, text \in Texts(job) : Recorded(job, ok) /\ Answer(job, ok, text)
  BY DEF RunHandler
<1>1. PICK ok \in BOOLEAN, text \in Texts(job) : Recorded(job, ok) /\ Answer(job, ok, text)
  BY <1>0
<1>2. job.unit.user \in DOMAIN config'.users
  BY <1>0 DEF RunKind, Runnable, Bound
<1> QED
  BY <1>0, <1>1, <1>2, AnsweredOK

LEMMA RunReloadOK ==
  ASSUME ExchangeInv, RunReload, UNCHANGED client
  PROVE  RunOK
<1>0. PICK job \in ToSet(jobs) :
        /\ RunKind("reload", job)
        /\ \E ok \in BOOLEAN, text \in Texts(job) :
             /\ Recorded(job, ok)
             /\ IF job.unit.user \in DOMAIN config'.users THEN Answer(job, ok, text) ELSE Silent
  BY DEF RunReload
<1>1. PICK ok \in BOOLEAN, text \in Texts(job) :
        /\ Recorded(job, ok)
        /\ IF job.unit.user \in DOMAIN config'.users THEN Answer(job, ok, text) ELSE Silent
  BY <1>0
<1>2. CASE job.unit.user \in DOMAIN config'.users
  BY <1>0, <1>1, <1>2, AnsweredOK
<1>3. CASE job.unit.user \notin DOMAIN config'.users
  <2>1. UNCHANGED <<up, net>>
    BY <1>1, <1>3 DEF Silent
  <2>2. Onward /\ RanWasRequested'
    BY <1>0, <1>1, <2>1, RunsAsRequested
  <2> QED
    BY <2>1, <2>2 DEF RunOK, ExchangeInv, DaemonOK
<1> QED
  BY <1>2, <1>3

LEMMA RunJobOK ==
  ASSUME ExchangeInv, RunJob, UNCHANGED client
  PROVE  RunOK
BY RunDropOK, RefuseOK, RunHandlerOK, RunReloadOK DEF RunJob

LEMMA RunningKeeps ==
  ASSUME ExchangeInv, RunJob, UNCHANGED client
  PROVE  DaemonOK'
<1>1. DaemonOK /\ RunOK
  BY RunJobOK DEF ExchangeInv
<1>2. net \subseteq net'
  BY <1>1 DEF RunOK, Onward
<1>3. PICK job : NextJob(job)
  BY DEF RunJob, RunDrop, Refuse, RunHandler, RunReload, RunKind
<1>4. jobs' \in Seq(Pending) /\ Len(jobs') <= JobCapacity
  BY <1>1, <1>3, NextIsPending
<1>5. jobs' \in Seq(Pending)'
  <2> DEFINE P == Pending
             Q == Pending'
  <2>1. P \subseteq Q
    BY <1>2, PendingGrows
  <2>2. jobs' \in Seq(P)
    BY <1>4
  <2> HIDE DEF P, Q
  <2>3. jobs' \in Seq(Q)
    BY <2>1, <2>2
  <2> QED
    BY <2>3 DEF Q
<1>6. config' \in Configs
  BY <1>1 DEF RunJob, RunDrop, Refuse, RunHandler, RunReload, Reload, DaemonOK
<1>7. UNCHANGED <<claim, held>>
  BY DEF RunJob, RunDrop, Refuse, RunHandler, RunReload
<1>8. Arrived \subseteq Arrived'
  BY <1>2, PendingGrows
<1>9. up' \in BOOLEAN
  BY <1>1 DEF RunOK
<1> QED
  BY <1>1, <1>4, <1>5, <1>6, <1>7, <1>8, <1>9 DEF DaemonOK
-----------------------------------------------------------------------------
(* The datagrams of a payload *)

LEMMA TruncatedIsPayload ==
  ASSUME NEW c \in Clients
  PROVE  LET body == Truncated(Options[c].payload)
         IN  body \in Seq(Nat) /\ Len(body) \in Nat /\ Len(body) <= UserPayloadMax
<1> DEFINE p == Options[c].payload
           m == IF Len(p) < UserPayloadMax THEN Len(p) ELSE UserPayloadMax
<1>1. p \in Seq(Nat) /\ UserPayloadMax \in Nat
  BY KnockerAssumption, CodecsAssumption
<1>2. Len(p) \in Nat
  BY <1>1
<1>3. m \in 0 .. Len(p) /\ m <= UserPayloadMax
  BY <1>1, <1>2
<1>4. Truncated(p) = SubSeq(p, 1, m)
  BY DEF Truncated
<1> HIDE DEF p, m
<1>5. SubSeq(p, 1, m) \in Seq(Nat) /\ Len(SubSeq(p, 1, m)) = m
  BY <1>1, <1>2, <1>3
<1> QED
  BY <1>3, <1>4, <1>5 DEF p

\* A client sends as many datagrams as its options name.
LEMMA SentCount ==
  ASSUME NEW c \in Clients, CanSend(c), ~ Options[c].drop
  PROVE  LET u == RequestUnit(c)
         IN  FragmentCount(u.version, Len(u.body), Options[c].fragments) = Options[c].fragments
<1> DEFINE u == RequestUnit(c)
           o == Options[c].fragments
           n == FragmentCount(u.version, Len(u.body), o)
<1>1. n \in 1 .. EgressCapacity
  BY DEF CanSend, CanStage
<1>2. n # 0 /\ o \in Nat \ {0}
  BY <1>1, CodecsAssumption, KnockerAssumption
<1>3. Len(u.body) \in Nat /\ Len(u.body) <= UserPayloadMax
  BY TruncatedIsPayload DEF RequestUnit, Unit
<1> DEFINE v   == u.version
           len == Len(u.body)
<1>4. len \in Nat /\ len <= UserPayloadMax /\ FragmentCount(v, len, o) # 0
  BY <1>2, <1>3
<1> HIDE DEF v, len, o
<1>5. FragmentCount(v, len, o) = o
  <2>1. CASE o = 1
    BY <1>4, <2>1, OnePacket
  <2>2. CASE o # 1
    <3>1. o > 1
      BY <1>2, <2>2
    <3>2. FragmentCount(v, len, o) = IF v = 4 /\ o >= Required(len) THEN o ELSE 0
      BY <1>2, <3>1 DEF FragmentCount
    <3> QED
      BY <1>4, <3>2
  <2> QED
    BY <2>1, <2>2
<1> QED
  BY <1>5 DEF v, len, o

\* Each of them is a part of the payload, at its place.
LEMMA SentPart ==
  ASSUME NEW c \in Clients, CanSend(c), ~ Options[c].drop, NEW w \in RequestWires(c)
  PROVE  LET n == Options[c].fragments
         IN  /\ w.unit.index \in 0 .. n - 1
             /\ w.unit.body = FragmentBody(Truncated(Options[c].payload), n, w.unit.index)
<1> DEFINE o    == Options[c]
           n    == o.fragments
           u    == RequestUnit(c)
           body == Truncated(o.payload)
<1>1. n \in Nat \ {0}
  BY KnockerAssumption
<1>2. UnitShape(u) /\ u.body = body /\ u.index = 0 /\ u.count = 1
  BY DEF RequestUnit, Unit, UnitShape
<1>3. FragmentCount(u.version, Len(u.body), n) = n
  BY SentCount
<1>4. PICK f \in Fragments(u, n) : w = Encoded(f, o.encrypt, Authenticates(c), ClientSession(c))
  BY <1>3 DEF RequestWires, StagedWires
<1>5. body \in Seq(Nat) /\ Len(body) \in Nat
  BY TruncatedIsPayload
<1> HIDE DEF u, body
<1>6. f.index \in 0 .. n - 1 /\ f.body = FragmentBody(body, n, f.index)
  <2> HIDE DEF n
  <2>1. CASE n = 1
    <3>1. f = u
      BY <2>1 DEF Fragments
    <3>2. FragmentBody(body, 1, 0) = SubSeq(body, 1, Len(body))
      <4>1. FragmentOffset(Len(body), 1, 0) = 0
        BY <1>5, FragmentsTile
      <4>2. FragmentOffset(Len(body), 1, 0 + 1)
              = FragmentOffset(Len(body), 1, 0) + FragmentLength(Len(body), 1, 0)
        BY <1>5, FragmentsTile
      <4>3. FragmentOffset(Len(body), 1, 1) = Len(body)
        BY <1>5, FragmentsTile
      <4>4. FragmentLength(Len(body), 1, 0) = Len(body)
        <5>1. FragmentLength(Len(body), 1, 0) \in Nat
          BY <1>5, LengthIsNat
        <5> QED
          BY <1>5, <4>1, <4>2, <4>3, <5>1
      <4>5. FragmentBody(body, 1, 0)
              = SubSeq(body, FragmentOffset(Len(body), 1, 0) + 1,
                             FragmentOffset(Len(body), 1, 0) + FragmentLength(Len(body), 1, 0))
        BY DEF FragmentBody
      <4> QED
        BY <1>5, <4>1, <4>4, <4>5
    <3>3. SubSeq(body, 1, Len(body)) = body
      BY <1>5
    <3> QED
      BY <1>2, <2>1, <3>1, <3>2, <3>3
  <2>2. CASE n # 1
    <3>1. PICK i \in 0 .. n - 1 :
            f = [u EXCEPT !.body = FragmentBody(u.body, n, i), !.index = i, !.count = n]
      BY <2>2 DEF Fragments
    <3> DEFINE b == FragmentBody(u.body, n, i)
    <3>2. b = FragmentBody(body, n, i)
      BY <1>2
    <3> HIDE DEF b
    <3>3. f = [u EXCEPT !.body = b, !.index = i, !.count = n]
      BY <3>1 DEF b
    <3>4. f.body = b /\ f.index = i
      BY <1>2, <3>3 DEF UnitShape
    <3> QED
      BY <3>2, <3>4
  <2> QED
    BY <2>1, <2>2
<1>7. UnitShape(f)
  BY <1>1, <1>2, <1>4, FragmentKeeps
<1>8. w.unit = SignedUnit(f, Authenticates(c), ClientSession(c))
  BY <1>4 DEF Encoded
<1>9. w.unit.index = f.index /\ w.unit.body = f.body
  BY <1>7, <1>8, SignedKeeps
<1> QED
  BY <1>6, <1>9 DEF body

\* Every place has a datagram.
LEMMA EveryPlaceSent ==
  ASSUME NEW c \in Clients, CanSend(c), ~ Options[c].drop,
         NEW i \in 0 .. Options[c].fragments - 1
  PROVE  \E w \in RequestWires(c) : w.unit.index = i
<1> DEFINE o == Options[c]
           n == o.fragments
           u == RequestUnit(c)
<1>1. n \in Nat \ {0}
  BY KnockerAssumption
<1>2. UnitShape(u) /\ u.index = 0 /\ u.count = 1
  BY DEF RequestUnit, Unit, UnitShape
<1>3. FragmentCount(u.version, Len(u.body), n) = n
  BY SentCount
<1>4. RequestWires(c)
        = {Encoded(f, o.encrypt, Authenticates(c), ClientSession(c)) : f \in Fragments(u, n)}
  BY <1>3 DEF RequestWires, StagedWires
<1> HIDE DEF u
<1>5. \E f \in Fragments(u, n) : f.index = i /\ UnitShape(f)
  <2>1. CASE n = 1
    BY <1>2, <2>1 DEF Fragments
  <2>2. CASE n # 1
    <3> DEFINE b == FragmentBody(u.body, n, i)
               f == [u EXCEPT !.body = b, !.index = i, !.count = n]
    <3>1. f \in Fragments(u, n)
      BY <2>2 DEF Fragments
    <3>2. f.index = i
      <4> HIDE DEF b
      <4> QED
        BY <1>2 DEF UnitShape
    <3>3. UnitShape(f)
      BY <1>1, <1>2, <3>1, FragmentKeeps
    <3> QED
      BY <3>1, <3>2, <3>3
  <2> QED
    BY <2>1, <2>2
<1>6. PICK f \in Fragments(u, n) : f.index = i /\ UnitShape(f)
  BY <1>5
<1> DEFINE w == Encoded(f, o.encrypt, Authenticates(c), ClientSession(c))
<1>7. w \in RequestWires(c)
  BY <1>4
<1>8. w.unit = SignedUnit(f, Authenticates(c), ClientSession(c))
  BY DEF Encoded
<1>9. w.unit.index = i
  <2> HIDE DEF w
  <2> QED
    BY <1>6, <1>8, SignedKeeps
<1> QED
  BY <1>7, <1>9

\* What the network has at a place of a client's payload is that part of it: what
\* others sent has another challenge, what the daemon sent has action 0.
LEMMA PartIsFragment ==
  ASSUME ExchangeInv, NEW c \in Clients, client[c].phase = "waiting", ~ Options[c].drop,
         NEW j \in 1 .. Options[c].fragments
  PROVE  Part(c, j - 1)
           = FragmentBody(Truncated(Options[c].payload), Options[c].fragments, j - 1)
<1> DEFINE n     == Options[c].fragments
           i     == j - 1
           body  == Truncated(Options[c].payload)
           units == {u \in {d.unit : d \in net} : u.challenge = c /\ u.action # 0 /\ u.index = i}
<1>1. n \in Nat \ {0} /\ i \in 0 .. n - 1
  BY KnockerAssumption
<1>2. /\ CanSend(c)
      /\ \A w \in RequestWires(c) : Addressed(Options[c].address, Daemon, w) \in net
  BY DEF ExchangeInv, SentOK
<1>3. units # {}
  <2>1. PICK w \in RequestWires(c) : w.unit.index = i
    BY <1>1, <1>2, EveryPlaceSent
  <2>2. w.unit.challenge = c /\ w.unit.action # 0
    BY <1>2, RequestShape, KnockerAssumption
  <2>3. Addressed(Options[c].address, Daemon, w).unit = w.unit
    BY DEF Addressed
  <2>4. w.unit \in {d.unit : d \in net}
    BY <1>2, <2>3
  <2> QED
    BY <2>1, <2>2, <2>4
<1>4. ASSUME NEW u \in units PROVE u.body = FragmentBody(body, n, i)
  <2>1. PICK d \in net : u = d.unit
    OBVIOUS
  <2>2. u.challenge = c /\ u.action # 0 /\ u.index = i
    OBVIOUS
  <2>3. ~ Replied(d)
    BY <2>1, <2>2 DEF Replied
  <2>4. PICK b \in Clients :
          CanSend(b) /\ \E w \in RequestWires(b) : d = Addressed(Options[b].address, Daemon, w)
    BY <2>3 DEF ExchangeInv, NetOK, Requested
  <2>5. PICK w \in RequestWires(b) : d = Addressed(Options[b].address, Daemon, w)
    BY <2>4
  <2>6. u = w.unit
    BY <2>1, <2>5 DEF Addressed
  <2>7. CASE Options[b].drop
    <3>1. w.unit.action = 0
      BY <2>7 DEF RequestWires, RawUnit, Unit
    <3> QED
      BY <2>2, <2>6, <3>1
  <2>8. CASE ~ Options[b].drop
    <3>1. b = c
      BY <2>2, <2>4, <2>6, <2>8, RequestShape
    <3> QED
      BY <2>2, <2>4, <2>6, <3>1, SentPart
  <2> QED
    BY <2>7, <2>8
<1>5. (CHOOSE u \in units : TRUE) \in units
  BY <1>3
<1>6. Part(c, i) = (CHOOSE u \in units : TRUE).body
  BY DEF Part
<1> HIDE DEF units
<1> QED
  BY <1>4, <1>5, <1>6

-----------------------------------------------------------------------------
(* The theorems *)

LEMMA ExchangeInit == Init => ExchangeInv
<1> SUFFICES ASSUME Init PROVE ExchangeInv
  OBVIOUS
<1> USE DEF Init, DaemonInit
<1>1. NetOK
  BY DEF NetOK
<1>2. Runs = {}
  BY DEF Runs, EmptyBag, SetToBag, BagToSet
<1>3. DaemonOK
  <2>1. jobs = <<>> /\ jobs \in Seq(Pending)
    OBVIOUS
  <2>2. Len(jobs) <= JobCapacity
    BY <2>1, DispatchAssumption
  <2> QED
    BY <2>1, <2>2 DEF DaemonOK, Free
<1>4. ClientsOK /\ SentOK /\ \A c \in Clients : ~ client[c].heard
  BY DEF KnockerInit, Init0, ClientsOK, SentOK
<1> QED
  BY <1>1, <1>2, <1>3, <1>4 DEF ExchangeInv, RanWasRequested, AnswerMeansRun

LEMMA ExchangeStep == ExchangeInv /\ [Next]_vars => ExchangeInv'
<1> SUFFICES ASSUME ExchangeInv, [Next]_vars PROVE ExchangeInv'
  OBVIOUS
<1>1. NetOK /\ SentOK /\ DaemonOK /\ ClientsOK /\ RanWasRequested /\ AnswerMeansRun
  BY DEF ExchangeInv
<1>2. CASE KnockerNext /\ UNCHANGED daemonVars
  <2>1. Onward /\ Runs' = Runs
    BY <1>1, <1>2, ClientOnward
  <2>2. NetOK'
    BY <1>1, <1>2, ClientNet
  <2>3. DaemonOK'
    <3>1. net \subseteq net'
      BY <2>1 DEF Onward
    <3>2. Arrived \subseteq Arrived' /\ jobs \in Seq(Pending')
      BY <1>1, <3>1, PendingGrows, QueueStays DEF DaemonOK
    <3> QED
      BY <1>1, <1>2, <3>2 DEF DaemonOK, daemonVars
  <2>4. ClientsOK' /\ AnswerMeansRun'
    BY <1>1, <1>2, ClientAnswers
  <2>5. RanWasRequested'
    BY <1>1, <2>1, RequestsStay
  <2>6. SentOK'
    BY <1>1, <1>2, ClientSent
  <2> QED
    BY <2>2, <2>3, <2>4, <2>5, <2>6 DEF ExchangeInv
<1>3. CASE TakesIn /\ UNCHANGED <<net, client>>
  <2>1. DaemonOK' /\ UNCHANGED ran
    BY <1>1, <1>3, TakingInKeeps
  <2>2. Onward /\ Runs' = Runs
    BY <1>3, <2>1 DEF Onward, Runs
  <2>3. NetOK'
    BY <1>1, <1>3, <2>2, NetGrows
  <2>4. RanWasRequested'
    BY <1>1, <2>2, RequestsStay
  <2>5. AnswerMeansRun'
    BY <1>1, <1>3, <2>2, AnswersStay
  <2>6. ClientsOK'
    BY <1>1, <1>3 DEF ClientsOK
  <2>7. SentOK'
    BY <1>1, <1>3, SentStays
  <2> QED
    BY <2>1, <2>3, <2>4, <2>5, <2>6, <2>7 DEF ExchangeInv
<1>4. CASE RunJob /\ UNCHANGED client
  <2>1. RunOK
    BY <1>4, RunJobOK
  <2>2. DaemonOK'
    BY <1>4, RunningKeeps
  <2>3. NetOK'
    BY <1>1, <2>1, NetGrows DEF RunOK
  <2>4. AnswerMeansRun'
    BY <1>1, <1>4, <2>1, AnswersStay DEF RunOK
  <2>5. ClientsOK'
    BY <1>1, <1>4 DEF ClientsOK
  <2>6. SentOK'
    BY <1>1, <1>4, <2>1, SentStays DEF RunOK, Onward
  <2> QED
    BY <2>1, <2>2, <2>3, <2>4, <2>5, <2>6 DEF ExchangeInv, RunOK
<1>5. CASE UNCHANGED vars
  <2>1. UNCHANGED net /\ UNCHANGED client /\ UNCHANGED daemonVars
    BY <1>5 DEF vars, daemonVars
  <2>2. Onward /\ Runs' = Runs
    BY <2>1 DEF Onward, Runs, daemonVars
  <2>3. NetOK' /\ RanWasRequested' /\ AnswerMeansRun'
    BY <1>1, <2>1, <2>2, NetGrows, RequestsStay, AnswersStay
  <2>4. DaemonOK' /\ ClientsOK'
    <3>1. Arrived \subseteq Arrived' /\ jobs \in Seq(Pending')
      BY <1>1, <2>1, PendingGrows, QueueStays DEF DaemonOK
    <3> QED
      BY <1>1, <2>1, <3>1 DEF DaemonOK, ClientsOK, daemonVars
  <2>5. SentOK'
    BY <1>1, <2>1, SentStays
  <2> QED
    BY <2>3, <2>4, <2>5 DEF ExchangeInv
<1>6. Next => \/ KnockerNext /\ UNCHANGED daemonVars
              \/ TakesIn /\ UNCHANGED <<net, client>>
              \/ RunJob /\ UNCHANGED client
  BY DEF Next, DaemonNext, TakesIn
<1> QED
  BY <1>2, <1>3, <1>4, <1>5, <1>6

\* The inductive invariant: who sent what is on the network, that the daemon
\* holds and queues only what reached it, and what runs and is reported.
THEOREM ExchangeInvariance == Spec => []ExchangeInv
BY ExchangeInit, ExchangeStep, PTL DEF Spec

\* payload.c, m7mux stream and job queue: their bounds hold, the fragments that
\* wait have places of their own.
THEOREM ExchangeTypes == Spec => []TypeOK
<1>1. ExchangeInv => TypeOK
  BY DEF ExchangeInv, DaemonOK, ClientsOK, TypeOK
<1> QED
  BY <1>1, ExchangeInvariance, PTL

\* payload.c, app_daemon_payload_consume: an action runs only for a client that
\* asked for it and signed it with the user's key of that moment.
THEOREM RequestedAlways == Spec => []RanWasRequested
<1>1. ExchangeInv => RanWasRequested
  BY DEF ExchangeInv
<1> QED
  BY <1>1, ExchangeInvariance, PTL

\* transmit.c, app_transmit_process_mux_response: what a client reports from a
\* reply is the outcome of its own request.
THEOREM AnswersAlways == Spec => []AnswerMeansRun
<1>1. ExchangeInv => AnswerMeansRun
  BY DEF ExchangeInv
<1> QED
  BY <1>1, ExchangeInvariance, PTL

\* transmit.c, app_transmit_prepare_packet, and codec/v4/v4.c: the datagrams of a
\* client that waits are its payload cut to the room of user data, whatever the
\* number of fragments, and nothing else passes for one of them.
THEOREM PayloadsWhole == Spec => []PayloadsTravelWhole
<1>1. ExchangeInv => PayloadsTravelWhole
  <2> SUFFICES ASSUME ExchangeInv, NEW c \in Clients,
                      client[c].phase = "waiting", ~ Options[c].drop
               PROVE  FlattenSeq([i \in 1 .. Options[c].fragments |-> Part(c, i - 1)])
                        = Truncated(Options[c].payload)
    BY DEF PayloadsTravelWhole
  <2> DEFINE body == Truncated(Options[c].payload)
             n    == Options[c].fragments
  <2>1. body \in Seq(Nat) /\ n \in Nat \ {0}
    BY TruncatedIsPayload, KnockerAssumption
  <2>2. \A i \in 1 .. n : Part(c, i - 1) = FragmentBody(body, n, i - 1)
    BY PartIsFragment
  <2> HIDE DEF body, n
  <2>3. [i \in 1 .. n |-> Part(c, i - 1)] = [i \in 1 .. n |-> FragmentBody(body, n, i - 1)]
    BY <2>2
  <2>4. FlattenSeq([i \in 1 .. n |-> FragmentBody(body, n, i - 1)]) = body
    BY <2>1, FragmentsReassemble
  <2>5. FlattenSeq([i \in 1 .. n |-> Part(c, i - 1)]) = body
    BY <2>3, <2>4
  <2> QED
    BY <2>5 DEF body, n
<1> QED
  BY <1>1, ExchangeInvariance, PTL

\* payload.c, app_daemon_payload_dispatch_action, and crypto.c,
\* app_inbound_crypto_assign_session_to_user: a reply leaves in the keys its user
\* has in the configuration of after the action, also when that was a reload.
THEOREM RepliesRekeyed == Spec => RepliesUnderNewKeys
<1> DEFINE Keyed == \A d \in net' \ net :
                      d.from = Daemon /\ d.unit.version # 0 =>
                        /\ d.unit.user \in DOMAIN config'.users
                        /\ d.seal \in {NoKey, config'.users[d.unit.user].public}
                        /\ d.unit.sig.key = config'.users[d.unit.user].hmac
<1>1. ExchangeInv /\ [Next]_vars => [Keyed]_vars
  <2> SUFFICES ASSUME ExchangeInv, Next PROVE Keyed
    OBVIOUS
  <2>1. CASE KnockerNext
    <3>1. ASSUME NEW c \in Clients, Send(c), NEW d \in net' \ net
          PROVE  d.from # Daemon
      <4>1. \E w \in RequestWires(c) : d = Addressed(Options[c].address, Daemon, w)
        BY <3>1 DEF Send, Transmitted
      <4> QED
        BY <4>1, KnockerAssumption DEF Addressed
    <3>2. \A d \in net' \ net : d.from # Daemon
      BY <2>1, <3>1 DEF KnockerNext, FailToSend
    <3> QED
      BY <3>2
  <2>2. CASE RunJob /\ UNCHANGED client
    <3>1. RunOK
      BY <2>2, RunJobOK
    <3> QED
      BY <3>1 DEF RunOK, KeyedReply
  <2>3. CASE UNCHANGED net
    BY <2>3
  <2> QED
    BY <2>1, <2>2, <2>3 DEF Next, DaemonNext
<1>2. Spec => [][Keyed]_vars
  BY <1>1, ExchangeInvariance, PTL DEF Spec
<1> QED
  BY <1>2 DEF RepliesUnderNewKeys
=============================================================================
