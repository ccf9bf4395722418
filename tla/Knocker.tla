-------------------------------- MODULE Knocker --------------------------------
(***************************************************************************)
(* One transmit of the client (knock/app/transmit): it encodes a request,  *)
(* sends it and takes what comes back until its time is up.                *)
(*                                                                         *)
(* A client is a run of the program, with the options of its command line. *)
(* Its challenge is the client itself: a random number of 32 bits, taken   *)
(* to be nobody else's.                                                    *)
(***************************************************************************)
EXTENDS DatagramNet, FiniteSets

CONSTANTS
  Clients,
  Options,   \* client -> options
  MaxStarts  \* bound: clients that start in a behaviour

ASSUME KnockerAssumption ==
  \A c \in Clients :
    /\ Options[c].protocol \in Versions
    /\ Options[c].fragments \in Nat \ {0}
    \* a client has a socket of its own
    /\ Options[c].address # Daemon
    \* app_opts_transmit_validate
    /\ Options[c].action # 0
    /\ Options[c].payload \in Seq(Nat)
    /\ Options[c].protocol >= 3 =>
         Options[c].encrypt /\ Options[c].hmacMode = "normal" /\ ~ Options[c].drop
    /\ Options[c].drop => Options[c].hmacMode = "none" /\ Options[c].payload # <<>>

VARIABLE client   \* client -> phase, heard (something came back), exit status

Init0 == [phase |-> "idle", heard |-> FALSE, status |-> 1]

KnockerInit == client = [c \in Clients |-> Init0]

Waiting(c) == client[c].phase = "waiting"

-----------------------------------------------------------------------------
(* The request *)

\* What user data has no room for is not sent.
Truncated(body) == SubSeq(body, 1, IF Len(body) < UserPayloadMax THEN Len(body) ELSE UserPayloadMax)

DummySignature == [key |-> NoKey, of |-> <<"dummy">>]

RequestUnit(c) ==
  LET o == Options[c]
  IN  Unit(o.protocol, o.user, o.action, c, Truncated(o.payload),
           IF o.hmacMode = "dummy" THEN DummySignature ELSE NoSignature)

\* It seals for the server's key and signs with its own.
ClientSession(c) ==
  [public |-> Options[c].server, hmac |-> IF Options[c].hmacMode = "normal"
                                          THEN Options[c].hmac ELSE NoKey]

Authenticates(c) == Options[c].hmacMode = "normal"

\* A client that encrypts must be able to read the reply.
CanSend(c) ==
  LET o == Options[c]
  IN  IF o.drop THEN o.encrypt => o.server # NoKey
      ELSE /\ o.encrypt => o.private # NoKey
           /\ CanStage(RequestUnit(c), o.fragments, o.encrypt, Authenticates(c), ClientSession(c))

RequestWires(c) ==
  LET o == Options[c]
  IN  IF o.drop
      THEN {[seal |-> IF o.encrypt THEN o.server ELSE NoKey, unit |-> RawUnit(o.payload)]}
      ELSE StagedWires(RequestUnit(c), o.fragments, o.encrypt, Authenticates(c), ClientSession(c))

\* One socket, one client: an address is free for the next when its client is done.
AddressFree(c) == \A b \in Clients : Waiting(b) => Options[b].address # Options[c].address

Started == Cardinality({b \in Clients : client[b].phase # "idle"})

Send(c) ==
  /\ client[c].phase = "idle"
  /\ AddressFree(c)
  /\ Started < MaxStarts
  /\ CanSend(c)
  /\ client' = [client EXCEPT ![c].phase = "waiting"]
  /\ Transmitted({Addressed(Options[c].address, Daemon, w) : w \in RequestWires(c)})

FailToSend(c) ==
  /\ client[c].phase = "idle"
  /\ Started < MaxStarts
  /\ ~ CanSend(c)
  /\ client' = [client EXCEPT ![c].phase = "done"]
  /\ UNCHANGED net

-----------------------------------------------------------------------------
(* The wait for the reply *)

ClientContext(c) ==
  LET key == IF Options[c].encrypt THEN Options[c].private ELSE NoKey
  IN  [key |-> key, private |-> key, secure |-> Options[c].encrypt]

\* A dead drop registers no codec.
ClientLanes(c, d) ==
  IF Options[c].drop THEN {"raw"} ELSE Lanes(ClientContext(c), "ANY", d)

Signed(c, u) ==
  CASE Options[c].hmacMode = "normal" -> u.sig = Signature(Options[c].protocol, u, Options[c].hmac)
    [] Options[c].hmacMode = "dummy"  -> u.sig = DummySignature
    [] OTHER -> TRUE

\* Mutant of Valid: any reply to this user's action is taken.
ValidUnchallenged(c, u) ==
  /\ u.version # 0
  /\ u.action = 0
  /\ u.user = Options[c].user
  /\ Len(u.body) >= 3
  /\ u.body[1] \in {1, 2}
  /\ u.body[2] = Options[c].action
  /\ Signed(c, u)

Valid(c, u) ==
  /\ u.version # 0
  /\ u.action = 0
  /\ u.user = Options[c].user
  /\ u.challenge = c
  /\ Len(u.body) >= 3
  /\ u.body[1] \in {1, 2}
  /\ u.body[2] = Options[c].action
  /\ Signed(c, u)

StatusOf(u) == IF u.body[1] = 1 THEN 0 ELSE 2

Hears(c, d, lane) ==
  /\ Waiting(c)
  /\ d.to = Options[c].address
  /\ lane \in ClientLanes(c, d)

\* A valid reply sets the exit status, also after another one did; a dead drop
\* takes anything.
HearReply(c, d) ==
  /\ \/ Options[c].drop /\ Hears(c, d, "raw")
     \/ ~ Options[c].drop /\ Hears(c, d, "structured") /\ Valid(c, d.unit)
  /\ client' = [client EXCEPT ![c].heard = TRUE,
                              ![c].status = IF Options[c].drop THEN 0 ELSE StatusOf(d.unit)]

\* One that is refused counts as a response and changes nothing else.
HearOther(c, d) ==
  /\ ~ Options[c].drop
  /\ \/ Hears(c, d, "raw")
     \/ Hears(c, d, "structured") /\ ~ Valid(c, d.unit)
  /\ client' = [client EXCEPT ![c].heard = TRUE]

\* The time is up.  Silence is no failure.
GiveUp(c) ==
  /\ Waiting(c)
  /\ client' = [client EXCEPT ![c].phase = "done",
                              ![c].status = IF client[c].heard THEN @ ELSE 0]

KnockerNext ==
  \E c \in Clients :
    \/ Send(c)
    \/ FailToSend(c)
    \/ \E d \in net : (HearReply(c, d) \/ HearOther(c, d)) /\ UNCHANGED net
    \/ GiveUp(c) /\ UNCHANGED net
=============================================================================
