------------------------------- MODULE Dispatch -------------------------------
(***************************************************************************)
(* What the daemon makes of a datagram: the job it becomes, the chain that *)
(* job runs through (payload.c: bind, authorize, enforce, dispatch), what  *)
(* runs, and the reply.                                                    *)
(*                                                                         *)
(* A configuration is a record: the server's secure flag, key pair, ips,   *)
(* the actions it serves and its dead drops; users and actions by id.  An  *)
(* empty set of ips allows any.  Only a reload replaces it here, one that  *)
(* keeps the binding; RuntimeReload has the other ways.  Where the mux     *)
(* keeps fragments is MuxStream's; the clients of codec v4 all name the    *)
(* same session, stream and message, so there is one claim to keep.        *)
(***************************************************************************)
EXTENDS DatagramNet, IpRange, SequencesExt

CONSTANTS
  Configs,       \* what the configuration file may hold
  JobCapacity,   \* APP_JOB_READY_QUEUE_CAPACITY
  MaxPackets     \* bound: packets of v1 to v4 that wait or were run

ASSUME DispatchAssumption ==
  /\ JobCapacity \in Nat \ {0}
  /\ MaxPackets \in Nat
  \* the lengths of what an action's handler may say
  /\ \A c \in Configs : \A a \in DOMAIN c.actions : c.actions[a].texts \subseteq Nat

VARIABLES
  up,       \* the loop has not ended
  config,   \* the attached configuration
  policy,   \* the mux's policy on encryption, from when the mux was made
  claim,    \* of the v4 stream: next fragment and count, 0 while it is free
  held,     \* v4 fragments that wait in the stream
  jobs,     \* the job queue
  ran       \* bag of what was run: unit, key of its signature, outcome

daemonVars == <<up, config, policy, claim, held, jobs, ran>>

Free == [next |-> 0, count |-> 0]

DaemonInit ==
  /\ up = TRUE
  /\ config \in Configs
  /\ policy = IF config.secure THEN "YES" ELSE "NO"
  /\ claim = Free
  /\ held = {}
  /\ jobs = <<>>
  /\ ran = EmptyBag

-----------------------------------------------------------------------------
(* In: through the mux to the job queue *)

\* The private key goes to the codecs of a secure server only.
ServerContext ==
  LET key == IF config.secure THEN config.key ELSE NoKey
  IN  [key |-> key, private |-> key, secure |-> config.secure]

\* app_job_load_from_normal
Job(d) ==
  [from |-> d.from, unit |-> d.unit, encrypted |-> Sealed(d.unit.version, d.seal # NoKey)]

RawJob(d) == [from |-> d.from, unit |-> RawUnit(RawBytes(d)), encrypted |-> FALSE]

\* A job that finds the queue full is lost.
Enqueued(job) == jobs' = IF Len(jobs) < JobCapacity THEN Append(jobs, job) ELSE jobs

Packets == BagCardinality(ran) + Cardinality(held) + Len(jobs)

Accepted(d, lane) ==
  /\ up
  /\ Packets < MaxPackets
  /\ d.to = Daemon
  /\ lane \in Lanes(ServerContext, policy, d)

ReceiveRaw(d) ==
  /\ Accepted(d, "raw")
  /\ Enqueued(RawJob(d))
  /\ UNCHANGED <<up, config, policy, claim, held, ran>>

\* Mutant of Collides: only the same packet collides.
CollidesSame(d) == d \in held

Collides(d) == \E h \in held : h.unit.index = d.unit.index

\* A whole packet; one of v4 collides with a first fragment that waits.
ReceiveWhole(d) ==
  /\ Accepted(d, "structured")
  /\ d.unit.count = 1
  /\ d.unit.version = 4 => ~ Collides(d)
  /\ Enqueued(Job(d))
  /\ UNCHANGED <<up, config, policy, claim, held, ran>>

\* A fragment waits for its turn, unless one of its index does; the first that
\* finds the stream free sizes the claim.
ReceiveFragment(d) ==
  /\ Accepted(d, "structured")
  /\ d.unit.count > 1
  /\ claim' = IF claim = Free THEN [next |-> 0, count |-> d.unit.count] ELSE claim
  /\ held' = IF Collides(d) THEN held ELSE held \cup {d}
  /\ UNCHANGED <<up, config, policy, jobs, ran>>

Receive ==
  \E d \in net : ReceiveRaw(d) \/ ReceiveWhole(d) \/ ReceiveFragment(d)

\* The fragment whose turn it is, whichever message it was cut from.
HandOver(d) ==
  /\ up
  /\ d \in held
  /\ claim.count > 0
  /\ d.unit.index = claim.next
  /\ held' = held \ {d}
  /\ claim' = IF claim.next + 1 < claim.count THEN [claim EXCEPT !.next = @ + 1] ELSE Free
  /\ Enqueued(Job(d))
  /\ UNCHANGED <<up, config, policy, ran>>

ExpireFragment(d) ==
  /\ up
  /\ d \in held
  /\ held' = held \ {d}
  /\ UNCHANGED <<up, config, policy, claim, jobs, ran>>

\* The session goes; the next v4 packet gets another one, with fresh trackers.
ExpireSession ==
  /\ up
  /\ held = {}
  /\ claim # Free
  /\ claim' = Free
  /\ UNCHANGED <<up, config, policy, held, jobs, ran>>

-----------------------------------------------------------------------------
(* Through the chain *)

UserOf(c, u)   == c.users[u.user]
ActionOf(c, u) == c.actions[u.action]

Bound(c, u) == u.user \in DOMAIN c.users /\ u.action \in DOMAIN c.actions

\* Mutant of Authorized: the signature is checked where the codec said it must be.
AuthorizedUnsigned(c, u) ==
  u.sig # NoSignature => ValidSignature(u.version, u, UserOf(c, u).hmac)

Authorized(c, u) == ValidSignature(u.version, u, UserOf(c, u).hmac)

\* No list of restrictions, or one of them that admits the sender.
Allows(ips, address) == ips = {} \/ \E w \in ips : Admits(w, address)

Enforced(c, u, address) ==
  /\ u.action \in c.serves
  /\ u.action \in UserOf(c, u).actions
  /\ ActionOf(c, u).enabled
  /\ Allows(c.ips, address)
  /\ Allows(UserOf(c, u).ips, address)
  /\ Allows(ActionOf(c, u).ips, address)

Runnable(job) ==
  /\ Bound(config, job.unit)
  /\ Authorized(config, job.unit)
  /\ Enforced(config, job.unit, job.from)

NextJob(job) == up /\ jobs # <<>> /\ job = Head(jobs) /\ jobs' = Tail(jobs)

Recorded(job, ok) ==
  ran' = ran (+) SetToBag({[unit |-> job.unit, key |-> UserOf(config, job.unit).hmac, ok |-> ok]})

-----------------------------------------------------------------------------
(* Out: the reply *)

Zeros(n) == [i \in 1 .. n |-> 0]

\* SL_KNOCK_RESPONSE_STATUS_*, the request's action and flags before the text.
ReplyBody(u, ok, text) == <<IF ok THEN 1 ELSE 2, u.action, 0>> \o Zeros(text)

ReplyUnit(u, ok, text) ==
  Unit(u.version, u.user, 0, u.challenge, ReplyBody(u, ok, text), NoSignature)

\* The session a reply is sealed and signed in.
\* Mutant of ReplySession: it stays attached to the user of before.
ReplySessionStale(job) == UserOf(config, job.unit)

ReplySession(job) == UserOf(config', job.unit)

Staged(job, u) ==
  /\ Len(u.body) <= UserPayloadMax
  /\ CanStage(u, 1, job.encrypted, TRUE, ReplySession(job))

\* A reply that cannot be staged ends the loop.
Answer(job, ok, text) ==
  LET u == ReplyUnit(job.unit, ok, text)
  IN  \/ /\ Staged(job, u)
         /\ Transmitted({Addressed(Daemon, job.from, w) :
                           w \in StagedWires(u, 1, job.encrypted, TRUE, ReplySession(job))})
         /\ UNCHANGED up
      \/ /\ ~ Staged(job, u)
         /\ up' = FALSE
         /\ UNCHANGED net

Silent == UNCHANGED <<up, net>>

-----------------------------------------------------------------------------
(* One job of the queue *)

\* The dead drops of the server, the first one that fits.
DropOf(c, body) ==
  {i \in DOMAIN c.drops : /\ body # <<>>
                          /\ IsPrefix(c.drops[i].prefix, body)
                          /\ \A j \in 1 .. i - 1 : ~ IsPrefix(c.drops[j].prefix, body)}

\* Tab, line feed, carriage return and what can be printed.
Ascii(body) == ToSet(body) \subseteq {9, 10, 13} \cup 32 .. 126

\* Its output goes back as it is; none when there is none, or it is not captured.
RunDrop ==
  \E job \in ToSet(jobs) :
    /\ NextJob(job)
    /\ job.unit.version = 0
    /\ \E i \in DropOf(config, job.unit.body), output \in BOOLEAN :
         /\ config.drops[i].ascii => Ascii(job.unit.body)
         /\ IF output
            THEN Transmitted({Addressed(Daemon, job.from,
                                        [seal |-> NoKey, unit |-> RawUnit(Opaque)])})
            ELSE UNCHANGED net
    /\ UNCHANGED <<up, config, policy, claim, held, ran>>

\* Raw bytes nobody waits for, or a packet the chain stops.
Refuse ==
  \E job \in ToSet(jobs) :
    /\ NextJob(job)
    /\ IF job.unit.version = 0
       THEN \A i \in DropOf(config, job.unit.body) :
              config.drops[i].ascii /\ ~ Ascii(job.unit.body)
       ELSE ~ Runnable(job)
    /\ Silent
    /\ UNCHANGED <<config, policy, claim, held, ran>>

RunKind(kind, job) ==
  /\ NextJob(job)
  /\ job.unit.version # 0
  /\ Runnable(job)
  /\ ActionOf(config, job.unit).kind = kind

Texts(job) == ActionOf(config, job.unit).texts

\* A script, an object or a builtin that changes nothing here: its outcome, and
\* the text it comes with.
RunHandler ==
  \E job \in ToSet(jobs) :
    /\ RunKind("handler", job)
    /\ UNCHANGED config
    /\ \E ok \in BOOLEAN, text \in Texts(job) : Recorded(job, ok) /\ Answer(job, ok, text)
    /\ UNCHANGED <<policy, claim, held>>

\* reload_config keeps the configuration it had when it fails.
Reload(ok) == IF ok THEN config' \in Configs ELSE UNCHANGED config

\* A builtin answers in the session of the user in the configuration it leaves,
\* and not at all when the user is not in it.
RunReload ==
  \E job \in ToSet(jobs) :
    /\ RunKind("reload", job)
    /\ \E ok \in BOOLEAN, text \in Texts(job) :
         /\ Reload(ok)
         /\ Recorded(job, ok)
         /\ IF job.unit.user \in DOMAIN config'.users THEN Answer(job, ok, text) ELSE Silent
    /\ UNCHANGED <<policy, claim, held>>

\* app_daemon_payload_consume and the staging of its reply.
RunJob == RunDrop \/ Refuse \/ RunHandler \/ RunReload

DaemonNext ==
  \/ Receive /\ UNCHANGED net
  \/ \E d \in held : (HandOver(d) \/ ExpireFragment(d)) /\ UNCHANGED net
  \/ ExpireSession /\ UNCHANGED net
  \/ RunJob
=============================================================================
