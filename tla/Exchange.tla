------------------------------- MODULE Exchange -------------------------------
(***************************************************************************)
(* Clients, network and daemon together: a request goes out, is executed,  *)
(* and its reply comes back, over a network that loses, repeats and        *)
(* reorders datagrams, while clients give up, addresses are used again and *)
(* the configuration is reloaded.                                          *)
(***************************************************************************)
EXTENDS Dispatch, Knocker

vars == <<net, client, up, config, policy, claim, held, jobs, ran>>

Init ==
  /\ net = {}
  /\ KnockerInit
  /\ DaemonInit

Next ==
  \/ KnockerNext /\ UNCHANGED daemonVars
  \/ DaemonNext /\ UNCHANGED client

Spec == Init /\ [][Next]_vars

-----------------------------------------------------------------------------

Runs == BagToSet(ran)

\* The job queue is bounded, a claim is inside its message and what waits in the
\* stream are fragments of different places.
TypeOK ==
  /\ up \in BOOLEAN
  /\ config \in Configs
  /\ Len(jobs) <= JobCapacity
  /\ claim.count > 0 => claim.count > 1 /\ claim.next < claim.count
  /\ \A d, e \in held : d.unit.index = e.unit.index => d = e
  /\ \A c \in Clients : client[c].status \in 0 .. 2

RequestOf(c, u) ==
  /\ Options[c].user = u.user
  /\ Options[c].action = u.action
  /\ u.challenge = c

\* What app_transmit_process_mux_response lets through: the exit status a client
\* reports from a reply is that of its own request as the daemon ran it, never of
\* an earlier client at the same address, a refused packet or another user.
AnswerMeansRun ==
  \A c \in Clients :
    /\ client[c].heard
    /\ ~ Options[c].drop
    /\ client[c].status # 1
    => \E r \in Runs : RequestOf(c, r.unit) /\ r.ok = (client[c].status = 0)

FragmentsOf(c) ==
  {d.unit.body : d \in {d \in net : d.to = Daemon /\ d.unit.version # 0 /\ d.unit.challenge = c}}

\* The daemon runs an action only if a client asked for it, signed it with the key
\* the user has in the configuration of that moment, and sent this very part of
\* its payload: reloads, fragments of other clients that share the v4 stream and
\* jobs that wait in the queue do not mix requests up.  How often it runs is the
\* matter of PacketsRunOnce.
RanWasRequested ==
  \A r \in Runs :
    \E c \in Clients :
      /\ RequestOf(c, r.unit)
      /\ client[c].phase # "idle"
      /\ Options[c].hmacMode = "normal"
      /\ Options[c].hmac = r.key
      /\ r.unit.body \in FragmentsOf(c)

\* SECURITY.md: "Nonce cache ensures that identical packets cannot be reused to
\* repeat an access": however often the network delivers a packet, its action runs
\* once.
PacketsRunOnce == \A q, r \in Runs : q.unit = r.unit => q = r /\ ran[r] = 1

\* A reply leaves in the keys its user has after the action it answers, also when
\* that action replaced the configuration the job was bound to.
RepliesUnderNewKeys ==
  [][\A d \in net' \ net :
       d.from = Daemon /\ d.unit.version # 0 =>
         /\ d.unit.user \in DOMAIN config'.users
         /\ d.seal \in {NoKey, config'.users[d.unit.user].public}
         /\ d.unit.sig.key = config'.users[d.unit.user].hmac]_vars

\* The fragments of one message on the network are its client's payload, cut.
Part(c, i) ==
  LET units == {u \in {d.unit : d \in net} : u.challenge = c /\ u.action # 0 /\ u.index = i}
  IN  (CHOOSE u \in units : TRUE).body

PayloadsTravelWhole ==
  \A c \in Clients :
    /\ client[c].phase = "waiting"
    /\ ~ Options[c].drop
    => FlattenSeq([i \in 1 .. Options[c].fragments |-> Part(c, i - 1)])
         = Truncated(Options[c].payload)
=============================================================================
