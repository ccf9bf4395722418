---------------------------- MODULE DaemonReplies ----------------------------
(***************************************************************************)
(* The answering side of the daemon: the job queue (job.c), the loop that  *)
(* runs the jobs and stages their replies (runner.c), the outbox that      *)
(* serializes a reply into one or more datagrams (outbox.c) and the egress *)
(* queue that keeps them until the socket takes them (egress.c).           *)
(*                                                                         *)
(* What a job's action does is its reply alone: none, or one of Sizes, the *)
(* number of datagrams the codec of the request needs for it, with 0 for a *)
(* reply that codec cannot carry (codecs v1 to v3 do not fragment).  An    *)
(* action may also rebind the listener, and the next turn of the loop then *)
(* makes a new mux for the new socket.                                     *)
(***************************************************************************)
EXTENDS Integers, SequencesExt

CONSTANTS
  Sizes,            \* reply sizes in datagrams
  JobCapacity,      \* APP_JOB_READY_QUEUE_CAPACITY
  EgressCapacity,   \* M7MUX_EGRESS_QUEUE_CAPACITY
  MaxRequests       \* bound: packets the mux delivers in a behaviour

ASSUME RepliesAssumption ==
  /\ Sizes \subseteq Nat
  /\ JobCapacity \in Nat \ {0}
  /\ EgressCapacity \in Nat \ {0}
  /\ MaxRequests \in Nat

VARIABLES
  rebound,    \* listener->sock is not the descriptor of the mux any more
  turn,      \* of the loop: "pump", "drain", "jobs", or "stopped"
  requests,   \* packets delivered so far: the next serial
  jobs,       \* the job queue: serials of the packets
  egress,     \* datagrams the egress queue holds
  sent,       \* datagrams the socket took, in order
  answered    \* serials of jobs that had their reply staged, without those whose
              \* reply a replaced mux still held

repliesVars == <<rebound, turn, requests, jobs, egress, sent, answered>>

Datagram(n, i, c) == [serial |-> n, index |-> i, count |-> c]

Reply(n, c) == [i \in 1 .. c |-> Datagram(n, i - 1, c)]

-----------------------------------------------------------------------------
(* outbox.c and egress.c, on a queue q *)

\* Mutant of Remaining: the refused datagram is dropped.
RemainingDropped(q, k) == SubSeq(q, k + 2, Len(q))

\* Mutant of Remaining: the refused datagram goes to the tail.
RemainingRotated(q, k) ==
  IF k < Len(q) THEN SubSeq(q, k + 2, Len(q)) \o <<q[k + 1]>> ELSE <<>>

\* The queue after the socket took its first k datagrams and refused the next.
Remaining(q, k) == SubSeq(q, k + 1, Len(q))
Taken(q, k)     == SubSeq(q, 1, k)

\* Mutant of Fits: room for one datagram is room for a reply.
FitsOne(q, c) == c # 0 /\ Len(q) < EgressCapacity

\* A reply is staged with all its datagrams or not at all.
Fits(q, c) ==
  /\ c # 0
  /\ Len(q) < EgressCapacity
  /\ c <= EgressCapacity - Len(q)

-----------------------------------------------------------------------------

RepliesInit ==
  /\ rebound = FALSE
  /\ turn = "pump"
  /\ requests = 0
  /\ jobs = <<>>
  /\ egress = <<>>
  /\ sent = <<>>
  /\ answered = {}

\* m7mux_outbox_flush: as many datagrams as the socket takes, from the head.
Flush(k) ==
  /\ egress' = Remaining(egress, k)
  /\ sent' = sent \o Taken(egress, k)

\* m7mux_pump flushes before and after it looks for new datagrams.
Pump(k) ==
  /\ turn = "pump"
  /\ ~ rebound
  /\ turn' = "drain"
  /\ Flush(k)
  /\ UNCHANGED <<rebound, requests, jobs, answered>>

\* The loop finds another socket: the old mux goes, with what it had not sent.
ReplaceMux ==
  /\ turn = "pump"
  /\ rebound
  /\ rebound' = FALSE
  /\ egress' = <<>>
  /\ answered' = answered \ {egress[n].serial : n \in DOMAIN egress}
  /\ UNCHANGED <<turn, requests, jobs, sent>>

\* A packet of the mux becomes a job, or is lost when the job queue is full.
Enqueue ==
  /\ turn = "drain"
  /\ requests < MaxRequests
  /\ requests' = requests + 1
  /\ jobs' = IF Len(jobs) >= JobCapacity THEN jobs ELSE Append(jobs, requests)
  /\ UNCHANGED <<rebound, turn, egress, sent, answered>>

DrainEnd ==
  /\ turn = "drain"
  /\ turn' = "jobs"
  /\ UNCHANGED <<rebound, requests, jobs, egress, sent, answered>>

\* The job at the head rebinds the listener before it replies.  The loop compares
\* descriptors, so a second rebind may bring back the number the mux has.
Rebind ==
  /\ turn = "jobs"
  /\ jobs # <<>>
  /\ rebound' \in BOOLEAN
  /\ rebound \/ rebound'
  /\ UNCHANGED <<turn, requests, jobs, egress, sent, answered>>

\* A job that does not reply.
RunSilentJob ==
  /\ turn = "jobs"
  /\ jobs # <<>>
  /\ jobs' = Tail(jobs)
  /\ UNCHANGED <<rebound, turn, requests, egress, sent, answered>>

\* A reply of c datagrams fits into the egress queue.
RunJobAndStage(c) ==
  /\ turn = "jobs"
  /\ jobs # <<>>
  /\ Fits(egress, c)
  /\ jobs' = Tail(jobs)
  /\ egress' = egress \o Reply(Head(jobs), c)
  /\ answered' = answered \cup {Head(jobs)}
  /\ UNCHANGED <<rebound, turn, requests, sent>>

\* It does not: flush and try once more.
RunJobAndFlush(c, k) ==
  /\ turn = "jobs"
  /\ jobs # <<>>
  /\ ~ Fits(egress, c)
  /\ Fits(Remaining(egress, k), c)
  /\ jobs' = Tail(jobs)
  /\ egress' = Remaining(egress, k) \o Reply(Head(jobs), c)
  /\ sent' = sent \o Taken(egress, k)
  /\ answered' = answered \cup {Head(jobs)}
  /\ UNCHANGED <<rebound, turn, requests>>

\* The second try failed too: the loop ends, and with it the daemon, its job
\* queue and its mux.
RunJobAndStop(c, k) ==
  /\ turn = "jobs"
  /\ jobs # <<>>
  /\ ~ Fits(egress, c)
  /\ ~ Fits(Remaining(egress, k), c)
  /\ turn' = "stopped"
  /\ jobs' = <<>>
  /\ egress' = <<>>
  /\ sent' = sent \o Taken(egress, k)
  /\ UNCHANGED <<rebound, requests, answered>>

\* No job is left: flush and start over.
JobsEnd(k) ==
  /\ turn = "jobs"
  /\ jobs = <<>>
  /\ turn' = "pump"
  /\ Flush(k)
  /\ UNCHANGED <<rebound, requests, jobs, answered>>

RunJobAndReply(c) ==
  \/ RunJobAndStage(c)
  \/ \E k \in 0 .. Len(egress) : RunJobAndFlush(c, k)
  \/ \E k \in 0 .. Len(egress) : RunJobAndStop(c, k)

\* app_daemon_drain_jobs_and_flush.
RunJobs ==
  \/ RunSilentJob
  \/ \E c \in Sizes : RunJobAndReply(c)
  \/ \E k \in 0 .. Len(egress) : JobsEnd(k)

RepliesNext ==
  \/ \E k \in 0 .. Len(egress) : Pump(k)
  \/ ReplaceMux
  \/ Enqueue
  \/ DrainEnd
  \/ Rebind
  \/ RunJobs

-----------------------------------------------------------------------------

RepliesTypeOK ==
  /\ rebound \in BOOLEAN
  /\ turn \in {"pump", "drain", "jobs", "stopped"}
  /\ requests \in 0 .. MaxRequests
  /\ Len(jobs) <= JobCapacity
  /\ Len(egress) <= EgressCapacity
  /\ answered \subseteq 0 .. MaxRequests - 1

Log == sent \o egress

\* Replies leave in the order of their requests and each once, their datagrams
\* in order and next to each other, whatever the socket refuses and whenever
\* the outbox has to flush in the middle of a reply.
Before(a, b) ==
  \/ a.serial < b.serial
  \/ a.serial = b.serial /\ a.index < b.index

RepliesInOrder ==
  \A m \in 1 .. Len(Log) - 1 : Before(Log[m], Log[m + 1])

\* While the daemon runs, a reply is out or waiting with all its datagrams: a
\* full egress queue never cuts one and a refused send never loses one, as long
\* as the mux is not replaced.
RepliesWhole ==
  turn # "stopped" =>
    \A n \in answered :
      \E d \in ToSet(Log) :
        /\ d.serial = n
        /\ \A i \in 0 .. d.count - 1 : Datagram(n, i, d.count) \in ToSet(Log)

\* A refused send is retried until it succeeds (_flush_egress): under a socket that
\* accepts a whole flush again and again, the last datagram of every staged reply is
\* sent, whatever other jobs stage, flush and keep silent about meanwhile.  Only what
\* takes its mux away ends the retries: a stop, or a job that rebinds the listener.
RetriedUntilSent ==
  \A n \in 0 .. MaxRequests - 1 :
    n \in answered ~> \/ \E d \in ToSet(sent) : d.serial = n /\ d.index + 1 = d.count
                      \/ rebound \/ turn = "stopped"
=============================================================================
