---------------------------- MODULE LifecycleProofs ----------------------------
(***************************************************************************)
(* Proofs about the process that Lifecycle describes, with handlers,       *)
(* failing pumps, replaced muxes and signals between any two steps.        *)
(*                                                                         *)
(* For every size of the job and egress queues and of the replies: the     *)
(* replies of the daemon leave in the order of their requests and whole.   *)
(*                                                                         *)
(* For every list of subsystems that satisfies the assumptions of          *)
(* Bootstrap and every preparation that satisfies those of Lifecycle: what *)
(* a program has started it stops, once and while it is up, and the daemon *)
(* gives back what main, the runner and the handlers of its jobs have      *)
(* acquired, on every way out.                                             *)
(***************************************************************************)
EXTENDS Lifecycle, SequenceTheorems, TLAPS

Datagrams == [serial : Nat, index : Nat, count : Nat]

\* A sequence of datagrams in the order RepliesInOrder asks for.
Ordered(s) == \A m \in 1 .. Len(s) - 1 : Before(s[m], s[m + 1])

-----------------------------------------------------------------------------
(* Sequences of datagrams *)

\* m7mux_outbox_flush moves datagrams from one queue to the other end of the
\* socket; what went and what waits stay the same sequence.
LEMMA FlushKeepsLog ==
  ASSUME NEW s \in Seq(Datagrams), NEW q \in Seq(Datagrams), NEW k \in 0 .. Len(q)
  PROVE  /\ Taken(q, k) \in Seq(Datagrams)
         /\ Remaining(q, k) \in Seq(Datagrams)
         /\ Len(Remaining(q, k)) <= Len(q)
         /\ s \o Taken(q, k) \in Seq(Datagrams)
         /\ (s \o Taken(q, k)) \o Remaining(q, k) = s \o q
<1>1. Taken(q, k) \in Seq(Datagrams)
  BY SubSeqProperties, LenProperties DEF Taken
<1>2. Remaining(q, k) \in Seq(Datagrams) /\ Len(Remaining(q, k)) <= Len(q)
  BY SubSeqProperties, LenProperties DEF Remaining
<1>3. Taken(q, k) \o Remaining(q, k) = q
  <2>1. /\ 1 \in 1 .. Len(q) + 1
        /\ k \in 1 - 1 .. Len(q)
        /\ Len(q) \in k .. Len(q)
    BY LenProperties
  <2>2. SubSeq(q, 1, k) \o SubSeq(q, k + 1, Len(q)) = SubSeq(q, 1, Len(q))
    BY <2>1, ConcatAdjacentSubSeq
  <2> QED
    BY <2>2, SubSeqFull DEF Taken, Remaining
<1>4. s \o Taken(q, k) \in Seq(Datagrams)
  BY <1>1, ConcatProperties
<1>5. (s \o Taken(q, k)) \o Remaining(q, k) = s \o (Taken(q, k) \o Remaining(q, k))
  BY <1>1, <1>2, ConcatAssociative
<1> QED
  BY <1>1, <1>2, <1>3, <1>4, <1>5

\* What is put behind the queue is put behind the log.
LEMMA BehindQueue ==
  ASSUME NEW s \in Seq(Datagrams), NEW q \in Seq(Datagrams), NEW r \in Seq(Datagrams)
  PROVE  s \o (q \o r) = (s \o q) \o r
BY ConcatAssociative

\* A reply is a sequence of datagrams of its serial, in order.
LEMMA ReplyProperties ==
  ASSUME NEW n \in Nat, NEW c \in Nat
  PROVE  /\ Reply(n, c) \in Seq(Datagrams)
         /\ Len(Reply(n, c)) = c
         /\ \A i \in 1 .. c : Reply(n, c)[i] = Datagram(n, i - 1, c)
         /\ Ordered(Reply(n, c))
<1>1. \A i \in 1 .. c : Reply(n, c)[i] = Datagram(n, i - 1, c) /\ Reply(n, c)[i] \in Datagrams
  BY DEF Reply, Datagram, Datagrams
<1>2. Reply(n, c) \in [1 .. c -> Datagrams]
  BY <1>1 DEF Reply
<1>3. Reply(n, c) \in Seq(Datagrams)
  BY <1>2, SeqDef
<1>4. Len(Reply(n, c)) = c
  BY <1>2, <1>3, LenProperties
<1> QED
  BY <1>1, <1>3, <1>4 DEF Ordered, Before, Datagram

\* What is older comes first: two ordered sequences in a row are ordered.
LEMMA OrderedConcat ==
  ASSUME NEW s \in Seq(Datagrams), NEW t \in Seq(Datagrams), Ordered(s), Ordered(t),
         \A i \in 1 .. Len(s), j \in 1 .. Len(t) : s[i].serial < t[j].serial
  PROVE  Ordered(s \o t)
<1>1. Len(s) \in Nat /\ Len(t) \in Nat
  BY LenProperties
<1>2. /\ Len(s \o t) = Len(s) + Len(t)
      /\ \A i \in 1 .. Len(s) + Len(t) :
           (s \o t)[i] = IF i <= Len(s) THEN s[i] ELSE t[i - Len(s)]
  BY ConcatProperties
<1> SUFFICES ASSUME NEW m \in 1 .. Len(s) + Len(t) - 1
             PROVE  Before((s \o t)[m], (s \o t)[m + 1])
  BY <1>2 DEF Ordered
<1>3. CASE m < Len(s)
  BY <1>1, <1>2, <1>3 DEF Ordered
<1>4. CASE m = Len(s)
  BY <1>1, <1>2, <1>4 DEF Before
<1>5. CASE m > Len(s)
  <2>1. /\ m - Len(s) \in 1 .. Len(t) - 1
        /\ (s \o t)[m] = t[m - Len(s)]
        /\ (s \o t)[m + 1] = t[(m - Len(s)) + 1]
    BY <1>1, <1>2, <1>5
  <2> QED
    BY <2>1 DEF Ordered
<1> QED
  BY <1>1, <1>3, <1>4, <1>5

\* What is left when the end is cut off is ordered.
LEMMA OrderedPrefix ==
  ASSUME NEW s \in Seq(Datagrams), NEW t \in Seq(Datagrams), Ordered(s \o t)
  PROVE  Ordered(s)
<1>1. Len(s) \in Nat /\ Len(t) \in Nat
  BY LenProperties
<1>2. /\ Len(s \o t) = Len(s) + Len(t)
      /\ \A i \in 1 .. Len(s) : (s \o t)[i] = s[i]
  BY <1>1, ConcatProperties
<1> QED
  BY <1>1, <1>2 DEF Ordered

\* The datagrams of two sequences in a row.
LEMMA ToSetConcat ==
  ASSUME NEW s \in Seq(Datagrams), NEW t \in Seq(Datagrams)
  PROVE  ToSet(s \o t) = ToSet(s) \cup ToSet(t)
<1>1. /\ Len(s) \in Nat /\ Len(t) \in Nat
      /\ DOMAIN s = 1 .. Len(s) /\ DOMAIN t = 1 .. Len(t)
      /\ DOMAIN (s \o t) = 1 .. Len(s) + Len(t)
  BY LenProperties, ConcatProperties
<1>2. /\ \A i \in 1 .. Len(s) : (s \o t)[i] = s[i]
      /\ \A i \in 1 .. Len(t) : (s \o t)[Len(s) + i] = t[i]
  BY <1>1, ConcatProperties
<1>3. \A i \in 1 .. Len(s) + Len(t) :
        i \in 1 .. Len(s) \/ \E j \in 1 .. Len(t) : i = Len(s) + j
  <2> SUFFICES ASSUME NEW i \in 1 .. Len(s) + Len(t), i \notin 1 .. Len(s)
               PROVE  \E j \in 1 .. Len(t) : i = Len(s) + j
    OBVIOUS
  <2>1. i - Len(s) \in 1 .. Len(t) /\ i = Len(s) + (i - Len(s))
    BY <1>1
  <2> QED
    BY <2>1
<1>4. \A i \in 1 .. Len(t) : Len(s) + i \in 1 .. Len(s) + Len(t)
  BY <1>1
<1>5. \A i \in 1 .. Len(s) : i \in 1 .. Len(s) + Len(t)
  BY <1>1
<1>6. ToSet(s \o t) \subseteq ToSet(s) \cup ToSet(t)
  BY <1>1, <1>2, <1>3 DEF ToSet
<1>7. ToSet(s) \subseteq ToSet(s \o t)
  BY <1>1, <1>2, <1>5 DEF ToSet
<1>8. ToSet(t) \subseteq ToSet(s \o t)
  BY <1>1, <1>2, <1>4 DEF ToSet
<1> QED
  BY <1>6, <1>7, <1>8

-----------------------------------------------------------------------------
(* The invariant of the loop *)

QueuesOK ==
  /\ rebound \in BOOLEAN
  /\ turn \in {"pump", "drain", "jobs", "stopped"}
  /\ requests \in 0 .. MaxRequests
  /\ jobs \in Seq(Nat) /\ Len(jobs) <= JobCapacity
  /\ sent \in Seq(Datagrams)
  /\ egress \in Seq(Datagrams) /\ Len(egress) <= EgressCapacity
  /\ answered \subseteq 0 .. MaxRequests - 1

\* Jobs wait in the order of their requests.
JobsAhead ==
  \A j \in 1 .. Len(jobs) :
    /\ jobs[j] < requests
    /\ \A i \in 1 .. j - 1 : jobs[i] < jobs[j]

\* What was answered was asked before anything that waits.
LogBehind ==
  \A d \in ToSet(Log) :
    /\ d.serial < requests
    /\ \A j \in 1 .. Len(jobs) : d.serial < jobs[j]

InOrder == JobsAhead /\ LogBehind /\ Ordered(Log)

RepliesInv == QueuesOK /\ InOrder /\ RepliesWhole

\* All datagrams of the reply to request n are in a sequence.
Whole(s, n) ==
  \E d \in ToSet(s) :
    /\ d.serial = n
    /\ \A i \in 0 .. d.count - 1 : Datagram(n, i, d.count) \in ToSet(s)

\* The log is a sequence of datagrams.
LEMMA LogIsSeq ==
  ASSUME QueuesOK
  PROVE  Log \in Seq(Datagrams)
BY ConcatProperties DEF QueuesOK, Log

\* The head of the job queue is the oldest request that waits; without it the
\* rest keeps its order.
LEMMA HeadIsOldest ==
  ASSUME QueuesOK, JobsAhead, jobs # <<>>
  PROVE  /\ Head(jobs) \in Nat /\ Head(jobs) < requests
         /\ Len(jobs) \in Nat \ {0} /\ Head(jobs) = jobs[1]
         /\ Tail(jobs) \in Seq(Nat)
         /\ Len(Tail(jobs)) = Len(jobs) - 1
         /\ \A j \in 1 .. Len(Tail(jobs)) :
              /\ \E k \in 1 .. Len(jobs) : Tail(jobs)[j] = jobs[k]
              /\ Tail(jobs)[j] < requests
              /\ Head(jobs) < Tail(jobs)[j]
              /\ \A i \in 1 .. j - 1 : Tail(jobs)[i] < Tail(jobs)[j]
<1>1. jobs \in Seq(Nat) /\ Len(jobs) \in Nat \ {0} /\ Head(jobs) = jobs[1]
  BY EmptySeq DEF QueuesOK
<1>2. /\ Head(jobs) \in Nat
      /\ Tail(jobs) \in Seq(Nat)
      /\ Len(Tail(jobs)) = Len(jobs) - 1
      /\ \A j \in 1 .. Len(Tail(jobs)) : Tail(jobs)[j] = jobs[j + 1]
  BY <1>1, HeadTailProperties
<1>3. Head(jobs) < requests
  BY <1>1 DEF JobsAhead
<1>4. ASSUME NEW j \in 1 .. Len(Tail(jobs))
      PROVE  /\ \E k \in 1 .. Len(jobs) : Tail(jobs)[j] = jobs[k]
             /\ Tail(jobs)[j] < requests
             /\ Head(jobs) < Tail(jobs)[j]
             /\ \A i \in 1 .. j - 1 : Tail(jobs)[i] < Tail(jobs)[j]
  <2>1. j + 1 \in 1 .. Len(jobs) /\ 1 \in 1 .. (j + 1) - 1 /\ Tail(jobs)[j] = jobs[j + 1]
    BY <1>1, <1>2
  <2>2. jobs[j + 1] < requests /\ jobs[1] < jobs[j + 1]
    BY <2>1 DEF JobsAhead
  <2>3. ASSUME NEW i \in 1 .. j - 1
        PROVE  Tail(jobs)[i] < Tail(jobs)[j]
    <3>1. /\ i + 1 \in 1 .. (j + 1) - 1
          /\ Tail(jobs)[i] = jobs[i + 1]
      BY <1>1, <1>2
    <3> QED
      BY <2>1, <3>1 DEF JobsAhead
  <2> QED
    BY <1>1, <2>1, <2>2, <2>3
<1> QED
  BY <1>1, <1>2, <1>3, <1>4

\* A step that cuts the log at its end, if at all, and drops jobs from the head
\* or all of them, keeps the order.
LEMMA CutKeepsOrder ==
  ASSUME QueuesOK, InOrder, NEW s \in Seq(Datagrams), NEW t \in Seq(Datagrams),
         Log = s \o t, Log' = s,
         UNCHANGED requests,
         jobs' \in {jobs, <<>>} \/ (jobs # <<>> /\ jobs' = Tail(jobs))
  PROVE  InOrder'
<1>1. Ordered(Log)'
  BY OrderedPrefix DEF InOrder
<1>2. ToSet(s) \subseteq ToSet(Log)
  BY ToSetConcat
<1>3. CASE jobs' = jobs
  BY <1>1, <1>2, <1>3 DEF InOrder, JobsAhead, LogBehind
<1>4. CASE jobs' = <<>>
  BY <1>1, <1>2, <1>4 DEF InOrder, JobsAhead, LogBehind
<1>5. CASE jobs # <<>> /\ jobs' = Tail(jobs)
  <2>1. \A j \in 1 .. Len(jobs') :
          /\ \E k \in 1 .. Len(jobs) : jobs'[j] = jobs[k]
          /\ jobs'[j] < requests
          /\ \A i \in 1 .. j - 1 : jobs'[i] < jobs'[j]
    BY <1>5, HeadIsOldest DEF InOrder
  <2>2. JobsAhead'
    BY <2>1 DEF JobsAhead
  <2>3. LogBehind'
    BY <1>2, <2>1 DEF InOrder, LogBehind
  <2> QED
    BY <1>1, <2>2, <2>3 DEF InOrder
<1> QED
  BY <1>3, <1>4, <1>5

\* The reply to a request goes behind the replies to older ones.
LEMMA ReplyGoesBehind ==
  ASSUME NEW s \in Seq(Datagrams), NEW n \in Nat, NEW c \in Nat,
         Ordered(s), \A d \in ToSet(s) : d.serial < n
  PROVE  /\ s \o Reply(n, c) \in Seq(Datagrams)
         /\ Ordered(s \o Reply(n, c))
         /\ \A d \in ToSet(s \o Reply(n, c)) : d \in ToSet(s) \/ d.serial = n
<1>1. /\ Reply(n, c) \in Seq(Datagrams)
      /\ Ordered(Reply(n, c))
      /\ Len(Reply(n, c)) = c
      /\ \A i \in 1 .. c : Reply(n, c)[i] = Datagram(n, i - 1, c)
  BY ReplyProperties
<1>2. \A i \in 1 .. c : Reply(n, c)[i].serial = n
  BY <1>1 DEF Datagram
<1>3. \A i \in 1 .. Len(s) : s[i].serial < n
  BY LenProperties DEF ToSet
<1>4. Ordered(s \o Reply(n, c))
  BY <1>1, <1>2, <1>3, OrderedConcat
<1>5. \A d \in ToSet(Reply(n, c)) : d.serial = n
  BY <1>1, <1>2, LenProperties DEF ToSet
<1> QED
  BY <1>1, <1>4, <1>5, ToSetConcat, ConcatProperties

\* The reply of the job at the head goes behind the log, and the job is gone.
LEMMA ReplyKeepsOrder ==
  ASSUME QueuesOK, InOrder, jobs # <<>>, NEW c \in Nat,
         Log' = Log \o Reply(Head(jobs), c),
         jobs' = Tail(jobs),
         UNCHANGED requests
  PROVE  InOrder'
<1>1. /\ Head(jobs) \in Nat /\ Head(jobs) < requests
      /\ Len(jobs) \in Nat \ {0} /\ Head(jobs) = jobs[1]
      /\ \A j \in 1 .. Len(jobs') :
           /\ \E k \in 1 .. Len(jobs) : jobs'[j] = jobs[k]
           /\ jobs'[j] < requests
           /\ Head(jobs) < jobs'[j]
           /\ \A i \in 1 .. j - 1 : jobs'[i] < jobs'[j]
  BY HeadIsOldest DEF InOrder
<1>2. Log \in Seq(Datagrams) /\ Ordered(Log) /\ \A d \in ToSet(Log) : d.serial < Head(jobs)
  BY <1>1, LogIsSeq DEF InOrder, LogBehind
<1>3. /\ Ordered(Log')
      /\ \A d \in ToSet(Log') : d \in ToSet(Log) \/ d.serial = Head(jobs)
  BY <1>1, <1>2, ReplyGoesBehind
<1>4. JobsAhead'
  BY <1>1 DEF JobsAhead
<1>5. LogBehind'
  BY <1>1, <1>3 DEF InOrder, LogBehind
<1>6. Ordered(Log)'
  BY <1>3 DEF Ordered
<1> QED
  BY <1>4, <1>5, <1>6 DEF InOrder

\* What a reply adds to the log is the whole of it.
LEMMA ReplyIsWhole ==
  ASSUME NEW s \in Seq(Datagrams), NEW n \in Nat, NEW c \in Nat \ {0}
  PROVE  Whole(s \o Reply(n, c), n)
<1> DEFINE r == Reply(n, c)
<1>1. /\ r \in Seq(Datagrams) /\ Len(r) = c /\ DOMAIN r = 1 .. c
      /\ \A i \in 1 .. c : r[i] = Datagram(n, i - 1, c)
  BY ReplyProperties, LenProperties
<1>2. \A i \in 0 .. c - 1 : Datagram(n, i, c) \in ToSet(r)
  <2> TAKE i \in 0 .. c - 1
  <2>1. i + 1 \in 1 .. c /\ (i + 1) - 1 = i
    OBVIOUS
  <2> QED
    BY <1>1, <2>1 DEF ToSet
<1>3. ToSet(r) \subseteq ToSet(s \o r)
  BY <1>1, ToSetConcat
<1>4. Datagram(n, 0, c) \in ToSet(s \o r) /\ Datagram(n, 0, c).serial = n
      /\ Datagram(n, 0, c).count = c
  BY <1>2, <1>3 DEF Datagram
<1> QED
  BY <1>2, <1>3, <1>4 DEF Whole

\* A longer log has no fewer replies whole.
LEMMA WholeStays ==
  ASSUME NEW s \in Seq(Datagrams), NEW t \in Seq(Datagrams), NEW n, Whole(s, n)
  PROVE  Whole(s \o t, n)
BY ToSetConcat DEF Whole

\* The elements of a sequence of datagrams.
LEMMA ToSetOfDatagrams ==
  ASSUME NEW s \in Seq(Datagrams)
  PROVE  ToSet(s) \subseteq Datagrams
BY LenProperties, ElementOfSeq DEF ToSet

\* Only what is whole is counted as answered, and a stopped loop promises nothing.
LEMMA WholeMeansWhole ==
  RepliesWhole <=> (turn # "stopped" => \A n \in answered : Whole(Log, n))
BY DEF RepliesWhole, Whole

-----------------------------------------------------------------------------
(* The steps of the loop *)

\* A flush, in pump or when no job is left, moves datagrams and nothing else.
LEMMA FlushStep ==
  ASSUME RepliesInv, NEW k \in 0 .. Len(egress), Flush(k),
         turn' \in {"pump", "drain", "jobs"}, turn # "stopped",
         UNCHANGED <<rebound, requests, jobs, answered>>
  PROVE  RepliesInv'
<1>1. QueuesOK
  BY DEF RepliesInv
<1>2. /\ egress' \in Seq(Datagrams) /\ sent' \in Seq(Datagrams)
      /\ Len(egress') <= Len(egress)
      /\ Log' = Log
  <2>1. sent \in Seq(Datagrams) /\ egress \in Seq(Datagrams)
    BY <1>1 DEF QueuesOK
  <2>2. egress' = Remaining(egress, k) /\ sent' = sent \o Taken(egress, k)
    BY DEF Flush
  <2>3. /\ Remaining(egress, k) \in Seq(Datagrams)
        /\ Len(Remaining(egress, k)) <= Len(egress)
        /\ sent \o Taken(egress, k) \in Seq(Datagrams)
        /\ (sent \o Taken(egress, k)) \o Remaining(egress, k) = sent \o egress
    BY <2>1, FlushKeepsLog
  <2> QED
    BY <2>2, <2>3 DEF Log
<1>3. QueuesOK'
  <2>1. Len(egress) \in Nat /\ Len(egress') \in Nat
    BY <1>1, <1>2, LenProperties DEF QueuesOK
  <2> QED
    BY <1>1, <1>2, <2>1, RepliesAssumption DEF QueuesOK
<1>4. InOrder'
  <2>1. Log \in Seq(Datagrams) /\ <<>> \in Seq(Datagrams) /\ Log = Log \o <<>>
    BY <1>1, LogIsSeq, EmptySeq, ConcatEmptySeq
  <2> QED
    BY <1>1, <1>2, <2>1, CutKeepsOrder DEF RepliesInv
<1>5. RepliesWhole'
  BY <1>2, WholeMeansWhole DEF RepliesInv, Whole, RepliesWhole
<1> QED
  BY <1>3, <1>4, <1>5 DEF RepliesInv

\* A new mux: the log is cut to what was sent, and a reply that still waited in
\* the old one, in part or whole, is not counted as answered any more.
LEMMA ReplaceStep ==
  ASSUME RepliesInv, ReplaceMux
  PROVE  RepliesInv'
<1>1. QueuesOK
  BY DEF RepliesInv
<1>2. /\ sent \in Seq(Datagrams) /\ egress \in Seq(Datagrams)
      /\ egress' = <<>> /\ sent' = sent
      /\ <<>> \in Seq(Datagrams)
  BY <1>1, EmptySeq DEF QueuesOK, ReplaceMux
<1>3. Log = sent \o egress /\ Log' = sent
  BY <1>2, ConcatEmptySeq DEF Log
<1>4. QueuesOK'
  <2>1. Len(egress') = 0
    BY <1>2, EmptySeq
  <2>2. /\ answered' \subseteq answered
        /\ rebound' \in BOOLEAN
        /\ UNCHANGED <<turn, requests, jobs>>
    BY DEF ReplaceMux
  <2>3. 0 <= EgressCapacity
    BY RepliesAssumption
  <2> QED
    BY <1>1, <1>2, <2>1, <2>2, <2>3 DEF QueuesOK
<1>5. InOrder'
  BY <1>1, <1>2, <1>3, CutKeepsOrder DEF RepliesInv, ReplaceMux
<1>6. RepliesWhole'
  <2>1. \A d \in ToSet(egress) : d.serial \notin answered'
    BY <1>2, LenProperties DEF ReplaceMux, ToSet
  <2>2. ToSet(Log) = ToSet(sent) \cup ToSet(egress)
    BY <1>2, <1>3, ToSetConcat
  <2>3. ASSUME NEW n \in answered'
        PROVE  Whole(sent, n)
    <3>1. n \in answered /\ turn # "stopped"
      BY <2>3 DEF ReplaceMux
    <3>2. Whole(Log, n)
      BY <3>1, WholeMeansWhole DEF RepliesInv
    <3>3. \A i, c : Datagram(n, i, c) \notin ToSet(egress)
      BY <2>1 DEF Datagram
    <3> QED
      BY <2>1, <2>2, <3>2, <3>3 DEF Whole
  <2> QED
    BY <1>3, <2>3 DEF RepliesWhole, Whole
<1> QED
  BY <1>4, <1>5, <1>6 DEF RepliesInv

\* A packet goes to the end of the job queue or is lost.
LEMMA EnqueueStep ==
  ASSUME RepliesInv, Enqueue
  PROVE  RepliesInv'
<1>1. QueuesOK /\ JobsAhead /\ LogBehind /\ Ordered(Log) /\ Log' = Log /\ Log \in Seq(Datagrams)
  BY LogIsSeq DEF RepliesInv, InOrder, Enqueue, Log
<1>2. requests' = requests + 1 /\ requests \in Nat /\ requests' \in 0 .. MaxRequests
  BY <1>1, RepliesAssumption DEF Enqueue, QueuesOK
<1>3. RepliesWhole'
  BY <1>1 DEF RepliesInv, RepliesWhole, Enqueue
<1>4. \A d \in ToSet(Log) : d.serial \in Nat /\ d.serial < requests
  BY <1>1, ToSetOfDatagrams DEF LogBehind, Datagrams
<1>5. Len(jobs) \in Nat /\ \A j \in 1 .. Len(jobs) : jobs[j] \in Nat
  BY <1>1, LenProperties, ElementOfSeq DEF QueuesOK
<1>6. CASE jobs' = jobs
  <2>1. QueuesOK'
    BY <1>1, <1>2, <1>6 DEF QueuesOK, Enqueue
  <2>2. JobsAhead'
    BY <1>1, <1>2, <1>5, <1>6 DEF JobsAhead
  <2>3. LogBehind'
    BY <1>1, <1>2, <1>4, <1>6 DEF LogBehind
  <2> QED
    BY <1>1, <1>3, <2>1, <2>2, <2>3 DEF RepliesInv, InOrder, Ordered
<1>7. CASE Len(jobs) < JobCapacity /\ jobs' = Append(jobs, requests)
  <2>1. /\ jobs' \in Seq(Nat)
        /\ Len(jobs') = Len(jobs) + 1
        /\ \A i \in 1 .. Len(jobs) : jobs'[i] = jobs[i]
        /\ jobs'[Len(jobs) + 1] = requests
    BY <1>1, <1>2, <1>7, AppendProperties DEF QueuesOK
  <2>2. QueuesOK'
    BY <1>1, <1>2, <1>5, <1>7, <2>1, RepliesAssumption DEF QueuesOK, Enqueue
  <2>3. JobsAhead'
    <3> SUFFICES ASSUME NEW j \in 1 .. Len(jobs')
                 PROVE  /\ jobs'[j] < requests'
                        /\ \A i \in 1 .. j - 1 : jobs'[i] < jobs'[j]
      BY DEF JobsAhead
    <3>1. CASE j <= Len(jobs)
      <4>1. /\ j \in 1 .. Len(jobs)
            /\ \A i \in 1 .. j - 1 : i \in 1 .. Len(jobs)
        BY <1>5, <3>1
      <4> QED
        BY <1>1, <1>2, <1>5, <2>1, <4>1 DEF JobsAhead
    <3>2. CASE j = Len(jobs) + 1
      <4>1. \A i \in 1 .. j - 1 : i \in 1 .. Len(jobs)
        BY <1>5, <3>2
      <4> QED
        BY <1>1, <1>2, <2>1, <3>2, <4>1 DEF JobsAhead
    <3> QED
      BY <1>5, <2>1, <3>1, <3>2
  <2>4. LogBehind'
    <3>1. \A j \in 1 .. Len(jobs') :
            jobs'[j] = requests \/ \E i \in 1 .. Len(jobs) : jobs'[j] = jobs[i]
      BY <1>5, <2>1
    <3>2. \A d \in ToSet(Log) : \A j \in 1 .. Len(jobs') : d.serial < jobs'[j]
      BY <1>1, <1>4, <3>1 DEF LogBehind
    <3>3. \A d \in ToSet(Log) : d.serial < requests'
      BY <1>2, <1>4
    <3> QED
      BY <1>1, <3>2, <3>3 DEF LogBehind
  <2> QED
    BY <1>1, <1>3, <2>2, <2>3, <2>4 DEF RepliesInv, InOrder, Ordered
<1> QED
  BY <1>1, <1>5, <1>6, <1>7, RepliesAssumption DEF Enqueue, QueuesOK

\* A job that says nothing leaves the queue.
LEMMA SilentStep ==
  ASSUME RepliesInv, RunSilentJob
  PROVE  RepliesInv'
<1>1. QueuesOK /\ InOrder /\ Log' = Log /\ Log \in Seq(Datagrams)
  BY LogIsSeq DEF RepliesInv, RunSilentJob, Log
<1>2. /\ jobs # <<>> /\ jobs' = Tail(jobs)
      /\ UNCHANGED <<rebound, turn, requests, egress, sent, answered>>
  BY DEF RunSilentJob
<1>3. jobs' \in Seq(Nat) /\ Len(jobs') <= Len(jobs) /\ Len(jobs) \in Nat /\ Len(jobs') \in Nat
  BY <1>1, <1>2, HeadIsOldest, LenProperties DEF InOrder
<1>4. QueuesOK'
  BY <1>1, <1>2, <1>3, RepliesAssumption DEF QueuesOK
<1>5. InOrder'
  <2>1. <<>> \in Seq(Datagrams) /\ Log = Log \o <<>>
    BY <1>1, EmptySeq, ConcatEmptySeq
  <2> QED
    BY <1>1, <1>2, <2>1, CutKeepsOrder
<1>6. RepliesWhole'
  BY <1>1, <1>2 DEF RepliesInv, RepliesWhole
<1> QED
  BY <1>4, <1>5, <1>6 DEF RepliesInv

\* The reply of the job at the head is staged behind the datagrams that wait,
\* after those the socket took: all of it, because it fits.
LEMMA StagedStep ==
  ASSUME RepliesInv, jobs # <<>>, turn = "jobs", NEW c \in Sizes, NEW k \in 0 .. Len(egress),
         Fits(Remaining(egress, k), c),
         jobs' = Tail(jobs),
         egress' = Remaining(egress, k) \o Reply(Head(jobs), c),
         sent' = sent \o Taken(egress, k),
         answered' = answered \cup {Head(jobs)},
         UNCHANGED <<rebound, turn, requests>>
  PROVE  RepliesInv'
<1> DEFINE h == Head(jobs)
<1> DEFINE q == Remaining(egress, k)
<1>1. /\ QueuesOK /\ InOrder /\ Log \in Seq(Datagrams)
      /\ sent \in Seq(Datagrams) /\ egress \in Seq(Datagrams)
  BY LogIsSeq DEF RepliesInv, QueuesOK
<1>2. /\ q \in Seq(Datagrams)
      /\ sent' \in Seq(Datagrams)
      /\ sent' \o q = Log
  <2>1. /\ q \in Seq(Datagrams)
        /\ sent \o Taken(egress, k) \in Seq(Datagrams)
        /\ (sent \o Taken(egress, k)) \o q = sent \o egress
    BY <1>1, FlushKeepsLog
  <2> QED
    BY <2>1 DEF Log
<1>3. /\ h \in Nat /\ h < requests
      /\ jobs' \in Seq(Nat) /\ Len(jobs') = Len(jobs) - 1
  BY <1>1, HeadIsOldest DEF InOrder
<1>4. c \in Nat \ {0} /\ c <= EgressCapacity - Len(q)
  BY RepliesAssumption DEF Fits
<1>5. /\ Reply(h, c) \in Seq(Datagrams)
      /\ Len(Reply(h, c)) = c
  BY <1>3, <1>4, ReplyProperties
<1>6. Log' = Log \o Reply(h, c)
  <2>1. Log' = sent' \o (q \o Reply(h, c))
    BY DEF Log
  <2>2. sent' \o (q \o Reply(h, c)) = (sent' \o q) \o Reply(h, c)
    BY <1>2, <1>5, BehindQueue
  <2> QED
    BY <1>2, <2>1, <2>2
<1>7. QueuesOK'
  <2>1. egress' \in Seq(Datagrams) /\ Len(egress') = Len(q) + c /\ Len(q) \in Nat
    BY <1>2, <1>5, ConcatProperties, LenProperties
  <2>2. Len(egress') <= EgressCapacity
    BY <1>4, <2>1, RepliesAssumption
  <2>3. Len(jobs') <= JobCapacity
    BY <1>1, <1>3, LenProperties, RepliesAssumption DEF QueuesOK
  <2>4. h \in 0 .. MaxRequests - 1
    BY <1>1, <1>3, RepliesAssumption DEF QueuesOK
  <2> QED
    BY <1>1, <1>2, <1>3, <2>1, <2>2, <2>3, <2>4 DEF QueuesOK
<1>8. InOrder'
  BY <1>1, <1>4, <1>6, ReplyKeepsOrder
<1>9. RepliesWhole'
  <2>1. Whole(Log \o Reply(h, c), h)
    BY <1>1, <1>3, <1>4, ReplyIsWhole
  <2>2. ASSUME NEW n \in answered
        PROVE  Whole(Log \o Reply(h, c), n)
    BY <1>1, <1>5, WholeMeansWhole, WholeStays DEF RepliesInv
  <2> QED
    BY <1>6, <2>1, <2>2 DEF RepliesWhole, Whole
<1> QED
  BY <1>7, <1>8, <1>9 DEF RepliesInv

\* The loop is over and takes its queues with it: after a stop request, a pump
\* that failed, or a reply that did not fit twice.
LEMMA StoppedStep ==
  ASSUME RepliesInv, NEW k \in 0 .. Len(egress),
         turn' = "stopped", jobs' = <<>>, egress' = <<>>,
         sent' = sent \o Taken(egress, k),
         UNCHANGED <<rebound, requests, answered>>
  PROVE  RepliesInv'
<1>1. /\ QueuesOK /\ InOrder
      /\ sent \in Seq(Datagrams) /\ egress \in Seq(Datagrams)
  BY DEF RepliesInv, QueuesOK
<1>2. /\ Remaining(egress, k) \in Seq(Datagrams)
      /\ sent \o Taken(egress, k) \in Seq(Datagrams)
      /\ (sent \o Taken(egress, k)) \o Remaining(egress, k) = sent \o egress
  BY <1>1, FlushKeepsLog
<1>3. sent' \in Seq(Datagrams) /\ Log' = sent' /\ Log = sent' \o Remaining(egress, k)
  BY <1>2, ConcatEmptySeq DEF Log
<1>4. QueuesOK'
  <2>1. <<>> \in Seq(Nat) /\ <<>> \in Seq(Datagrams) /\ Len(<<>>) = 0
    BY EmptySeq
  <2>2. 0 <= JobCapacity /\ 0 <= EgressCapacity
    BY RepliesAssumption
  <2> QED
    BY <1>1, <1>3, <2>1, <2>2 DEF QueuesOK
<1>5. InOrder'
  BY <1>1, <1>2, <1>3, CutKeepsOrder
<1>6. RepliesWhole'
  BY DEF RepliesWhole
<1> QED
  BY <1>4, <1>5, <1>6 DEF RepliesInv

\* A job that answers: its reply is staged, at once or behind a flush, or ends
\* the loop.
LEMMA AnswerStep ==
  ASSUME RepliesInv, NEW c \in Sizes, RunJobAndReply(c)
  PROVE  RepliesInv'
<1>1. /\ egress \in Seq(Datagrams) /\ Len(egress) \in Nat
      /\ sent \in Seq(Datagrams)
  BY LenProperties DEF RepliesInv, QueuesOK
<1>2. CASE RunJobAndStage(c)
  <2>1. 0 \in 0 .. Len(egress)
    BY <1>1
  <2>2. Remaining(egress, 0) = egress
    BY <1>1, SubSeqFull DEF Remaining
  <2>3. sent = sent \o Taken(egress, 0)
    BY <1>1, SubSeqEmpty, ConcatEmptySeq DEF Taken
  <2> QED
    BY <1>2, <2>1, <2>2, <2>3, StagedStep DEF RunJobAndStage
<1>3. ASSUME NEW k \in 0 .. Len(egress), RunJobAndFlush(c, k)
      PROVE  RepliesInv'
  BY <1>3, StagedStep DEF RunJobAndFlush
<1>4. ASSUME NEW k \in 0 .. Len(egress), RunJobAndStop(c, k)
      PROVE  RepliesInv'
  BY <1>4, StoppedStep DEF RunJobAndStop
<1> QED
  BY <1>2, <1>3, <1>4 DEF RunJobAndReply

\* A step that leaves the loop's variables, but for the listener and the turn.
LEMMA RepliesUntouched ==
  ASSUME RepliesInv,
         UNCHANGED <<requests, jobs, egress, sent, answered>>,
         rebound' \in BOOLEAN,
         turn' = turn \/ (turn # "stopped" /\ turn' = "jobs")
  PROVE  RepliesInv'
<1>1. Log' = Log
  BY DEF Log
<1>2. QueuesOK'
  BY DEF RepliesInv, QueuesOK
<1>3. InOrder'
  BY <1>1 DEF RepliesInv, InOrder, JobsAhead, LogBehind, Ordered
<1>4. RepliesWhole'
  BY <1>1 DEF RepliesInv, RepliesWhole
<1> QED
  BY <1>2, <1>3, <1>4 DEF RepliesInv

\* Every step of the loop keeps its invariant.
LEMMA RepliesStep ==
  ASSUME RepliesInv, RepliesNext
  PROVE  RepliesInv'
<1>1. ASSUME NEW k \in 0 .. Len(egress), Pump(k) \/ JobsEnd(k)
      PROVE  RepliesInv'
  BY <1>1, FlushStep DEF Pump, JobsEnd
<1>2. CASE DrainEnd \/ Rebind
  BY <1>2, RepliesUntouched DEF DrainEnd, Rebind, RepliesInv, QueuesOK
<1> QED
  BY <1>1, <1>2, ReplaceStep, EnqueueStep, SilentStep, AnswerStep DEF RepliesNext, RunJobs

-----------------------------------------------------------------------------
(* The loop in the process *)

\* A loop that ends sends nothing more.
LEMMA LoopOverStep ==
  ASSUME RepliesInv,
         turn' = "stopped", jobs' = <<>>, egress' = <<>>,
         UNCHANGED <<rebound, requests, sent, answered>>
  PROVE  RepliesInv'
<1>1. egress \in Seq(Datagrams) /\ Len(egress) \in Nat /\ sent \in Seq(Datagrams)
  BY LenProperties DEF RepliesInv, QueuesOK
<1>2. 0 \in 0 .. Len(egress) /\ sent' = sent \o Taken(egress, 0)
  BY <1>1, SubSeqEmpty, ConcatEmptySeq DEF Taken
<1> QED
  BY <1>2, StoppedStep

\* The process starts with nothing asked.
LEMMA RepliesInitially == Init => RepliesInv
<1> SUFFICES ASSUME Init PROVE RepliesInv
  OBVIOUS
<1>1. /\ rebound = FALSE /\ turn = "pump" /\ requests = 0 /\ jobs = <<>>
      /\ egress = <<>> /\ sent = <<>> /\ answered = {}
  BY DEF Init, RepliesInit
<1>2. <<>> \in Seq(Nat) /\ <<>> \in Seq(Datagrams) /\ Len(<<>>) = 0
  BY EmptySeq
<1>3. Log = <<>>
  BY <1>1, <1>2, ConcatEmptySeq DEF Log
<1>4. 0 <= JobCapacity /\ 0 <= EgressCapacity /\ 0 \in 0 .. MaxRequests
  BY RepliesAssumption
<1>5. QueuesOK
  BY <1>1, <1>2, <1>4 DEF QueuesOK
<1>6. InOrder
  BY <1>1, <1>2, <1>3 DEF InOrder, JobsAhead, LogBehind, Ordered, ToSet
<1>7. RepliesWhole
  BY <1>1 DEF RepliesWhole
<1> QED
  BY <1>5, <1>6, <1>7 DEF RepliesInv

\* The steps of the loop, with the processes of its jobs, keep the invariant.
LEMMA LoopKeepsReplies ==
  ASSUME RepliesInv, LoopNext
  PROVE  RepliesInv'
<1>1. CASE LoopStep(Idle /\ RepliesNext)
  BY <1>1, RepliesStep DEF LoopStep
<1>2. CASE UNCHANGED repliesVars
  BY <1>2, RepliesUntouched DEF repliesVars, RepliesInv, QueuesOK
<1>3. CASE LoopStep(JobEnds)
  BY <1>3, SilentStep, AnswerStep DEF LoopStep, JobEnds
<1>4. CASE LeaveLoop \/ PumpFails
  BY <1>4, LoopOverStep DEF LeaveLoop, PumpFails, LoopOver
<1> QED
  BY <1>1, <1>2, <1>3, <1>4 DEF LoopNext, LoopStep, HandlerStep, JobBegins

\* So does every step of the process: a boot, a shutdown and main leave the
\* queues alone, and a signal ends the loop or leaves them too.
LEMMA ProcessKeepsReplies == RepliesInv /\ [Next]_vars => RepliesInv'
<1> SUFFICES ASSUME RepliesInv, [Next]_vars PROVE RepliesInv'
  OBVIOUS
<1>1. CASE UNCHANGED repliesVars
  BY <1>1, RepliesUntouched DEF repliesVars, RepliesInv, QueuesOK
<1>2. CASE Booting \/ MainStep \/ UNCHANGED vars
  BY <1>1, <1>2 DEF Booting, MainStep, Acquire, AcquireFails, NothingToRun, BeginLoop,
     RunnerCleanup, MainCleanup, loopVars, vars
<1>3. CASE Signal
  <2>1. CASE HandledInWait
    BY <2>1, LoopOverStep DEF HandledInWait
  <2>2. CASE Handled \/ Default
    BY <1>1, <2>2 DEF Handled, Default, loopVars
  <2> QED
    BY <1>3, <2>1, <2>2 DEF Signal
<1> QED
  BY <1>2, <1>3, LoopKeepsReplies DEF Next

\* The invariant of the loop holds wherever the process is.
THEOREM RepliesInvariance == Spec => []RepliesInv
BY RepliesInitially, ProcessKeepsReplies, PTL DEF Spec

\* Replies leave in the order of their requests, each datagram once and in its
\* place, for queues and replies of any size: app_daemon_drain_jobs_and_flush,
\* m7mux_outbox_flush and m7mux_outbox_stage.
THEOREM InOrderAlways == Spec => []RepliesInOrder
<1>1. RepliesInv => RepliesInOrder
  BY DEF RepliesInv, InOrder, Ordered, RepliesInOrder
<1> QED
  BY <1>1, RepliesInvariance, PTL

\* No reply is ever staged in part, nor loses a part as long as its mux is there.
THEOREM WholeAlways == Spec => []RepliesWhole
<1>1. RepliesInv => RepliesWhole
  BY DEF RepliesInv
<1> QED
  BY <1>1, RepliesInvariance, PTL

-----------------------------------------------------------------------------
(* Orders *)

\* What is left of an order when its first n are done.
LeftOf(order, n) == SubSeq(order, n + 1, Len(order))

\* Of an order that is not through, the head is the next and the tail is left.
LEMMA NextInOrder ==
  ASSUME NEW order \in Seq(STRING), NEW n \in 0 .. Len(order), LeftOf(order, n) # <<>>
  PROVE  /\ n + 1 \in DOMAIN order
         /\ n + 1 \in 0 .. Len(order)
         /\ Head(LeftOf(order, n)) = order[n + 1]
         /\ Tail(LeftOf(order, n)) = LeftOf(order, n + 1)
BY DEF LeftOf

\* An order with nothing left is through.
LEMMA OrderOver ==
  ASSUME NEW order \in Seq(STRING), NEW n \in 0 .. Len(order), LeftOf(order, n) = <<>>
  PROVE  n = Len(order)
<1>1. Len(LeftOf(order, n)) = Len(order) - n
  BY DEF LeftOf
<1> QED
  BY <1>1

LEMMA OrderWhole ==
  ASSUME NEW order \in Seq(STRING)
  PROVE  /\ 0 \in 0 .. Len(order)
         /\ LeftOf(order, 0) = order
BY SubSeqFull, LenProperties DEF LeftOf

\* What is left are subsystems of the order.
LEMMA LeftAreNamed ==
  ASSUME NEW order \in Seq(STRING), NEW n \in 0 .. Len(order)
  PROVE  /\ LeftOf(order, n) \in Seq(STRING)
         /\ Subsystems(LeftOf(order, n)) \subseteq Subsystems(order)
BY DEF LeftOf, Subsystems

\* Taking the head off a list takes no other subsystem from it.
LEMMA TailNames ==
  ASSUME NEW order \in Seq(STRING), order # <<>>
  PROVE  /\ Tail(order) \in Seq(STRING)
         /\ Head(order) \in Subsystems(order)
         /\ Subsystems(Tail(order)) \subseteq Subsystems(order)
         /\ Subsystems(order) \subseteq Subsystems(Tail(order)) \cup {Head(order)}
<1>1. /\ Len(order) > 0 /\ DOMAIN order = 1 .. Len(order)
      /\ Tail(order) \in Seq(STRING) /\ DOMAIN Tail(order) = 1 .. Len(order) - 1
      /\ \A i \in 1 .. Len(order) - 1 : Tail(order)[i] = order[i + 1]
      /\ Head(order) = order[1]
  BY EmptySeq, HeadTailProperties, LenProperties
<1>2. \A i \in DOMAIN order : i = 1 \/ (i - 1 \in DOMAIN Tail(order) /\ Tail(order)[i - 1] = order[i])
  BY <1>1
<1>3. Subsystems(order) \subseteq Subsystems(Tail(order)) \cup {Head(order)}
  BY <1>1, <1>2 DEF Subsystems
<1> QED
  BY <1>1, <1>3 DEF Subsystems

LEMMA NothingLeft == Subsystems(<<>>) = {}
BY DEF Subsystems

LEMMA MaxOfLayers ==
  ASSUME NEW n \in Nat \ {0}
  PROVE  /\ 1 .. n # {}
         /\ Max(1 .. n) = n
BY DEF Max

-----------------------------------------------------------------------------
(* What the assumptions say of one layer *)

LEMMA LayerOrders ==
  ASSUME NEW p \in Programs
  PROVE  /\ Layers(p) = 1 .. Len(Start[p])
         /\ Len(Start[p]) \in Nat \ {0}
         /\ \A l \in Layers(p) :
              /\ {Start[p][l], Unwind[p][l], Stop[p][l]} \subseteq Seq(STRING)
              /\ Subsystems(Unwind[p][l]) \subseteq Subsystems(Start[p][l])
              /\ Subsystems(Stop[p][l]) \subseteq Subsystems(Start[p][l])
              /\ Subsystems(Start[p][l]) \subseteq All(p)
              /\ \A m \in Layers(p) : l # m =>
                   Subsystems(Start[p][l]) \cap Subsystems(Start[p][m]) = {}
<1>1. /\ Start[p] \in Seq(Seq(STRING)) /\ Unwind[p] \in Seq(Seq(STRING)) /\ Stop[p] \in Seq(Seq(STRING))
      /\ Layers(p) # {}
      /\ DOMAIN Unwind[p] = Layers(p) /\ DOMAIN Stop[p] = Layers(p)
  BY BootstrapAssumption
<1>2. Layers(p) = 1 .. Len(Start[p]) /\ Len(Start[p]) \in Nat \ {0}
  BY <1>1 DEF Layers
<1>3. \A l \in Layers(p) : {Start[p][l], Unwind[p][l], Stop[p][l]} \subseteq Seq(STRING)
  <2> SUFFICES ASSUME NEW l \in Layers(p)
               PROVE  Start[p][l] \in Seq(STRING) /\ Unwind[p][l] \in Seq(STRING) /\ Stop[p][l] \in Seq(STRING)
    OBVIOUS
  <2>1. /\ l \in 1 .. Len(Start[p])
        /\ l \in 1 .. Len(Unwind[p])
        /\ l \in 1 .. Len(Stop[p])
    BY <1>1, LenProperties DEF Layers
  <2>2. Start[p][l] \in Seq(STRING)
    BY <1>1, <2>1, ElementOfSeq
  <2>3. Unwind[p][l] \in Seq(STRING)
    BY <1>1, <2>1, ElementOfSeq
  <2>4. Stop[p][l] \in Seq(STRING)
    BY <1>1, <2>1, ElementOfSeq
  <2> QED
    BY <2>2, <2>3, <2>4
<1>4. \A l \in Layers(p) : Subsystems(Start[p][l]) \subseteq All(p)
  BY DEF All
<1> QED
  BY <1>2, <1>3, <1>4, BootstrapAssumption

\* A layer above or below another is not that one, and has other subsystems.
LEMMA OtherLayers ==
  ASSUME NEW p \in Programs, NEW l \in Layers(p), NEW m \in Layers(p), m < l \/ m > l
  PROVE  /\ m # l
         /\ Subsystems(Start[p][l]) \cap Subsystems(Start[p][m]) = {}
<1>1. l \in Int /\ m \in Int
  BY LayerOrders
<1>2. m # l
  BY <1>1
<1> QED
  BY <1>2, LayerOrders

-----------------------------------------------------------------------------
(* The inductive invariant of the boot *)

BootTypes ==
  /\ phase \in {"starting", "unwinding", "running", "stopping", "returned", "ended", "aborted"}
  /\ program \in Programs /\ layer \in Layers(program)
  /\ todo \in Seq(STRING) /\ Subsystems(todo) \subseteq Subsystems(Start[program][layer])
  /\ up \subseteq All(program) /\ marked \subseteq Layers(program)
  /\ logOpen \in BOOLEAN /\ refused \subseteq MayFail[program]
  /\ calls \in 0 .. 2
  /\ phase # "ended" => calls # 0
  /\ phase \in {"starting", "unwinding"} => calls = 1

\* Below the layer phase is about everything is up; above it, nothing a shutdown
\* would stop.
LayersInTurn ==
  phase \in {"starting", "unwinding", "running", "stopping"} =>
    \A m \in Layers(program) :
      /\ m < layer => Subsystems(Start[program][m]) \subseteq up
      /\ m > layer => Subsystems(Stop[program][m]) \cap up = {}

\* A layer that starts is up as far as its order has come, those above not at all.
StartsInOrder ==
  phase = "starting" =>
    /\ marked = 1 .. layer - 1
    /\ \E n \in 0 .. Len(Start[program][layer]) :
         /\ todo = LeftOf(Start[program][layer], n)
         /\ up \cap Subsystems(Start[program][layer]) = {Start[program][layer][i] : i \in 1 .. n}
    /\ \A m \in Layers(program) : m > layer => Subsystems(Start[program][m]) \cap up = {}

UnwindsTheRest ==
  phase = "unwinding" =>
    /\ marked = 1 .. layer - 1
    /\ up \cap Subsystems(Start[program][layer]) \subseteq Subsystems(todo)

RunsWithAllUp ==
  phase = "running" =>
    /\ layer = Len(Start[program]) /\ marked = Layers(program) /\ todo = <<>>
    /\ Subsystems(Start[program][layer]) \subseteq up

\* Of a layer that stops, those are up whose turn is still to come.
StopsInOrder ==
  phase = "stopping" =>
    /\ marked = 1 .. layer
    /\ \E n \in 0 .. Len(Stop[program][layer]) :
         /\ todo = LeftOf(Stop[program][layer], n)
         /\ \A i \in DOMAIN Stop[program][layer] : Stop[program][layer][i] \in up <=> i > n

ReturnsWithAllDown ==
  phase \in {"returned", "ended"} =>
    /\ marked = {}
    /\ \A l \in Layers(program) : Subsystems(Stop[program][l]) \cap up = {}

BootInv ==
  /\ BootTypes /\ LayersInTurn /\ StartsInOrder /\ UnwindsTheRest
  /\ RunsWithAllUp /\ StopsInOrder /\ ReturnsWithAllDown

-----------------------------------------------------------------------------
LEMMA BootInitially == BootInit => BootInv
<1> SUFFICES ASSUME BootInit PROVE BootInv
  OBVIOUS
<1>1. program \in Programs /\ phase = "starting" /\ layer = 1 /\ todo = Start[program][1] /\ up = {}
      /\ marked = {} /\ calls = 1 /\ refused = {} /\ logOpen = FALSE
  BY DEF BootInit
<1>2. 1 \in Layers(program) /\ Start[program][1] \in Seq(STRING)
  BY <1>1, LayerOrders
<1>3. BootTypes
  <2>1. layer \in Layers(program) /\ todo \in Seq(STRING)
        /\ Subsystems(todo) \subseteq Subsystems(Start[program][layer])
    BY <1>1, <1>2
  <2>2. /\ up \subseteq All(program) /\ marked \subseteq Layers(program)
        /\ logOpen \in BOOLEAN /\ refused \subseteq MayFail[program]
    BY <1>1
  <2> QED
    BY <1>1, <2>1, <2>2 DEF BootTypes
<1>4. LayersInTurn
  BY <1>1, <1>2, LayerOrders DEF LayersInTurn
<1>5. StartsInOrder
  <2>1. /\ 0 \in 0 .. Len(Start[program][layer])
        /\ todo = LeftOf(Start[program][layer], 0)
        /\ up \cap Subsystems(Start[program][layer]) = {Start[program][layer][i] : i \in 1 .. 0}
    BY <1>1, <1>2, OrderWhole
  <2> QED
    BY <1>1, <2>1 DEF StartsInOrder
<1> QED
  BY <1>1, <1>3, <1>4, <1>5 DEF BootInv, UnwindsTheRest, RunsWithAllUp, StopsInOrder, ReturnsWithAllDown

-----------------------------------------------------------------------------
(* Its steps *)

\* The next subsystem of a layer is up; init_lib, init_shared and init_app.
LEMMA StartNextKeeps ==
  ASSUME BootInv, StartNext
  PROVE  BootInv'
<1> DEFINE order == Start[program][layer]
           next == Head(todo)
<1>1. /\ phase = "starting" /\ phase' = phase /\ todo # <<>> /\ todo' = Tail(todo) /\ up' = up \cup {next}
      /\ UNCHANGED <<layer, marked, calls, refused, program, logOpen>>
  BY DEF StartNext
<1>2. program \in Programs /\ layer \in Layers(program) /\ order \in Seq(STRING)
  BY LayerOrders DEF BootInv, BootTypes
<1>3. /\ marked = 1 .. layer - 1
      /\ \A m \in Layers(program) : m > layer => Subsystems(Start[program][m]) \cap up = {}
  BY <1>1 DEF BootInv, StartsInOrder
<1>4. PICK n \in 0 .. Len(order) :
        /\ todo = LeftOf(order, n)
        /\ up \cap Subsystems(order) = {order[i] : i \in 1 .. n}
  BY <1>1 DEF BootInv, StartsInOrder
<1>5. /\ n + 1 \in DOMAIN order /\ n + 1 \in 0 .. Len(order)
      /\ next = order[n + 1] /\ todo' = LeftOf(order, n + 1)
  BY <1>1, <1>2, <1>4, NextInOrder
<1>6. next \in Subsystems(order) /\ next \in All(program)
  BY <1>2, <1>5, LayerOrders DEF Subsystems
<1>7. \A m \in Layers(program) :
        m > layer => next \notin Subsystems(Start[program][m])
  BY <1>2, <1>6, OtherLayers
<1>8. BootTypes'
  <2>1. todo' \in Seq(STRING) /\ Subsystems(todo') \subseteq Subsystems(order)
    BY <1>2, <1>5, LeftAreNamed
  <2> QED
    BY <1>1, <1>6, <2>1 DEF BootInv, BootTypes
<1>9. LayersInTurn'
  <2>1. \A m \in Layers(program) :
          /\ m < layer => Subsystems(Start[program][m]) \subseteq up
          /\ m > layer => Subsystems(Stop[program][m]) \cap up = {}
    BY <1>1 DEF BootInv, LayersInTurn
  <2>2. \A m \in Layers(program) : m > layer => next \notin Subsystems(Stop[program][m])
    <3>1. \A m \in Layers(program) : Subsystems(Stop[program][m]) \subseteq Subsystems(Start[program][m])
      BY <1>2, LayerOrders
    <3> QED
      BY <1>7, <3>1
  <2> QED
    BY <1>1, <2>1, <2>2 DEF LayersInTurn
<1>10. StartsInOrder'
  <2>1. up' \cap Subsystems(order) = {order[i] : i \in 1 .. n + 1}
    <3>1. {order[i] : i \in 1 .. n + 1} = {order[i] : i \in 1 .. n} \cup {order[n + 1]}
      BY <1>4
    <3> QED
      BY <1>1, <1>4, <1>5, <1>6, <3>1
  <2>2. \A m \in Layers(program) : m > layer => Subsystems(Start[program][m]) \cap up' = {}
    BY <1>1, <1>3, <1>7
  <2> QED
    BY <1>1, <1>3, <1>5, <2>1, <2>2 DEF StartsInOrder
<1> QED
  BY <1>1, <1>8, <1>9, <1>10 DEF BootInv, UnwindsTheRest, RunsWithAllUp, StopsInOrder, ReturnsWithAllDown

\* A layer is up and marked, and the next one starts or the program runs: siglatch_boot.
LEMMA LayerUpKeeps ==
  ASSUME BootInv, LayerUp
  PROVE  BootInv'
<1> DEFINE order == Start[program][layer]
<1>1. /\ phase = "starting" /\ todo = <<>> /\ marked' = marked \cup {layer}
      /\ UNCHANGED <<up, calls, refused, program, logOpen>>
  BY DEF LayerUp
<1>2. /\ program \in Programs /\ layer \in Layers(program) /\ order \in Seq(STRING)
      /\ Layers(program) = 1 .. Len(Start[program]) /\ Len(Start[program]) \in Nat \ {0}
  BY LayerOrders DEF BootInv, BootTypes
<1>3. /\ marked = 1 .. layer - 1
      /\ \A m \in Layers(program) : m > layer => Subsystems(Start[program][m]) \cap up = {}
  BY <1>1 DEF BootInv, StartsInOrder
<1>4. Subsystems(order) \subseteq up
  <2>1. PICK n \in 0 .. Len(order) :
          /\ todo = LeftOf(order, n)
          /\ up \cap Subsystems(order) = {order[i] : i \in 1 .. n}
    BY <1>1 DEF BootInv, StartsInOrder
  <2>2. n = Len(order)
    BY <1>1, <1>2, <2>1, OrderOver
  <2>3. Subsystems(order) = {order[i] : i \in 1 .. n}
    BY <1>2, <2>2 DEF Subsystems
  <2> QED
    BY <2>1, <2>3
<1>5. \A m \in Layers(program) : m < layer => Subsystems(Start[program][m]) \subseteq up
  BY <1>1 DEF BootInv, LayersInTurn
<1>6. marked' = 1 .. layer
  BY <1>1, <1>2, <1>3
<1>7. CASE /\ layer < Len(Start[program]) /\ layer' = layer + 1
           /\ todo' = Start[program][layer + 1] /\ phase' = phase
  <2>1. layer' \in Layers(program) /\ todo' \in Seq(STRING) /\ program' = program
    BY <1>1, <1>2, <1>7, LayerOrders
  <2>2. BootTypes'
    <3>1. phase' = "starting" /\ calls' = 1 /\ marked' \subseteq Layers(program)
      BY <1>1, <1>2, <1>6, <1>7 DEF BootInv, BootTypes
    <3>2. up' \subseteq All(program) /\ logOpen' \in BOOLEAN /\ refused' \subseteq MayFail[program]
      BY <1>1 DEF BootInv, BootTypes
    <3> QED
      BY <1>2, <1>7, <2>1, <3>1, <3>2 DEF BootTypes
  <2>3. \A m \in Layers(program) : m < layer' => Subsystems(Start[program][m]) \subseteq up
    BY <1>2, <1>4, <1>5, <1>7
  <2>4. \A m \in Layers(program) : m > layer' => Subsystems(Start[program][m]) \cap up = {}
    BY <1>2, <1>3, <1>7
  <2>5. LayersInTurn'
    <3>1. \A m \in Layers(program) : Subsystems(Stop[program][m]) \subseteq Subsystems(Start[program][m])
      BY <1>2, LayerOrders
    <3>2. \A m \in Layers(program) : m > layer' => Subsystems(Stop[program][m]) \cap up = {}
      BY <2>4, <3>1
    <3> QED
      BY <1>1, <2>3, <3>2 DEF LayersInTurn
  <2>6. StartsInOrder'
    <3>1. 0 \in 0 .. Len(Start[program][layer']) /\ todo' = LeftOf(Start[program][layer'], 0)
      BY <1>7, <2>1, OrderWhole
    <3>2. up' \cap Subsystems(Start[program][layer']) = {Start[program][layer'][i] : i \in 1 .. 0}
      BY <1>1, <1>2, <1>3, <1>7, <2>1
    <3>3. marked' = 1 .. layer' - 1
      BY <1>2, <1>6, <1>7
    <3> QED
      BY <1>1, <2>1, <2>4, <3>1, <3>2, <3>3 DEF StartsInOrder
  <2> QED
    BY <1>1, <1>7, <2>2, <2>5, <2>6
    DEF BootInv, UnwindsTheRest, RunsWithAllUp, StopsInOrder, ReturnsWithAllDown
<1>8. CASE layer = Len(Start[program]) /\ phase' = "running" /\ UNCHANGED <<layer, todo>>
  <2>1. BootTypes'
    BY <1>1, <1>2, <1>6, <1>8 DEF BootInv, BootTypes
  <2>2. LayersInTurn'
    BY <1>1, <1>2, <1>5, <1>8 DEF LayersInTurn
  <2>3. RunsWithAllUp'
    BY <1>1, <1>2, <1>4, <1>6, <1>8 DEF RunsWithAllUp
  <2> QED
    BY <1>8, <2>1, <2>2, <2>3 DEF BootInv, StartsInOrder, UnwindsTheRest, StopsInOrder, ReturnsWithAllDown
<1> QED
  BY <1>7, <1>8 DEF LayerUp

\* A start is refused: the fail label of the layer names all that had started.
LEMMA StartFailsKeeps ==
  ASSUME BootInv, StartFails
  PROVE  BootInv'
<1> DEFINE order == Start[program][layer]
<1>1. /\ phase = "starting" /\ todo # <<>> /\ Head(todo) \in MayFail[program]
      /\ phase' = "unwinding" /\ todo' = Unwind[program][layer] /\ refused' = {Head(todo)}
      /\ UNCHANGED <<layer, up, marked, calls, program, logOpen>>
  BY DEF StartFails
<1>2. program \in Programs /\ layer \in Layers(program) /\ order \in Seq(STRING)
  BY LayerOrders DEF BootInv, BootTypes
<1>3. PICK n \in 0 .. Len(order) :
        /\ todo = LeftOf(order, n)
        /\ up \cap Subsystems(order) = {order[i] : i \in 1 .. n}
  BY <1>1 DEF BootInv, StartsInOrder
<1>4. n + 1 \in DOMAIN order /\ Head(todo) = order[n + 1]
  BY <1>1, <1>2, <1>3, NextInOrder
<1>5. \A i \in 1 .. (n + 1) - 1 : order[i] \in Subsystems(Unwind[program][layer])
  BY <1>1, <1>2, <1>4, OrdersAssumption
<1>6. up \cap Subsystems(order) \subseteq Subsystems(todo')
  BY <1>1, <1>3, <1>5
<1>7. BootTypes'
  <2>1. todo' \in Seq(STRING) /\ Subsystems(todo') \subseteq Subsystems(order)
    BY <1>1, <1>2, LayerOrders
  <2> QED
    BY <1>1, <2>1 DEF BootInv, BootTypes
<1>8. LayersInTurn'
  BY <1>1 DEF BootInv, LayersInTurn
<1>9. UnwindsTheRest'
  BY <1>1, <1>6 DEF BootInv, StartsInOrder, UnwindsTheRest
<1> QED
  BY <1>1, <1>7, <1>8, <1>9 DEF BootInv, StartsInOrder, RunsWithAllUp, StopsInOrder, ReturnsWithAllDown

\* The label passes over what is not up.
LEMMA PassOverKeeps ==
  ASSUME BootInv, PassOver
  PROVE  BootInv'
<1>1. /\ phase = "unwinding" /\ phase' = phase /\ todo # <<>> /\ todo' = Tail(todo) /\ Head(todo) \notin up
      /\ UNCHANGED <<layer, up, marked, calls, refused, program, logOpen>>
  BY DEF PassOver
<1>2. todo \in Seq(STRING) /\ Subsystems(todo) \subseteq Subsystems(Start[program][layer])
  BY DEF BootInv, BootTypes
<1>3. /\ todo' \in Seq(STRING) /\ Subsystems(todo') \subseteq Subsystems(todo)
      /\ Subsystems(todo) \subseteq Subsystems(todo') \cup {Head(todo)}
  BY <1>1, <1>2, TailNames
<1>4. BootTypes'
  BY <1>1, <1>2, <1>3 DEF BootInv, BootTypes
<1>5. LayersInTurn'
  BY <1>1 DEF BootInv, LayersInTurn
<1>6. UnwindsTheRest'
  BY <1>1, <1>3 DEF BootInv, UnwindsTheRest
<1> QED
  BY <1>1, <1>4, <1>5, <1>6 DEF BootInv, StartsInOrder, RunsWithAllUp, StopsInOrder, ReturnsWithAllDown

\* One more subsystem is down: of a fail label or of a shutdown, whose order names
\* it once.
LEMMA StopNextKeeps ==
  ASSUME BootInv, StopNext
  PROVE  BootInv'
<1> DEFINE order == Stop[program][layer]
           next == Head(todo)
<1>1. /\ todo # <<>> /\ Stopping /\ up' = up \ {next} /\ todo' = Tail(todo)
      /\ UNCHANGED <<phase, layer, marked, calls, refused, program, logOpen>>
  BY DEF StopNext
<1>2. /\ program \in Programs /\ layer \in Layers(program) /\ order \in Seq(STRING)
      /\ todo \in Seq(STRING) /\ Subsystems(todo) \subseteq Subsystems(Start[program][layer])
  BY LayerOrders DEF BootInv, BootTypes
<1>3. /\ todo' \in Seq(STRING) /\ next \in Subsystems(todo) /\ Subsystems(todo') \subseteq Subsystems(todo)
      /\ Subsystems(todo) \subseteq Subsystems(todo') \cup {next}
  BY <1>1, <1>2, TailNames
<1>4. phase \in {"unwinding", "stopping"}
  BY <1>1 DEF Stopping
<1>5. BootTypes'
  BY <1>1, <1>2, <1>3 DEF BootInv, BootTypes
<1>6. LayersInTurn'
  <2>1. \A m \in Layers(program) :
          /\ m < layer => Subsystems(Start[program][m]) \subseteq up
          /\ m > layer => Subsystems(Stop[program][m]) \cap up = {}
    BY <1>4 DEF BootInv, LayersInTurn
  <2>2. \A m \in Layers(program) : m < layer => next \notin Subsystems(Start[program][m])
    BY <1>2, <1>3, OtherLayers
  <2> QED
    BY <1>1, <2>1, <2>2 DEF LayersInTurn
<1>7. UnwindsTheRest'
  BY <1>1, <1>3 DEF BootInv, UnwindsTheRest
<1>8. StopsInOrder'
  <2> SUFFICES ASSUME phase = "stopping" PROVE StopsInOrder'
    BY <1>1 DEF StopsInOrder
  <2>1. marked = 1 .. layer
    BY DEF BootInv, StopsInOrder
  <2>2. PICK n \in 0 .. Len(order) :
          /\ todo = LeftOf(order, n)
          /\ \A i \in DOMAIN order : order[i] \in up <=> i > n
    BY DEF BootInv, StopsInOrder
  <2>3. /\ n + 1 \in DOMAIN order /\ n + 1 \in 0 .. Len(order)
        /\ next = order[n + 1] /\ todo' = LeftOf(order, n + 1)
    BY <1>1, <1>2, <2>2, NextInOrder
  <2>4. \A i \in DOMAIN order : order[i] = next => i = n + 1
    BY <1>2, <2>3, OrdersAssumption DEF NamesOnce
  <2>5. DOMAIN order \subseteq Nat
    BY <1>2
  <2>6. \A i \in DOMAIN order : order[i] \in up' <=> i > n + 1
    BY <1>1, <2>2, <2>3, <2>4, <2>5
  <2> QED
    BY <1>1, <2>1, <2>3, <2>6 DEF StopsInOrder
<1> QED
  BY <1>1, <1>4, <1>5, <1>6, <1>7, <1>8 DEF BootInv, StartsInOrder, RunsWithAllUp, ReturnsWithAllDown

\* A library that is down ends the process before its caller is down.
LEMMA StopAbortsKeeps ==
  ASSUME BootInv, StopAborts
  PROVE  BootInv'
<1>1. BootTypes'
  BY DEF BootInv, BootTypes, StopAborts, Stopping
<1> QED
  BY <1>1 DEF StopAborts, BootInv, LayersInTurn, StartsInOrder, UnwindsTheRest, RunsWithAllUp,
     StopsInOrder, ReturnsWithAllDown

\* The shutdown goes to the topmost of the k layers that are up and marked; when
\* there is none it returns.
LEMMA DescendKeeps ==
  ASSUME BootTypes, NEW k \in 0 .. Len(Start[program]), Descend(1 .. k), marked' = 1 .. k,
         calls' \in 1 .. 2,
         UNCHANGED <<up, refused, program>>, logOpen' \in BOOLEAN,
         \A m \in 1 .. k : Subsystems(Start[program][m]) \subseteq up,
         \A m \in Layers(program) : m > k => Subsystems(Stop[program][m]) \cap up = {}
  PROVE  BootInv'
<1>1. /\ program \in Programs /\ layer \in Layers(program) /\ up \subseteq All(program)
      /\ refused \subseteq MayFail[program]
      /\ Layers(program) = 1 .. Len(Start[program]) /\ Len(Start[program]) \in Nat \ {0}
  BY LayerOrders DEF BootTypes
<1>2. marked' \subseteq Layers(program)
  BY <1>1
<1>3. CASE k = 0
  <2>1. 1 .. k = {}
    BY <1>3
  <2>2. phase' = "returned" /\ layer' = layer /\ todo' = todo
    BY <2>1 DEF Descend
  <2>3. BootTypes'
    BY <1>1, <1>2, <2>2 DEF BootTypes
  <2>4. ReturnsWithAllDown'
    BY <1>1, <1>3, <2>1 DEF ReturnsWithAllDown
  <2> QED
    BY <2>2, <2>3, <2>4 DEF BootInv, LayersInTurn, StartsInOrder, UnwindsTheRest, RunsWithAllUp, StopsInOrder
<1>4. CASE k # 0
  <2>1. 1 .. k # {} /\ Max(1 .. k) = k
    BY <1>1, <1>4, MaxOfLayers
  <2>2. phase' = "stopping" /\ layer' = k /\ todo' = Stop[program][k] /\ program' = program
    BY <2>1 DEF Descend
  <2>3. /\ k \in Layers(program) /\ Stop[program][k] \in Seq(STRING)
        /\ Subsystems(Stop[program][k]) \subseteq Subsystems(Start[program][k])
    <3>1. k \in Layers(program)
      BY <1>1, <1>4
    <3> QED
      BY <1>1, <3>1, LayerOrders
  <2>4. BootTypes'
    BY <1>1, <1>2, <2>2, <2>3 DEF BootTypes
  <2>5. LayersInTurn'
    BY <1>1, <2>2, <2>3 DEF LayersInTurn
  <2>6. StopsInOrder'
    <3>1. 0 \in 0 .. Len(Stop[program][k]) /\ todo' = LeftOf(Stop[program][k], 0)
      BY <2>2, <2>3, OrderWhole
    <3>2. \A i \in DOMAIN Stop[program][k] : Stop[program][k][i] \in up' <=> i > 0
      <4>1. Subsystems(Stop[program][k]) \subseteq up
        BY <1>1, <1>4, <2>3
      <4>2. \A i \in DOMAIN Stop[program][k] : i > 0 /\ Stop[program][k][i] \in up
        BY <2>3, <4>1 DEF Subsystems
      <4> QED
        BY <4>2
    <3> QED
      BY <2>2, <3>1, <3>2 DEF StopsInOrder
  <2> QED
    BY <2>2, <2>4, <2>5, <2>6 DEF BootInv, StartsInOrder, UnwindsTheRest, RunsWithAllUp, ReturnsWithAllDown
<1> QED
  BY <1>3, <1>4

\* The fail label is through, and the shutdown goes on below its layer.
LEMMA UnwoundKeeps ==
  ASSUME BootInv, Unwound
  PROVE  BootInv'
<1>1. /\ phase = "unwinding" /\ todo = <<>> /\ Descend(marked)
      /\ calls' = IF BootCleansUp[program] THEN calls + 1 ELSE calls
      /\ UNCHANGED <<up, marked, refused, program, logOpen>>
  BY DEF Unwound
<1>2. /\ program \in Programs /\ layer \in Layers(program)
      /\ Layers(program) = 1 .. Len(Start[program]) /\ Len(Start[program]) \in Nat \ {0}
      /\ Subsystems(Stop[program][layer]) \subseteq Subsystems(Start[program][layer])
  BY LayerOrders DEF BootInv, BootTypes
<1>3. marked = 1 .. layer - 1 /\ Subsystems(Start[program][layer]) \cap up = {}
  BY <1>1, NothingLeft DEF BootInv, UnwindsTheRest
<1>4. \A m \in Layers(program) :
        /\ m < layer => Subsystems(Start[program][m]) \subseteq up
        /\ m > layer => Subsystems(Stop[program][m]) \cap up = {}
  BY <1>1 DEF BootInv, LayersInTurn
<1>5. calls' \in 1 .. 2 /\ logOpen' \in BOOLEAN /\ BootTypes
  BY <1>1 DEF BootInv, BootTypes
<1>6. layer - 1 \in 0 .. Len(Start[program])
  BY <1>2
<1>7. \A m \in 1 .. layer - 1 : Subsystems(Start[program][m]) \subseteq up
  BY <1>2, <1>4
<1>8. \A m \in Layers(program) : m > layer - 1 => Subsystems(Stop[program][m]) \cap up = {}
  BY <1>2, <1>3, <1>4
<1> QED
  BY <1>1, <1>3, <1>5, <1>6, <1>7, <1>8, DescendKeeps

\* The program has run and all its layers are to stop.
LEMMA BeginStopKeeps ==
  ASSUME BootInv, BeginStop
  PROVE  BootInv'
<1>1. /\ phase = "running" /\ Descend(marked) /\ logOpen' \in BOOLEAN
      /\ UNCHANGED <<up, marked, calls, refused, program>>
  BY DEF BeginStop
<1>2. /\ Layers(program) = 1 .. Len(Start[program]) /\ Len(Start[program]) \in Nat \ {0}
  BY LayerOrders DEF BootInv, BootTypes
<1>3. /\ layer = Len(Start[program]) /\ marked = 1 .. Len(Start[program])
      /\ Subsystems(Start[program][layer]) \subseteq up
  BY <1>1, <1>2 DEF BootInv, RunsWithAllUp
<1>4. \A m \in Layers(program) : m < layer => Subsystems(Start[program][m]) \subseteq up
  BY <1>1 DEF BootInv, LayersInTurn
<1>5. BootTypes /\ calls' \in 1 .. 2
  BY <1>1 DEF BootInv, BootTypes
<1>6. \A m \in 1 .. Len(Start[program]) : Subsystems(Start[program][m]) \subseteq up
  BY <1>2, <1>3, <1>4
<1>7. \A m \in Layers(program) : m > Len(Start[program]) => Subsystems(Stop[program][m]) \cap up = {}
  BY <1>2
<1>8. Len(Start[program]) \in 0 .. Len(Start[program])
  BY <1>2
<1> QED
  BY <1>1, <1>3, <1>5, <1>6, <1>7, <1>8, DescendKeeps

\* A layer is down and its flag cleared; the one below is next.
LEMMA LayerDownKeeps ==
  ASSUME BootInv, LayerDown
  PROVE  BootInv'
<1>1. /\ phase = "stopping" /\ todo = <<>> /\ marked' = marked \ {layer} /\ Descend(marked \ {layer})
      /\ UNCHANGED <<up, calls, refused, program, logOpen>>
  BY DEF LayerDown
<1>2. /\ program \in Programs /\ layer \in Layers(program) /\ Stop[program][layer] \in Seq(STRING)
      /\ Layers(program) = 1 .. Len(Start[program]) /\ Len(Start[program]) \in Nat \ {0}
  BY LayerOrders DEF BootInv, BootTypes
<1>3. marked = 1 .. layer
  BY <1>1 DEF BootInv, StopsInOrder
<1>4. marked \ {layer} = 1 .. layer - 1
  BY <1>2, <1>3
<1>5. Subsystems(Stop[program][layer]) \cap up = {}
  <2>1. PICK n \in 0 .. Len(Stop[program][layer]) :
          /\ todo = LeftOf(Stop[program][layer], n)
          /\ \A i \in DOMAIN Stop[program][layer] : Stop[program][layer][i] \in up <=> i > n
    BY <1>1 DEF BootInv, StopsInOrder
  <2>2. n = Len(Stop[program][layer])
    BY <1>1, <1>2, <2>1, OrderOver
  <2> QED
    BY <1>2, <2>1, <2>2 DEF Subsystems
<1>6. \A m \in Layers(program) :
        /\ m < layer => Subsystems(Start[program][m]) \subseteq up
        /\ m > layer => Subsystems(Stop[program][m]) \cap up = {}
  BY <1>1 DEF BootInv, LayersInTurn
<1>7. calls' \in 1 .. 2 /\ logOpen' \in BOOLEAN /\ BootTypes
  BY <1>1 DEF BootInv, BootTypes
<1>8. layer - 1 \in 0 .. Len(Start[program])
  BY <1>2
<1>9. \A m \in 1 .. layer - 1 : Subsystems(Start[program][m]) \subseteq up
  BY <1>2, <1>6
<1>10. \A m \in Layers(program) : m > layer - 1 => Subsystems(Stop[program][m]) \cap up = {}
  BY <1>2, <1>5, <1>6
<1> QED
  BY <1>1, <1>4, <1>7, <1>8, <1>9, <1>10, DescendKeeps

\* A shutdown returns to its caller, which ends the process or calls another one
\* that finds nothing marked.
LEMMA ReturnedKeeps ==
  ASSUME BootInv, Returned
  PROVE  BootInv'
<1>1. /\ phase = "returned" /\ calls' = calls - 1
      /\ IF calls = 1 THEN phase' = "ended" /\ UNCHANGED <<layer, todo>> ELSE Descend(marked)
      /\ UNCHANGED <<up, marked, refused, program, logOpen>>
  BY DEF Returned
<1>2. marked = {} /\ \A l \in Layers(program) : Subsystems(Stop[program][l]) \cap up = {}
  BY <1>1 DEF BootInv, ReturnsWithAllDown
<1>3. BootTypes /\ calls \in 1 .. 2
  BY <1>1 DEF BootInv, BootTypes
<1>4. CASE calls = 1
  <2>1. phase' = "ended" /\ layer' = layer /\ todo' = todo /\ calls' = 0
    BY <1>1, <1>4
  <2>2. BootTypes'
    BY <1>1, <1>3, <2>1 DEF BootTypes
  <2>3. ReturnsWithAllDown'
    BY <1>1, <1>2 DEF ReturnsWithAllDown
  <2> QED
    BY <2>1, <2>2, <2>3 DEF BootInv, LayersInTurn, StartsInOrder, UnwindsTheRest, RunsWithAllUp, StopsInOrder
<1>5. CASE calls # 1
  <2>1. Descend(1 .. 0) /\ marked' = 1 .. 0 /\ calls' \in 1 .. 2
    <3>1. 1 .. 0 = {}
      OBVIOUS
    <3>2. Descend(marked)
      BY <1>1, <1>5
    <3> QED
      BY <1>1, <1>2, <1>3, <1>5, <3>1, <3>2
  <2>2. 0 \in 0 .. Len(Start[program]) /\ logOpen' \in BOOLEAN
    BY <1>1, <1>3, LayerOrders DEF BootTypes
  <2>3. \A m \in 1 .. 0 : Subsystems(Start[program][m]) \subseteq up
    OBVIOUS
  <2> QED
    BY <1>1, <1>2, <1>3, <2>1, <2>2, <2>3, DescendKeeps
<1> QED
  BY <1>4, <1>5

\* So does every step of the boot and of the shutdown.
LEMMA BootKeeps ==
  ASSUME BootInv, BootNext \/ UNCHANGED bootVars
  PROVE  BootInv'
<1>1. CASE UNCHANGED bootVars
  BY <1>1 DEF bootVars, BootInv, BootTypes, LayersInTurn, StartsInOrder, UnwindsTheRest, RunsWithAllUp,
     StopsInOrder, ReturnsWithAllDown
<1> QED
  BY <1>1, StartNextKeeps, LayerUpKeeps, StartFailsKeeps, PassOverKeeps, StopNextKeeps, StopAbortsKeeps,
     UnwoundKeeps, BeginStopKeeps, LayerDownKeeps, ReturnedKeeps DEF BootNext

-----------------------------------------------------------------------------
(* The inductive invariant of what a job runs *)

\* What the daemon has of a handler is settled by where it is with it: it reads
\* with the pipe and the child, and reaps with the child alone.
HandlersInv ==
  /\ HandlersTypeOK
  /\ doing \in {"nothing", "ran"} => kept = {}
  /\ doing = "forks" => kept = IF handler = "script" THEN {} ELSE {"reader", "writer"}
  /\ doing = "reads" => kept = {"reader", "child"}
  /\ doing = "reaps" => kept = {"child"}

LEMMA HandlerRunsKeeps ==
  ASSUME HandlersInv, HandlerRuns
  PROVE  HandlersInv'
<1>1. CASE Fork
  <2>1. unwritten' \in (0 .. OutputMax) \cup {1}
    BY <1>1, HandlersAssumption DEF Fork, Outputs, HandlersInv, HandlersTypeOK
  <2> QED
    BY <1>1, <2>1 DEF Fork, Piped, HandlersInv, HandlersTypeOK
<1>2. CASE DoNotFork
  BY <1>2 DEF DoNotFork, childVars, HandlersInv, HandlersTypeOK
<1>3. CASE Read
  <2>1. pipe' \in 0 .. PipeRoom /\ got' \in 0 .. ReplyRoom
    BY <1>3, HandlersAssumption DEF Read, HandlersInv, HandlersTypeOK
  <2> QED
    BY <1>3, <2>1 DEF Read, HandlersInv, HandlersTypeOK
<1>4. CASE ReadEnd
  BY <1>4 DEF ReadEnd, childVars, HandlersInv, HandlersTypeOK
<1>5. CASE ReadFails
  <2>1. got' \in 0 .. ReplyRoom
    BY <1>5, HandlersAssumption DEF ReadFails
  <2> QED
    BY <1>5, <2>1 DEF ReadFails, childVars, HandlersInv, HandlersTypeOK
<1>6. CASE Reap
  BY <1>6 DEF Reap, childVars, HandlersInv, HandlersTypeOK
<1> QED
  BY <1>1, <1>2, <1>3, <1>4, <1>5, <1>6 DEF HandlerRuns

LEMMA ProcessRunsKeeps ==
  ASSUME HandlersInv, ProcessRuns
  PROVE  HandlersInv'
<1>1. CASE Write
  BY <1>1, HandlersAssumption DEF Write, HandlersInv, HandlersTypeOK
<1>2. CASE Spawn \/ ChildExits \/ OffspringExits
  BY <1>2 DEF Spawn, ChildExits, OffspringExits, HandlersInv, HandlersTypeOK
<1> QED
  BY <1>1, <1>2 DEF ProcessRuns

\* The whole process keeps it: only a job in its turn of the loop runs a handler.
LEMMA HandlersKept ==
  ASSUME HandlersInv, [Next]_vars
  PROVE  HandlersInv'
<1>1. CASE UNCHANGED handlerVars
  BY <1>1 DEF handlerVars, HandlersInv, HandlersTypeOK
<1>2. CASE Booting \/ MainStep \/ Signal \/ UNCHANGED vars
  BY <1>1, <1>2 DEF Booting, MainStep, Acquire, AcquireFails, NothingToRun, BeginLoop, RunnerCleanup,
     MainCleanup, Signal, Handled, HandledInWait, Default, loopVars, vars
<1>3. CASE LoopNext
  <2>1. CASE LoopStep(Idle /\ RepliesNext) \/ LeaveLoop \/ PumpFails
    BY <1>1, <2>1 DEF LoopStep, Idle, LeaveLoop, PumpFails, LoopOver
  <2>2. CASE LoopStep(JobBegins)
    <3>1. PICK h \in {"script", "drop", "object"} : StartHandler(h)
      BY <2>2 DEF LoopStep, JobBegins
    <3> QED
      BY <3>1 DEF StartHandler, childVars, HandlersInv, HandlersTypeOK
  <2>3. CASE HandlerStep(HandlerRuns)
    BY <2>3, HandlerRunsKeeps DEF HandlerStep, LoopStep
  <2>4. CASE HandlerStep(ProcessRuns)
    BY <2>4, ProcessRunsKeeps DEF HandlerStep, LoopStep
  <2>5. CASE LoopStep(JobEnds)
    <3>1. Finish
      BY <2>5 DEF LoopStep, JobEnds
    <3>2. unwritten' \in (0 .. OutputMax) \cup {1} /\ pipe' \in 0 .. PipeRoom /\ got' \in 0 .. ReplyRoom
      BY <3>1, HandlersAssumption DEF Finish
    <3> QED
      BY <3>1, <3>2 DEF Finish, HandlersInv, HandlersTypeOK
  <2> QED
    BY <1>3, <2>1, <2>2, <2>3, <2>4, <2>5 DEF LoopNext
<1> QED
  BY <1>2, <1>3 DEF Next

-----------------------------------------------------------------------------
(* The inductive invariant of main *)

SignalsCounted == signals \in 0 .. MaxSignals /\ deliveries \in 0 .. signals

\* main has acquired the first n things as long as it prepares, and it prepares
\* only while the daemon runs.
MainInTurn ==
  /\ main \in {"prepare", "loop", "cleanup", "leave"}
  /\ \E n \in 0 .. Len(Preparation) :
       /\ steps = LeftOf(Preparation, n)
       /\ main = "prepare" =>
            /\ held = ThingsBefore(n + 1)
            /\ (phase # "running" \/ program # "siglatchd") => n = 0
  /\ main # "prepare" => phase \notin {"starting", "unwinding"} /\ program = "siglatchd"
  /\ main \in {"loop", "cleanup"} => phase = "running"

\* What the runner and main give back is gone behind them, and what a subsystem
\* releases is gone when it is down.
HeldInTurn ==
  /\ held \subseteq Things
  /\ main = "loop" => held = Things
  /\ main = "cleanup" => held \cap RunnerHolds = {}
  /\ main = "leave" => held \cap (RunnerHolds \cup MainHolds) = {}
  /\ main # "prepare" =>
       \A l \in Layers(program) : \A s \in Subsystems(Stop[program][l]) :
         s \in up \/ held \cap Released[s] = {}

MainInv == MainInTurn /\ HeldInTurn /\ ModulesHaveContext

ProcessInv == BootInv /\ HandlersInv /\ MainInv /\ SignalsCounted

-----------------------------------------------------------------------------
(* Its steps *)

\* While a program runs, nothing a shutdown would stop is down.
LEMMA AllUpWhileRunning ==
  ASSUME BootInv, phase = "running"
  PROVE  \A l \in Layers(program) : Subsystems(Stop[program][l]) \subseteq up
<1>1. /\ program \in Programs /\ Layers(program) = 1 .. Len(Start[program])
      /\ \A l \in Layers(program) : Subsystems(Stop[program][l]) \subseteq Subsystems(Start[program][l])
  BY LayerOrders DEF BootInv, BootTypes
<1>2. layer = Len(Start[program]) /\ Subsystems(Start[program][layer]) \subseteq up
  BY DEF BootInv, RunsWithAllUp
<1>3. \A l \in Layers(program) : l < layer => Subsystems(Start[program][l]) \subseteq up
  BY DEF BootInv, LayersInTurn
<1>4. \A l \in Layers(program) : Subsystems(Start[program][l]) \subseteq up
  <2> SUFFICES ASSUME NEW l \in Layers(program) PROVE Subsystems(Start[program][l]) \subseteq up
    OBVIOUS
  <2>1. l < layer \/ l = layer
    BY <1>1, <1>2, LayerOrders
  <2> QED
    BY <1>2, <1>3, <2>1
<1> QED
  BY <1>1, <1>4

\* A shutdown does not ask a flag, and need not.
LEMMA NextToStopIsUp ==
  ASSUME BootInv, phase = "stopping", todo # <<>>
  PROVE  \E n \in 0 .. Len(Stop[program][layer]) :
           /\ n + 1 \in DOMAIN Stop[program][layer]
           /\ Head(todo) = Stop[program][layer][n + 1]
           /\ Head(todo) \in up
           /\ \A i \in 1 .. n : Stop[program][layer][i] \notin up
<1> DEFINE order == Stop[program][layer]
<1>1. order \in Seq(STRING)
  BY LayerOrders DEF BootInv, BootTypes
<1>2. PICK n \in 0 .. Len(order) :
        /\ todo = LeftOf(order, n)
        /\ \A i \in DOMAIN order : order[i] \in up <=> i > n
  BY DEF BootInv, StopsInOrder
<1>3. n + 1 \in DOMAIN order /\ Head(todo) = order[n + 1]
  BY <1>1, <1>2, NextInOrder
<1>4. \A i \in 1 .. n : i \in DOMAIN order /\ ~ (i > n)
  BY <1>1, <1>2
<1>5. n + 1 > n
  BY <1>2
<1> QED
  BY <1>2, <1>3, <1>4, <1>5

\* A step of the boot changes what is up in three ways only.
LEMMA BootMoves ==
  ASSUME BootInv, BootNext
  PROVE  /\ program' = program
         /\ phase' = "running" => phase = "starting"
         /\ phase' \in {"starting", "unwinding"} => phase \in {"starting", "unwinding"}
         /\ phase = "stopping" => up' = up \/ (StopNext /\ phase' = "stopping")
         /\ phase \notin {"starting", "unwinding", "stopping"} => up' = up
<1>1. CASE StartNext \/ LayerUp \/ StartFails \/ PassOver
  BY <1>1 DEF StartNext, LayerUp, StartFails, PassOver
<1>2. CASE StopNext \/ StopAborts
  BY <1>2 DEF StopNext, StopAborts, Stopping
<1>3. CASE Unwound \/ BeginStop \/ LayerDown \/ Returned
  BY <1>3 DEF Unwound, BeginStop, LayerDown, Returned, Descend
<1> QED
  BY <1>1, <1>2, <1>3 DEF BootNext

\* The things before the first are none, and each next one is one more.
LEMMA ThingsSoFar ==
  ASSUME NEW n \in Nat
  PROVE  /\ ThingsBefore(1) = {}
         /\ ThingsBefore((n + 1) + 1) = ThingsBefore(n + 1) \cup {Preparation[n + 1]}
<1>1. 1 .. ((n + 1) + 1) - 1 = (1 .. (n + 1) - 1) \cup {n + 1}
  OBVIOUS
<1>2. 1 .. 1 - 1 = {}
  OBVIOUS
<1> QED
  BY <1>1, <1>2 DEF ThingsBefore

LEMMA ThingsAreNamed ==
  ASSUME NEW n \in 0 .. Len(Preparation)
  PROVE  /\ ThingsBefore(n + 1) \subseteq Things
         /\ n = Len(Preparation) => ThingsBefore(n + 1) = Things
<1>1. DOMAIN Preparation = 1 .. Len(Preparation) /\ Len(Preparation) \in Nat
  <2>1. Preparation \in Seq(STRING)
    BY ReleaseAssumption
  <2> QED
    BY <2>1, LenProperties
<1>2. 1 .. (n + 1) - 1 \subseteq DOMAIN Preparation
  BY <1>1
<1>3. n = Len(Preparation) => 1 .. (n + 1) - 1 = DOMAIN Preparation
  BY <1>1
<1> QED
  BY <1>2, <1>3 DEF ThingsBefore, Things, Subsystems

\* A subsystem that stops takes the codec context with it only when the modules
\* are gone: app_workspace_shutdown comes behind app_startup_shutdown.
LEMMA StoppingKeepsContext ==
  ASSUME ProcessInv, StopNext, phase = "stopping", main = "leave", program = "siglatchd",
         held' = held \ Released[Head(todo)]
  PROVE  ModulesHaveContext'
<1> DEFINE order == Stop["siglatchd"][layer]
<1>1. PICK n \in 0 .. Len(order) :
        /\ n + 1 \in DOMAIN order /\ Head(todo) = order[n + 1]
        /\ \A i \in 1 .. n : order[i] \notin up
  BY NextToStopIsUp DEF ProcessInv, StopNext
<1>2. layer \in Layers("siglatchd") /\ order \in Seq(STRING)
  BY LayerOrders DEF ProcessInv, BootInv, BootTypes
<1>3. ModulesHaveContext
  BY DEF ProcessInv, MainInv
<1>4. CASE "codec context" \in Released[Head(todo)]
  <2> SUFFICES ASSUME NEW c \in CodecModules, c \in held' PROVE FALSE
    BY DEF ModulesHaveContext
  <2>1. PICK j \in 1 .. n + 1 : c \in Released[order[j]]
    BY <1>1, <1>2, <1>4, ContextAssumption
  <2>2. CASE j = n + 1
    BY <1>1, <2>1, <2>2
  <2>3. CASE j # n + 1
    <3>1. j \in 1 .. n /\ j \in DOMAIN order
      BY <1>1, <1>2, <2>3
    <3>2. order[j] \notin up /\ order[j] \in Subsystems(order)
      BY <1>1, <3>1 DEF Subsystems
    <3>3. held \cap Released[order[j]] = {}
      BY <1>2, <3>2 DEF ProcessInv, MainInv, HeldInTurn
    <3> QED
      BY <2>1, <3>3
  <2> QED
    BY <2>2, <2>3
<1>5. CASE "codec context" \notin Released[Head(todo)]
  BY <1>3, <1>5 DEF ModulesHaveContext
<1> QED
  BY <1>4, <1>5

\* A boot or a shutdown step: before main has prepared nothing is held, and after
\* it a subsystem takes with it what it releases.
LEMMA BootingKeepsMain ==
  ASSUME ProcessInv, Booting
  PROVE  MainInv'
<1>1. /\ (phase = "running" /\ program = "siglatchd") => main = "leave"
      /\ BootNext /\ main' = main /\ steps' = steps
      /\ held' = IF phase \in {"stopping", "unwinding"} /\ up' # up
                 THEN held \ Released[Head(todo)] ELSE held
  BY DEF Booting
<1>2. /\ BootInv
      /\ program' = program
      /\ phase' = "running" => phase = "starting"
      /\ phase' \in {"starting", "unwinding"} => phase \in {"starting", "unwinding"}
      /\ phase = "stopping" => up' = up \/ (StopNext /\ phase' = "stopping")
      /\ phase \notin {"starting", "unwinding", "stopping"} => up' = up
  BY <1>1, BootMoves DEF ProcessInv
<1>3. MainInTurn /\ HeldInTurn /\ ModulesHaveContext
  BY DEF ProcessInv, MainInv
<1>4. main \in {"prepare", "leave"}
  BY <1>1, <1>3 DEF MainInTurn
<1>5. PICK n \in 0 .. Len(Preparation) :
        /\ steps = LeftOf(Preparation, n)
        /\ main = "prepare" =>
             /\ held = ThingsBefore(n + 1)
             /\ (phase # "running" \/ program # "siglatchd") => n = 0
  BY <1>3 DEF MainInTurn
<1>6. CASE main = "prepare"
  <2>1. n = 0 /\ held = {} /\ held' = {}
    BY <1>1, <1>5, <1>6, ThingsSoFar
  <2>2. MainInTurn'
    BY <1>1, <1>5, <1>6, <2>1 DEF MainInTurn
  <2> QED
    BY <1>1, <1>6, <2>1, <2>2 DEF MainInv, HeldInTurn, ModulesHaveContext
<1>7. CASE main = "leave"
  <2>1. program = "siglatchd" /\ phase \notin {"starting", "unwinding"}
    BY <1>3, <1>7 DEF MainInTurn
  <2>2. MainInTurn'
    BY <1>1, <1>2, <1>5, <1>7, <2>1 DEF MainInTurn
  <2>3. CASE up' = up
    BY <1>1, <1>2, <1>3, <1>7, <2>2, <2>3 DEF MainInv, HeldInTurn, ModulesHaveContext
  <2>4. CASE up' # up
    <3>1. phase = "stopping" /\ StopNext
      BY <1>2, <2>1, <2>4
    <3>2. up' = up \ {Head(todo)} /\ held' = held \ Released[Head(todo)]
      BY <1>1, <2>4, <3>1 DEF StopNext
    <3>3. HeldInTurn'
      <4>1. \A l \in Layers(program) : \A s \in Subsystems(Stop[program][l]) :
              s \in up' \/ held' \cap Released[s] = {}
        BY <1>3, <1>7, <3>2 DEF HeldInTurn
      <4>2. held' \subseteq Things /\ held' \cap (RunnerHolds \cup MainHolds) = {}
        BY <1>3, <1>7, <3>2 DEF HeldInTurn
      <4> QED
        BY <1>1, <1>2, <1>7, <4>1, <4>2 DEF HeldInTurn
    <3>4. ModulesHaveContext'
      BY <1>7, <2>1, <3>1, <3>2, StoppingKeepsContext
    <3> QED
      BY <2>2, <3>3, <3>4 DEF MainInv
  <2> QED
    BY <2>3, <2>4
<1> QED
  BY <1>4, <1>6, <1>7

\* main acquires the next thing of its preparation.
LEMMA AcquireKeeps ==
  ASSUME ProcessInv, Acquire
  PROVE  MainInv'
<1>1. /\ phase = "running" /\ program = "siglatchd" /\ main = "prepare" /\ steps # <<>>
      /\ held' = held \cup {Head(steps)} /\ steps' = Tail(steps)
      /\ UNCHANGED <<phase, program, up, main>>
  BY DEF Acquire, Preparing, InMain, bootVars
<1>2. Preparation \in Seq(STRING)
  BY ReleaseAssumption
<1>3. PICK n \in 0 .. Len(Preparation) :
        /\ steps = LeftOf(Preparation, n)
        /\ held = ThingsBefore(n + 1)
  BY <1>1 DEF ProcessInv, MainInv, MainInTurn
<1>4. /\ n + 1 \in DOMAIN Preparation /\ n + 1 \in 0 .. Len(Preparation)
      /\ Head(steps) = Preparation[n + 1] /\ steps' = LeftOf(Preparation, n + 1)
  BY <1>1, <1>2, <1>3, NextInOrder
<1>5. held' = ThingsBefore((n + 1) + 1)
  BY <1>1, <1>3, <1>4, ThingsSoFar
<1>6. MainInTurn'
  BY <1>1, <1>4, <1>5 DEF MainInTurn
<1>7. HeldInTurn'
  BY <1>1, <1>4, <1>5, ThingsAreNamed DEF HeldInTurn
<1>8. ModulesHaveContext'
  <2>1. Preparation[n + 1] \in CodecModules => "codec context" \in held
    BY <1>3, <1>4, ContextAssumption
  <2> QED
    BY <1>1, <1>4, <2>1 DEF ProcessInv, MainInv, ModulesHaveContext
<1> QED
  BY <1>6, <1>7, <1>8 DEF MainInv

\* A step of main that ends the preparation or the loop, and leaves what main has
\* to give back, leaves the subsystems all of theirs.
LEMMA LeavingKeeps ==
  ASSUME ProcessInv, phase = "running", program = "siglatchd",
         UNCHANGED <<phase, program, up, steps>>,
         main' \in {"loop", "cleanup", "leave"},
         held' \subseteq held,
         main' = "loop" => held' = Things,
         main' = "cleanup" => held' \cap RunnerHolds = {},
         main' = "leave" => held' \cap (RunnerHolds \cup MainHolds) = {},
         ModulesHaveContext'
  PROVE  MainInv'
<1>1. layer \in Layers(program) /\ Layers(program)' = Layers(program)
  BY DEF ProcessInv, BootInv, BootTypes, Layers
<1>2. \A l \in Layers(program) : Subsystems(Stop[program][l]) \subseteq up
  BY AllUpWhileRunning DEF ProcessInv
<1>3. MainInTurn'
  <2>1. PICK n \in 0 .. Len(Preparation) : steps = LeftOf(Preparation, n)
    BY DEF ProcessInv, MainInv, MainInTurn
  <2> QED
    BY <2>1 DEF MainInTurn
<1>4. HeldInTurn'
  <2>1. held' \subseteq Things
    BY DEF ProcessInv, MainInv, HeldInTurn
  <2> QED
    BY <1>1, <1>2, <2>1 DEF HeldInTurn
<1> QED
  BY <1>3, <1>4 DEF MainInv

\* The preparation ends at a step that fails, or that has nothing to run.
LEMMA PreparationEndsKeeps ==
  ASSUME ProcessInv, AcquireFails \/ NothingToRun
  PROVE  MainInv'
<1>1. /\ phase = "running" /\ program = "siglatchd" /\ main = "prepare" /\ steps # <<>>
      /\ main' = "cleanup" /\ UNCHANGED <<phase, program, up, steps>>
  BY DEF AcquireFails, NothingToRun, Preparing, InMain, bootVars
<1>2. Preparation \in Seq(STRING)
  BY ReleaseAssumption
<1>3. PICK n \in 0 .. Len(Preparation) :
        /\ steps = LeftOf(Preparation, n)
        /\ held = ThingsBefore(n + 1)
  BY <1>1 DEF ProcessInv, MainInv, MainInTurn
<1>4. n + 1 \in DOMAIN Preparation /\ Head(steps) = Preparation[n + 1]
  BY <1>1, <1>2, <1>3, NextInOrder
<1>5. ModulesHaveContext
  BY DEF ProcessInv, MainInv
<1>6. CASE AcquireFails
  <2>1. held' = held \ Undone[Preparation[n + 1]] /\ Preparation[n + 1] \notin {"handlers", "log file"}
    BY <1>4, <1>6 DEF AcquireFails
  <2>2. held \cap RunnerHolds \subseteq Undone[Preparation[n + 1]]
    BY <1>3, <1>4, <2>1, ReleaseAssumption
  <2>3. ModulesHaveContext'
    BY <1>4, <1>5, <2>1, ContextAssumption DEF ModulesHaveContext
  <2> QED
    BY <1>1, <2>1, <2>2, <2>3, LeavingKeeps
<1>7. CASE NothingToRun
  <2>1. held' = held /\ Preparation[n + 1] \in {"handlers", "codec context"}
    BY <1>4, <1>7 DEF NothingToRun
  <2>2. held \cap RunnerHolds = {}
    BY <1>3, <1>4, <2>1, ReleaseAssumption
  <2>3. ModulesHaveContext'
    BY <1>5, <2>1 DEF ModulesHaveContext
  <2> QED
    BY <1>1, <2>1, <2>2, <2>3, LeavingKeeps
<1> QED
  BY <1>6, <1>7

\* The loop begins with everything acquired; behind it the runner gives back what
\* is its own, and then main.
LEMMA LoopAndCleanupKeep ==
  ASSUME ProcessInv, BeginLoop \/ RunnerCleanup \/ MainCleanup
  PROVE  MainInv'
<1>1. ModulesHaveContext
  BY DEF ProcessInv, MainInv
<1>2. "codec context" \notin RunnerHolds \cup MainHolds
  BY DEF RunnerHolds, MainHolds
<1>3. CASE BeginLoop
  <2>1. /\ phase = "running" /\ program = "siglatchd" /\ main = "prepare" /\ steps = <<>>
        /\ main' = "loop" /\ held' = held /\ UNCHANGED <<phase, program, up, steps>>
    BY <1>3 DEF BeginLoop, Preparing, InMain, bootVars
  <2>2. PICK n \in 0 .. Len(Preparation) :
          /\ steps = LeftOf(Preparation, n)
          /\ held = ThingsBefore(n + 1)
    BY <2>1 DEF ProcessInv, MainInv, MainInTurn
  <2>3. n = Len(Preparation)
    BY <2>1, <2>2, ReleaseAssumption, OrderOver
  <2>4. held' = Things
    BY <2>1, <2>2, <2>3, ThingsAreNamed
  <2>5. ModulesHaveContext'
    BY <1>1, <2>1 DEF ModulesHaveContext
  <2> QED
    BY <2>1, <2>4, <2>5, LeavingKeeps
<1>4. CASE RunnerCleanup
  <2>1. /\ phase = "running" /\ program = "siglatchd" /\ held' = held \ RunnerHolds
        /\ main' = "cleanup" /\ UNCHANGED <<phase, program, up, steps>>
    BY <1>4 DEF RunnerCleanup, InMain, bootVars
  <2>2. ModulesHaveContext'
    BY <1>1, <1>2, <2>1 DEF ModulesHaveContext
  <2> QED
    BY <2>1, <2>2, LeavingKeeps
<1>5. CASE MainCleanup
  <2>1. /\ phase = "running" /\ program = "siglatchd" /\ main = "cleanup" /\ held' = held \ MainHolds
        /\ main' = "leave" /\ UNCHANGED <<phase, program, up, steps>>
    BY <1>5 DEF MainCleanup, InMain, bootVars
  <2>2. held' \cap (RunnerHolds \cup MainHolds) = {}
    BY <2>1 DEF ProcessInv, MainInv, HeldInTurn
  <2>3. ModulesHaveContext'
    BY <1>1, <1>2, <2>1 DEF ModulesHaveContext
  <2> QED
    BY <2>1, <2>2, <2>3, LeavingKeeps
<1> QED
  BY <1>3, <1>4, <1>5

\* What does not touch main, the boot and what is held.
LEMMA MainUntouched ==
  ASSUME MainInv, UNCHANGED <<bootVars, mainVars>>
  PROVE  MainInv'
BY DEF bootVars, mainVars, MainInv, MainInTurn, HeldInTurn, ModulesHaveContext

LEMMA SignalsStayCounted ==
  ASSUME SignalsCounted, [Next]_vars
  PROVE  SignalsCounted'
<1>1. MaxSignals \in Nat
  BY ReleaseAssumption
<1>2. CASE Signal
  <2>1. signals < MaxSignals /\ signals' = signals + 1
    BY <1>2 DEF Signal
  <2>2. deliveries' = Counted \/ deliveries' = deliveries
    BY <1>2 DEF Signal, Handled, HandledInWait, Default
  <2>3. Counted = deliveries + 1 \/ Counted = deliveries
    BY DEF Counted
  <2> QED
    BY <1>1, <2>1, <2>2, <2>3 DEF SignalsCounted
<1>3. CASE Acquire
  BY <1>3 DEF Acquire, SignalsCounted
<1>4. CASE UNCHANGED signalVars
  BY <1>4 DEF signalVars, SignalsCounted
<1>5. CASE Booting \/ LoopNext \/ UNCHANGED vars
  BY <1>4, <1>5 DEF Booting, LoopNext, LoopStep, HandlerStep, LeaveLoop, PumpFails, LoopOver, vars
<1>6. CASE MainStep
  BY <1>3, <1>4, <1>6 DEF MainStep, AcquireFails, NothingToRun, BeginLoop, RunnerCleanup, MainCleanup, signalVars
<1> QED
  BY <1>2, <1>5, <1>6 DEF Next

\* Every step of the process keeps the invariant of the boot, of main and of what
\* it holds.
LEMMA ProcessKeeps == ProcessInv /\ [Next]_vars => ProcessInv'
<1> SUFFICES ASSUME ProcessInv, [Next]_vars PROVE ProcessInv'
  OBVIOUS
<1>1. HandlersInv' /\ SignalsCounted'
  BY HandlersKept, SignalsStayCounted DEF ProcessInv
<1>2. CASE Booting
  BY <1>1, <1>2, BootKeeps, BootingKeepsMain DEF Booting, ProcessInv
<1>3. CASE MainStep
  <2>1. UNCHANGED bootVars
    BY <1>3 DEF MainStep, Acquire, AcquireFails, NothingToRun, BeginLoop, RunnerCleanup, MainCleanup
  <2>2. BootInv'
    BY <2>1, BootKeeps DEF ProcessInv
  <2>3. MainInv'
    BY <1>3, AcquireKeeps, PreparationEndsKeeps, LoopAndCleanupKeep DEF MainStep
  <2> QED
    BY <1>1, <2>2, <2>3 DEF ProcessInv
<1>4. CASE LoopNext \/ Signal \/ UNCHANGED vars
  <2>1. UNCHANGED bootVars /\ UNCHANGED mainVars
    BY <1>4 DEF LoopNext, LoopStep, HandlerStep, LeaveLoop, PumpFails, LoopOver, Signal, Handled, HandledInWait,
       Default, vars
  <2>2. BootInv'
    BY <2>1, BootKeeps DEF ProcessInv
  <2>3. MainInv'
    BY <2>1, MainUntouched DEF ProcessInv
  <2> QED
    BY <1>1, <2>2, <2>3 DEF ProcessInv
<1> QED
  BY <1>2, <1>3, <1>4 DEF Next

LEMMA ProcessInitially == Init => ProcessInv
<1> SUFFICES ASSUME Init PROVE ProcessInv
  OBVIOUS
<1>1. BootInit /\ HandlersInit /\ phase = "starting"
  BY DEF Init, BootInit
<1>2. /\ main = "prepare" /\ steps = Preparation /\ held = {}
      /\ deliveries = 0 /\ signals = 0
  BY DEF Init
<1>3. HandlersInv
  <2>1. 0 \in 0 .. OutputMax /\ 0 \in 0 .. PipeRoom /\ 0 \in 0 .. ReplyRoom
    BY HandlersAssumption
  <2> QED
    BY <1>1, <2>1 DEF HandlersInit, HandlersInv, HandlersTypeOK
<1>4. SignalsCounted
  <2>1. MaxSignals \in Nat
    BY ReleaseAssumption
  <2> QED
    BY <1>2, <2>1 DEF SignalsCounted
<1>5. MainInTurn
  <2>1. 0 \in 0 .. Len(Preparation) /\ steps = LeftOf(Preparation, 0)
    BY <1>2, ReleaseAssumption, OrderWhole
  <2>2. held = ThingsBefore(0 + 1)
    BY <1>2, ThingsSoFar
  <2> QED
    BY <1>1, <1>2, <2>1, <2>2 DEF MainInTurn
<1>6. HeldInTurn /\ ModulesHaveContext
  BY <1>2 DEF HeldInTurn, ModulesHaveContext
<1> QED
  BY <1>1, <1>3, <1>4, <1>5, <1>6, BootInitially DEF ProcessInv, MainInv

-----------------------------------------------------------------------------
(* What follows *)

THEOREM ProcessInvariance == Spec => []ProcessInv
BY ProcessInitially, ProcessKeeps, PTL DEF Spec

\* The variables of the boot, of the loop, of the handlers and of main have the
\* values TypeOK allows: no queue runs over and no count leaves its range.
THEOREM TypesAlways == Spec => []TypeOK
<1>1. BootInv => BootTypeOK
  <2> SUFFICES ASSUME BootInv PROVE BootTypeOK
    OBVIOUS
  <2>1. Subsystems(todo) \subseteq All(program)
    BY LayerOrders DEF BootInv, BootTypes
  <2>2. todo \in Seq(All(program))
    <3>1. todo \in Seq(STRING)
      BY DEF BootInv, BootTypes
    <3>2. \A i \in 1 .. Len(todo) : todo[i] \in All(program)
      BY <2>1, <3>1 DEF Subsystems
    <3> QED
      BY <3>1, <3>2, SeqDef
  <2> QED
    BY <2>2 DEF BootInv, BootTypes, ReturnsWithAllDown, BootTypeOK
<1>2. MainInv => /\ main \in {"prepare", "loop", "cleanup", "leave"}
                 /\ \E n \in 0 .. Len(Preparation) : steps = SubSeq(Preparation, n + 1, Len(Preparation))
                 /\ main = "loop" => held = ToSet(Preparation)
  BY DEF MainInv, MainInTurn, HeldInTurn, LeftOf, Things, Subsystems, ToSet
<1>3. RepliesInv => RepliesTypeOK
  BY DEF RepliesInv, QueuesOK, RepliesTypeOK
<1>4. SignalsCounted => deliveries \in 0 .. MaxSignals
  <2>1. MaxSignals \in Nat
    BY ReleaseAssumption
  <2> QED
    BY <2>1 DEF SignalsCounted
<1>5. ProcessInv /\ RepliesInv => TypeOK
  BY <1>1, <1>2, <1>3, <1>4 DEF ProcessInv, HandlersInv, TypeOK
<1> QED
  BY <1>5, ProcessInvariance, RepliesInvariance, PTL

\* Whichever start of whichever layer fails, its fail label reaches all that is up.
THEOREM UnwindingAlways == Spec => []UnwindingReachesAll
<1>1. ProcessInv => UnwindingReachesAll
  BY DEF ProcessInv, BootInv, UnwindsTheRest, UnwindingReachesAll
<1> QED
  BY <1>1, ProcessInvariance, PTL

\* A program that has ended, however far it came, has nothing up but what its
\* shutdowns forget.
THEOREM NothingUpAtEnd == Spec => []EndsWithNothingUp
<1>1. ProcessInv => EndsWithNothingUp
  <2> SUFFICES ASSUME ProcessInv, phase = "ended", NEW s \in up PROVE s \in LeftUp[program]
    BY DEF EndsWithNothingUp
  <2>1. program \in Programs /\ up \subseteq All(program)
    BY DEF ProcessInv, BootInv, BootTypes
  <2>2. PICK l \in Layers(program) : s \in Subsystems(Start[program][l])
    BY <2>1 DEF All
  <2>3. Subsystems(Stop[program][l]) \cap up = {}
    BY <2>2 DEF ProcessInv, BootInv, ReturnsWithAllDown
  <2>4. Subsystems(Start[program][l]) \subseteq Subsystems(Stop[program][l]) \cup LeftUp[program]
    BY <2>1, <2>2, BootstrapAssumption
  <2> QED
    BY <2>2, <2>3, <2>4
<1> QED
  BY <1>1, ProcessInvariance, PTL

\* A shutdown, which looks at no flags, stops a subsystem only while it is up.
THEOREM StopsOnce == Spec => StopsOnlyRunning
<1>1. ProcessInv => ((phase = "stopping" /\ todo # <<>>) => Head(todo) \in up)
  BY NextToStopIsUp DEF ProcessInv
<1>2. ProcessInv /\ [Next]_vars => [(phase = "stopping" /\ todo # <<>>) => Head(todo) \in up]_bootVars
  BY <1>1
<1> QED
  BY <1>2, ProcessInvariance, PTL DEF Spec, StopsOnlyRunning

\* On every way out the daemon has given back what main, the runner and the
\* subsystems had acquired, and between two jobs it keeps neither pipe nor child.
THEOREM NothingHeldAtEnd == Spec => []EndsHoldingNothing
<1>1. ProcessInv /\ phase = "ended" => held = {}
  <2> SUFFICES ASSUME ProcessInv, phase = "ended" PROVE held = {}
    OBVIOUS
  <2>1. CASE main = "prepare"
    BY <2>1, ThingsSoFar DEF ProcessInv, MainInv, MainInTurn
  <2>2. CASE main # "prepare"
    <3>1. main = "leave" /\ program = "siglatchd"
      BY <2>2 DEF ProcessInv, MainInv, MainInTurn
    <3>2. SUFFICES ASSUME NEW thing \in held PROVE FALSE
      OBVIOUS
    <3>3. thing \in Things \ (RunnerHolds \cup MainHolds)
      BY <3>1, <3>2 DEF ProcessInv, MainInv, HeldInTurn
    <3>4. PICK l \in Layers("siglatchd") : \E s \in Subsystems(Stop["siglatchd"][l]) : thing \in Released[s]
      BY <3>3, ReleaseAssumption
    <3>5. Subsystems(Stop["siglatchd"][l]) \cap up = {}
      BY <3>1, <3>4 DEF ProcessInv, BootInv, ReturnsWithAllDown
    <3> QED
      BY <2>2, <3>1, <3>2, <3>4, <3>5 DEF ProcessInv, MainInv, HeldInTurn
  <2> QED
    BY <2>1, <2>2
<1>2. ProcessInv => EndsHoldingNothing
  BY <1>1 DEF ProcessInv, HandlersInv, EndsHoldingNothing
<1> QED
  BY <1>2, ProcessInvariance, PTL

\* No unwinding and no shutdown frees the codec context under a codec module.
THEOREM ContextAlways == Spec => []ModulesHaveContext
<1>1. ProcessInv => ModulesHaveContext
  BY DEF ProcessInv, MainInv
<1> QED
  BY <1>1, ProcessInvariance, PTL
=============================================================================
