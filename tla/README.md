# siglatch: a TLA+ model of the daemon

siglatch is an encrypted UDP control bus: a daemon (`siglatchd`) receives
datagrams, decodes them with one of four codecs, authorizes the action they
name, runs it and answers; a client (`knocker`) sends them. This directory
holds TLA+ modules translated from the C sources, TLC configurations that check
them on small instances, and proofs that hold for every value of the constants.
Paths below are relative to the repository's `src/` unless they start with
`docs/`; `m7mux/` stands for `stdlib/protocol/udp/m7mux/`.

## Inventory

The daemon is one process with one thread. `app_daemon_run`
(`siglatch/app/daemon/runner.c`) repeats: make a new mux if the listener has
another socket; pump the mux; drain it into the job queue; run every job, stage its
reply, flush. A job may run a script or an object, whose process it waits for. POSIX
signals only set flags. Concurrency is therefore with
the outside: datagrams that arrive, repeat, get lost or overtake each other,
a clock that moves between any two reads, a socket that refuses a send, processes
that fill a pipe or leave offspring behind, signals between any two steps, ports
taken by other processes, and a configuration file that is edited at any time.

| component | state | operations | what makes it correct |
|---|---|---|---|
| stream layer `m7mux/stream` | ready slots and their count; trackers of sessions and messages | ingest, drain, expire, reset | fragments of a message leave in order and together; count and slots agree; nothing is queued that cannot leave |
| session layer `m7mux/session` | array of sessions, next id | ingest (lookup, refresh, create), expire, reset | a datagram finds the session of its address, or with codec v4 of the id its client names, and only that one |
| inbox, ingress, normalize `m7mux/inbox`, `ingress`, `normalize` | ring of datagrams, control record of a pump, user data of codecs | pump, drain | what is queued belongs to a live session; user data is freed once; nothing is left behind by an aborted pump |
| outbox, egress `m7mux/outbox`, `egress` | ring of serialized datagrams | stage, flush | replies leave whole, once and in order |
| runner and jobs `siglatch/app/daemon` | job queue, the mux and the socket it was made for | enqueue, drain, run, stage, replace the mux | every job is answered at most once; the loop goes on |
| request, auth, policy, payload | the cryptographic session of the running job | bind, authorize, enforce, dispatch | an action runs only for a user, an address and a signature that allow it |
| payload handlers and objects | a child, a pipe, the captured output | run and wait, run and capture, run in a fork | every way out reaps the child and closes the pipe; no output blocks the loop for good |
| builtins, runtime, udp, server | attached configuration, listener, codec context, wire flags | reload, rebind, probe, change setting | all holders of the configuration agree on it, also after a failure |
| configuration, ini | the document and the records made of it | parse, validate, look up | a file means what its lines say; all lookups of a user find the same one |
| codecs v1 to v4, codec context | server key, keychain | detect, decode, authenticate, fragment, encode | what one side encodes the other decodes |
| nonce cache | ring of nonces with a time to live | check, add | none here: nothing in daemon or client calls it |
| adapter registry | adapters and their states | register, unregister, demux | every packet goes to the first codec that wants it |
| signals, startup, shutdown | signal flag and count, what has been started or acquired | install, handle, start, prepare, clean up, stop | a signal is never missed; what was started is stopped (but for three subsystems of the daemon), what was acquired given back |
| knocker: command line, aliases, transmit | the files of a host, shared by processes without a lock; one socket | parse; set, delete and look up names, keep an address; send, wait for the reply | what runs is what the line says; a name gets the id of another only from a write that was torn, or from a line that reads back as another; a reply is matched with its request or time runs out |

`PROJECT.json` lists these parts with their sources and, under `hazards`, each
thing in them that is hard to test, at its line.

## Modules

| module | models | state and actions |
|---|---|---|
| `OrderedDelivery` | the promise of the stream layer to whoever drains it | pending fragments and the runs of streams inside a message; accept, deliver, discard, restart |
| `MuxStream` | `m7mux/stream/stream.c` | `ready_queue`, `ready_count`, `session_trackers`, `message_trackers`; `Ingest` with one disjunct per return of `m7mux_stream_ingest`, `Drain`, `Expire`, `Reset` |
| `StreamSystem` | the calls inbox and runner make to the stream layer | `MuxStream` and a clock: `Arrive`, `Deliver`, `ExpireAt`, `Replace`, `Tick`; the refinement of `OrderedDelivery` |
| `MuxSession` | `m7mux/session/session.c` | `sessions`, `next_session_id`; the three lookups, `RefreshSession`, `CreateSession`, `NoSessionFor`, `ExpireSessions`, `ResetSessions` |
| `MuxInbox` | `m7mux_inbox_pump`, `m7mux_ingress_pump`, `m7mux_normalize_packet` and the drain loop of the runner | composes `MuxStream` and `MuxSession`; one action per step of a pump, `Arrive` and `Tick` between any two of them, `HandOver`, `Replace` |
| `DaemonReplies` | jobs, outbox and egress under the runner | `jobs`, `egress`, `sent`; one action per outcome of running a job, partial flushes, `Rebind` and `ReplaceMux` |
| `RuntimeReload` | `app/runtime/runtime.c`, `app/udp/udp.c`, the builtins that change configuration or listener | the attached configuration and its holders; one action per way a reload ends, `RebindListener`, `ChangeSetting`, the loop's `Turn` |
| `Bootstrap` | start, unwinding and shutdown of three layers of subsystems (`siglatch/lifecycle.c`, `knock/main.c`) | the program and its layer at work, what is left to do of it, what is up, which layers are marked; every start that can fail may; a start that unwinds passes over what is not up, a shutdown stops what it names without a look; parameterised by the orders |
| `DaemonBoot`, `ClientBoot` | the orders of `siglatchd` (`siglatch/lib.c`, `siglatch/app/app.c`) and of `knocker` (`knock/lib.c`, `knock/app/app.c`), with those of `shared/shared.c`; what the daemon acquires before its loop (`startup.c`), and who gives it back | constant definitions for `Bootstrap` and `Lifecycle` |
| `Handlers` | the processes of a job: `run_shell_wait` and `run_shell_capture` (`app/payload/payload.c`), `app_object_run_forked` (`app/object/object.c`) | what the daemon is at (`doing`) and has of it (`kept`: pipe ends, child), the child, who has the pipe to write, pieces yet to write, in the pipe and captured; `StartHandler`, `Fork`, `DoNotFork`, `Read`, `ReadEnd`, `ReadFails`, `Reap`, `Finish`, and of the processes `Spawn`, `Write`, `ChildExits`, `OffspringExits` |
| `Lifecycle` | `siglatch/main.c`, `startup.c`, `app_daemon_run`, `stdlib/signal.c`, `app/signal` | composes `Bootstrap`, `DaemonReplies` and `Handlers`: where `main` is, what it has `held`, the flag and count of signals; one action per step of preparation, loop and cleanups, each of them failing, and `Signal` between any two |
| `Codecs` | what the four codecs, `normalize.c` and `outbox.c` make of a packet and of a datagram, with symbolic cryptography | operators only: fragment counts, lengths and offsets; seals and signatures; what can be encoded; which lane a datagram takes |
| `DatagramNet` | the network, external to the code | `net`, the datagrams sent so far: what is in it may arrive at any time, any number of times or never |
| `Dispatch` | from a datagram to a reply in the daemon: `job.c`, `payload.c`, `request.c`, `auth.c`, `policy.c`, `app/inbound/crypto`, `unstructured.c` | `up`, `config`, `policy`, `claim`, `held`, `jobs`, `ran`; receiving raw, whole and cut packets, handing over, expiring, and one action per way a job ends: `RunDrop`, `Refuse`, `RunHandler`, `RunReload` |
| `Knocker` | one transmit of the client (`knock/app/transmit`) | `client`: phase, whether anything was heard, exit status; `Send`, `FailToSend`, `HearReply`, `HearOther`, `GiveUp` |
| `Exchange` | composes `Dispatch` and `Knocker` over `DatagramNet` | the properties that concern both sides |
| `IpRange` | `stdlib/net/ip/range/range.c`: what is an address or a prefix, and what it admits | operators only |
| `ConfigDocument` | `stdlib/parse/ini.c`, `app/config/config.c`, `app/keys`, the selection of a server and the keychain (`startup.c`, `shared/knock/codec/context.c`) | operators only: lines, sections, blocks with their fields, capacities and presets, validation, lookups, keys; what `Dispatch` and `RuntimeReload` know of a configuration |
| `ConfiguredDaemon` | `RuntimeReload` with a text as its configuration file | `document`, and the actions of `RuntimeReload`; what a text says line by line, as a reference for `ConfigDocument` |
| `CommandLine` | `stdlib/argv.c` and `knock/app/opts`: the words of a line and the command they make | operators only |
| `Spelling` | what a line says by the places of its words, as a reference for `CommandLine` | operators only |
| `Places` | sequences put together from the places of another, for both references | operators only |
| `AliasMap` | `knock/app/alias/alias.c`: the text of an alias map, the list that is read from it and written to it, and what a name resolves to | operators only |
| `ClientCommands` | the commands of `knocker` on one host's files (`alias/ops.c`, `env/env.c`, `opts/transmit.c`), as processes that overlap | the two maps, the defaults, where each command is and what it holds, and what files said because a write was torn; `Start`, the steps of reading, truncating and writing a map, of unlinking, of saving a default, the lookups of a transmit, `Kill` |
| `MuxStreamProofs` | proofs about `MuxStream`, whoever calls it | what ingest, drain and expiry preserve of slots and trackers |
| `StreamSystemProofs` | proofs about `StreamSystem` | and its refinement of `OrderedDelivery` |
| `InboxProofs` | proofs about `MuxInbox` with `MuxSession` and `MuxStream` | |
| `LifecycleProofs` | proofs about `Lifecycle` with `Bootstrap`, `Handlers` and `DaemonReplies` | |
| `RuntimeReloadProofs` | proofs about `RuntimeReload`, `ConfiguredDaemon` and `ConfigDocument` | |
| `ExchangeProofs` | proofs about `Exchange` with `Dispatch`, `Knocker`, `DatagramNet` and `Codecs` | |
| `CommandsProofs` | proofs about `CommandLine` with `Spelling`, and `ClientCommands` with `AliasMap` | |
| `Induction` | induction and recursion over the naturals, and sequences joined place by place, for the other proofs | |
| `MCStream`, `MCInbox`, `MCReload`, `MCLifecycle`, `MCExchange`, `MCCommands` | | instances for TLC: packets, datagrams, documents, orders, configurations, clients and command lines |

How data is abstracted:

* Trackers are partial functions whose domain is bounded by the array's size: a
  tracker is found by id, never by place. Ready slots and sessions keep their
  index because the code scans them from 0 and takes the first.
* A packet has its ids, fragment numbers and receipt time; its content is one
  value. Id counters wrap at `StreamIdMod` and `MessageIdMod` (2^32 and 2^64 in
  the code), because 0 means "no id".
* A datagram is its kind: what detect and decode of the codecs make of it
  decides everything normalize does. The client's ids appear only for codec v4,
  the one codec that sends them.
* A reply is a number of datagrams. 0 is a reply its codec cannot carry: codecs
  v1 to v3 never fragment.
* A line of a configuration file is a record of its kind, a value the words its commas
  separate; which words are numbers, addresses or paths of keys is in constants. Upper and
  lower case and the lengths texts are cut to are left out. For `RuntimeReload` a
  configuration is the number of its load, which stands for the memory it
  occupies, with the fields of the selected server and the names of the enabled
  users. A port is whatever `atoi` made of the file, and the socket gets its low 16 bits (`PortMod`;
  ports have two bits in the instance); ports that are negative multiples of 2^16 are left out.
  Ports other processes hold are the choice whether a socket opens. A
  socket is its descriptor number, because the runner compares numbers.
* A word of a command line is a value; constants say which begin with a dash, which hold an
  `=` and what they split into, and which are numbers or addresses.
* Output of a handler is counted in pieces, of which the pipe and the reply each have room
  for so many. A script may fork once and leave its offspring the pipe. An object writes one
  piece, its result, or ends without.
* What `main` acquires is held or not. Of a subsystem `Lifecycle` knows what it gives back
  when it stops, not how it works.
* Cryptography is symbolic in `Codecs`: a datagram sealed for a key opens with that key,
  a signature names its key and what it covers. `Dispatch` has of the mux what decides
  which jobs there are (`MuxStream` and `MuxInbox` have the rest): the clients of codec v4
  all send session, stream and message 1, so there is one claim, and fragments are
  collided and handed over by index.
* A configuration of `Dispatch` is what `ConfigDocument` makes of a document: users,
  actions, dead drops and restrictions; a reload puts another of a small set in its place. A
  reload that fails is one that leaves everything as it was; the other ways to fail are in
  `RuntimeReload`.
* A client of `Knocker` is a run of the program with its options. Its challenge is the
  client itself: random numbers of 32 bits are taken to be distinct. It does not log into a file
  (`boot_stop` shows what that does to its exit status). Names, texts and
  payloads are short sequences of numbers whose lengths the limits tell apart.
* An alias map of `AliasMap` is its text, character by character: a full disk cuts it at any
  of them, a writer overlays another's at any, and `strtok` cuts a line where its commas are.
  Names, hosts and lines fit the buffers they are read into, and a map the buffer of its
  stream, so that it is read and written at once. What `%u` prints and `strtoul` reads are
  constants. Other hosts have files of their own.

Definitions whose comment starts with "Mutant of" are changed forms of the
definition that follows them. No specification uses them; each is a plausible
error that the property named in `PROJECT.json` must detect.

## Runs

| run | question | bounds and why they are enough |
|---|---|---|
| `stream` | Does the slot and tracker machinery implement ordered delivery, is anything queued without an id or a tracker, and is every slot emptied again? | two slots for fragments of messages of three and of two, a fragment with a wrong count, whole packets and packets without ids, each again and again or never; counters of width 3 and 4 and one tracker of each kind for two sessions: every counter wraps, both arrays overflow, the queue is full with the wrong fragments, and every pair of collision, claim, expiry and drain meets |
| `inbox` | Are sessions unambiguous, does what is queued belong to them, and is every datagram that reached the socket looked at? | a secure listener; two senders, one of which uses the ids of the other; raw, undecodable, plain and encrypted single datagrams (one that is too long is dropped as a plain one is), codec v4 sessions and a message of two fragments; two session slots, so creation fails; two queue slots, so the queue overflows and pumps are aborted; three arrivals, all of which may wait at once; a clock that passes both timeouts, from its first moment and from its second |
| `inbox_cleanup` | Is what the stream layer keeps for a session cleaned up with it? | no: see below |
| `reload` | Do all holders of the configuration follow it, and is a file read as it is written? | ten documents: one to start with, three that change flags, users, security and binding, two whose port the socket cuts (one to another port, one to 0, which leaves the choice to the kernel), and four that fail at each step of a reload; three loads, so a failed one can come between two good ones; three descriptors, so a number comes back. Each document is also read with each of fourteen more lines at every place: sections of every kind and of none, keys of old, words that mean nothing, lists that are too long; blocks and lists have room for two, addresses three bits |
| `reload_rollback` | Does a failed reload leave the runtime as it was? | no: see below |
| `reload_policy` | Does the mux follow the server's `secure` flag? | no: see below |
| `lifecycle` | Is whatever is up or acquired given back, and nothing stopped twice, whatever fails and whenever a signal comes? Does a signal end the process? Do replies leave whole, once and in order? | the lists of both programs, unabridged, every start and every step of the preparation that can fail; a failed boot of the daemon shuts down twice, as the code does; two signals, so that one finds what the other has set; three requests into two places of the job queue, replies of 0, 1 and 2 datagrams into an egress ring of three, every number of datagrams a flush may get through, a rebind by any job; scripts, dead drops and objects with up to three pieces of output, a pipe and a reply that hold one each, so a writer waits for the reader and the reply overflows while an offspring has the pipe |
| `boot_stop` | Does an orderly shutdown leave each library what it calls as it stops? | no: see below |
| `second_signal` | Does the second signal end the process at once? | no: see below |
| `exchange` | Is what runs what was asked for and signed, is each reply sealed under the keys of the moment, is a client's exit status that of its own request? | nine clients: two of one user at one address, one that reloads, two that cut their payload (one has it truncated first), one unsigned, one in the plain, a dead drop and one whose payload does not fit; any two of them in a behaviour; three documents that differ in keys, users, security and texts, with restrictions to an address and to a prefix; two packets that wait or were run, so that one waits while another reloads, fragments of two clients meet in one claim, and a repeated datagram runs twice |
| `exchange_replay` | Does an action run once for a packet, however often the network delivers it? | no: see below |
| `commands` | Is what runs what the line says, and do names keep their ids, whatever overlapping commands do to the files? | two processes at a time and three commands in a behaviour, so that one that runs alone follows two that overlapped; over a hundred command lines: the commands on both maps, a default and the host as a whole, transmits with their options in every place and form, words that look like options, and lines that must be refused; a name that is a number, one that no file can be called after and one whose line reads back as another's (`ann,` as `ann`); ids of one digit and of two, so that a line that is cut is one with another id and a shorter map leaves pieces of a longer one; older maps with an id out of range, lines that are not in order and no newline at the end; a kill between any two steps and a disk that is full after any character. The two processes are interchangeable, so the run takes them as symmetric. Three commands are the most a property speaks of: two that meet and the one that finds what they left |

What the runs of violations show:

* **inbox_cleanup.** The comment of `m7mux_session_ingest` (`m7mux/session/session.c`)
  says singular packets get a session so that they "can still be tracked and later
  cleaned up". The session expires; the session tracker and message trackers of
  `stream.c` stay until the mux is reset. After 64 different sessions no new one
  gets a tracker, every datagram that needs one is refused, and each refusal ends
  its pump.
* **reload_rollback.** The change log of 2026-03-07 says "rollback path keeps the old
  config/runtime alive on failure". When the keychain refuses a second enabled user
  of the same name, which validation lets pass, the rollback calls
  `app_runtime_sync_codec_context` with `old_cfg`, which it set to NULL a few lines
  before. The codec context keeps the server key, flag and part of the users of the
  configuration that was discarded; the listener stays on its binding.
* **reload_policy.** The same change log says the loop no longer caches the server's
  encryption mode and "re-reads live listener state each iteration". The policy is
  set when a mux is made; a reload that changes `secure` and not the binding keeps the mux.
* **boot_stop.** The comment of `shutdown_lib` asks for the reverse of the order of the
  starts, so that "Dependencies are respected" and logging stays alive. The client's stops
  `print` and then `log`. With `--log` a file is open, `log_shutdown` writes a last line
  through `print`, and `print_require_ready` aborts the process: whatever the transmit came
  to, it ends with SIGABRT, and what the log had buffered is gone. The daemon stops `log`
  first.
* **second_signal.** The same change log says the first SIGINT or SIGTERM "requests graceful
  shutdown" and the second "forces hard exit". `lib_signal_handle` counts deliveries as long
  as the count is below `(sig_atomic_t)~0 >> 1`, which is -1, so it counts none, and no
  signal is the second: a daemon that waits for a script that does not end is not ended by
  a second one either.
* **exchange_replay.** `docs/SECURITY.md` says "Nonce cache ensures that identical packets
  cannot be reused to repeat an access or attack." The nonce caches are asked only by the
  `wire_auth` functions of the codecs, and nothing calls these. A datagram that arrives a
  second time is decoded, checked and run a second time.

Also worth knowing, and part of the models:

* `docs/OPERATIONS_CONFIG.md` says of the key `port`: "UDP port to listen on." `config.c` takes
  whatever `atoi` makes of the value, and `app_udp_open_bound_socket` casts it to `uint16_t`:
  with `port = 70000` the daemon listens on 4464 and says nothing (`RuntimeReload!Opened`; two
  documents of `reload` have such ports). `ReloadIsComplete` therefore says that the listener
  is where a start with the configuration could have put it, not that it has the port of the file.
* The comment of the daemon's `shutdown_lib` says "Always shutdown in **reverse order** of
  init". `init_lib` starts `process` and `file`, `init_app` starts `daemon.policy`, and no
  shutdown stops them (`DaemonBoot!DaemonLeftUp`); the fail labels do. Nothing is lost today:
  two of the three stop functions are empty, and the third clears what says that it is up.
  `EndsWithNothingUp` speaks of all other subsystems.

* A repeated option takes the place of its first use, and settings are applied in the order
  of the places: `--no-hmac --dummy-hmac --no-hmac` gives a dummy signature.
  What a line means, for `RunsWhatWasMeant`, follows the code in this: options count in the
  order of their first uses. The lines of `commands` name one of two such options once.
* `10.0.0.0/` is read as a prefix of length 0, like `10.0.0.0/0` (`IpRange!IsCidr`).
* `run_shell`, `contains_any` and `resolve_payload_overflow_by_action` have no caller: what
  `payload_overflow` says in a file is read, checked and never asked for.
* A daemon whose configured port is not that of its socket (70000 and 4464) sees another
  binding at every reload. Its probe then fails on the daemon's own socket, so every reload of
  that file is refused (`RuntimeReload!Clash`). `rebind_listener` with such a port kept
  rebinds, but leaves the configuration as it was and answers that the two do not agree
  (`Configures`).
* A change between no `bind_ip` and one, on the same port, cannot be made in a running daemon:
  a reload refuses it and `docs/OPERATIONS_CONFIG.md` recommends `rebind_listener`, which
  opens the new socket while the old one has the port (`Reopened`).
* Every client of codec v4 names session 1, so all of them share a session of the mux, whose
  address is that of the last datagram. Nothing is answered by it: a packet keeps the address
  it came from. What `QueuedBelongToSession` says of such packets is therefore not that the
  session's address is their sender's, but that the session is the one their id finds.
* Setting the alias `ann,` sets `ann`: `strtok` passes over the empty piece. `TakesEffectAlone`
  says of such a name that no more changes than what its line reads back as.
* Two overlapping writers may leave pieces of lines that read as entries nobody gave, and a full disk
  may cut the id 12 to 1, after which the command reports success. `IdsWereGiven` says that
  nothing but a torn write does this (`torn`).
* A daemon whose loop ends with an error cleans up and exits with status 0, as one that was
  told to stop.

`CHECK_DEADLOCK FALSE` is set for the lifecycle, because the process ends; for the commands,
which end and are bounded in number; and for the exchange, where clients end and, when a reply
cannot be staged, the daemon does.

## Fairness

`StreamSystem`: time passes, and each iteration of the runner pumps, which expires at the
current time, and drains; nothing is assumed about arrivals. `MuxInbox`: the loop is one
thread that always continues (it has a next step in every state and its waits have timeouts),
and time passes. `Lifecycle`: the process runs, and so do its loop and its jobs: the pump
waits at most until the next tick of six seconds, and nothing else in the loop waits but for a
handler. That the loop leaves the drain and the jobs behind holds because both are bounded.
Two things are not the code's to promise. The socket accepts a whole flush again and again:
without it a reply waits for ever, and the code does nothing wrong; `RetriedUntilSent` says
what the code adds, that nothing but a stop or a rebound listener ends the retries. And what a
job runs comes to an end: the child and its offspring write what they have to write as long as
somebody reads it, and exit. Nothing is assumed of signals, which may come at any time or
never: `SignalEnds` holds because no step of the startup clears a flag that was set and every
wait ends. A signal interrupts the wait of the pump, which the loop takes for an error and
stops; a handler's `read` and `waitpid` go on. Between the look at the flag and the wait of
the pump the code has a gap: a signal that falls into it is seen one tick later, as if it had
come after the pump, which is why `LoopStep` has no step between the two.

## Proofs

Every theorem holds for every value of the constants that satisfies the assumptions of the
modules it is about; TLC evaluates those assumptions on the instance of each run, and it
has checked each inductive invariant on that instance before it was proved. A theorem
`Spec => []Inv` is proved from an invariant that implies `Inv`, holds initially and is
preserved by every step; each proof has a lemma per action, or per operation where an
operation is called from several actions.

**Stream layer** (`MuxStreamProofs`, `StreamSystemProofs`). For every set of sessions,
packets and bodies, every capacity, id width and timeout: type correctness, the agreement
of `ready_count` with the slots, that no fragment is queued twice, that a claim always has
a fragment to come, and that every queued packet has its trackers. The inductive invariant
`IInv` is `QueueOK` (slots, count and uniqueness), `TrackersOK` (ids in their widths,
claims unfinished, packets tracked) and the type of the clock. None of its parts is
inductive alone: that ingest keeps the count needs a free slot to be empty, that drain
finds the tracker it advances needs queued packets to be tracked, and that an advanced
claim is not exhausted needs it to have been unfinished. From the same invariant follow
`DeliveryRefined`, that slots and trackers implement `OrderedDelivery`, with one lemma for
each kind of step of the abstraction (a packet accepted, a single packet, the first and a
later fragment delivered, discards, a restart); and `ClaimHeld`, that a stream's claim ends
only with its last fragment, an expiry or a new mux.

**Inbox and sessions** (`InboxProofs`). For every number of slots, sessions and senders:
`SessionsApart`, `PacketsBelong`, `FreshSessionsUntracked`, `UserDataOwned`,
`HandoverInOrder`. `InboxInv` takes `QueueOK` and `TrackersOK` from the stream layer and adds
what relates the parts: a session id is below `next_session_id`, and only codec v4 has client
ids of its own (else a lookup by the client's id could find another sender's session); a
queued packet names a session that is active, that its lookup finds (by address, or for codec
v4 by the client's id, whichever address the packet came from), and that was seen no earlier
than the packet (`Belongs`; with `ExpireAfterMs <= SessionTimeoutMs` a session can then not
time out before its packets); serials grow from queue to ring to socket
(`QueuedBeforeWaiting`, `WaitInOrder`); and, when a pump starts, no packet of one part is left
in the queue (`WholeInOrder`), because a drain empties the queue of them, aborted pump or not.
Without the last, slots that are reused would deliver a later packet before an earlier one.
`TrafficAssumption` says that a datagram of codec v4 names a session other than 0. The client
of this repository always names session 1 (`knock/app/transmit/transmit.c`), but `v4.c`
accepts 0, and `m7mux_session_ingest` then takes the id it hands out as the client's: a later
datagram that names that number would find this session. `SessionsDistinct` is therefore a
promise to clients that name a session.

**Process** (`LifecycleProofs`). For every list of subsystems and every preparation, that what
is started is stopped, once and while it is up, but for a list of subsystems the shutdowns
forget (`LeftUp`: three of the daemon, none of the client), which only a boot that fails stops
(`StopsOnce`, `NothingUpAtEnd`, `UnwindingAlways`), and that the daemon gives back what
`main`, the loop and the handlers acquired (`NothingHeldAtEnd`, `ContextAlways`), on every way
out. `BootInv` says of each layer what `todo` stands for: the rest of the starting order with
all before it up, the rest of the unwinding or stopping order with nothing else up, and all
layers below in full. `HandlersInv` says which pipe ends and child belong to each step of a
handler, `MainInv` where in the preparation `main` is and that it then holds just what comes
before. What is asked of the orders: `OrdersAssumption` (a layer stops a subsystem once and
all of them but `LeftUp`, and unwinds what comes before a start that can fail),
`ReleaseAssumption` (what is undone when a preparation fails is what came before it, and
everything else is released by a subsystem that stops) and `ContextAssumption` (codec modules
come after the codec context and are not released after it). The lists of `siglatchd` and
`knocker` satisfy all three, which `lifecycle` checks; they are what a change to those lists
must keep.

For every size of queues and replies, replies leave in the order of their requests and
whole (`InOrderAlways`, `WholeAlways`). `RepliesInv` orders jobs, egress and what was sent
as one sequence: what is queued for egress continues the log of datagrams sent, and jobs
come after both.

**Configuration** (`RuntimeReloadProofs`). For every set of files, users, addresses and
descriptors, every width of a port and every port that is cut to it, listener and session hold
only the attached configuration (`BorrowsCorrect`), the wire flags follow it (`WireCorrect`)
and a successful reload is complete (`ReloadComplete`): codec context and keychain are the new
ones, and the listener is where a start with the new configuration could have put it
(`Opened`, the port cut). `IInv` adds to these the shape of the attached configuration,
without which a setting could not be shown to change nothing else, and `BoundOK`, that the
listener is where a start with its own binding could have put it, without which a reload that
keeps the socket would say nothing of its port. `TextsAreFiles` shows that the daemon that
reads texts implements the one that knows of a file only what a reload meets, under
`ConfiguredAssumption` (a document is a sequence of lines, and what it comes to is among the
files); `ReloadsOfTexts` carries the three results over. `KeychainAgreesAlways`: for every
text, also with any line added at any place, codecs and daemon find the same user for every
id. That is four inductions: over lines, that a text is a list of sections; over sections,
that a configuration is lists of blocks; over users, that of those switched on the first that
fits is the first of all that is switched on and fits (`EnabledFirst`); and the two lookups,
which take the least index. `ReadsAsWrittenAlways`: what a text is read to is what it says
line by line. The reference asks of a field which lines of its section name it, and takes the
last of them, or all for a list; the parser folds over the lines and keeps a record. An
induction over the lines of a section says what each leaves of a block (`FieldSaysMore`,
`BlockSays`), one over the lines of the text that its sections are the lines between headings
(`DocumentMore`, `DocumentSays`), and one over the sections that a configuration is their
blocks in order (`ConfiguredSays`). They rest on what one more element does to a fold
(`GoneMore`) and to a reference that joins sequences place by place (`JoinedMore`). What is
asked of a text is that it is a sequence of lines whose values are sequences of words
(`ConfiguredAssumption`); the limits of lists are any numbers.

**Exchange** (`ExchangeProofs`). How codec v4 cuts a payload, for every length and count:
the fragments lie end to end from its first byte to its last (`FragmentsTile`), each has
room in a datagram when `count_fragments` accepted the count (`FragmentsFit`), and joined
in the order of their places they are the payload (`FragmentsReassemble`). The first two
rest on what integer division promises (`Division`), the third is an induction over the
fragments. Then, for every set of clients, options, configurations and bounds:
`RequestedAlways`, `AnswersAlways`, `PayloadsWhole` and `RepliesRekeyed`. `ExchangeInv`
says that every datagram on the network is a fragment of a client's request or the outcome
of a run (`NetOK`), that what the daemon holds and has queued arrived from there
(`DaemonOK`), that of a client that waits all fragments are on the network (`SentOK`), and
which exit status goes with which phase (`ClientsOK`). `NetOK` is what makes a signature
mean something: that a signed packet was asked for follows from what is on the network, not
from a look at the sender.

**Commands** (`CommandsProofs`). For any number of commands that overlap on any files, and any
texts in them: `IdsGivenAlways`, `AliasesAlways`, `AloneTakesEffect`. `CommandsInv` follows an
id on its way from a file into a command's copy and back: whatever a map reads as, a copy
holds or a transmit goes by was given to that name, or was torn (`MapsOK`, `IdsOK`); a command's copy
is what it makes of the list it read, and what its text reads back as was given too (`ListOK`). A
file may be unlinked while a command writes it, so it also says that one that still has its
name is there (`LinkedOK`); and of a command that runs alone, that all others are idle, that
what it has looked up is still so, and that the file it is about to write is empty (`AloneOK`).

Under this lies what a text reads as. A line that was written for a name and a host without
commas and newlines reads back as that one entry (`ReadBack`: where each piece begins and
ends), a text whose first part ends with a newline reads as its parts one after the other
(`ParsedApart`), and so a map reads as its lines, in order: for all names (`WrittenReads`),
and for plain ones as the list that was written (`LegibleReadsBack`). What is read from a file
is always plain. These are inductions over the places of a text and over the entries of a
list, whose joined parts are compared place by place (`JoinedAlike`, `JoinedBehind`). Then
what a name resolves to in such a list: setting a name gives it its id and spares all but what
its line reads back as (`UpdatedSets`, `UpdatedSpares`), deleting it spares all others
(`WithoutIs`). Of `%u` and `strtoul` it is assumed that what the one prints is plain and the
other reads it back (`AliasMapAssumption`).

`RunsWhatWasMeantAlways`: every command that runs is the one meant by its line, for any set of
lines. What is meant is `Spelling!Meant`, which does not go through the line as the parser
does, but asks of each place whether it lies within what a word before it takes (`Heads`),
whether it is behind a `--` that is no value, and which place uses an option first and last.
`ParseIsReading` shows for every table of options and every line that `argv_parse` finds just
that, and that it refuses exactly the lines with an unknown option, one without its values,
one that may not be repeated and is, one that is missing, or too many words. It is an
induction over the words; `Found` says what the parser has after each of them: options and
words of the places so far, whether a `--` was among them, and how many words the last option
still wants (`Wanting`), from which it follows whether the next place is a head
(`HeadIfNotWanted`). That `Stored` keeps one entry for an option, at the place of its first
use, needs that the names so far are those used so far (`NamesAre`). `CommandIsMeant` carries
this to the modes of the client. What a mode makes of options and words is one definition for
both sides (`CommandOf`); that it is what the user means is seen from the meanings of the
lines of `commands`, which `MCCommands` spells out one by one and `ClientCommandsAssumption`
compares with `Meant`. The other theorems about commands rest on this one.

`Induction` is what the inductions rest on. The theorems of `NaturalsInduction` take a
predicate and cannot be cited; that a nonempty set of naturals has a least element is a
theorem about sets, and `SetInduction` and `Recursion`, for functions that fold over a
sequence, follow from it.

Only model-checked: liveness (`SlotsEmptyAgain`, `ArrivalsAreTaken`, `RetriedUntilSent`,
`SignalEnds`) and everything else that needs ENABLED, which this prover does not reach. Every
invariant and every action property of the runs that pass is a theorem.

## Not modelled

Cryptography and encodings themselves, the contents of key files, terminals and what is
printed, the firewall scripts of `scripts/ipAuth` and the shell clients, which are programs of
their own, the self tests, and the experimental `stdlib/protocol/udp/research`, which neither
program uses. The nonce cache is asked only by the `wire_auth` functions of the codecs, and
nothing calls these. Memory is never exhausted. What scripts and objects do is outside the
program; the sample objects only format a reply. Of a mux, opening and closing a socket of its
own is left out, because the daemon never asks for it. `net_ip` helpers other than ranges,
and the builtins that only answer, have no state.

## Plan

What is left, in order:

1. `Dispatch` composed with `RuntimeReload`, so that a job runs under the configurations a
   failed reload leaves; its run takes the place of `exchange`.
2. The lengths at which texts of a configuration are cut, so that two names may become one.
