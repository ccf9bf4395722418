---------------------------- MODULE RuntimeReload ----------------------------
(***************************************************************************)
(* The configuration of a running daemon and everything that holds a part  *)
(* of it: the listener and its socket (udp.c), the cryptographic session   *)
(* (crypto.c), the codec context and the wire flags of the mux, and the    *)
(* policy the mux got when it was made (runner.c).  Jobs change it through *)
(* the builtins reload_config (runtime.c), rebind_listener, probe_rebind   *)
(* and change_setting; the file of the configuration changes at any time.  *)
(*                                                                         *)
(* A loaded configuration is named by the number of its load, which stands *)
(* for the memory it lives in.  A port is what atoi made of the file; the  *)
(* socket gets its low 16 bits.  What other processes do to ports is the   *)
(* choice whether a socket can be opened.  Left out: exhausted memory,     *)
(* ports that are negative multiples of 2^16, and everything in a          *)
(* configuration but the selected server and the names of the enabled      *)
(* users.                                                                  *)
(***************************************************************************)
EXTENDS Integers

CONSTANTS
  Files,        \* what the configuration file may hold
  Users,        \* names of users
  Addresses,    \* the ips a request may name
  PortMod,      \* 2^16: what a port is cut to when a socket is bound
  Descriptors,  \* what a socket may be numbered
  NoLoad,       \* a pointer into a configuration that is NULL
  MaxLoads      \* bound: configurations loaded in a behaviour

\* Ports there are, and ports a configuration may have; port 0 is the default.
Ports == 1 .. PortMod - 1
PortRead == {p \in Int \ {0} : p > 0 \/ p % PortMod # 0}

\* The ip "any" is a listener that names none.
Binding == [ip : STRING, port : PortRead]

ServerFields == [secure : BOOLEAN, binding : Binding, users : SUBSET Users,
                 decode : BOOLEAN, auth : BOOLEAN]

\* valid says that the file parses, passes validation and has the server;
\* keyed, that the server's private key was loaded; unique, that no two enabled
\* users have one name, which validation does not look at.
File == [valid : BOOLEAN, enabled : BOOLEAN, keyed : BOOLEAN, unique : BOOLEAN,
         server : ServerFields]

Loads == 1 .. MaxLoads

Staged(f) == f.valid /\ f.enabled /\ (f.server.secure => f.keyed)

\* A file the daemon can start with.
Starts(f) == Staged(f) /\ f.unique

ASSUME ReloadAssumption ==
  /\ Files \subseteq File
  /\ \E f \in Files : Starts(f)
  /\ Addresses \subseteq STRING
  /\ PortMod \in Nat \ {0, 1}
  /\ \A d \in Descriptors : Descriptors \ {d} # {}
  /\ MaxLoads \in Nat \ {0}
  /\ NoLoad \notin Nat

VARIABLES
  phase,    \* of the loop: "turn", "pump" or "jobs"
  file,     \* the file on disk
  loads,    \* how many configurations were loaded
  config,   \* the attached one: its load, and the fields of its server
  server,   \* load of the configuration listener->server points into
  session,  \* loads its private key and its user's public key belong to
  bound,    \* bound_ip and bound_port of the listener
  sock,     \* the number of that socket
  codec,    \* the codec context: load of the server key, secure flag, keychain
  wire,     \* the wire flags the mux context has
  mux       \* the socket and the encryption policy of the mux

vars == <<phase, file, loads, config, server, session, bound, sock, codec, wire, mux>>

Config == [load : Loads, server : ServerFields]

-----------------------------------------------------------------------------

Loaded(f, n) == [load |-> n, server |-> f.server]

\* app_inbound_crypto_init_session_for_server: only a secure server has a key.
KeyOf(c)   == IF c.server.secure THEN c.load ELSE NoLoad
FlagsOf(c) == [decode |-> c.server.decode, auth |-> c.server.auth]

\* app_runtime_sync_codec_context; known is how far the keychain got.
CodecOf(c, known) == [key |-> KeyOf(c), secure |-> c.server.secure, users |-> known]

SessionOf(c, user) == [key |-> KeyOf(c), user |-> user]

MuxOf(s, c) == [sock |-> s, secure |-> c.server.secure]

\* app_udp_open_bound_socket: where a listener told to bind b may find itself.  The
\* port loses what is above 16 bits; if nothing is left the kernel chooses one, or,
\* without an ip, nothing is bound and the listener keeps the number it was told.
Opened(b) ==
  LET p == b.port % PortMod
  IN  IF p # 0 THEN {[b EXCEPT !.port = p]}
      ELSE IF b.ip = "any" THEN {b}
      ELSE {[b EXCEPT !.port = q] : q \in Ports}

\* Two sockets cannot have one port, if they do not differ in the ip both name.
Clash(b, c) == b.port = c.port /\ (b.ip = c.ip \/ "any" \in {b.ip, c.ip})

Init ==
  /\ phase = "turn"
  /\ file \in {f \in Files : Starts(f)}
  /\ loads = 1
  /\ config = Loaded(file, 1)
  /\ server = 1
  /\ session = SessionOf(config, NoLoad)
  /\ bound \in Opened(config.server.binding)
  /\ sock \in Descriptors
  /\ codec = CodecOf(config, config.server.users)
  /\ wire = FlagsOf(config)
  /\ mux = MuxOf(sock, config)

\* Somebody writes the file.
EditFile(f) ==
  /\ file' = f
  /\ UNCHANGED <<phase, loads, config, server, session, bound, sock, codec, wire, mux>>

-----------------------------------------------------------------------------
(* The loop of app_daemon_run *)

\* Another descriptor gets another mux, and that one the policy of the server.
Turn ==
  /\ phase = "turn"
  /\ phase' = "pump"
  /\ mux' = IF mux.sock # sock THEN MuxOf(sock, config) ELSE mux
  /\ UNCHANGED <<file, loads, config, server, session, bound, sock, codec, wire>>

Pump ==
  /\ phase = "pump"
  /\ phase' = "jobs"
  /\ UNCHANGED <<file, loads, config, server, session, bound, sock, codec, wire, mux>>

JobsEnd ==
  /\ phase = "jobs"
  /\ phase' = "turn"
  /\ UNCHANGED <<file, loads, config, server, session, bound, sock, codec, wire, mux>>

\* A job of user u reaches its builtin: the daemon has a server, and the session
\* is given the keys of the user.
Job(u) ==
  /\ phase = "jobs"
  /\ server # NoLoad
  /\ u \in config.server.users
  /\ UNCHANGED <<phase, file, mux>>

\* After the builtin, to answer, the session is given the keys of the user as
\* the configuration has them now, if it has that user.
AnswersWith(key, u) ==
  session' = [key  |-> key,
              user |-> IF u \in config'.server.users THEN config'.load ELSE NoLoad]

-----------------------------------------------------------------------------
(* The listener *)

\* app_udp_rebind_listener opens the new socket before it closes the old one.
Reopened(b) ==
  /\ bound' \in Opened(b)
  /\ ~ Clash(bound', bound)
  /\ sock' \in Descriptors \ {sock}

\* Mutant of BoundTo: the configuration is asked, not the socket.
BoundToConfig(b) ==
  IF b = config.server.binding THEN UNCHANGED <<bound, sock>> ELSE Reopened(b)

\* A listener that has the binding already keeps its socket.
BoundTo(b) == IF b = bound THEN UNCHANGED <<bound, sock>> ELSE Reopened(b)

\* What a request may ask for: what it does not name is as the server has it.
Targets ==
  [ip   : Addresses \cup {config.server.binding.ip},
   port : Ports \cup {config.server.binding.port}]

\* config_server_set_binding takes ports there are, and no others.
Configures(b) ==
  IF b.port \in Ports
  THEN config' = [config EXCEPT !.server.binding = b] /\ server' = config.load
  ELSE UNCHANGED <<config, server>>

\* rebind_listener: the target is bound already.
RebindSame(u) ==
  /\ Job(u)
  /\ bound \in Targets
  /\ Configures(bound)
  /\ AnswersWith(session.key, u)
  /\ UNCHANGED <<loads, bound, sock, codec, wire>>

\* The configuration follows the socket, if its port can be one.
RebindListener(u, b) ==
  /\ Job(u)
  /\ b # bound
  /\ Reopened(b)
  /\ Configures(b)
  /\ AnswersWith(session.key, u)
  /\ UNCHANGED <<loads, codec, wire>>

\* Mutant of SetWire: the flags are pushed before they are set.
SetWireLate(u, flags) ==
  /\ Job(u)
  /\ config' = [config EXCEPT !.server.decode = flags.decode, !.server.auth = flags.auth]
  /\ wire' = FlagsOf(config)
  /\ AnswersWith(session.key, u)
  /\ UNCHANGED <<loads, server, bound, sock, codec>>

\* The socket cannot be opened, or probe_rebind only asked whether it can.
RebindRefused(u) ==
  /\ Job(u)
  /\ UNCHANGED <<loads, config, server, bound, sock, codec, wire>>
  /\ AnswersWith(session.key, u)

\* change_setting: the flag is set in the configuration, then pushed.
SetWire(u, flags) ==
  /\ Job(u)
  /\ config' = [config EXCEPT !.server.decode = flags.decode, !.server.auth = flags.auth]
  /\ wire' = FlagsOf(config')
  /\ AnswersWith(session.key, u)
  /\ UNCHANGED <<loads, server, bound, sock, codec>>

\* One flag at a time, the other one as the server has it.
ChangeSetting(u) ==
  \E v \in BOOLEAN :
    \/ SetWire(u, [FlagsOf(config) EXCEPT !.decode = v])
    \/ SetWire(u, [FlagsOf(config) EXCEPT !.auth = v])

-----------------------------------------------------------------------------
(* app_runtime_reload_config *)

SamePortIpChange(f) ==
  f.server.binding.port = bound.port /\ f.server.binding.ip # bound.ip

Rebinds(f) == f.server.binding # bound

\* Refused while it is staged, or the probe finds the new binding taken.
ReloadRefused(u) ==
  /\ Job(u)
  /\ ~ Staged(file) \/ Rebinds(file)
  /\ UNCHANGED <<loads, config, server, bound, sock, codec, wire>>
  /\ AnswersWith(session.key, u)

\* A load that passed its staging: the file is read into the next configuration.
Stages(u) ==
  /\ Job(u)
  /\ Staged(file)
  /\ ~ SamePortIpChange(file)
  /\ loads < MaxLoads
  /\ loads' = loads + 1

\* Mutant of RollsBack: listener and session keep what the staging gave them.
RollsBackConfig(u) ==
  /\ UNCHANGED config
  /\ server' = loads'
  /\ AnswersWith(KeyOf(Loaded(file, loads')), u)

\* A failed reload puts the old configuration back and takes server and key
\* from it again.
RollsBack(u) ==
  /\ UNCHANGED config
  /\ server' = config.load
  /\ AnswersWith(KeyOf(config), u)

\* The probe succeeded and the listener's new socket cannot be opened.
ReloadNotRebound(u) ==
  /\ Stages(u)
  /\ Rebinds(file)
  /\ RollsBack(u)
  /\ UNCHANGED <<bound, sock, codec, wire>>

\* The keychain refuses the second user of a name.  The rollback syncs the codec
\* context from a pointer it has just set to NULL, which does nothing.
ReloadNotSynced(u) ==
  /\ Stages(u)
  /\ ~ file.unique
  /\ BoundTo(file.server.binding)
  /\ \E known \in SUBSET file.server.users \ {{}} :
       codec' = CodecOf(Loaded(file, loads'), known)
  /\ RollsBack(u)
  /\ UNCHANGED wire

\* The next configuration is attached and everything follows it.
ReloadDone(u) ==
  /\ Stages(u)
  /\ file.unique
  /\ BoundTo(file.server.binding)
  /\ config' = Loaded(file, loads')
  /\ server' = config'.load
  /\ AnswersWith(KeyOf(config'), u)
  /\ codec' = CodecOf(config', config'.server.users)
  /\ wire' = FlagsOf(config')

-----------------------------------------------------------------------------

Builtin(u) ==
  \/ RebindSame(u)
  \/ \E b \in Targets : RebindListener(u, b)
  \/ RebindRefused(u)
  \/ ChangeSetting(u)
  \/ ReloadRefused(u)
  \/ ReloadNotRebound(u)
  \/ ReloadNotSynced(u)
  \/ ReloadDone(u)

Next ==
  \/ \E f \in Files : EditFile(f)
  \/ Turn
  \/ Pump
  \/ JobsEnd
  \/ \E u \in Users : Builtin(u)

Spec == Init /\ [][Next]_vars

-----------------------------------------------------------------------------

TypeOK ==
  /\ phase \in {"turn", "pump", "jobs"}
  /\ file \in Files
  /\ loads \in Loads
  /\ config \in Config
  /\ server \in Loads \cup {NoLoad}
  /\ session \in [key : Loads \cup {NoLoad}, user : Loads \cup {NoLoad}]
  /\ bound \in Binding
  /\ sock \in Descriptors
  /\ codec \in [key : Loads \cup {NoLoad}, secure : BOOLEAN, users : SUBSET Users]
  /\ wire \in [decode : BOOLEAN, auth : BOOLEAN]
  /\ mux \in [sock : Descriptors, secure : BOOLEAN]

\* Nothing points into a configuration that was destroyed, and the daemon never
\* loses its server or the server's key: however a reload ends, listener and
\* session hold the attached configuration.
BorrowsAttached ==
  /\ server = config.load
  /\ session.key = KeyOf(config)
  /\ session.user \in {config.load, NoLoad}

\* The wire flags the mux enforces are those of the attached configuration,
\* whether they were changed by a setting or came with a file.
WireFollowsConfig == wire = FlagsOf(config)

\* A reload that succeeds leaves nothing behind of the configuration before, nor
\* of a reload that failed in between: codec context and keychain are those of the
\* new one, and the listener is where a start with the new one could have put it.
ReloadIsComplete ==
  [][config'.load # config.load =>
       /\ bound' \in Opened(config'.server.binding)
       /\ codec' = CodecOf(config', config'.server.users)]_vars

\* The change log of the staged reload: "rollback path keeps the old
\* config/runtime alive on failure".
FailedReloadKeepsRuntime ==
  [][loads' # loads /\ config'.load = config.load =>
       UNCHANGED <<config, bound, sock, codec, wire>>]_vars

\* The change log: the daemon loop no longer caches the server's encryption mode,
\* "it now re-reads live listener state each iteration".
MuxFollowsServer == phase = "pump" => mux.secure = config.server.secure
=============================================================================
