----------------------------- MODULE DaemonBoot ------------------------------
(***************************************************************************)
(* The subsystems of siglatchd in the orders in which init_lib (lib.c),    *)
(* init_shared (shared.c) and init_app (app.c) start them, their fail      *)
(* labels unwind them, and shutdown_lib, shutdown_shared and shutdown_app  *)
(* stop them.                                                              *)
(***************************************************************************)
EXTENDS Sequences

LibStart == <<"time", "net", "codec context", "m7mux", "process", "str", "argv", "parse",
              "unicode", "print", "utils", "log", "hmac", "nonce", "signal", "file", "openssl">>

LibUnwind == <<"openssl", "file", "nonce", "signal", "hmac", "log", "utils", "print", "unicode",
               "parse", "argv", "str", "process", "m7mux", "codec context", "net", "time">>

LibStop == <<"openssl", "signal", "nonce", "hmac", "log", "parse", "argv", "utils", "print",
             "unicode", "time", "m7mux", "codec context", "net", "str">>

\* log_shutdown writes a last line to its file, through print.
LibLastCalls == {<<"log", "print">>}

LibMayFail == {"codec context", "m7mux", "process", "parse", "nonce", "signal", "openssl"}

SharedStart == <<"debug", "detect", "digest">>
SharedUnwind == <<"detect", "debug">>
SharedStop == <<"digest", "detect", "debug">>

AppStart == <<"app.builtin", "app.config", "daemon", "daemon.helper", "daemon.auth", "daemon.request",
              "daemon.policy", "daemon.payload", "app.help", "app.inbound", "app.keys", "app.object",
              "app.opts", "app.payload", "app.policy", "app.runtime", "app.server", "app.signal",
              "app.workspace", "app.startup", "daemon.tick", "app.udp">>

AppUnwind == <<"app.udp", "daemon.tick", "app.startup", "app.server", "app.signal", "app.workspace",
               "app.policy", "app.runtime", "app.payload", "app.opts", "app.keys", "app.object",
               "app.inbound", "daemon.helper", "daemon.auth", "daemon.request", "daemon.policy",
               "daemon.payload", "daemon", "app.help", "app.builtin", "app.config">>

AppStop == <<"app.builtin", "daemon.helper", "daemon.auth", "daemon.request", "daemon.payload",
             "daemon", "app.udp", "daemon.tick", "app.startup", "app.server", "app.signal",
             "app.workspace", "app.runtime", "app.payload", "app.policy", "app.opts", "app.keys",
             "app.object", "app.inbound", "app.help", "app.config">>

DaemonStart == <<LibStart, SharedStart, AppStart>>

DaemonUnwind == <<LibUnwind, SharedUnwind, AppUnwind>>
DaemonStop == <<LibStop, SharedStop, AppStop>>

\* Neither shutdown_lib nor shutdown_app has these.
DaemonLeftUp == {"process", "file", "daemon.policy"}

DaemonLastCalls == LibLastCalls

Started(order) == {order[i] : i \in DOMAIN order}
DaemonMayFail == LibMayFail \cup Started(SharedStart) \cup Started(AppStart)

-----------------------------------------------------------------------------
(* What main acquires: app_startup_prepare, start_listener and the runner *)

CodecModules == <<"codec v1", "codec v2", "codec v3", "codec v4">>
Adapters == <<"adapter v1", "adapter v2", "adapter v3", "adapter v4">>

DaemonPreparation ==
  <<"handlers", "configuration", "listener nonces", "codec context">> \o CodecModules \o Adapters
    \o <<"mux context", "log file", "socket", "crypto session", "codec session", "mux">>

\* What a failed step of the registration or of the runner takes back itself.
DaemonUndone ==
  [thing \in Started(DaemonPreparation) |->
     CASE thing \in Started(CodecModules) -> Started(CodecModules)
       [] thing \in Started(Adapters) -> Started(CodecModules) \cup Started(Adapters)
       [] thing \in {"codec session", "mux"} -> {"crypto session", "codec session"}
       [] OTHER -> {}]

DaemonReleases(s) ==
  CASE s = "app.startup" -> Started(CodecModules)
    [] s \in {"app.signal", "signal"} -> {"handlers"}
    [] s = "app.workspace" -> {"codec context"}
    [] s = "app.config" -> {"configuration"}
    [] s = "log" -> {"log file"}
    [] s = "m7mux" -> Started(Adapters) \cup {"mux context"}
    [] OTHER -> {}
=============================================================================
