----------------------------- MODULE ClientBoot ------------------------------
(***************************************************************************)
(* The subsystems of the client knocker in the orders of its init_lib and  *)
(* shutdown_lib (knock/lib.c), of the shared layer and of init_app and     *)
(* shutdown_app (knock/app/app.c).                                         *)
(***************************************************************************)
EXTENDS Sequences

LibStart == <<"time", "net", "m7mux", "str", "unicode", "print", "stdin", "log", "random", "env",
              "file", "nonce", "signal", "openssl", "hmac", "utils", "argv", "parse">>

LibUnwind == <<"parse", "argv", "utils", "hmac", "openssl", "file", "nonce", "signal", "env",
               "random", "log", "stdin", "print", "unicode", "str", "m7mux", "net", "time">>

LibStop == <<"parse", "argv", "utils", "stdin", "print", "unicode", "openssl", "file", "env",
             "signal", "nonce", "hmac", "random", "log", "str", "m7mux", "net", "time">>

\* log_shutdown writes a last line to its file, through print.
LibLastCalls == {<<"log", "print">>}

LibMayFail == {"m7mux", "env", "nonce", "signal", "openssl", "parse"}

SharedStart == <<"debug", "detect", "digest">>
SharedUnwind == <<"detect", "debug">>
SharedStop == <<"digest", "detect", "debug">>

AppStart == <<"app.opts", "app.env", "app.alias", "app.output_mode", "app.help", "app.error_argv",
              "app.transmit">>

AppUnwind == <<"app.transmit", "app.error_argv", "app.help", "app.output_mode", "app.alias",
               "app.env", "app.opts">>

AppStop == <<"app.transmit", "app.error_argv", "app.help", "app.output_mode", "app.alias",
             "app.env", "app.opts">>

ClientStart == <<LibStart, SharedStart, AppStart>>
ClientUnwind == <<LibUnwind, SharedUnwind, AppUnwind>>
ClientStop == <<LibStop, SharedStop, AppStop>>

ClientLastCalls == LibLastCalls

Started(order) == {order[i] : i \in DOMAIN order}
ClientMayFail == LibMayFail \cup Started(SharedStart) \cup Started(AppStart)
==============================================================================
