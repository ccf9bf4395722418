------------------------------ MODULE MCExchange ------------------------------
(***************************************************************************)
(* Instances of Exchange for TLC.  User 1 may run action 1, a handler;     *)
(* user 2 may run it too, and action 2, a reload.                          *)
(***************************************************************************)
EXTENDS Exchange, ConfigDocument

\* Codec v2 has less room than user data, the others more or the same.
RoomOfCodecs == <<5, 4, 6, 6>>

-----------------------------------------------------------------------------
(* The configurations, as they are written *)

MCNumerals == ("one" :> 1) @@ ("two" :> 2)
MCMost == [k \in Kinds |-> 2]
MCListMost == [f \in {"actions", "allowed_ips", "deaddrops", "filters", "starts_with"} |-> 2]
MCIpTexts ==
  ("desk" :> [address |-> 1, prefixes |-> <<>>]) @@ ("lab" :> [address |-> 6, prefixes |-> <<>>])
    @@ ("upper" :> [address |-> 4, prefixes |-> <<1>>])

MCMasterPath == <<"server">>
MCPublic == {<<"k1">>, <<"k2">>, <<"k3">>}
MCHmac == {<<"h1">>, <<"h2">>, <<"h3">>, <<"h4">>}
MCPrivate == {MCMasterPath}
MCBytes == "tab" :> <<9>>

Of(key, word) == Entry(key, <<word>>)

Person(id, hmac, public, actions) ==
  <<Section("user", id), Of("id", id), Of("enabled", "yes"), Of("key_file", public),
    Of("hmac_file", hmac), Entry("actions", actions)>>

\* Both clients are where the server lets them in, one of them by a prefix.
Server(secure) ==
  <<Section("server", "secure"), Of("enabled", "yes"), Of("secure", secure),
    Entry("actions", <<"ping", "reload">>), Of("deaddrops", "box"),
    Entry("allowed_ips", <<"desk", "upper">>)>>

Actions ==
  <<Section("action", "ping"), Of("id", "one"), Of("constructor", "sh"),
    Section("action", "reload"), Of("id", "two"), Of("handler", "builtin"), Of("builtin", "reload_config")>>

Box ==
  <<Section("deaddrop", "box"), Of("starts_with", "tab"), Of("require_ascii", "yes")>>

Common(secure) == Server(secure) \o Actions \o Box

\* What the daemon starts with.
Secure ==
  Common("yes") \o Person("one", "h1", "k1", <<"ping">>)
    \o Person("two", "h2", "k2", <<"ping", "reload">>)

\* A key of each user changes, and one user is gone, or the server goes plain.
Closed == Common("yes") \o Person("one", "h3", "k1", <<"ping">>)

Plain ==
  Common("no") \o Person("one", "h1", "k1", <<"ping">>)
    \o Person("two", "h4", "k3", <<"ping", "reload">>)

\* A plain daemon's handler says nothing, or much.
Served(lines) ==
  LET cfg == ConfigOf(lines)
      s   == CHOOSE b \in ServerByName(cfg, SelectedName("", "", cfg)) : TRUE
  IN  Serving(cfg, s, <<IF s.secure THEN {1} ELSE {0, 2}, {0}>>)

AllConfigs == {Served(lines) : lines \in {d \in {Secure, Closed, Plain} : CanLoad(d)}}

-----------------------------------------------------------------------------
(* The clients *)

Option(address, protocol, user, action, payload, n) ==
  [address |-> address, protocol |-> protocol, drop |-> FALSE, encrypt |-> TRUE,
   hmacMode |-> "normal", user |-> user, action |-> action, payload |-> payload,
   hmac |-> IF user = 1 THEN "h1" ELSE "h2", server |-> "server",
   private |-> IF user = 1 THEN "k1" ELSE "k2", fragments |-> n]

\* Two clients of one user at one address; one that reloads; two that cut their
\* payload, one of them too long; one that does not sign, one in the plain, a
\* dead drop, and one whose payload its codec has no room for.
SomeOptions ==
  <<Option("desk", 1, 1, 1, <<1>>, 1),
    Option("desk", 1, 1, 1, <<>>, 1),
    Option("lab", 3, 2, 2, <<2>>, 1),
    Option("lab", 4, 2, 1, <<3, 4, 5>>, 2),
    Option("desk", 4, 1, 1, <<6, 7, 8, 9, 10, 11>>, 2),
    [Option("desk", 1, 1, 1, <<>>, 1) EXCEPT !.hmacMode = "none"],
    [Option("desk", 2, 1, 1, <<>>, 1) EXCEPT !.encrypt = FALSE],
    [Option("desk", 1, 1, 1, <<9, 10>>, 1) EXCEPT !.drop = TRUE, !.encrypt = FALSE, !.hmacMode = "none"],
    Option("lab", 2, 2, 1, <<1, 2, 3, 4, 5>>, 1)>>

AllClients == 1 .. Len(SomeOptions)
=============================================================================
