------------------------------- MODULE MCReload -------------------------------
(***************************************************************************)
(* Instances of ConfiguredDaemon for TLC: the document the daemon starts   *)
(* with, ones that change each thing a reload carries over, ones that fail *)
(* at each of its steps, and lines an edit may add to any of them.         *)
(***************************************************************************)
EXTENDS ConfiguredDaemon

MCNumerals == ("one" :> 1) @@ ("two" :> 2) @@ ("six" :> 6) @@ ("four" :> 4)
MCIpTexts ==
  ("lo" :> [address |-> 1, prefixes |-> <<>>]) @@ ("net" :> [address |-> 4, prefixes |-> <<1>>])
    @@ ("wide" :> [address |-> 4, prefixes |-> <<9>>])

MCMasterPath == <<"master">>
MCPublic == {<<"pub">>}
MCHmac == {<<"hmac">>}
MCPrivate == {MCMasterPath}
MCBytes == "tab" :> <<9>>
MCDynamic == {<<"lib", "hello">>}

\* Two blocks of each kind, and lists of two.
MCMost == [k \in Kinds |-> 2]
MCListMost == [f \in {"actions", "allowed_ips", "deaddrops", "filters", "starts_with"} |-> 2]

Of(key, word) == Entry(key, <<word>>)
Person(name, id) ==
  <<Section("user", name), Of("id", id), Of("enabled", "yes"), Of("key_file", "pub"),
    Of("hmac_file", "hmac")>>
Served(secure, port) ==
  <<Section("server", "main"), Of("enabled", "yes"), Of("secure", secure), Of("port", port)>>
Preamble == <<Of("default_server", "main"), [kind |-> "blank"]>>

\* The flag by the name it had before.
Decodes == <<Of("reject_wire_decode_error", "yes")>>
Scripts ==
  <<Section("action", "run"), Of("id", "one"), Of("handler", "shell"), Of("constructor", "sh"),
    Of("payload_overflow", "clamp")>>

First == Preamble \o Person("ann", "one") \o Person("bob", "two") \o Served("yes", "one") \o Scripts

MCDocuments ==
  <<First,
   Preamble \o Served("no", "one") \o Decodes \o Person("ann", "one"),
   Preamble \o Person("bob", "one") \o Served("1", "two"),
   Preamble \o Served("yes", "one") \o <<Of("bind_ip", "lo")>> \o Person("ann", "one"),
   First \o <<[kind |-> "junk"]>>,
   Preamble \o Person("ann", "one") \o Served("no", "six"),
   Preamble \o Person("ann", "one") \o Served("no", "four") \o <<Of("bind_ip", "lo")>>,
   <<Entry("priv_key_path", <<>>)>> \o First,
   Preamble \o Person("ann", "one") \o Person("ann", "two") \o Served("yes", "two") \o Decodes,
   Preamble \o Person("ann", "one") \o Person("ann", "two") \o Served("no", "one") \o Decodes>>

\* Every way a value is read, keys of old, sections of every kind, and lines that
\* the block they get into does not know.
MCSlips ==
  {Section("user", "cid"), Section("server", "main"), Section("deaddrop", "box"),
   Section("other", "x"), Of("id", "two"), Of("enabled", "maybe"), Of("payload_overflow", "inherit"),
   Of("payload_overflow", "shrink"), Of("handler", "magic"), Of("output_mode", "ascii"),
   Of("name", "old"), Entry("allowed_ips", <<"lo", "net">>), Entry("actions", <<"run", "a", "b">>),
   [kind |-> "blank"]}

MCFiles == {FileOf[d] : d \in DOMAIN MCDocuments}
=============================================================================
