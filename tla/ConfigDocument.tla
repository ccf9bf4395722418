---------------------------- MODULE ConfigDocument ----------------------------
(***************************************************************************)
(* The configuration file and what the daemon makes of it: the lines       *)
(* (ini.c), the blocks they are consumed into, their validation and the    *)
(* lookups in them (config.c), the keys that are loaded (keys/), the       *)
(* server that is selected and the keychain of the codecs (startup.c).     *)
(*                                                                         *)
(* A line is a record of its kind: "blank" (a comment too), "junk" (no =,  *)
(* an empty key, a broken header, too long), "section" or "entry".  A      *)
(* value is the sequence of the words its commas separate; a text is one   *)
(* as well.  Left out: upper and lower case, the lengths texts are cut to. *)
(***************************************************************************)
EXTENDS IpRange, SequencesExt

CONSTANTS
  Numerals,      \* word -> what atoi makes of it, for words that are not 0
  Most,          \* kind of block -> MAX_USERS, MAX_ACTIONS, MAX_SERVERS, MAX_DEADDROPS
  ListMost,      \* field that is a list -> how many items it has room for
  MasterPath,    \* the priv_key_path of a file that has none
  DefaultPort,   \* of a server that names none
  Builtins, StaticObjects, DynamicObjects, \* what the build supports
  PublicKeys, HmacKeys, PrivateKeys,       \* paths that hold such a key
  BytesOf        \* word -> its bytes, for the prefixes of dead drops

Kinds == {"user", "action", "server", "deaddrop"}

ASSUME ConfigDocumentAssumption ==
  /\ Most \in [Kinds -> Nat \ {0}]
  /\ ListMost \in [{"actions", "allowed_ips", "deaddrops", "filters", "starts_with"} -> Nat \ {0}]
  /\ DefaultPort \in Nat \ {0}
  /\ \A w \in DOMAIN Numerals : Numerals[w] \in Int

Section(what, name) == [kind |-> "section", what |-> what, name |-> name]
Entry(key, value) == [kind |-> "entry", key |-> key, value |-> value]

\* The folds of this module: a recursive function, which TLC evaluates once.
Through(Step(_, _), start, seq) ==
  LET upTo[i \in 0 .. Len(seq)] == IF i = 0 THEN start ELSE Step(upTo[i - 1], seq[i])
  IN  upTo[Len(seq)]

-----------------------------------------------------------------------------
(* ini.c *)

Readable(lines) == \A i \in DOMAIN lines : lines[i].kind # "junk"

\* An entry belongs to the last section that was opened, or to none.
ReadLine(doc, line) ==
  IF line.kind = "section"
  THEN [doc EXCEPT !.sections =
          Append(@, [what |-> line.what, name |-> line.name, entries |-> <<>>])]
  ELSE IF line.kind # "entry" THEN doc
  ELSE IF doc.sections = <<>>
  THEN [doc EXCEPT !.global = Append(@, line)]
  ELSE [doc EXCEPT !.sections[Len(doc.sections)].entries = Append(@, line)]

Document(lines) == Through(ReadLine, [global |-> <<>>, sections |-> <<>>], lines)

-----------------------------------------------------------------------------
(* Keys, and how their values are read *)

\* The fields of a block that lines set, by how their values are read.
Reads ==
  [global   |-> [text |-> {"priv_key_path", "default_server", "log_file"}, mode |-> {"output_mode"},
                 overflow |-> {"payload_overflow"}],
   user     |-> [flag |-> {"enabled"}, text |-> {"key_file", "hmac_file"}, number |-> {"id"},
                 list |-> {"actions", "allowed_ips"}],
   action   |-> [text |-> {"constructor", "label", "builtin", "object", "object_path", "run_as",
                           "destructor"},
                 flag |-> {"enabled", "require_ascii", "exec_split", "enforce_wire_auth"},
                 number |-> {"keepalive_interval", "id"}, handler |-> {"handler"},
                 overflow |-> {"payload_overflow"}, list |-> {"allowed_ips"}],
   server   |-> [text |-> {"label", "priv_key_path", "log_file", "bind_ip"},
                 flag |-> {"enabled", "secure", "logging", "enforce_wire_decode", "enforce_wire_auth"},
                 number |-> {"id", "port"}, mode |-> {"output_mode"},
                 overflow |-> {"payload_overflow"},
                 list |-> {"allowed_ips", "actions", "deaddrops"}],
   deaddrop |-> [text |-> {"label", "constructor", "run_as"},
                 flag |-> {"enabled", "require_ascii", "exec_split"}, number |-> {"id"},
                 list |-> {"filters", "starts_with"}]]

\* Keys of old: in a block that has the field they set it.
Renamed ==
  [name |-> "label", filter |-> "filters", reject_wire_auth_error |-> "enforce_wire_auth",
   reject_wire_decode_error |-> "enforce_wire_decode"]

FieldOf(key) == IF key \in DOMAIN Renamed THEN Renamed[key] ELSE key

Fields(what) == UNION {Reads[what][how] : how \in DOMAIN Reads[what]}

HowRead ==
  [what \in DOMAIN Reads |->
     [field \in Fields(what) |-> CHOOSE how \in DOMAIN Reads[what] : field \in Reads[what][how]]]

Word(value) == IF value = <<>> THEN "" ELSE Head(value)
Atoi(value) == IF Word(value) \in DOMAIN Numerals THEN Numerals[Word(value)] ELSE 0
OneOf(words, value, otherwise) == IF Len(value) = 1 /\ value[1] \in words THEN value[1] ELSE otherwise

\* Only the blocks inherit.
Overflows(what) == {"reject", "clamp"} \cup (IF what = "global" THEN {} ELSE {"inherit"})

UpTo(n, list) == SubSeq(list, 1, Min({n, Len(list)}))

\* Mutant of Taken: a list that is said again starts over.
TakenAnew(what, field, old, value) ==
  LET how == HowRead[what][field]
  IN  CASE how = "text"     -> value
        [] how = "flag"     -> value \in {<<"yes">>, <<"1">>}
        [] how = "number"   -> Atoi(value)
        [] how = "list"     -> value
        [] how = "mode"     -> OneOf({"unicode", "ascii"}, value, "unset")
        [] how = "handler"  -> OneOf({"shell", "builtin", "static", "dynamic"}, value, "invalid")
        [] how = "overflow" -> OneOf(Overflows(what), value, old)

\* What a field holds after an entry: a list grows, a policy that is none of the
\* words stays as it was, a flag that is none is off.
Taken(what, field, old, value) ==
  LET how == HowRead[what][field]
  IN  CASE how = "text"     -> value
        [] how = "flag"     -> value \in {<<"yes">>, <<"1">>}
        [] how = "number"   -> Atoi(value)
        [] how = "list"     -> UpTo(ListMost[field], old \o value)
        [] how = "mode"     -> OneOf({"unicode", "ascii"}, value, "unset")
        [] how = "handler"  -> OneOf({"shell", "builtin", "static", "dynamic"}, value, "invalid")
        [] how = "overflow" -> OneOf(Overflows(what), value, old)

Zero ==
  [text |-> <<>>, flag |-> FALSE, number |-> 0, list |-> <<>>, mode |-> "unset",
   handler |-> "shell", overflow |-> "inherit"]

Preset(what, name) ==
  CASE what = "global"   -> [priv_key_path |-> MasterPath, payload_overflow |-> "reject"]
    [] what = "user"     -> [name |-> name]
    [] what = "action"   -> [name |-> name, exec_split |-> TRUE, enabled |-> TRUE]
    [] what = "server"   -> [name |-> name, label |-> <<name>>]
    [] what = "deaddrop" -> [name |-> name, label |-> <<name>>, exec_split |-> TRUE, enabled |-> TRUE]

Fresh(what, name) ==
  LET preset == Preset(what, name)
  IN  [field \in DOMAIN preset \cup Fields(what) |->
         IF field \in DOMAIN preset THEN preset[field] ELSE Zero[HowRead[what][field]]]

-----------------------------------------------------------------------------
(* config_consume_document_ptr *)

ConsumeEntries(what, block, entries) ==
  LET consume(b, e) ==
        LET field == FieldOf(e.key)
        IN  IF field \in Fields(what) THEN [b EXCEPT ![field] = Taken(what, field, @, e.value)]
                                      ELSE b
  IN  Through(consume, block, entries)

\* A section there is no room for is skipped, entries and all.
ConsumeSection(cfg, s) ==
  IF s.what \in Kinds /\ Len(cfg[s.what]) < Most[s.what]
  THEN [cfg EXCEPT ![s.what] = Append(@, ConsumeEntries(s.what, Fresh(s.what, s.name), s.entries))]
  ELSE cfg

Consumed(doc) ==
  Through(ConsumeSection,
           [part \in Kinds \cup {"global"} |->
              IF part = "global" THEN ConsumeEntries("global", Fresh("global", ""), doc.global) ELSE <<>>],
           doc.sections)

Blocks(cfg, what) == ToSet(cfg[what])

UniqueServerNames(cfg) ==
  /\ \A s \in Blocks(cfg, "server") : s.name # ""
  /\ \A i, j \in DOMAIN cfg.server :
       cfg.server[i].name = cfg.server[j].name => i = j

\* What an action of a handler must say, and what it must not.
MustSay ==
  [shell |-> {"constructor"}, builtin |-> {"builtin"}, static |-> {"object"},
   dynamic |-> {"object", "object_path"}]

MustNotSay ==
  [shell   |-> {"builtin", "object", "object_path"},
   builtin |-> {"constructor", "object", "object_path", "run_as"},
   static  |-> {"constructor", "builtin", "object_path"},
   dynamic |-> {"constructor", "builtin"}]

Supported(a) ==
  CASE a.handler = "shell"   -> TRUE
    [] a.handler = "builtin" -> Word(a.builtin) \in Builtins
    [] a.handler = "static"  -> Word(a.object) \in StaticObjects
    [] a.handler = "dynamic" -> <<Word(a.object_path), Word(a.object)>> \in DynamicObjects

HandlersValid(cfg) ==
  \A a \in Blocks(cfg, "action") :
    /\ a.handler # "invalid"
    /\ \A field \in MustSay[a.handler] : a[field] # <<>>
    /\ \A field \in MustNotSay[a.handler] : a[field] = <<>>
    /\ Supported(a)

IpsValid(cfg) ==
  /\ \A what \in {"user", "action", "server"} : \A b \in Blocks(cfg, what) :
       \A spec \in ToSet(b.allowed_ips) : spec = "" \/ IsSingle(spec) \/ IsCidr(spec)
  /\ \A s \in Blocks(cfg, "server") :
       s.bind_ip = <<>> \/ (Len(s.bind_ip) = 1 /\ IsSingle(Word(s.bind_ip)))

Validated(cfg) == UniqueServerNames(cfg) /\ HandlersValid(cfg) /\ IpsValid(cfg)

\* apply_server_runtime_defaults
WithDefaults(cfg) ==
  LET defaults(s) == [s EXCEPT !.port = IF @ = 0 THEN DefaultPort ELSE @,
                               !.log_file = IF @ = <<>> THEN cfg.global.log_file ELSE @]
  IN  [cfg EXCEPT !.server = [i \in DOMAIN @ |-> defaults(@[i])]]

-----------------------------------------------------------------------------
(* keys/: a key that is missing fails the whole load *)

Enabled(cfg, what) == {b \in Blocks(cfg, what) : b.enabled}

KeysLoad(cfg) ==
  /\ cfg.global.priv_key_path \in PrivateKeys \cup {<<>>}
  /\ \A u \in Enabled(cfg, "user") : u.key_file \in PublicKeys /\ u.hmac_file \in HmacKeys
  /\ \A s \in Enabled(cfg, "server") : s.secure => s.priv_key_path \in PrivateKeys \cup {<<>>}

\* A server without a key of its own borrows the master key, if there is one.
ServerKey(cfg, s) ==
  IF ~ (s.secure /\ s.enabled) THEN <<>>
  ELSE IF s.priv_key_path = <<>> THEN cfg.global.priv_key_path
  ELSE s.priv_key_path

ConfigOf(lines) == WithDefaults(Consumed(Document(lines)))

\* config_build_from_path
CanLoad(lines) ==
  /\ Readable(lines)
  /\ LET cfg == Consumed(Document(lines)) IN Validated(cfg) /\ KeysLoad(cfg)

-----------------------------------------------------------------------------
(* Lookups: the first that fits; the empty set when there is none *)

FirstOf(blocks, Fits(_)) ==
  {blocks[i] : i \in {SelectInSeq(blocks, Fits)} \ {0}}

ServerByName(cfg, name)   == FirstOf(cfg.server, LAMBDA s : s.name = name)
DeaddropByName(cfg, name) == FirstOf(cfg.deaddrop, LAMBDA d : d.name = name)
ActionById(cfg, id)       == FirstOf(cfg.action, LAMBDA a : a.id = id)

\* Mutant of UserById: users that are switched off are found.
UserByIdAny(cfg, id) == FirstOf(cfg.user, LAMBDA u : u.id = id)

UserById(cfg, id) == FirstOf(cfg.user, LAMBDA u : u.enabled /\ u.id = id)

\* The command line, the environment, the file, or a name of last resort.
SelectedName(cli, env, cfg) ==
  SelectSeq(<<cli, env, Word(cfg.global.default_server), "secure">>, LAMBDA n : n # "")[1]

-----------------------------------------------------------------------------
(* The keychain of the codecs: a name twice, or an empty one, is refused and *)
(* ends the sync                                                             *)

EnabledUsers(cfg) ==
  LET add(users, u) == IF u.enabled THEN Append(users, u) ELSE users
  IN  Through(add, <<>>, cfg.user)

KeychainFills(cfg) ==
  LET users == EnabledUsers(cfg)
  IN  \A i \in DOMAIN users :
        users[i].name # "" /\ \A j \in 1 .. i - 1 : users[j].name # users[i].name

KeyOfId(cfg, id) == FirstOf(EnabledUsers(cfg), LAMBDA u : u.id = id)

-----------------------------------------------------------------------------
(* What of it Dispatch has in a configuration: policy.c and server.c compare  *)
(* names, so an action is served, or a user's, by the name its id leads to    *)

ActionIds(cfg, names) ==
  {a.id : a \in {b \in Blocks(cfg, "action") : b \in ActionById(cfg, b.id) /\ b.name \in ToSet(names)}}

UserFacts(cfg, u) ==
  [hmac |-> Word(u.hmac_file), public |-> Word(u.key_file), ips |-> ToSet(u.allowed_ips),
   actions |-> ActionIds(cfg, u.actions)]

\* What a handler prints is no matter of the configuration: texts is given.
ActionFacts(a, texts) ==
  [kind |-> IF a.builtin = <<"reload_config">> THEN "reload" ELSE "handler",
   enabled |-> a.enabled, ips |-> ToSet(a.allowed_ips), texts |-> texts]

\* The prefixes of the server's dead drops, in the order they are tried.
Drops(cfg, s) ==
  LET ofName(name) ==
        {d \in DeaddropByName(cfg, name) : d.enabled}
      tried(drops, name) ==
        LET found == ofName(name)
            d == CHOOSE x \in found : TRUE
        IN  IF found = {} THEN drops
            ELSE drops \o [i \in DOMAIN d.starts_with |->
                             [prefix |-> BytesOf[d.starts_with[i]], ascii |-> d.require_ascii]]
  IN  Through(tried, <<>>, s.deaddrops)

Serving(cfg, s, texts) ==
  [secure  |-> s.secure,
   key     |-> Word(ServerKey(cfg, s)),
   ips     |-> ToSet(s.allowed_ips),
   serves  |-> ActionIds(cfg, s.actions),
   drops   |-> Drops(cfg, s),
   users   |-> [id \in {u.id : u \in Enabled(cfg, "user")} |->
                  UserFacts(cfg, CHOOSE u \in UserById(cfg, id) : TRUE)],
   actions |-> [id \in {a.id : a \in Blocks(cfg, "action")} |->
                  ActionFacts(CHOOSE a \in ActionById(cfg, id) : TRUE, texts[id])]]
=============================================================================
