----------------------------- MODULE CommandLine ------------------------------
(***************************************************************************)
(* What knocker makes of its command line: the parser of stdlib/argv.c,    *)
(* and the command that knock/app/opts reads from what it parsed.          *)
(*                                                                         *)
(* A line is the sequence of the words after the name of the program, and  *)
(* a word is a value; what its characters say of it is in the constants.   *)
(* Abstracted: which of the errors a refused line is told, and the sizes   *)
(* of the buffers (a word fits).  No table of options allows repeats or    *)
(* has more names than ARGV_MAX_OPTIONS, so neither is there.              *)
(***************************************************************************)
EXTENDS AliasMap
LOCAL INSTANCE SequencesExt

CONSTANTS
  Dashed,          \* the words that begin with "-"
  Equals,          \* of those that begin with "--" and have an "=": word -> <<key, value>>
  Ips,             \* the words that are IPv4 addresses
  MaxPositionals   \* ARGV_MAX_POSITIONALS

ASSUME CommandLineAssumption ==
  /\ "--" \in Dashed /\ DOMAIN Equals \subseteq Dashed \ {"--"}
  /\ MaxPositionals \in Nat

Refused == [op |-> "refused"]
Printed == [op |-> "print"]     \* help, a dump, or a look at the maps

-----------------------------------------------------------------------------
(* stdlib/argv.c *)

\* A table: option -> how many words it takes, and whether its last use counts.
Option(takes, last) == [takes |-> takes, last |-> last]

\* values is what the last option still wants; options are in the order of first use.
Blank == [options |-> <<>>, words |-> <<>>, wants |-> 0, literal |-> FALSE, failed |-> FALSE]

Failed(parsed) == [parsed EXCEPT !.failed = TRUE]

Uses(parsed, name) == {i \in DOMAIN parsed.options : parsed.options[i].name = name}

\* Mutant of Stored: the first use of an option counts.
StoredFirst(table, parsed, name, values) ==
  IF Uses(parsed, name) # {} THEN parsed
  ELSE [parsed EXCEPT !.options = Append(@, [name |-> name, values |-> values])]

\* argv_store_option: a second use takes the place of the first, if it may.
Stored(table, parsed, name, values) ==
  CASE Uses(parsed, name) = {} ->
         [parsed EXCEPT !.options = Append(@, [name |-> name, values |-> values])]
    [] Uses(parsed, name) # {} /\ table[name].last ->
         [parsed EXCEPT !.options = [i \in DOMAIN @ |->
            IF i \in Uses(parsed, name) THEN [name |-> name, values |-> values] ELSE @[i]]]
    [] OTHER -> Failed(parsed)

Has(parsed, name) == Uses(parsed, name) # {}

\* argv_append_positional
Positional(parsed, word) ==
  IF Len(parsed.words) >= MaxPositionals THEN Failed(parsed)
  ELSE [parsed EXCEPT !.words = Append(@, word)]

\* The option at place i, with the words after it whatever they look like.
WithValues(table, parsed, line, i) ==
  LET takes == table[line[i]].takes
  IN  IF takes > Len(line) - i THEN Failed(parsed)
      ELSE [Stored(table, parsed, line[i], SubSeq(line, i + 1, i + takes)) EXCEPT !.wants = takes]

\* argv_parse_long_with_equals
WithEquals(table, parsed, key, value) ==
  IF key \in DOMAIN table /\ table[key].takes = 1 THEN Stored(table, parsed, key, <<value>>)
  ELSE Failed(parsed)

\* One word of the loop of argv_parse, strict as knocker leaves it.
Read(table, parsed, line, i) ==
  LET word == line[i]
  IN  IF parsed.failed THEN parsed
      ELSE IF parsed.wants > 0 THEN [parsed EXCEPT !.wants = @ - 1]
      ELSE IF parsed.literal \/ word \notin Dashed THEN Positional(parsed, word)
      ELSE CASE word = "--" -> [parsed EXCEPT !.literal = TRUE]
             [] word \in DOMAIN Equals -> WithEquals(table, parsed, Equals[word][1], Equals[word][2])
             [] word \in DOMAIN table \ ({"--"} \cup DOMAIN Equals) -> WithValues(table, parsed, line, i)
             [] OTHER -> Failed(parsed)

\* What is left of a line that is refused: nothing looks at it.
Garbled == [failed |-> TRUE, options |-> <<>>, words |-> <<>>]

\* required is what argv_enforce_required looks for.
Parse(table, required, line) ==
  LET upTo[i \in 0 .. Len(line)] ==
        IF i = 0 THEN Blank ELSE Read(table, upTo[i - 1], line, i)
      parsed == upTo[Len(line)]
  IN  IF parsed.failed \/ \E name \in required : ~ Has(parsed, name) THEN Garbled
      ELSE [failed |-> FALSE, options |-> parsed.options, words |-> parsed.words]

-----------------------------------------------------------------------------
(* The commands that knock/app/opts/opts.c reads itself, of a line that    *)
(* was parsed to p                                                         *)

OutputModes == {"unicode", "ascii"}

\* All but --opts-dump can be given once.
ModeTable ==
  [o \in {"--opts-dump", "--output-mode-default"} |->
     IF o = "--opts-dump" THEN Option(0, TRUE) ELSE Option(1, FALSE)]

\* app_opts_parse_output_mode_default.  The mode only changes what is printed.
ModeCommand(p) ==
  IF p.words # <<>> \/ p.options[1].values[1] \notin OutputModes THEN Refused ELSE Printed

SaveTable ==
  [o \in {"--opts-dump", "--send-from-default", "--send-from-default-clear"} |->
     CASE o = "--opts-dump" -> Option(0, TRUE)
       [] o = "--send-from-default" -> Option(3, FALSE)
       [] o = "--send-from-default-clear" -> Option(2, FALSE)]

The(parsed, name) == (CHOOSE o \in ToSet(parsed.options) : o.name = name).values

\* app_opts_parse_send_from_default: one of the two, and nothing beside it.
SaveCommand(p) ==
  LET saves == Has(p, "--send-from-default")
      v == The(p, IF saves THEN "--send-from-default" ELSE "--send-from-default-clear")
  IN  IF p.words # <<>> \/ (saves <=> Has(p, "--send-from-default-clear")) THEN Refused
      ELSE IF saves /\ v[3] \notin Ips THEN Refused
      ELSE IF Has(p, "--opts-dump") THEN Printed
      ELSE IF saves THEN [op |-> "save", host |-> v[1], name |-> v[2], ip |-> v[3]]
      ELSE [op |-> "clear", host |-> v[1], name |-> v[2]]

-----------------------------------------------------------------------------
(* The alias commands, knock/app/opts/alias.c: the first word of the line, *)
(* the selector, says which, and the parser starts behind it               *)

AliasTable ==
  [o \in {"--opts-dump", "--output-mode"} |-> Option(IF o = "--output-mode" THEN 1 ELSE 0, TRUE)]

Shape(op, kinds, least, most) == [op |-> op, kinds |-> kinds, words |-> least .. most]

AliasShapes ==
  "--alias-user"              :> Shape("set", {"user"}, 3, 3) @@
  "--alias-action"            :> Shape("set", {"action"}, 3, 3) @@
  "--alias-user-delete"       :> Shape("delete", {"user"}, 2, 2) @@
  "--alias-action-delete"     :> Shape("delete", {"action"}, 2, 2) @@
  "--alias-user-delete-map"   :> Shape("wipe", {"user"}, 2, 2) @@
  "--alias-action-delete-map" :> Shape("wipe", {"action"}, 2, 2) @@
  "--alias-delete"            :> Shape("wipe", Kinds, 2, 2) @@
  "--alias-user-show"         :> Shape("show", {"user"}, 0, 1) @@
  "--alias-action-show"       :> Shape("show", {"action"}, 0, 1) @@
  "--alias-show"              :> Shape("show", Kinds, 1, 1) @@
  "--alias-show-hosts"        :> Shape("show", {}, 0, 0)

\* Mutant of Confirmed: any second word confirms.
ConfirmedByAny(words) == Len(words) = 2

Confirmed(words) == words[2] = "YES"

\* app_opts_alias_parse
AliasCommand(selector, p) ==
  LET shape == AliasShapes[selector]
      kind == CHOOSE k \in shape.kinds : TRUE
      w == p.words
      modes == {o.values[1] : o \in {x \in ToSet(p.options) : x.name = "--output-mode"}}
  IN  IF ~ modes \subseteq OutputModes THEN Refused
      ELSE IF Len(w) \notin shape.words \/ "" \in ToSet(w) THEN Refused
      ELSE IF shape.op = "set" /\ ~ InRange(kind, Number[w[3]]) THEN Refused
      ELSE IF shape.op = "wipe" /\ ~ Confirmed(w) THEN Refused
      ELSE IF Has(p, "--opts-dump") THEN Printed
      ELSE CASE shape.op = "set" ->
                  [op |-> "set", host |-> w[1], kind |-> kind, name |-> w[2], id |-> Number[w[3]]]
             [] shape.op = "delete" -> [op |-> "delete", host |-> w[1], kind |-> kind, name |-> w[2]]
             [] shape.op = "wipe" -> [op |-> "wipe", host |-> w[1], kinds |-> shape.kinds]
             [] OTHER -> Printed

-----------------------------------------------------------------------------
(* A transmit, knock/app/opts/transmit.c *)

\* option -> the setting it changes and, for a flag, what to
Keyed == "--port" :> "port" @@ "--hmac-key" :> "hmac_key" @@ "--protocol" :> "protocol" @@
         "--server-key" :> "server_key" @@ "--client-key" :> "client_key" @@
         "--fragment" :> "fragments" @@ "--send-from" :> "from" @@ "--verbose" :> "verbose" @@
         "--log" :> "log" @@ "--output-mode" :> "output"

Flags == "--no-hmac" :> <<"hmac", "none">> @@ "--dummy-hmac" :> <<"hmac", "dummy">> @@
         "--no-encrypt" :> <<"encrypt", "no">> @@ "--dead-drop" :> <<"drop", "yes">> @@
         "--stdin" :> <<"stdin", "yes">>

TransmitTable ==
  [o \in {"--opts-dump"} \cup DOMAIN Keyed \cup DOMAIN Flags |->
     Option(IF o \in DOMAIN Keyed THEN 1 ELSE 0, TRUE)]

Unset == "unset"

\* The start of app_opts_transmit_parse.  Ports and paths left unset get the usual ones.
Defaults ==
  [s \in {"port", "hmac_key", "server_key", "client_key", "from", "log", "output", "stdin", "encrypt",
          "drop", "verbose", "fragments", "protocol", "hmac"} |->
     CASE s = "hmac" -> "normal" [] s = "protocol" -> "v1" [] OTHER -> Unset]

Protocols == {"v1", "v2", "v3", "v4"}

\* What the options take: a bad value refuses the line, an address is looked at later.
Takes(option, value) ==
  CASE option = "--port" -> Number[value] \in 0 .. 65535
    [] option = "--protocol" -> value \in Protocols
    [] option = "--fragment" -> Number[value] \in 1 .. Uint32Max
    [] option = "--verbose" -> Number[value] \in 0 .. 5
    [] option = "--output-mode" -> value \in OutputModes
    [] OTHER -> TRUE

\* The loop of app_opts_transmit_apply_parsed over the options.
Applied(options) ==
  LET Apply(s, o) == CASE o.name \in DOMAIN Flags -> [s EXCEPT ![Flags[o.name][1]] = Flags[o.name][2]]
                       [] o.name \in DOMAIN Keyed -> [s EXCEPT ![Keyed[o.name]] = o.values[1]]
                       [] OTHER -> s
  IN  FoldLeft(Apply, Defaults, options)

\* Its rest, except for the look-ups.  Words after the payload are not looked at.
TransmitCommand(p) ==
  LET bad == {o \in ToSet(p.options) : o.name \in DOMAIN Keyed /\ ~ Takes(o.name, o.values[1])}
      w == p.words
  IN  IF bad # {} \/ Len(w) < 3 THEN Refused
      ELSE IF Has(p, "--opts-dump") THEN Printed
      ELSE [op |-> "knock", host |-> w[1], user |-> w[2], action |-> w[3],
            payload |-> IF Len(w) > 3 THEN w[4] ELSE "", settings |-> Applied(p.options)]

\* app_opts_transmit_validate, without the address it looks up: a host, and with
\* the newer protocols encryption and a signature.
Sendable(m) ==
  LET s == m.settings
  IN  /\ m.host # ""
      /\ s.protocol \in {"v3", "v4"} =>
           s.encrypt = Unset /\ s.hmac = "normal" /\ s.drop = Unset

-----------------------------------------------------------------------------

\* app_opts_get_parse_mode.  Unknown alias commands are unknown options too, and
\* refused either way.
ParseMode(line) ==
  IF line = <<>> THEN "help"
  ELSE CASE line[1] = "--help" -> "help"
         [] line[1] = "--output-mode-default" -> "default"
         [] line[1] \in {"--send-from-default", "--send-from-default-clear"} -> "from"
         [] line[1] \in DOMAIN AliasShapes -> "alias"
         [] OTHER -> "transmit"

\* app_opts_get_mode_parser: what the words are parsed by, and from where.
Tables == [default |-> ModeTable, from |-> SaveTable, alias |-> AliasTable, transmit |-> TransmitTable]

Required(mode) == IF mode = "default" THEN {"--output-mode-default"} ELSE {}

Arguments(mode, line) == IF mode = "alias" THEN Tail(line) ELSE line

\* What the parser of a mode makes of what argv_parse has made of the words.
CommandOf(mode, line, p) ==
  IF p.failed THEN Refused
  ELSE CASE mode = "default" -> ModeCommand(p)
         [] mode = "from" -> SaveCommand(p)
         [] mode = "alias" -> AliasCommand(line[1], p)
         [] mode = "transmit" -> TransmitCommand(p)

\* app_opts_parse_command
Command(line) ==
  LET mode == ParseMode(line)
  IN  IF mode = "help" THEN Printed
      ELSE CommandOf(mode, line, Parse(Tables[mode], Required(mode), Arguments(mode, line)))
=============================================================================
