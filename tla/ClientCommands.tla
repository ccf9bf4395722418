---------------------------- MODULE ClientCommands ----------------------------
(***************************************************************************)
(* The commands of knocker that work on the files of one host: those of    *)
(* knock/app/alias, the send_from_ip default of knock/app/env, and the     *)
(* names a transmit looks up (knock/app/opts/transmit.c).                  *)
(*                                                                         *)
(* Every command is a process of its own and nothing locks the files: a    *)
(* map is read, changed in memory, truncated by fopen and written by       *)
(* fclose.  Commands may overlap, be killed between two of these steps, or *)
(* find the disk full, which write_map does not notice.                    *)
(*                                                                         *)
(* Left out: the other hosts, whose files are apart; the default output    *)
(* mode, which is only for printing.  A map fits the buffer of its stream, *)
(* so it is read and written at once.                                      *)
(***************************************************************************)
EXTENDS Spelling

CONSTANTS
  Clients,
  Given,        \* the command lines that can be given: line, and the command meant by it
  Tokens,       \* the names app_env_user_token_valid takes
  OldMaps,      \* kind -> the texts a map of an older version can have
  MaxCommands   \* bound: command lines given in a behaviour

ASSUME ClientCommandsAssumption ==
  /\ Tokens \subseteq Names
  /\ Ips \cap {Unset, "absent", "empty"} = {}
  /\ MaxCommands \in Nat
  /\ \A k \in Kinds : OldMaps[k] \subseteq Seq(Chars)
  /\ \A g \in Given :
       LET m == g.meant
       IN  /\ g.line \in Seq(STRING) /\ m = Meant(g.line)
           /\ m.op \in {"set", "delete", "wipe", "save", "clear", "knock", "refused", "print"}
           /\ m.op \in {"set", "delete"} => m.kind \in Kinds /\ m.name \in Names
           /\ m.op = "set" => InRange(m.kind, m.id) /\ m.host \in DOMAIN Spelled
           /\ m.op = "wipe" => m.kinds # {} /\ m.kinds \subseteq Kinds
           /\ m.op = "save" => m.name \in Names /\ m.ip \in Ips
           /\ m.op = "clear" => m.name \in Names
           /\ m.op = "knock" => m.user \in Names /\ m.action \in Names

VARIABLES
  maps,      \* kind -> exists, text
  defaults,  \* name -> client.<name>.conf: "absent", "empty" or the address in it
  client,    \* client -> pc, command, and what it holds
  given,     \* <<kind, name, id>>: what maps of old and set commands gave
  torn,      \* ... and what files said that were not written as a command meant
  started    \* commands so far

vars == <<maps, defaults, client, given, torn, started>>

Absent == [exists |-> FALSE, text |-> <<>>]

\* meant is the command its user has in mind; list is what it has in memory, read
\* what it found; linked says its open file still has its name, alone that no
\* other command ran with it.
Idle == [pc |-> "idle", command |-> Refused, meant |-> Refused, list |-> <<>>, read |-> <<>>,
         linked |-> FALSE, alone |-> FALSE, user |-> 0, action |-> 0, from |-> Unset]

OldFiles(kind) == {Absent} \cup {[exists |-> TRUE, text |-> m] : m \in OldMaps[kind]}

GivenBy(kind, list) == {<<kind, list[i].name, list[i].id>> : i \in DOMAIN list}

Init ==
  /\ \E u \in OldFiles("user"), a \in OldFiles("action") : maps = [user |-> u, action |-> a]
  /\ defaults = [n \in Names |-> "absent"]
  /\ client = [c \in Clients |-> Idle]
  /\ given = UNION {GivenBy(k, Parsed(maps[k].text)) : k \in Kinds}
  /\ torn = {}
  /\ started = 0

-----------------------------------------------------------------------------
(* A command starts, if its line is read as one that works on the files *)

Runs == {[command |-> Command(g.line), meant |-> g.meant] : g \in Given}

Accepted(m) ==
  CASE m.op \in {"save", "clear"} -> m.name \in Tokens
    [] m.op \in {"refused", "print"} -> FALSE
    [] OTHER -> TRUE

FirstStep(m) ==
  CASE m.op \in {"set", "delete"} -> "look"
    [] m.op = "wipe" -> IF "user" \in m.kinds THEN "unlink user" ELSE "unlink action"
    [] m.op = "knock" -> "user"
    [] OTHER -> m.op

Others(c) == Clients \ {c}

\* The entry a set command is about, and what its line will read back as: another
\* name, or several, if there is a comma or a newline in it.
EntryOf(m) == Entry(Spelled[m.name], Spelled[m.host], m.id)

GivenIn(m) == {<<m.kind, Spelled[m.name], m.id>>} \cup GivenBy(m.kind, Parsed(WriteLine(EntryOf(m))))

Start(c, run) ==
  /\ client[c] = Idle /\ started < MaxCommands /\ Accepted(run.command)
  /\ started' = started + 1
  /\ given' = IF run.meant.op = "set" THEN given \cup GivenIn(run.meant) ELSE given
  /\ client' = [x \in Clients |->
       IF x = c THEN [Idle EXCEPT !.pc = FirstStep(run.command), !.command = run.command,
                                  !.meant = run.meant, !.alone = \A o \in Others(c) : client[o] = Idle]
       ELSE [client[x] EXCEPT !.alone = FALSE]]
  /\ UNCHANGED <<maps, defaults, torn>>

On(c, pc) == client[c].pc = pc

Goes(c, pc) == client' = [client EXCEPT ![c].pc = pc]

Ends(c) == client' = [client EXCEPT ![c] = Idle]

-----------------------------------------------------------------------------
(* Setting and deleting an alias *)

Kind(c) == client[c].command.kind
Name(c) == client[c].command.name

\* access: a map that is not there is empty to set, and nothing to delete from.
Look(c) ==
  /\ On(c, "look")
  /\ \/ maps[Kind(c)].exists /\ Goes(c, "read")
     \/ /\ ~ maps[Kind(c)].exists /\ client[c].command.op = "set"
        /\ client' = [client EXCEPT ![c].pc = "open",
                                    ![c].list = Updated(<<>>, EntryOf(client[c].command))]
     \/ ~ maps[Kind(c)].exists /\ client[c].command.op # "set" /\ Ends(c)
  /\ UNCHANGED <<maps, defaults, given, torn, started>>

\* read_map and the change in memory.  A map that went away meanwhile and a name
\* that is not there end the command.
ReadMap(c) ==
  LET m == client[c].command
      found == Parsed(maps[Kind(c)].text)
  IN  /\ On(c, "read")
      /\ IF ~ maps[Kind(c)].exists \/ (m.op = "delete" /\ At(found, Spelled[m.name]) = {})
         THEN Ends(c)
         ELSE client' = [client EXCEPT
                ![c].pc = "open",
                ![c].read = found,
                ![c].list = IF m.op = "set" THEN Updated(found, EntryOf(m))
                                            ELSE Without(found, Spelled[m.name])]
      /\ UNCHANGED <<maps, defaults, given, torn, started>>

\* fopen "w" creates the file or empties it.
OpenMap(c) ==
  /\ On(c, "open")
  /\ maps' = [maps EXCEPT ![Kind(c)] = [exists |-> TRUE, text |-> <<>>]]
  /\ client' = [client EXCEPT ![c].pc = "write", ![c].linked = TRUE]
  /\ UNCHANGED <<defaults, given, torn, started>>

\* What is written lies over what another writer has put there since.
Writes(c, text) ==
  LET kind == Kind(c)
      left == Overlaid(text, maps[kind].text)
  IN  /\ On(c, "write")
      /\ IF client[c].linked
         THEN /\ maps' = [maps EXCEPT ![kind].text = left]
              /\ torn' = IF left = Written(client[c].list) THEN torn
                         ELSE torn \cup GivenBy(kind, Parsed(left))
         ELSE UNCHANGED <<maps, torn>>
      /\ Ends(c)
      /\ UNCHANGED <<defaults, given, started>>

\* The rest of app_alias_write_map: fclose writes what fprintf has buffered.
WriteMap(c) == Writes(c, Written(client[c].list))

\* The disk is full: some of the text is written, and the command says ok.
WriteFails(c) ==
  LET text == Written(client[c].list)
  IN  \E n \in 0 .. Len(text) - 1 : Writes(c, SubSeq(text, 1, n))

-----------------------------------------------------------------------------
(* Deleting whole maps: delete_user_map, delete_action_map, delete_host *)

\* A file that is unlinked is lost to the commands that have it open.
Unlinked(kind) ==
  [x \in Clients |->
     IF client[x].pc = "write" /\ Kind(x) = kind THEN [client[x] EXCEPT !.linked = FALSE]
                                                 ELSE client[x]]

Unlink(c, kind, next) ==
  /\ maps' = [maps EXCEPT ![kind] = Absent]
  /\ client' = [Unlinked(kind) EXCEPT ![c] = next]
  /\ UNCHANGED <<defaults, given, torn, started>>

UnlinkUsers(c) ==
  /\ On(c, "unlink user")
  /\ Unlink(c, "user", IF "action" \in client[c].command.kinds
                       THEN [client[c] EXCEPT !.pc = "unlink action"] ELSE Idle)

UnlinkActions(c) == On(c, "unlink action") /\ Unlink(c, "action", Idle)

-----------------------------------------------------------------------------
(* The address a user's knocks leave from: client.<user>.conf *)

\* app_env_save_host_user_send_from_ip, up to its fprintf
OpenDefault(c) ==
  /\ On(c, "save")
  /\ defaults' = [defaults EXCEPT ![Name(c)] = "empty"]
  /\ client' = [client EXCEPT ![c].pc = "keep", ![c].linked = TRUE]
  /\ UNCHANGED <<maps, given, torn, started>>

WriteDefault(c) ==
  /\ On(c, "keep")
  /\ defaults' = IF client[c].linked THEN [defaults EXCEPT ![Name(c)] = client[c].command.ip]
                 ELSE defaults
  /\ Ends(c)
  /\ UNCHANGED <<maps, given, torn, started>>

ClearDefault(c) ==
  /\ On(c, "clear")
  /\ defaults' = [defaults EXCEPT ![Name(c)] = "absent"]
  /\ client' = [x \in Clients |->
       CASE x = c -> Idle
         [] x # c /\ client[x].pc = "keep" /\ Name(x) = Name(c) -> [client[x] EXCEPT !.linked = FALSE]
         [] OTHER -> client[x]]
  /\ UNCHANGED <<maps, given, torn, started>>

-----------------------------------------------------------------------------
(* A transmit: one look at each map, then one at the user's default *)

LookUpUser(c) ==
  LET id == Resolved("user", maps["user"].text, client[c].command.user)
  IN  /\ On(c, "user")
      /\ IF id = 0 THEN Ends(c)
         ELSE client' = [client EXCEPT ![c].pc = "action", ![c].user = id]
      /\ UNCHANGED <<maps, defaults, given, torn, started>>

\* Mutant of LookUpAction: the name of the action is looked up among the users.
LookUpActionAmongUsers(c) ==
  LET id == Resolved("user", maps["user"].text, client[c].command.action)
  IN  /\ On(c, "action")
      /\ IF id = 0 THEN Ends(c)
         ELSE client' = [client EXCEPT ![c].pc = "default", ![c].action = id]
      /\ UNCHANGED <<maps, defaults, given, torn, started>>

LookUpAction(c) ==
  LET id == Resolved("action", maps["action"].text, client[c].command.action)
  IN  /\ On(c, "action")
      /\ IF id = 0 THEN Ends(c)
         ELSE client' = [client EXCEPT ![c].pc = "default", ![c].action = id]
      /\ UNCHANGED <<maps, defaults, given, torn, started>>

\* The address of --send-from; an empty one is as good as none.
Told(m) == IF m.settings.from = "" THEN Unset ELSE m.settings.from

Default(user) == IF defaults[user] \in Ips THEN defaults[user] ELSE Unset

\* app_opts_transmit_validate.  Without --send-from the user must be a token, also
\* when no default was ever saved.
LookUpDefault(c) ==
  LET m == client[c].command
      told == Told(m)
  IN  /\ On(c, "default")
      /\ IF ~ Sendable(m) \/ (IF told = Unset THEN m.user \notin Tokens ELSE told \notin Ips)
         THEN Ends(c)
         ELSE client' = [client EXCEPT ![c].pc = "sent",
                                       ![c].from = IF told # Unset THEN told ELSE Default(m.user)]
      /\ UNCHANGED <<maps, defaults, given, torn, started>>

Done(c) == On(c, "sent") /\ Ends(c) /\ UNCHANGED <<maps, defaults, given, torn, started>>

-----------------------------------------------------------------------------

\* A signal, at any time: what a stream has buffered is lost.  So it is when the disk
\* is full for a default, whose fclose is checked.
Kill(c) == client[c] # Idle /\ Ends(c) /\ UNCHANGED <<maps, defaults, given, torn, started>>

Step(c) ==
  \/ Look(c) \/ ReadMap(c) \/ OpenMap(c) \/ WriteMap(c) \/ WriteFails(c)
  \/ UnlinkUsers(c) \/ UnlinkActions(c)
  \/ OpenDefault(c) \/ WriteDefault(c) \/ ClearDefault(c)
  \/ LookUpUser(c) \/ LookUpAction(c) \/ LookUpDefault(c) \/ Done(c)
  \/ Kill(c)

Next == \E c \in Clients : Step(c) \/ \E run \in Runs : Start(c, run)

Spec == Init /\ [][Next]_vars

-----------------------------------------------------------------------------

Entries == [name : Seq(Chars), host : Seq(Chars), id : Nat]

TypeOK ==
  /\ \A k \in Kinds : maps[k].exists \in BOOLEAN /\ maps[k].text \in Seq(Chars)
  /\ \A k \in Kinds : ~ maps[k].exists => maps[k] = Absent
  /\ defaults \in [Names -> {"absent", "empty"} \cup Ips]
  /\ \A c \in Clients :
       /\ client[c] = Idle \/ \E run \in Runs : client[c].command = run.command
       /\ client[c].list \in Seq(Entries) /\ client[c].read \in Seq(Entries)
       /\ client[c].user \in 0 .. MaxId["user"] /\ client[c].action \in 0 .. MaxId["action"]
  /\ started \in 0 .. MaxCommands

\* What runs is what was meant, wherever in the line its options are, in either
\* form, given once or again, and behind "--" whatever the words look like; nothing
\* runs of a line that is not in order or not confirmed.
RunsWhatWasMeant == \A c \in Clients : client[c].command = client[c].meant

\* Commands that overlap may lose each other's changes, and what one leaves of a
\* longer file, or finds room for, may read as entries nobody gave (torn); nothing
\* else makes up any.  What a map says, a writer is about to say or a transmit goes
\* by was given to that very name among the users or the actions, was so torn, or is
\* the number the name is.
IdsWereGiven ==
  /\ \A k \in Kinds : GivenBy(k, Parsed(maps[k].text)) \subseteq given \cup torn
  /\ \A c \in Clients :
       LET m == client[c].meant
           From(kind, name, id) == <<kind, Spelled[name], id>> \in given \cup torn \/ id = Number[name]
       IN  /\ client[c].list # <<>> => GivenBy(m.kind, client[c].list) \subseteq given \cup torn
           /\ client[c].user # 0 => From("user", m.user, client[c].user)
           /\ client[c].action # 0 => From("action", m.action, client[c].action)

\* A command that runs alone and to its end sets or deletes its name and leaves
\* every other with its id, whatever earlier commands that overlapped, were killed or
\* met a full disk have made of the file: the first entry is found and changed, all
\* are deleted, and the file reads back as the list was.  Less is said of setting a
\* name that is not plain: it changes no more than the names its line reads back as.
TakesEffectAlone ==
  [][\A c \in Clients : (WriteMap(c) /\ client[c].alone) =>
       LET m == client[c].meant
           name == Spelled[m.name]
           before(n) == Aliased(m.kind, client[c].read, n)
           after(n) == Aliased(m.kind, Parsed(maps'[m.kind].text), n)
           Spared(n) == \/ after(n) = before(n)
                        \/ m.op = "set" /\ At(Parsed(WriteLine(EntryOf(m))), n) # {}
       IN  /\ \A w \in Names : Spelled[w] # name => Spared(Spelled[w])
           /\ m.op = "delete" => after(name) = 0
           /\ m.op = "set" /\ Plain(name) /\ Plain(Spelled[m.host]) => after(name) = m.id]_vars

\* A transmit that runs alone goes by the aliases of its host, and by a number only
\* for a name without one (alias-first); it leaves from the address it was told or
\* that was saved for its user.
SentAsAliased ==
  \A c \in Clients : client[c].pc = "sent" /\ client[c].alone =>
    LET m == client[c].meant
        Agrees(kind, name, id) ==
          LET alias == Aliased(kind, Parsed(maps[kind].text), Spelled[name])
          IN  id = IF alias # 0 THEN alias ELSE Number[name]
    IN  /\ Agrees("user", m.user, client[c].user)
        /\ Agrees("action", m.action, client[c].action)
        /\ client[c].from = IF Told(m) # Unset THEN Told(m) ELSE Default(m.user)
=============================================================================
