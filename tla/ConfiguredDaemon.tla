--------------------------- MODULE ConfiguredDaemon ---------------------------
(***************************************************************************)
(* The running daemon of RuntimeReload with the text its configuration     *)
(* file holds: what a reload meets is what ConfigDocument makes of the     *)
(* lines on disk, read for the server the daemon was started with.         *)
(***************************************************************************)
EXTENDS RuntimeReload, ConfigDocument, Places

CONSTANTS
  Documents,  \* name -> what is written into the file, a sequence of lines
  Slips,      \* lines that get into a document by an edit
  ServerName  \* the server the daemon was started with

VARIABLE document  \* the name of the one on disk

Nobody == [secure |-> FALSE, binding |-> [ip |-> "any", port |-> DefaultPort],
           users |-> {}, decode |-> FALSE, auth |-> FALSE]

BindingOf(s) == [ip |-> IF s.bind_ip = <<>> THEN "any" ELSE s.bind_ip[1], port |-> s.port]

ServerView(cfg, s) ==
  [secure  |-> s.secure,
   binding |-> BindingOf(s),
   users   |-> {u.name : u \in Enabled(cfg, "user")},
   decode  |-> s.enforce_wire_decode,
   auth    |-> s.enforce_wire_auth]

\* What RuntimeReload knows of a file.
Staging(lines) ==
  LET c     == ConfigOf(lines)
      named == IF CanLoad(lines) THEN ServerByName(c, ServerName) ELSE {}
      s     == CHOOSE b \in named : TRUE
  IN  IF named = {}
      THEN [valid |-> FALSE, enabled |-> FALSE, keyed |-> FALSE, unique |-> FALSE, server |-> Nobody]
      ELSE [valid   |-> TRUE,
            enabled |-> s.enabled,
            keyed   |-> ServerKey(c, s) # <<>>,
            unique  |-> KeychainFills(c),
            server  |-> ServerView(c, s)]

FileOf == [d \in DOMAIN Documents |-> Staging(Documents[d])]

\* A document is a sequence of lines, with sequences of words for values, and
\* the file has what one of them says.
ASSUME ConfiguredAssumption ==
  \A d \in DOMAIN Documents :
    /\ Documents[d] \in Seq(ToSet(Documents[d]))
    /\ FileOf[d] \in Files
    /\ \A line \in ToSet(Documents[d]) \cup Slips :
         line.kind = "entry" => line.value \in Seq(ToSet(line.value))

ConfiguredInit ==
  /\ Init
  /\ document \in {d \in DOMAIN Documents : FileOf[d] = file}
  /\ SelectedName("", "", ConfigOf(Documents[document])) = ServerName

\* The file changes under the daemon, and the daemon goes on with what it has.
ConfiguredNext ==
  \/ \E d \in DOMAIN Documents : EditFile(FileOf[d]) /\ document' = d
  \/ (Turn \/ Pump \/ JobsEnd \/ \E u \in Users : Builtin(u)) /\ UNCHANGED document

ConfiguredSpec == ConfiguredInit /\ [][ConfiguredNext]_<<vars, document>>

-----------------------------------------------------------------------------
(* What a text says, line by line *)

EntriesFrom(lines, i) ==
  {j \in i + 1 .. Len(lines) :
     lines[j].kind = "entry" /\ \A k \in i + 1 .. j : lines[k].kind # "section"}

\* The lines that say something of a field, in the section line i opens.  A word
\* that is no policy says nothing.
Sayings(lines, i, what, field) ==
  {j \in EntriesFrom(lines, i) :
     /\ FieldOf(lines[j].key) = field
     /\ HowRead[what][field] = "overflow" => \E w \in Overflows(what) : lines[j].value = <<w>>}

\* The last line that says something of a field counts; those of a list add up.
Said(lines, i, what, field, fresh) ==
  LET said == Sayings(lines, i, what, field)
      how  == HowRead[what][field]
  IN  IF said = {} THEN fresh
      ELSE IF how = "list"
      THEN UpTo(ListMost[field], Joined([j \in said |-> lines[j].value], Len(lines)))
      ELSE Taken(what, field, Zero[how], lines[Max(said)].value)

BlockAsWritten(lines, i, what, block) ==
  LET fresh == Fresh(what, IF i = 0 THEN "" ELSE lines[i].name)
  IN  \A field \in DOMAIN fresh :
        block[field] = IF field \in Fields(what) THEN Said(lines, i, what, field, fresh[field])
                                                 ELSE fresh[field]

\* Where the sections of a kind are opened.
Openings(lines, what) ==
  LET at == {i \in DOMAIN lines : lines[i].kind = "section" /\ lines[i].what = what}
  IN  Joined([i \in at |-> <<i>>], Len(lines))

AsWritten(lines) ==
  LET c == Consumed(Document(lines))
  IN  /\ BlockAsWritten(lines, 0, "global", c.global)
      /\ \A what \in Kinds :
           /\ Len(c[what]) = Min({Len(Openings(lines, what)), Most[what]})
           /\ \A n \in DOMAIN c[what] : BlockAsWritten(lines, Openings(lines, what)[n], what, c[what][n])

\* A document, and what one more line anywhere in it makes of it.
Drafts(lines) ==
  {lines} \cup {InsertAt(lines, i, line) : i \in 1 .. Len(lines) + 1, line \in Slips}

KeychainServes(lines) ==
  LET c == ConfigOf(lines)
  IN  CanLoad(lines) /\ KeychainFills(c) =>
        \A id \in {u.id : u \in Blocks(c, "user")} : KeyOfId(c, id) = UserById(c, id)

FaithfullyRead == {d \in DOMAIN Documents : \A lines \in Drafts(Documents[d]) : AsWritten(lines)}
WellKeyed == {d \in DOMAIN Documents : \A lines \in Drafts(Documents[d]) : KeychainServes(lines)}

-----------------------------------------------------------------------------

\* Whatever the file holds, and whichever line is added to it and where: every
\* block has what the lines of its own section say last of each field, all that
\* they say of a list, and what config.c presets where they say nothing; a section
\* too many, or of an unknown kind, changes nothing in any other.
ReadsAsWritten == document \in FaithfullyRead

\* The codecs look the user of a packet up in the keychain, the daemon looks him up
\* in the configuration: for every id they find the same user, with names given
\* twice, ids given twice and users switched off.
KeychainAgrees == document \in WellKeyed
=============================================================================
