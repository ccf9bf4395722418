------------------------------- MODULE AliasMap -------------------------------
(***************************************************************************)
(* An alias map of the client (knock/app/alias/alias.c): the text of       *)
(* user.map or action.map, the list a command makes of it in memory, and   *)
(* what a name resolves to.                                                *)
(*                                                                         *)
(* Texts are sequences of characters, as what a writer leaves of a longer  *)
(* file, what a full disk has room for, and where strtok cuts a line that  *)
(* a name with a comma made, all go by characters.  What %u writes and     *)
(* strtoul reads are constants.  Names, hosts and lines fit the buffers.   *)
(***************************************************************************)
EXTENDS Places

CONSTANTS
  Chars,       \* the characters of a file
  Names,       \* what a user or an action can be called on the command line
  Spelled,     \* word -> its characters
  Number,      \* word -> its value as a decimal number, -1 if it is none
  Decimal(_),  \* id -> the characters %u writes
  Value(_),    \* characters -> what strtoul makes of all of them, 0 if they are no number
  Uint32Max,   \* UINT32_MAX
  MaxId        \* kind -> UINT16_MAX for users, UINT8_MAX for actions

Kinds == {"user", "action"}

Comma == ","
Newline == "\n"
Separators == {Comma, Newline}

\* Not empty, and without what would end it.
Plain(text) == text # <<>> /\ \A i \in DOMAIN text : text[i] \notin Separators

ASSUME AliasMapAssumption ==
  /\ Separators \subseteq Chars
  /\ Names \subseteq DOMAIN Number /\ \A w \in DOMAIN Number : Number[w] \in Nat \cup {-1}
  /\ Names \subseteq DOMAIN Spelled /\ \A w \in DOMAIN Spelled : Spelled[w] \in Seq(Chars)
  /\ Uint32Max \in Nat /\ MaxId \in [Kinds -> 0 .. Uint32Max]
  /\ \A n \in 1 .. Uint32Max :
       Decimal(n) \in Seq(Chars) /\ Plain(Decimal(n)) /\ Value(Decimal(n)) = n

Entry(name, host, id) == [name |-> name, host |-> host, id |-> id]

\* Ids beyond a kind's range are of older maps.
InRange(kind, id) == id \in 1 .. MaxId[kind]

At(list, name) == {i \in DOMAIN list : list[i].name = name}

First(S) == CHOOSE i \in S : \A j \in S : i <= j

-----------------------------------------------------------------------------
(* Reading *)

\* The first place from one on that has the character, or that has another; the
\* place behind the end if there is none.
Until(text, from, char) == First({i \in from .. Len(text) : text[i] = char} \cup {Len(text) + 1})
Past(text, from, char) == First({i \in from .. Len(text) : text[i] # char} \cup {Len(text) + 1})

\* strtok: the next piece of a line between commas, empty pieces passed over.
Piece(line, from) ==
  LET begin == Past(line, from, Comma)
      end == Until(line, begin, Comma)
  IN  [text |-> SubSeq(line, begin, end - 1), next |-> end + 1]

\* A line without three pieces, or whose third is not an id, is skipped.  What
\* follows the third is not looked at.
ReadLine(line) ==
  LET name == Piece(line, 1)
      host == Piece(line, name.next)
      number == Piece(line, host.next)
      id == Value(number.text)
  IN  IF number.text # <<>> /\ id \in 1 .. Uint32Max
      THEN <<Entry(name.text, host.text, id)>> ELSE <<>>

Begins(text) == {i \in DOMAIN text : i = 1 \/ text[i - 1] = Newline}

\* app_alias_read_map.  The last line need not end.
Parsed(text) ==
  Joined([i \in Begins(text) |-> ReadLine(SubSeq(text, i, Until(text, i, Newline) - 1))], Len(text))

-----------------------------------------------------------------------------
(* Changing and writing *)

\* app_alias_update_entry: the first entry of the name, or a new one.
Updated(list, entry) ==
  IF At(list, entry.name) = {} THEN Append(list, entry)
  ELSE [list EXCEPT ![First(At(list, entry.name))] = entry]

\* Mutant of Without: the first entry of the name only.
WithoutFirst(list, name) ==
  IF At(list, name) = {} THEN list
  ELSE LET i == First(At(list, name))
       IN  SubSeq(list, 1, i - 1) \o SubSeq(list, i + 1, Len(list))

\* The loop of app_alias_ops_delete_user and _delete_action: every entry of the name.
Without(list, name) == Joined([i \in DOMAIN list \ At(list, name) |-> <<list[i]>>], Len(list))

\* The fprintf of app_alias_write_map.
WriteLine(e) == e.name \o <<Comma>> \o e.host \o <<Comma>> \o Decimal(e.id) \o <<Newline>>

Written(list) == Joined([i \in DOMAIN list |-> WriteLine(list[i])], Len(list))

\* A file is written from its start, whatever another writer has put there.
Overlaid(new, old) == new \o SubSeq(old, Len(new) + 1, Len(old))

-----------------------------------------------------------------------------
(* Looking up *)

\* Mutant of Aliased: ids are not held against the range of their kind.
AliasedAnyId(kind, list, name) ==
  IF At(list, name) = {} THEN 0 ELSE list[First(At(list, name))].id

\* The id a name has in a map, 0 if none: the first entry of it with an id in range.
Aliased(kind, list, name) ==
  LET found == {i \in At(list, name) : InRange(kind, list[i].id)}
  IN  IF found = {} THEN 0 ELSE list[First(found)].id

\* Mutant of Resolved: a number is a number before it is a name.
ResolvedNumberFirst(kind, text, name) ==
  IF InRange(kind, Number[name]) THEN Number[name] ELSE Aliased(kind, Parsed(text), Spelled[name])

\* app_opts_transmit_apply_parsed: the alias, or the number in range, or 0.
Resolved(kind, text, name) ==
  LET alias == Aliased(kind, Parsed(text), Spelled[name])
  IN  IF alias # 0 THEN alias ELSE IF InRange(kind, Number[name]) THEN Number[name] ELSE 0
=============================================================================
