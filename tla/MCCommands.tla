------------------------------ MODULE MCCommands ------------------------------
(***************************************************************************)
(* ClientCommands for three command lines of two clients at a time.  "ann" *)
(* is a name, "2" one that is a number too, "a b" one that no file can be  *)
(* called after, and the line of "ann," reads back as one of "ann".  Ids   *)
(* have one digit or two, so that lines of one name differ in length, and  *)
(* a shorter file leaves pieces of lines behind.                           *)
(***************************************************************************)
EXTENDS ClientCommands
LOCAL INSTANCE SequencesExt

AllNames == {"ann", "2", "a b", "ann,"}
Either == Permutations(Clients)

TokenNames == {"ann", "2"}
Limits == [user |-> 12, action |-> 12]
Addresses == {"10.0.0.9"}

Digits == "0" :> 0 @@ "1" :> 1 @@ "2" :> 2 @@ "3" :> 3 @@ "4" :> 4 @@ "5" :> 5 @@ "6" :> 6 @@
          "7" :> 7 @@ "8" :> 8 @@ "9" :> 9

Letters == "12" :> 12 @@ "99" :> 99 @@ "99999" :> 99999 @@
           [w \in AllNames \cup {"x", "YES"} |-> -1]
Numbers == Digits @@ Letters

Spell(word) == [i \in 1 .. Len(word) |-> SubSeq(word, i, i)]

Characters ==
  {"a", "b", "n", "h", "x", "y", " ", ",", "\n", "0", "1", "2", "3", "4", "5", "6", "7", "8", "9"}

Spellings == [w \in AllNames \cup {"h"} |-> Spell(w)]

DecimalOf(id) == Spell(ToString(id))

ValueOf(text) ==
  IF ToSet(text) \subseteq DOMAIN Digits
  THEN FoldLeft(LAMBDA n, digit : 10 * n + Digits[digit], 0, text) ELSE 0

EqualsWords ==
  "--protocol=v4" :> <<"--protocol", "v4">> @@ "--log=--stdin" :> <<"--log", "--stdin">> @@
  "--send-from=10.0.0.9" :> <<"--send-from", "10.0.0.9">> @@
  "--stdin=1" :> <<"--stdin", "1">> @@ "--colour=1" :> <<"--colour", "1">>

DashedWords ==
  DOMAIN EqualsWords \cup DOMAIN TransmitTable \cup DOMAIN SaveTable \cup DOMAIN ModeTable
  \cup DOMAIN AliasShapes \cup {"--", "--help", "--helpful", "-x"}

\* 99 is out of range: such lines are of an older version.  The last line of a map
\* need not end, nor every line be in order.
Old == [user |-> {Spell("ann,h,99\nann,h,1\n"), Spell("x\n2,h,1,y\n,a b,,h,12")},
        action |-> {}]

-----------------------------------------------------------------------------
(* Lines and what is meant by them, written down by hand: that Meant says  *)
(* the same of each is part of ClientCommandsAssumption                    *)

Put(line, meant) == [line |-> line, meant |-> meant]

Set(kind, name, id) ==
  Put(<<"--alias-" \o kind, "h", name, ToString(id)>>,
      [op |-> "set", host |-> "h", kind |-> kind, name |-> name, id |-> id])

Delete(kind, name) ==
  Put(<<"--alias-" \o kind \o "-delete", "--output-mode", "ascii", "h", name>>,
      [op |-> "delete", host |-> "h", kind |-> kind, name |-> name])

Wipe(command, kinds) ==
  Put(<<command, "h", "YES">>, [op |-> "wipe", host |-> "h", kinds |-> kinds])

RECURSIVE Merges(_, _)
Merges(a, b) ==
  IF a = <<>> \/ b = <<>> THEN {a \o b}
  ELSE {<<a[1]>> \o m : m \in Merges(Tail(a), b)} \cup {<<b[1]>> \o m : m \in Merges(a, Tail(b))}

\* A transmit with its options in every place among its words.
Knocks(words, options, settings) ==
  {Put(FlattenSeq(m),
       [op |-> "knock", host |-> "h", user |-> words[1], action |-> words[2],
        payload |-> "x", settings |-> settings]) :
     m \in Merges(<<<<"h">>, <<words[1]>>, <<words[2]>>, <<"x">>>>, options)}

V4 == [Defaults EXCEPT !.protocol = "v4"]

Transmits ==
  Knocks(<<"ann", "2">>, <<<<"--protocol=v4">>>>, V4)
  \cup Knocks(<<"ann", "2">>, <<<<"--protocol", "v1">>, <<"--protocol", "v4">>>>, V4)
  \cup Knocks(<<"2", "ann">>, <<<<"--send-from", "10.0.0.9">>>>, [Defaults EXCEPT !.from = "10.0.0.9"])
  \cup Knocks(<<"2", "ann">>, <<<<"--send-from=10.0.0.9">>>>, [Defaults EXCEPT !.from = "10.0.0.9"])
  \cup Knocks(<<"ann", "ann">>, <<<<"--send-from", "">>>>, [Defaults EXCEPT !.from = ""])
  \cup Knocks(<<"a b", "2">>, <<<<"--no-hmac">>, <<"--protocol=v4">>, <<"--dummy-hmac">>>>,
              [V4 EXCEPT !.hmac = "dummy"])

\* Words that look like options, as a value and behind "--".
Literal ==
  {Put(<<"--log", "--stdin", "--", "h", "2", "2", "-x">>,
       [op |-> "knock", host |-> "h", user |-> "2", action |-> "2", payload |-> "-x",
        settings |-> [Defaults EXCEPT !.log = "--stdin"]]),
   Put(<<"--log=--stdin", "h", "2", "--", "2", "-x", "--no-hmac">>,
       [op |-> "knock", host |-> "h", user |-> "2", action |-> "2", payload |-> "-x",
        settings |-> [Defaults EXCEPT !.log = "--stdin"]])}

\* Lines that only ask for something to be printed.
Looks ==
  {<<>>, <<"--help">>, <<"--alias-show", "h">>, <<"--alias-show-hosts">>,
   <<"--output-mode-default", "ascii">>, <<"--opts-dump", "h", "ann", "2">>,
   <<"--alias-user", "h", "ann", "1", "--opts-dump">>}

\* Lines that are not in order.
NotRun ==
  {<<"--helpful">>, <<"h", "ann">>, <<"h", "ann", "2", "-x">>,
   <<"--colour=1", "h", "ann", "2">>, <<"--stdin=1", "h", "ann", "2">>,
   <<"h", "ann", "2", "--port">>, <<"--port", "99999", "h", "ann", "2">>,
   <<"--port", "x", "h", "ann", "2">>, <<"--protocol", "v9", "h", "ann", "2">>,
   <<"--fragment", "0", "h", "ann", "2">>, <<"--fragment", "99999", "h", "ann", "2">>,
   <<"--verbose", "9", "h", "ann", "2">>,
   <<"--output-mode", "x", "h", "ann", "2">>,
   [i \in 1 .. 9 |-> "x"],
   <<"--alias-user", "h", "ann">>, <<"--alias-user", "h", "ann", "99">>,
   <<"--alias-user", "h", "ann", "x">>, <<"--alias-user", "h", "", "1">>,
   <<"--alias-user", "h", "ann", "1", "x">>, <<"--opts-dump", "--alias-user", "h", "ann", "1">>,
   <<"--alias-delete", "h", "x">>, <<"--alias-user-delete-map", "h">>,
   <<"--output-mode-default", "x">>,
   <<"--send-from-default", "h", "ann", "x">>, <<"--send-from-default", "h", "ann">>,
   <<"--send-from-default", "h", "ann", "10.0.0.9", "x">>,
   <<"--send-from-default", "h", "ann", "10.0.0.9", "--send-from-default-clear", "h", "ann">>,
   <<"--send-from-default-clear", "h", "ann", "--send-from-default-clear", "h", "ann">>}

CommandLines ==
  {Set("user", "ann", 12), Set("user", "ann,", 2), Set("action", "ann", 1),
   Delete("user", "ann"), Delete("user", "2"),
   Wipe("--alias-user-delete-map", {"user"}),
   Wipe("--alias-delete", Kinds),
   Put(<<"--send-from-default", "h", "ann", "10.0.0.9">>,
       [op |-> "save", host |-> "h", name |-> "ann", ip |-> "10.0.0.9"]),
   Put(<<"--send-from-default-clear", "h", "ann">>, [op |-> "clear", host |-> "h", name |-> "ann"])}
  \cup Transmits \cup Literal
  \cup {Put(line, Printed) : line \in Looks} \cup {Put(line, Refused) : line \in NotRun}
=============================================================================
