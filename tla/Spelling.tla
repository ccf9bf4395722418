------------------------------- MODULE Spelling -------------------------------
(***************************************************************************)
(* What a command line says, by the places of its words: the reference for *)
(* the parser of CommandLine, which goes from word to word and keeps what  *)
(* it has found.  What a command makes of words and options it has from    *)
(* CommandLine.                                                            *)
(***************************************************************************)
EXTENDS CommandLine

\* The places a word takes: an option has its values with it.
Extent(table, word) ==
  IF word \in Dashed \cap DOMAIN table /\ word \notin DOMAIN Equals \cup {"--"}
  THEN 1 + table[word].takes ELSE 1

\* The places that are not within what a word before them takes.
Heads(table, line) ==
  CHOOSE S \in SUBSET DOMAIN line :
    \A i \in DOMAIN line : i \in S <=> \A j \in S : j < i => j + Extent(table, line[j]) <= i

Marks(table, line) == {i \in Heads(table, line) : line[i] = "--"}

\* Behind the first "--" all is words.
WordsAt(table, line) ==
  LET heads == Heads(table, line)
      marks == Marks(table, line)
  IN  {i \in DOMAIN line : (\E m \in marks : m < i) \/ (i \in heads /\ line[i] \notin Dashed)}

UsesAt(table, line) ==
  LET marks == Marks(table, line)
  IN  {i \in Heads(table, line) : line[i] \in Dashed \ {"--"} /\ ~ \E m \in marks : m < i}

\* The option used at a place, and the values it is used with.
NameAt(line, i) == IF line[i] \in DOMAIN Equals THEN Equals[line[i]][1] ELSE line[i]

ValuesAt(table, line, i) ==
  IF line[i] \in DOMAIN Equals THEN <<Equals[line[i]][2]>>
  ELSE SubSeq(line, i + 1, i + table[line[i]].takes)

\* An option of the table, with as many values as it takes.
Proper(table, line, i) ==
  /\ NameAt(line, i) \in DOMAIN table
  /\ LET takes == table[NameAt(line, i)].takes
     IN  IF line[i] \in DOMAIN Equals THEN takes = 1 ELSE i + takes <= Len(line)

\* Each option has the place of its first use and the values of its last.
Reading(table, required, line) ==
  LET uses   == UsesAt(table, line)
      of(n)  == {i \in uses : NameAt(line, i) = n}
      last(n) == CHOOSE i \in of(n) : \A j \in of(n) : j <= i
      firsts == {i \in uses : \A j \in of(NameAt(line, i)) : i <= j}
      names  == Joined([i \in firsts |-> <<NameAt(line, i)>>], Len(line))
      words  == Joined([i \in WordsAt(table, line) |-> <<line[i]>>], Len(line))
  IN  IF /\ \A i \in uses : Proper(table, line, i)
         /\ \A i \in uses \ firsts : table[NameAt(line, i)].last
         /\ Len(words) <= MaxPositionals
         /\ \A n \in required : of(n) # {}
      THEN [failed |-> FALSE,
            options |-> [k \in DOMAIN names |->
                           [name |-> names[k], values |-> ValuesAt(table, line, last(names[k]))]],
            words |-> words]
      ELSE Garbled

\* The command that is meant by a line.
Meant(line) ==
  LET mode == ParseMode(line)
  IN  IF mode = "help" THEN Printed
      ELSE CommandOf(mode, line, Reading(Tables[mode], Required(mode), Arguments(mode, line)))
=============================================================================
