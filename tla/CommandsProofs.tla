---------------------------- MODULE CommandsProofs ----------------------------
(***************************************************************************)
(* Proofs about the commands of the client: that a map reads back as it    *)
(* was written, that the parser of a command line finds what the places of *)
(* its words say, for every line, and what the commands do to the files of *)
(* one host, for every number of them that overlap, every old map and      *)
(* every name.                                                             *)
(***************************************************************************)
EXTENDS ClientCommands, Induction, SequenceTheorems

Text == Seq(Chars)

Item == [name : Text, host : Text, id : 1 .. Uint32Max]

\* What a line can be read as.
Legible == {e \in Item : Plain(e.name) /\ Plain(e.host)}

-----------------------------------------------------------------------------
(* Sequences *)

\* Every part is a sequence of members of X.
PartsOf(p, X) == \A i \in DOMAIN p : p[i] \in Seq(X)

\* From m on, n places of p are as those of r.
Alike(p, m, r, n) ==
  \A i \in 1 .. n : (m + i \in DOMAIN p <=> i \in DOMAIN r) /\ (i \in DOMAIN r => p[m + i] = r[i])

\* What is joined from a place on comes behind what was joined before it.
LEMMA JoinedBehind ==
  ASSUME NEW X, NEW p, PartsOf(p, X), NEW r, PartsOf(r, X), NEW m \in Nat, NEW n \in Nat,
         Alike(p, m, r, n)
  PROVE  Joined(p, m + n) = Joined(p, m) \o Joined(r, n)
<1> DEFINE P == {k \in Nat : k <= n => Joined(p, m + k) = Joined(p, m) \o Joined(r, k)}
<1>1. 0 \in P
  <2>1. Joined(r, 0) = <<>> /\ Joined(p, m) \in Seq(X)
    BY JoinedMore DEF PartsOf
  <2>2. Joined(p, m) \o <<>> = Joined(p, m)
    BY <2>1, ConcatEmptySeq
  <2> QED
    BY <2>1, <2>2
<1>2. ASSUME NEW k \in Nat, k \in P PROVE k + 1 \in P
  <2> SUFFICES ASSUME k + 1 <= n PROVE Joined(p, m + (k + 1)) = Joined(p, m) \o Joined(r, k + 1)
    OBVIOUS
  <2> DEFINE j == m + k
  <2>1. j \in Nat /\ m + (k + 1) = j + 1 /\ k + 1 \in 1 .. n
    OBVIOUS
  <2>2. Joined(p, j) = Joined(p, m) \o Joined(r, k)
    BY <1>2
  <2>3. /\ j + 1 \in DOMAIN p <=> k + 1 \in DOMAIN r
        /\ k + 1 \in DOMAIN r => p[j + 1] = r[k + 1]
    <3>1. m + (k + 1) = j + 1
      BY <2>1
    <3> HIDE DEF j
    <3> QED
      BY <2>1, <3>1 DEF Alike
  <2> HIDE DEF j
  <2>4. /\ Joined(p, m) \in Seq(X) /\ Joined(r, k) \in Seq(X)
        /\ Joined(p, j + 1) = IF j + 1 \in DOMAIN p THEN Joined(p, j) \o p[j + 1] ELSE Joined(p, j)
        /\ Joined(r, k + 1) = IF k + 1 \in DOMAIN r THEN Joined(r, k) \o r[k + 1] ELSE Joined(r, k)
    <3>1. Joined(p, m) \in Seq(X)
      BY JoinedMore DEF PartsOf
    <3>2. Joined(p, j + 1) = IF j + 1 \in DOMAIN p THEN Joined(p, j) \o p[j + 1] ELSE Joined(p, j)
      BY <2>1, JoinedMore DEF PartsOf
    <3>3. /\ Joined(r, k) \in Seq(X)
          /\ Joined(r, k + 1) = IF k + 1 \in DOMAIN r THEN Joined(r, k) \o r[k + 1] ELSE Joined(r, k)
      BY JoinedMore DEF PartsOf
    <3> QED
      BY <3>1, <3>2, <3>3
  <2>5. CASE k + 1 \in DOMAIN r
    <3> DEFINE a == Joined(p, m)
               b == Joined(r, k)
               d == r[k + 1]
    <3>1. a \in Seq(X) /\ b \in Seq(X) /\ d \in Seq(X)
      BY <2>4, <2>5 DEF PartsOf
    <3>2. Joined(p, j + 1) = (a \o b) \o d /\ Joined(r, k + 1) = b \o d
      BY <2>2, <2>3, <2>4, <2>5
    <3> HIDE DEF a, b, d
    <3>3. (a \o b) \o d = a \o (b \o d)
      BY <3>1, ConcatAssociative
    <3> QED
      BY <2>1, <3>2, <3>3 DEF a
  <2>6. CASE k + 1 \notin DOMAIN r
    BY <2>1, <2>2, <2>3, <2>4, <2>6
  <2> QED
    BY <2>5, <2>6
<1>3. Nat \subseteq P
  <2> HIDE DEF P
  <2> QED
    BY <1>1, <1>2, SetInduction
<1>4. n \in P
  BY <1>3
<1> QED
  BY <1>4

\* The same parts are the same joined.
LEMMA JoinedAlike ==
  ASSUME NEW X, NEW p, PartsOf(p, X), NEW r, PartsOf(r, X), NEW n \in Nat, Alike(p, 0, r, n)
  PROVE  Joined(p, n) = Joined(r, n)
<1>1. 0 \in Nat /\ 0 + n = n
  OBVIOUS
<1>3. Joined(p, 0 + n) = Joined(p, 0) \o Joined(r, n)
  BY <1>1, JoinedBehind
<1>4. Joined(p, 0) = <<>>
  BY <1>1, JoinedMore DEF PartsOf
<1>5. Joined(r, n) \in Seq(X)
  BY JoinedMore DEF PartsOf
<1>6. <<>> \o Joined(r, n) = Joined(r, n)
  BY <1>5, ConcatEmptySeq
<1> QED
  BY <1>1, <1>3, <1>4, <1>6

\* A sequence is its members joined.
LEMMA JoinedMembers ==
  ASSUME NEW X, NEW s \in Seq(X)
  PROVE  Joined([i \in DOMAIN s |-> <<s[i]>>], Len(s)) = s
<1> DEFINE p == [i \in DOMAIN s |-> <<s[i]>>]
           last == Len(s)
           P == {n \in Nat : n <= last => Joined(p, n) = SubSeq(s, 1, n)}
<1>1. last \in Nat /\ DOMAIN s = 1 .. last /\ \A i \in 1 .. last : s[i] \in X
  OBVIOUS
<1>2. /\ \A i \in DOMAIN p : p[i] \in Seq(X)
      /\ \A i \in 1 .. last : i \in DOMAIN p /\ p[i] = <<s[i]>>
  BY <1>1
<1>3. SubSeq(s, 1, 0) = <<>>
  BY SubSeqEmpty
<1>4. SubSeq(s, 1, last) = s
  BY SubSeqFull
<1>5. \A n \in Nat : n + 1 <= last => SubSeq(s, 1, n + 1) = SubSeq(s, 1, n) \o <<s[n + 1]>>
  <2> SUFFICES ASSUME NEW n \in Nat, n + 1 <= last
               PROVE  SubSeq(s, 1, n + 1) = SubSeq(s, 1, n) \o <<s[n + 1]>>
    OBVIOUS
  <2>1. 1 \in 1 .. last /\ n + 1 \in 1 .. last /\ (n + 1) - 1 = n
    BY <1>1
  <2> QED
    BY <2>1, SubSeqRecursiveSecond
<1> HIDE DEF p, last
<1>6. 0 \in P
  BY <1>2, <1>3, JoinedMore
<1>7. ASSUME NEW n \in Nat, n \in P PROVE n + 1 \in P
  <2> SUFFICES ASSUME n + 1 <= last PROVE Joined(p, n + 1) = SubSeq(s, 1, n + 1)
    OBVIOUS
  <2>1. n + 1 \in 1 .. last /\ Joined(p, n) = SubSeq(s, 1, n)
    BY <1>1, <1>7
  <2>2. Joined(p, n + 1) = Joined(p, n) \o p[n + 1]
    BY <1>2, <2>1, JoinedMore
  <2> QED
    BY <1>2, <1>5, <2>1, <2>2
<1>8. Nat \subseteq P
  <2> HIDE DEF P
  <2> QED
    BY <1>6, <1>7, SetInduction
<1>9. last \in P
  BY <1>1, <1>8
<1> QED
  BY <1>1, <1>4, <1>9 DEF p, last

\* The first of some places is the least of them.
LEMMA FirstIsLeast ==
  ASSUME NEW T, T \subseteq Nat, T # {}
  PROVE  /\ First(T) \in T
         /\ \A j \in T : First(T) <= j
<1>1. \E i \in T : \A j \in T : i <= j
  BY LeastOf
<1> QED
  BY <1>1 DEF First

\* The least of some places is the first.
LEMMA FirstIs ==
  ASSUME NEW T, T \subseteq Nat, NEW i \in T, \A j \in T : i <= j
  PROVE  First(T) = i
<1>1. First(T) \in T /\ First(T) <= i
  BY FirstIsLeast
<1>2. i <= First(T) /\ i \in Nat /\ First(T) \in Nat
  BY <1>1
<1> QED
  BY <1>1, <1>2

-----------------------------------------------------------------------------
(* The lines of a text *)

\* A text ends behind its last place, and its members are characters.
LEMMA TextIs ==
  ASSUME NEW text \in Text
  PROVE  Len(text) \in Nat /\ DOMAIN text = 1 .. Len(text) /\ \A i \in 1 .. Len(text) : text[i] \in Chars
BY DEF Text

\* The next place of a character is the first that has it.
LEMMA UntilIs ==
  ASSUME NEW text \in Text, NEW from \in Nat \ {0}, NEW char
  PROVE  LET u == Until(text, from, char)
         IN  /\ u \in 1 .. Len(text) + 1
             /\ u # Len(text) + 1 => u >= from /\ text[u] = char
             /\ \A i \in from .. Len(text) : i < u => text[i] # char
<1> DEFINE T == {i \in from .. Len(text) : text[i] = char} \cup {Len(text) + 1}
           u == First(T)
<1>1. Len(text) \in Nat
  BY TextIs
<1>2. T \subseteq Nat /\ Len(text) + 1 \in T
  BY <1>1
<1>3. u \in T /\ \A j \in T : u <= j
  <2> HIDE DEF T
  <2> QED
    BY <1>2, FirstIsLeast
<1>4. Until(text, from, char) = u
  BY DEF Until
<1> HIDE DEF u
<1> QED
  BY <1>1, <1>3, <1>4

\* The first place that has a character is the next.
LEMMA UntilAt ==
  ASSUME NEW text \in Text, NEW from \in Nat, NEW char, NEW u \in from .. Len(text) + 1,
         \A i \in from .. u - 1 : text[i] # char, u # Len(text) + 1 => text[u] = char
  PROVE  Until(text, from, char) = u
<1> DEFINE T == {i \in from .. Len(text) : text[i] = char} \cup {Len(text) + 1}
<1>1. Len(text) \in Nat
  BY TextIs
<1>2. T \subseteq Nat /\ u \in T /\ \A j \in T : u <= j
  BY <1>1
<1>3. First(T) = u
  <2> HIDE DEF T
  <2> QED
    BY <1>2, FirstIs
<1> QED
  BY <1>3 DEF Until

\* The next place of another character is the first that has one.
LEMMA PastIs ==
  ASSUME NEW text \in Text, NEW from \in Nat \ {0}, NEW char
  PROVE  LET u == Past(text, from, char)
         IN  /\ u \in 1 .. Len(text) + 1
             /\ u # Len(text) + 1 => u >= from /\ text[u] # char
<1> DEFINE T == {i \in from .. Len(text) : text[i] # char} \cup {Len(text) + 1}
           u == First(T)
<1>1. Len(text) \in Nat
  BY TextIs
<1>2. T \subseteq Nat /\ Len(text) + 1 \in T
  BY <1>1
<1>3. u \in T
  <2> HIDE DEF T
  <2> QED
    BY <1>2, FirstIsLeast
<1>4. Past(text, from, char) = u
  BY DEF Past
<1> HIDE DEF u
<1> QED
  BY <1>1, <1>3, <1>4

\* A place that has another character is the next from itself.
LEMMA PastHere ==
  ASSUME NEW text \in Text, NEW from \in 1 .. Len(text), NEW char, text[from] # char
  PROVE  Past(text, from, char) = from
<1> DEFINE T == {i \in from .. Len(text) : text[i] # char} \cup {Len(text) + 1}
<1>1. Len(text) \in Nat
  BY TextIs
<1>2. T \subseteq Nat /\ from \in T /\ \A j \in T : from <= j
  BY <1>1
<1>3. First(T) = from
  <2> HIDE DEF T
  <2> QED
    BY <1>2, FirstIs
<1> QED
  BY <1>3 DEF Past

\* A part of a text.
LEMMA PartIs ==
  ASSUME NEW text \in Text, NEW i \in Nat \ {0}, NEW j \in Int, j <= Len(text)
  PROVE  LET part == SubSeq(text, i, j)
         IN  /\ part \in Text
             /\ i <= j => Len(part) = j - i + 1
             /\ j < i => part = <<>> /\ Len(part) = 0
             /\ \A k \in 1 .. Len(part) : part[k] = text[i + k - 1] /\ i + k - 1 \in i .. j
<1> DEFINE part == SubSeq(text, i, j)
<1>1. Len(text) \in Nat /\ i \in Int /\ \A k \in i .. j : text[k] \in Chars
  BY TextIs
<1>2. /\ part \in Seq(Chars)
      /\ Len(part) = IF i <= j THEN j - i + 1 ELSE 0
      /\ \A k \in 1 .. j - i + 1 : part[k] = text[i + k - 1]
  BY <1>1, SubSeqProperties
<1>3. j < i => part = <<>>
  BY <1>1, SubSeqEmpty
<1> HIDE DEF part
<1>4. \A k \in 1 .. Len(part) : k \in 1 .. j - i + 1 /\ i + k - 1 \in i .. j
  BY <1>1, <1>2
<1> QED
  BY <1>2, <1>3, <1>4 DEF Text, part

\* strtok: a piece has no comma, and there is none behind the end.
LEMMA PieceIs ==
  ASSUME NEW line \in Text, NEW from \in Nat \ {0}
  PROVE  LET p == Piece(line, from)
         IN  /\ p.text \in Text /\ p.next \in Nat \ {0}
             /\ p.text # <<>> => from <= Len(line)
             /\ p.text = <<>> => p.next > Len(line)
             /\ \A k \in 1 .. Len(p.text) : /\ p.text[k] # Comma
                                            /\ \E i \in 1 .. Len(line) : p.text[k] = line[i]
<1> DEFINE begin == Past(line, from, Comma)
           end == Until(line, begin, Comma)
           last == Len(line)
           text == SubSeq(line, begin, end - 1)
<1>1. last \in Nat /\ begin \in 1 .. last + 1 /\ (begin # last + 1 => begin >= from /\ line[begin] # Comma)
  BY TextIs, PastIs
<1>2. Piece(line, from) = [text |-> text, next |-> end + 1]
  BY DEF Piece
<1> HIDE DEF begin
<1>3. /\ end \in 1 .. last + 1 /\ (end # last + 1 => end >= begin /\ line[end] = Comma)
      /\ \A i \in begin .. last : i < end => line[i] # Comma
  BY <1>1, UntilIs
<1> HIDE DEF end
<1>4. begin \in Nat \ {0} /\ end - 1 \in Int /\ end - 1 <= last
  BY <1>1, <1>3
<1>5. /\ text \in Text
      /\ begin <= end - 1 => Len(text) = (end - 1) - begin + 1
      /\ end - 1 < begin => text = <<>> /\ Len(text) = 0
      /\ \A k \in 1 .. Len(text) : text[k] = line[begin + k - 1] /\ begin + k - 1 \in begin .. end - 1
  BY <1>4, PartIs
<1> HIDE DEF text
<1>6. begin # last + 1 => end # begin
  BY <1>1, <1>3
<1>7. text # <<>> => from <= last
  BY <1>1, <1>3, <1>5
<1>8. text = <<>> => end + 1 > last
  <2> SUFFICES ASSUME text = <<>> PROVE end + 1 > last
    OBVIOUS
  <2>1. Len(text) = 0
    BY EmptySeq
  <2> QED
    BY <1>1, <1>3, <1>5, <1>6, <2>1
<1>9. ASSUME NEW k \in 1 .. Len(text)
      PROVE  text[k] # Comma /\ \E i \in 1 .. last : text[k] = line[i]
  <2> DEFINE i == begin + k - 1
  <2>1. text[k] = line[i] /\ i \in begin .. end - 1
    BY <1>5
  <2> HIDE DEF i
  <2>2. i \in begin .. last /\ i < end /\ i \in 1 .. last
    BY <1>1, <1>3, <2>1
  <2> QED
    BY <1>3, <2>1, <2>2
<1> QED
  BY <1>2, <1>3, <1>5, <1>7, <1>8, <1>9

\* strtok: the next piece is up to the next comma.
LEMMA PieceAt ==
  ASSUME NEW line \in Text, NEW from \in 1 .. Len(line), NEW u \in from + 1 .. Len(line) + 1,
         \A i \in from .. u - 1 : line[i] # Comma, u # Len(line) + 1 => line[u] = Comma
  PROVE  Piece(line, from) = [text |-> SubSeq(line, from, u - 1), next |-> u + 1]
<1>1. Len(line) \in Nat /\ from \in from .. u - 1 /\ u \in from .. Len(line) + 1 /\ from \in Nat
  BY TextIs
<1>2. Past(line, from, Comma) = from
  BY <1>1, PastHere
<1>3. Until(line, from, Comma) = u
  BY <1>1, UntilAt
<1> QED
  BY <1>2, <1>3 DEF Piece

\* A part with the members of another text is that text.
LEMMA PartOf ==
  ASSUME NEW text \in Text, NEW s \in Text, s # <<>>, NEW i \in Nat \ {0}, i + Len(s) - 1 <= Len(text),
         \A k \in 1 .. Len(s) : text[i + k - 1] = s[k]
  PROVE  SubSeq(text, i, i + Len(s) - 1) = s
<1> DEFINE j == i + Len(s) - 1
           part == SubSeq(text, i, j)
<1>1. Len(s) \in Nat \ {0}
  BY EmptySeq DEF Text
<1>2. j \in Int /\ j <= Len(text) /\ i <= j /\ j - i + 1 = Len(s)
  BY <1>1
<1> HIDE DEF j
<1>3. /\ part \in Text /\ Len(part) = Len(s)
      /\ \A k \in 1 .. Len(part) : part[k] = text[i + k - 1]
  BY <1>2, PartIs
<1> HIDE DEF part
<1>4. \A k \in 1 .. Len(part) : part[k] = s[k]
  BY <1>3
<1>5. part = s
  BY <1>3, <1>4, SeqEqual DEF Text
<1> QED
  BY <1>5 DEF part, j

\* A text without separators, up to a comma or the end, is the next piece.
LEMMA PieceOf ==
  ASSUME NEW line \in Text, NEW from \in Nat \ {0}, NEW s \in Text, Plain(s),
         from + Len(s) <= Len(line) + 1,
         \A k \in 1 .. Len(s) : line[from + k - 1] = s[k],
         from + Len(s) # Len(line) + 1 => line[from + Len(s)] = Comma
  PROVE  Piece(line, from) = [text |-> s, next |-> from + Len(s) + 1]
<1> DEFINE u == from + Len(s)
<1>1. Len(s) \in Nat \ {0} /\ Len(line) \in Nat /\ s # <<>>
  BY EmptySeq, TextIs DEF Text, Plain
<1>2. from \in 1 .. Len(line) /\ u \in from + 1 .. Len(line) + 1
  BY <1>1
<1>3. ASSUME NEW i \in from .. u - 1 PROVE line[i] # Comma
  <2> DEFINE k == i - from + 1
  <2>1. k \in 1 .. Len(s) /\ from + k - 1 = i
    BY <1>1
  <2>2. line[i] = s[k]
    BY <2>1
  <2>3. s[k] # Comma
    BY <2>1, TextIs DEF Plain, Separators
  <2> QED
    BY <2>2, <2>3
<1>4. u # Len(line) + 1 => line[u] = Comma
  OBVIOUS
<1>5. SubSeq(line, from, from + Len(s) - 1) = s
  BY <1>1, PartOf
<1>6. u - 1 = from + Len(s) - 1 /\ u + 1 = from + Len(s) + 1
  BY <1>1
<1> HIDE DEF u
<1>7. Piece(line, from) = [text |-> SubSeq(line, from, u - 1), next |-> u + 1]
  BY <1>2, <1>3, <1>4, PieceAt
<1> QED
  BY <1>5, <1>6, <1>7

\* app_alias_read_map: what a line is read as has a name and a host, without commas.
LEMMA ReadIs ==
  ASSUME NEW line \in Text, \A i \in 1 .. Len(line) : line[i] # Newline
  PROVE  ReadLine(line) \in Seq(Legible)
<1> DEFINE name == Piece(line, 1)
           host == Piece(line, name.next)
           number == Piece(line, host.next)
           id == Value(number.text)
           Tells(p, from) == /\ p.text \in Text /\ p.next \in Nat \ {0}
                             /\ p.text # <<>> => from <= Len(line)
                             /\ p.text = <<>> => p.next > Len(line)
                             /\ \A k \in 1 .. Len(p.text) :
                                  p.text[k] # Comma /\ \E i \in 1 .. Len(line) : p.text[k] = line[i]
<1>1. Tells(name, 1)
  BY PieceIs
<1> HIDE DEF name
<1>2. Tells(host, name.next)
  BY <1>1, PieceIs
<1> HIDE DEF host
<1>3. Tells(number, host.next)
  BY <1>2, PieceIs
<1> HIDE DEF number, id
<1>4. CASE number.text # <<>> /\ id \in 1 .. Uint32Max
  <2>1. host.text # <<>> /\ name.text # <<>>
    BY <1>1, <1>2, <1>3, <1>4, TextIs
  <2>2. \A p \in {name, host} : Plain(p.text)
    <3> SUFFICES ASSUME NEW p \in {name, host} PROVE Plain(p.text)
      OBVIOUS
    <3>1. /\ p.text \in Text /\ p.text # <<>>
          /\ \A k \in 1 .. Len(p.text) : p.text[k] # Comma /\ p.text[k] # Newline
      BY <1>1, <1>2, <2>1
    <3>2. DOMAIN p.text = 1 .. Len(p.text)
      BY <3>1, TextIs
    <3> QED
      BY <3>1, <3>2 DEF Plain, Separators
  <2> DEFINE e == Entry(name.text, host.text, id)
  <2>3. e \in Legible
    BY <1>1, <1>2, <1>4, <2>2 DEF Entry, Legible, Item
  <2>4. ReadLine(line) = <<e>>
    BY <1>4 DEF ReadLine, name, host, number, id
  <2> HIDE DEF e
  <2> QED
    BY <2>3, <2>4
<1>5. CASE ~ (number.text # <<>> /\ id \in 1 .. Uint32Max)
  <2>1. ReadLine(line) = <<>>
    BY <1>5 DEF ReadLine, name, host, number, id
  <2> QED
    BY <2>1, EmptySeq
<1> QED
  BY <1>4, <1>5

Sized(text, n) == text \in Text /\ Len(text) = n

\* The members of z are those of x, p of them, and then those of y.
StandsBehind(z, x, p, y, q) ==
  /\ Sized(z, p + q)
  /\ \A i \in 1 .. p : z[i] = x[i]
  /\ \A i \in 1 .. q : z[p + i] = y[i]

\* One text behind another.
LEMMA BehindIs ==
  ASSUME NEW x, NEW y, NEW p, NEW q, Sized(x, p), Sized(y, q)
  PROVE  StandsBehind(x \o y, x, p, y, q)
<1> DEFINE z == x \o y
<1>1. /\ z \in Seq(Chars) /\ Len(z) = Len(x) + Len(y)
      /\ \A i \in 1 .. Len(x) + Len(y) : z[i] = IF i <= Len(x) THEN x[i] ELSE y[i - Len(x)]
  BY ConcatProperties DEF Text, Sized
<1>2. p \in Nat /\ q \in Nat /\ p = Len(x) /\ q = Len(y)
  BY DEF Text, Sized
<1> HIDE DEF z
<1>3. \A i \in 1 .. p : z[i] = x[i]
  BY <1>1, <1>2
<1>4. ASSUME NEW i \in 1 .. q PROVE z[p + i] = y[i]
  <2> DEFINE j == p + i
  <2>1. j \in 1 .. Len(x) + Len(y) /\ ~ (j <= Len(x)) /\ j - Len(x) = i
    BY <1>2
  <2> HIDE DEF j
  <2> QED
    BY <1>1, <2>1 DEF j
<1> QED
  BY <1>1, <1>2, <1>3, <1>4 DEF Text, z, Sized, StandsBehind

\* What fprintf writes of an entry, without the newline.
Body(e) == e.name \o <<Comma>> \o e.host \o <<Comma>> \o Decimal(e.id)

\* The places of an entry's line.
LEMMA BodyIs ==
  ASSUME NEW e \in Item
  PROVE  LET a == Len(e.name)
             b == Len(e.host)
             d == Decimal(e.id)
             line == Body(e)
         IN  /\ line \in Text /\ Len(line) = a + b + Len(d) + 2
             /\ a \in Nat /\ b \in Nat /\ Len(d) \in Nat /\ d \in Text /\ Plain(d) /\ Value(d) = e.id
             /\ \A k \in 1 .. a : line[k] = e.name[k]
             /\ line[a + 1] = Comma
             /\ \A k \in 1 .. b : line[a + 1 + k] = e.host[k]
             /\ line[a + b + 2] = Comma
             /\ \A k \in 1 .. Len(d) : line[a + b + 2 + k] = d[k]
<1> DEFINE n == e.name
           h == e.host
           d == Decimal(e.id)
           comma == <<Comma>>
           s1 == n \o comma
           s2 == s1 \o h
           s3 == s2 \o comma
           line == s3 \o d
           a == Len(n)
           b == Len(h)
           c == Len(d)
<1>1. n \in Text /\ h \in Text /\ e.id \in 1 .. Uint32Max
  BY DEF Item
<1>2. d \in Text /\ Plain(d) /\ Value(d) = e.id
  BY <1>1, AliasMapAssumption DEF Text
<1>3. Sized(comma, 1) /\ comma[1] = Comma
  <2>1. Comma \in Chars
    BY AliasMapAssumption DEF Separators
  <2> QED
    BY <2>1 DEF Text, Sized
<1>4. a \in Nat /\ b \in Nat /\ c \in Nat /\ Sized(n, a) /\ Sized(h, b) /\ Sized(d, c)
  BY <1>1, <1>2 DEF Text, Sized
<1> HIDE DEF n, h, d, comma, a, b, c
<1>5. StandsBehind(s1, n, a, comma, 1)
  BY <1>3, <1>4, BehindIs
<1>6. StandsBehind(s2, s1, a + 1, h, b)
  <2>1. Sized(s1, a + 1)
    BY <1>5 DEF StandsBehind
  <2> HIDE DEF s1
  <2> QED
    BY <1>4, <2>1, BehindIs
<1>7. StandsBehind(s3, s2, (a + 1) + b, comma, 1)
  <2>1. Sized(s2, (a + 1) + b)
    BY <1>6 DEF StandsBehind
  <2> HIDE DEF s2
  <2> QED
    BY <1>3, <2>1, BehindIs
<1>8. StandsBehind(line, s3, ((a + 1) + b) + 1, d, c)
  <2>1. Sized(s3, ((a + 1) + b) + 1)
    BY <1>7 DEF StandsBehind
  <2> HIDE DEF s3
  <2> QED
    BY <1>4, <2>1, BehindIs
<1>9. Body(e) = line
  BY DEF Body, n, h, d, comma, s1, s2, s3
<1> HIDE DEF line, s1, s2, s3
<1>10. \A i \in 1 .. a + 1 : i \in 1 .. (a + 1) + b /\ i \in 1 .. ((a + 1) + b) + 1
  BY <1>4
<1>11. \A i \in 1 .. (a + 1) + b : i \in 1 .. ((a + 1) + b) + 1
  BY <1>4
<1>12. ASSUME NEW k \in 1 .. a PROVE line[k] = n[k]
  <2>1. k \in 1 .. a + 1
    BY <1>4
  <2> QED
    BY <1>5, <1>6, <1>7, <1>8, <1>10, <2>1 DEF StandsBehind
<1>13. line[a + 1] = Comma
  <2>1. 1 \in 1 .. 1 /\ a + 1 \in 1 .. a + 1
    BY <1>4
  <2> QED
    BY <1>3, <1>5, <1>6, <1>7, <1>8, <1>10, <2>1 DEF StandsBehind
<1>14. ASSUME NEW k \in 1 .. b PROVE line[a + 1 + k] = h[k]
  <2>1. (a + 1) + k \in 1 .. (a + 1) + b
    BY <1>4
  <2> QED
    BY <1>6, <1>7, <1>8, <1>11, <2>1 DEF StandsBehind
<1>15. line[a + b + 2] = Comma
  <2>1. 1 \in 1 .. 1 /\ ((a + 1) + b) + 1 \in 1 .. ((a + 1) + b) + 1 /\ a + b + 2 = ((a + 1) + b) + 1
    BY <1>4
  <2> DEFINE i == ((a + 1) + b) + 1
  <2>2. line[i] = s3[i] /\ s3[i] = comma[1]
    BY <1>7, <1>8, <2>1 DEF StandsBehind
  <2>3. a + b + 2 = i
    BY <2>1
  <2> HIDE DEF i
  <2> QED
    BY <1>3, <2>2, <2>3
<1>16. ASSUME NEW k \in 1 .. c PROVE line[a + b + 2 + k] = d[k]
  <2>1. a + b + 2 + k = (((a + 1) + b) + 1) + k
    BY <1>4
  <2> QED
    BY <1>8, <2>1 DEF StandsBehind
<1>17. line \in Text /\ Len(line) = a + b + c + 2
  BY <1>4, <1>8 DEF Sized, StandsBehind
<1> QED
  BY <1>2, <1>4, <1>8, <1>9, <1>12, <1>13, <1>14, <1>15, <1>16, <1>17 DEF n, h, d, a, b, c

\* app_alias_write_map and app_alias_read_map: an entry that is plain reads back as it was.
LEMMA ReadBack ==
  ASSUME NEW e \in Legible
  PROVE  ReadLine(Body(e)) = <<e>>
<1> DEFINE n == e.name
           h == e.host
           d == Decimal(e.id)
           a == Len(n)
           b == Len(h)
           c == Len(d)
           line == Body(e)
<1>1. e \in Item /\ Plain(n) /\ Plain(h) /\ n \in Text /\ h \in Text /\ e.id \in 1 .. Uint32Max
  BY DEF Legible, Item
<1>2. /\ line \in Text /\ Len(line) = a + b + c + 2
      /\ a \in Nat /\ b \in Nat /\ c \in Nat /\ d \in Text /\ Plain(d) /\ Value(d) = e.id
      /\ \A k \in 1 .. a : line[k] = n[k]
      /\ line[a + 1] = Comma
      /\ \A k \in 1 .. b : line[a + 1 + k] = h[k]
      /\ line[a + b + 2] = Comma
      /\ \A k \in 1 .. c : line[a + b + 2 + k] = d[k]
  BY <1>1, BodyIs
<1>3. e = Entry(n, h, e.id)
  BY <1>1 DEF Entry, Item
<1> HIDE DEF n, h, d, a, b, c, line
<1>4. Piece(line, 1) = [text |-> n, next |-> a + 2]
  <2> DEFINE from == 1
  <2>1. /\ from \in Nat \ {0} /\ from + Len(n) <= Len(line) + 1
        /\ \A k \in 1 .. Len(n) : line[from + k - 1] = n[k]
        /\ from + Len(n) # Len(line) + 1 => line[from + Len(n)] = Comma
        /\ from + Len(n) + 1 = a + 2
    BY <1>2 DEF a
  <2> HIDE DEF from
  <2>2. Piece(line, from) = [text |-> n, next |-> from + Len(n) + 1]
    BY <1>1, <1>2, <2>1, PieceOf
  <2> QED
    BY <2>1, <2>2 DEF from
<1>5. Piece(line, a + 2) = [text |-> h, next |-> a + b + 3]
  <2> DEFINE from == a + 2
  <2>1. /\ from \in Nat \ {0} /\ from + Len(h) <= Len(line) + 1
        /\ \A k \in 1 .. Len(h) : from + k - 1 = a + 1 + k
        /\ from + Len(h) = a + b + 2
        /\ from + Len(h) + 1 = a + b + 3
    <3>1. a \in Nat /\ b \in Nat /\ c \in Nat /\ Len(h) = b /\ Len(line) = a + b + c + 2
      BY <1>2 DEF b
    <3> QED
      BY ONLY <3>1 DEF from
  <2>2. ASSUME NEW k \in 1 .. Len(h) PROVE line[from + k - 1] = h[k]
    <3>1. from + k - 1 = a + 1 + k /\ k \in 1 .. b
      BY <2>1 DEF b
    <3>2. line[a + 1 + k] = h[k]
      BY <1>2, <3>1
    <3> HIDE DEF from
    <3> QED
      BY <3>1, <3>2
  <2> HIDE DEF from
  <2>3. from + Len(h) # Len(line) + 1 => line[from + Len(h)] = Comma
    BY <1>2, <2>1
  <2>4. Piece(line, from) = [text |-> h, next |-> from + Len(h) + 1]
    BY <1>1, <1>2, <2>1, <2>2, <2>3, PieceOf
  <2> QED
    BY <2>1, <2>4 DEF from
<1>6. Piece(line, a + b + 3).text = d
  <2> DEFINE from == a + b + 3
  <2>1. /\ from \in Nat \ {0} /\ from + Len(d) = Len(line) + 1
        /\ from + Len(d) <= Len(line) + 1
        /\ \A k \in 1 .. Len(d) : from + k - 1 = a + b + 2 + k
    BY <1>2 DEF c
  <2>2. \A k \in 1 .. Len(d) : line[from + k - 1] = d[k]
    BY <1>2, <2>1 DEF c
  <2> HIDE DEF from
  <2>3. Piece(line, from) = [text |-> d, next |-> from + Len(d) + 1]
    BY <1>2, <2>1, <2>2, PieceOf
  <2> QED
    BY <2>3 DEF from
<1>7. d # <<>>
  BY <1>2 DEF Plain
<1>8. ReadLine(line) = <<Entry(n, h, e.id)>>
  BY <1>1, <1>2, <1>4, <1>5, <1>6, <1>7 DEF ReadLine
<1> QED
  BY <1>3, <1>8 DEF line

LineAt(text, i) == ReadLine(SubSeq(text, i, Until(text, i, Newline) - 1))

LinesOf(text) == [i \in Begins(text) |-> LineAt(text, i)]

\* app_alias_read_map: a map is read as entries with a name and a host each.
LEMMA ParsedIs ==
  ASSUME NEW text \in Text
  PROVE  /\ PartsOf(LinesOf(text), Legible)
         /\ Parsed(text) = Joined(LinesOf(text), Len(text))
         /\ Parsed(text) \in Seq(Legible)
<1>1. Len(text) \in Nat /\ DOMAIN text = 1 .. Len(text)
  BY TextIs
<1>2. ASSUME NEW i \in Begins(text) PROVE LineAt(text, i) \in Seq(Legible)
  <2> DEFINE u == Until(text, i, Newline)
             line == SubSeq(text, i, u - 1)
  <2>1. i \in Nat \ {0} /\ i \in 1 .. Len(text)
    BY <1>1 DEF Begins
  <2>2. /\ u \in 1 .. Len(text) + 1
        /\ \A j \in i .. Len(text) : j < u => text[j] # Newline
    BY <2>1, UntilIs
  <2> HIDE DEF u
  <2>3. u - 1 \in Int /\ u - 1 <= Len(text)
    BY <1>1, <2>2
  <2>4. /\ line \in Text
        /\ \A k \in 1 .. Len(line) : line[k] = text[i + k - 1] /\ i + k - 1 \in i .. u - 1
    BY <2>1, <2>3, PartIs
  <2> HIDE DEF line
  <2>5. ASSUME NEW k \in 1 .. Len(line) PROVE line[k] # Newline
    <3> DEFINE j == i + k - 1
    <3>1. line[k] = text[j] /\ j \in i .. u - 1
      BY <2>4
    <3> HIDE DEF j
    <3> QED
      BY <1>1, <2>1, <2>2, <2>3, <3>1
  <2>6. ReadLine(line) \in Seq(Legible)
    BY <2>4, <2>5, ReadIs
  <2> QED
    BY <2>6 DEF LineAt, line, u
<1>3. PartsOf(LinesOf(text), Legible)
  BY <1>2 DEF PartsOf, LinesOf
<1>4. Parsed(text) = Joined(LinesOf(text), Len(text))
  BY DEF Parsed, LinesOf, LineAt
<1>5. Joined(LinesOf(text), Len(text)) \in Seq(Legible)
  BY <1>1, <1>3, JoinedMore DEF PartsOf
<1> QED
  BY <1>3, <1>4, <1>5

\* An empty map has no entries.
LEMMA ParsedNone == <<>> \in Text /\ Parsed(<<>>) = <<>>
<1> DEFINE none == <<>>
<1>1. none \in Text /\ Len(none) = 0
  BY DEF Text
<1> HIDE DEF none
<1>2. PartsOf(LinesOf(none), Legible) /\ Parsed(none) = Joined(LinesOf(none), 0)
  BY <1>1, ParsedIs
<1>3. Joined(LinesOf(none), 0) = <<>>
  BY <1>2, JoinedMore DEF PartsOf
<1> QED
  BY <1>1, <1>2, <1>3 DEF none

\* No line goes on behind the end of the text.
Whole(text) == text = <<>> \/ text[Len(text)] = Newline

\* The lines of a text behind another whose last line has ended.
LEMMA LinesApart ==
  ASSUME NEW w \in Text, Whole(w), NEW v \in Text
  PROVE  LET t == w \o v
             m == Len(w)
         IN  /\ t \in Text /\ Len(t) = m + Len(v)
             /\ Alike(LinesOf(t), 0, LinesOf(w), m)
             /\ Alike(LinesOf(t), m, LinesOf(v), Len(v))
<1> DEFINE t == w \o v
           m == Len(w)
           n == Len(v)
<1>1. Sized(w, m) /\ Sized(v, n) /\ m \in Nat /\ n \in Nat /\ DOMAIN w = 1 .. m /\ DOMAIN v = 1 .. n
  BY DEF Sized, Text
<1>2. StandsBehind(t, w, m, v, n)
  BY <1>1, BehindIs
<1>3. w = <<>> => m = 0
  OBVIOUS
<1>4. m # 0 => w[m] = Newline
  BY <1>3 DEF Whole
<1> HIDE DEF t, m, n
<1>5. t \in Text /\ Len(t) = m + n /\ DOMAIN t = 1 .. m + n
  BY <1>2 DEF StandsBehind, Sized, Text
<1>6. /\ \A i \in 1 .. m : t[i] = w[i]
      /\ \A i \in 1 .. n : t[m + i] = v[i]
  BY <1>2 DEF StandsBehind
<1>7. Len(w) = m /\ Len(v) = n
  BY DEF m, n
<1>8. ASSUME NEW i \in 1 .. m
      PROVE  /\ i \in Begins(t) <=> i \in Begins(w)
             /\ LineAt(t, i) = LineAt(w, i)
  <2>1. i \in 1 .. m + n /\ (i # 1 => i - 1 \in 1 .. m)
    BY <1>1
  <2>2. i \in Begins(t) <=> i \in Begins(w)
    BY <1>1, <1>5, <1>6, <2>1 DEF Begins
  <2> DEFINE u == Until(w, i, Newline)
  <2>3. /\ u \in 1 .. m + 1
        /\ u # m + 1 => u >= i /\ w[u] = Newline
        /\ \A j \in i .. m : j < u => w[j] # Newline
    BY <1>7, UntilIs
  <2> HIDE DEF u
  <2>4. u \in i .. m /\ w[u] = Newline
    <3>1. u # m + 1
      BY <1>1, <1>4, <2>3
    <3> QED
      BY <1>1, <2>3, <3>1
  <2>5. u \in i .. Len(t) + 1 /\ t[u] = Newline /\ \A j \in i .. u - 1 : t[j] # Newline
    BY <1>1, <1>5, <1>6, <2>3, <2>4
  <2>6. Until(t, i, Newline) = u
    BY <1>5, <2>5, UntilAt
  <2>7. SubSeq(t, i, u - 1) = SubSeq(w, i, u - 1)
    <3>1. CASE u = i
      <4>1. u - 1 \in Int /\ i \in Int /\ u - 1 < i
        BY <1>1, <3>1
      <4>2. SubSeq(t, i, u - 1) = <<>>
        BY <4>1, SubSeqEmpty
      <4>3. SubSeq(w, i, u - 1) = <<>>
        BY <4>1, SubSeqEmpty
      <4> QED
        BY <4>2, <4>3
    <3>2. CASE u # i
      <4> DEFINE s == SubSeq(w, i, u - 1)
      <4>1. i \in Nat \ {0} /\ u - 1 \in Int /\ u - 1 <= Len(w) /\ i <= u - 1 /\ u - 1 <= m
        BY <1>1, <1>7, <2>4, <3>2
      <4>2. /\ s \in Text /\ Len(s) = (u - 1) - i + 1
            /\ \A k \in 1 .. Len(s) : s[k] = w[i + k - 1] /\ i + k - 1 \in i .. u - 1
        BY <4>1, PartIs
      <4> HIDE DEF s
      <4>3. ASSUME NEW k \in 1 .. Len(s) PROVE t[i + k - 1] = s[k]
        <5> DEFINE j == i + k - 1
        <5>1. s[k] = w[j] /\ j \in i .. u - 1
          BY <4>2
        <5> HIDE DEF j
        <5>2. j \in 1 .. m
          BY <1>1, <4>1, <5>1
        <5> QED
          BY <1>6, <5>1, <5>2 DEF j
      <4>4. s # <<>> /\ i + Len(s) - 1 = u - 1 /\ u - 1 <= Len(t)
        BY <1>1, <1>5, <4>1, <4>2
      <4>5. SubSeq(t, i, i + Len(s) - 1) = s
        BY <1>5, <4>1, <4>2, <4>3, <4>4, PartOf
      <4> QED
        BY <4>4, <4>5 DEF s
    <3> QED
      BY <3>1, <3>2
  <2> QED
    BY <2>2, <2>6, <2>7 DEF LineAt, u
<1>9. ASSUME NEW i \in 1 .. n
      PROVE  /\ m + i \in Begins(t) <=> i \in Begins(v)
             /\ LineAt(t, m + i) = LineAt(v, i)
  <2>1. m + i \in 1 .. m + n /\ (i # 1 => i - 1 \in 1 .. n /\ (m + i) - 1 = m + (i - 1))
    BY <1>1
  <2>2. m + i \in Begins(t) <=> i \in Begins(v)
    <3>1. CASE i # 1
      <4>1. t[(m + i) - 1] = v[i - 1] /\ m + i # 1
        BY <1>1, <1>6, <2>1, <3>1
      <4> QED
        BY <1>1, <1>5, <2>1, <3>1, <4>1 DEF Begins
    <3>2. CASE i = 1
      <4>1. m # 0 => t[(m + i) - 1] = Newline
        BY <1>1, <1>4, <1>6, <3>2
      <4>2. m = 0 => m + i = 1
        BY <3>2
      <4> QED
        BY <1>1, <1>5, <2>1, <3>2, <4>1, <4>2 DEF Begins
    <3> QED
      BY <3>1, <3>2
  <2> DEFINE u == Until(v, i, Newline)
  <2>3. /\ u \in 1 .. n + 1
        /\ u # n + 1 => u >= i /\ v[u] = Newline
        /\ \A j \in i .. n : j < u => v[j] # Newline
    BY <1>7, UntilIs
  <2> HIDE DEF u
  <2>4. /\ u \in i .. n + 1 /\ m + u \in m + i .. Len(t) + 1 /\ m + i \in Nat
        /\ m + u # Len(t) + 1 => u \in 1 .. n /\ u # n + 1
    BY <1>1, <1>5, <2>3
  <2>5. m + u # Len(t) + 1 => t[m + u] = Newline
    BY <1>6, <2>3, <2>4
  <2>6. ASSUME NEW j \in m + i .. (m + u) - 1 PROVE t[j] # Newline
    <3>1. j - m \in i .. n /\ j - m < u /\ j - m \in 1 .. n /\ m + (j - m) = j
      BY <1>1, <2>4
    <3> QED
      BY <1>6, <2>3, <3>1
  <2>7. Until(t, m + i, Newline) = m + u
    <3> DEFINE a == m + i
               b == m + u
    <3>1. a \in Nat /\ b \in a .. Len(t) + 1 /\ (b # Len(t) + 1 => t[b] = Newline)
          /\ \A j \in a .. b - 1 : t[j] # Newline
      BY <2>4, <2>5, <2>6
    <3> HIDE DEF a, b
    <3>2. Until(t, a, Newline) = b
      BY <1>5, <3>1, UntilAt
    <3> QED
      BY <3>2 DEF a, b
  <2>8. SubSeq(t, m + i, (m + u) - 1) = SubSeq(v, i, u - 1)
    <3>1. CASE u = i
      <4>1. u - 1 \in Int /\ i \in Int /\ u - 1 < i /\ (m + u) - 1 \in Int /\ m + i \in Int /\ (m + u) - 1 < m + i
        BY <1>1, <3>1
      <4>2. SubSeq(t, m + i, (m + u) - 1) = <<>>
        BY <4>1, SubSeqEmpty
      <4>3. SubSeq(v, i, u - 1) = <<>>
        BY <4>1, SubSeqEmpty
      <4> QED
        BY <4>2, <4>3
    <3>2. CASE u # i
      <4> DEFINE s == SubSeq(v, i, u - 1)
                 a == m + i
      <4>1. i \in Nat \ {0} /\ u - 1 \in Int /\ u - 1 <= Len(v) /\ i <= u - 1 /\ u - 1 <= n /\ a \in Nat \ {0}
        BY <1>1, <1>7, <2>4, <3>2
      <4>2. /\ s \in Text /\ Len(s) = (u - 1) - i + 1
            /\ \A k \in 1 .. Len(s) : s[k] = v[i + k - 1] /\ i + k - 1 \in i .. u - 1
        BY <4>1, PartIs
      <4> HIDE DEF s
      <4>3. ASSUME NEW k \in 1 .. Len(s) PROVE t[a + k - 1] = s[k]
        <5> DEFINE j == i + k - 1
        <5>1. s[k] = v[j] /\ j \in i .. u - 1
          BY <4>2
        <5>2. a + k - 1 = m + j
          BY <1>1, <4>2
        <5> HIDE DEF j, a
        <5>3. j \in 1 .. n
          BY <1>1, <4>1, <5>1
        <5> QED
          BY <1>6, <5>1, <5>2, <5>3
      <4>4. s # <<>> /\ a + Len(s) - 1 = (m + u) - 1 /\ (m + u) - 1 <= Len(t)
        <5>1. Len(s) = u - i
          BY <1>1, <2>4, <4>1, <4>2
        <5>2. s # <<>>
          BY <4>1, <4>2
        <5> QED
          BY <1>1, <1>5, <2>4, <4>1, <5>1, <5>2
      <4> HIDE DEF a
      <4>5. SubSeq(t, a, a + Len(s) - 1) = s
        BY <1>5, <4>1, <4>2, <4>3, <4>4, PartOf
      <4> QED
        BY <4>4, <4>5 DEF s, a
    <3> QED
      BY <3>1, <3>2
  <2> QED
    BY <2>2, <2>7, <2>8 DEF LineAt, u
<1>10. Alike(LinesOf(t), 0, LinesOf(w), m)
  BY <1>8 DEF Alike, LinesOf
<1>11. Alike(LinesOf(t), m, LinesOf(v), n)
  BY <1>9 DEF Alike, LinesOf
<1> QED
  BY <1>5, <1>10, <1>11 DEF t, m, n

\* app_alias_read_map: what is behind a last line that has ended is read on its own.
LEMMA ParsedApart ==
  ASSUME NEW w \in Text, Whole(w), NEW v \in Text
  PROVE  w \o v \in Text /\ Parsed(w \o v) = Parsed(w) \o Parsed(v)
<1> DEFINE t == w \o v
           m == Len(w)
           n == Len(v)
<1>1. /\ t \in Text /\ Len(t) = m + n
      /\ Alike(LinesOf(t), 0, LinesOf(w), m)
      /\ Alike(LinesOf(t), m, LinesOf(v), n)
  BY LinesApart
<1>2. m \in Nat /\ n \in Nat
  BY DEF Text
<1> HIDE DEF t
<1>3. PartsOf(LinesOf(w), Legible) /\ PartsOf(LinesOf(v), Legible) /\ PartsOf(LinesOf(t), Legible)
  BY <1>1, ParsedIs
<1>4. Parsed(t) = Joined(LinesOf(t), m + n) /\ Parsed(w) = Joined(LinesOf(w), m) /\ Parsed(v) = Joined(LinesOf(v), n)
  BY <1>1, ParsedIs
<1> HIDE DEF m, n
<1>5. Joined(LinesOf(t), m + n) = Joined(LinesOf(t), m) \o Joined(LinesOf(v), n)
  BY <1>1, <1>2, <1>3, JoinedBehind
<1>6. Joined(LinesOf(t), m) = Joined(LinesOf(w), m)
  BY <1>1, <1>2, <1>3, JoinedAlike
<1> QED
  BY <1>1, <1>4, <1>5, <1>6 DEF t

\* app_alias_read_map: a line on its own is read for what is before its newline.
LEMMA ParsedLine ==
  ASSUME NEW body \in Text, \A i \in 1 .. Len(body) : body[i] # Newline
  PROVE  Parsed(body \o <<Newline>>) = ReadLine(body)
<1> DEFINE nl == <<Newline>>
           t == body \o nl
           m == Len(body)
           p == LinesOf(t)
<1>1. Sized(body, m) /\ m \in Nat
  BY DEF Sized, Text
<1>2. Sized(nl, 1) /\ nl[1] = Newline
  <2>1. Newline \in Chars
    BY AliasMapAssumption DEF Separators
  <2> QED
    BY <2>1 DEF Text, Sized
<1> HIDE DEF nl, m
<1>3. StandsBehind(t, body, m, nl, 1)
  BY <1>1, <1>2, BehindIs
<1> HIDE DEF t
<1>4. t \in Text /\ Len(t) = m + 1 /\ DOMAIN t = 1 .. m + 1
  BY <1>3 DEF StandsBehind, Sized, Text
<1>5. /\ \A i \in 1 .. m : t[i] = body[i] /\ t[i] # Newline
      /\ t[m + 1] = Newline
  <2>1. 1 \in 1 .. 1
    OBVIOUS
  <2> QED
    BY <1>2, <1>3, <2>1 DEF StandsBehind, m
<1>6. Begins(t) = {1}
  <2>1. 1 \in Begins(t)
    BY <1>1, <1>4 DEF Begins
  <2>2. ASSUME NEW i \in Begins(t), i # 1 PROVE FALSE
    <3>1. i \in 1 .. m + 1 /\ t[i - 1] = Newline
      BY <1>4, <2>2 DEF Begins
    <3>2. i - 1 \in 1 .. m
      BY <1>1, <2>2, <3>1
    <3> QED
      BY <1>5, <3>1, <3>2
  <2> QED
    BY <2>1, <2>2
<1>7. Until(t, 1, Newline) = m + 1
  <2> DEFINE u == m + 1
             one == 1
  <2>1. one \in Nat /\ u \in one .. Len(t) + 1 /\ t[u] = Newline /\ \A i \in one .. u - 1 : t[i] # Newline
    BY <1>1, <1>4, <1>5
  <2> HIDE DEF u, one
  <2>2. Until(t, one, Newline) = u
    BY <1>4, <2>1, UntilAt
  <2> QED
    BY <2>2 DEF u, one
<1>8. SubSeq(t, 1, m) = body
  <2>1. CASE body = <<>>
    <3>1. m = 0
      BY <2>1 DEF m
    <3> QED
      BY <2>1, <3>1, SubSeqEmpty
  <2>2. CASE body # <<>>
    <3> DEFINE one == 1
    <3>1. /\ one \in Nat \ {0} /\ one + Len(body) - 1 = m /\ one + Len(body) - 1 <= Len(t)
          /\ \A k \in 1 .. Len(body) : t[one + k - 1] = body[k]
      BY <1>1, <1>4, <1>5 DEF m
    <3> HIDE DEF one
    <3>2. SubSeq(t, one, one + Len(body) - 1) = body
      BY <1>4, <2>2, <3>1, PartOf
    <3> QED
      BY <3>1, <3>2 DEF one
  <2> QED
    BY <2>1, <2>2
<1>9. DOMAIN p = {1} /\ p[1] = ReadLine(body)
  <2>1. (m + 1) - 1 = m
    BY <1>1
  <2> QED
    BY <1>6, <1>7, <1>8, <2>1 DEF LinesOf, LineAt
<1>10. PartsOf(p, Legible) /\ Parsed(t) = Joined(p, m + 1)
  BY <1>4, ParsedIs
<1> HIDE DEF p
<1>11. p[1] \in Seq(Legible) /\ Joined(p, 0) = <<>> /\ Joined(p, 0 + 1) = Joined(p, 0) \o p[1]
  <2>1. p[1] \in Seq(Legible)
    BY <1>9, <1>10 DEF PartsOf
  <2>2. 0 \in Nat /\ 0 + 1 \in DOMAIN p
    BY <1>9
  <2> DEFINE zero == 0
  <2>3. zero \in Nat /\ zero + 1 \in DOMAIN p /\ zero + 1 = 1
    BY <2>2
  <2> HIDE DEF zero
  <2>4. Joined(p, 0) = <<>> /\ Joined(p, zero + 1) = Joined(p, zero) \o p[zero + 1]
    BY <1>10, <2>3, JoinedMore DEF PartsOf
  <2> QED
    BY <2>1, <2>3, <2>4 DEF zero
<1>12. Joined(p, 1) = p[1]
  <2>1. <<>> \o p[1] = p[1]
    BY <1>11, ConcatEmptySeq
  <2>2. 0 + 1 = 1
    OBVIOUS
  <2> QED
    BY <1>11, <2>1, <2>2
<1>13. Joined(p, m + 1) = Joined(p, 1)
  <2> DEFINE one == 1
             u == m + 1
  <2>1. one \in Nat /\ u \in Nat /\ one <= u /\ \A i \in one + 1 .. u : i \notin DOMAIN p
    BY <1>1, <1>9
  <2> HIDE DEF one, u
  <2>2. Joined(p, u) = Joined(p, one)
    BY <1>10, <2>1, JoinedSame DEF PartsOf
  <2> QED
    BY <2>2 DEF one, u
<1> QED
  BY <1>9, <1>10, <1>12, <1>13 DEF t, nl

\* fprintf: an entry makes a text that ends with its line; a plain one reads back.
LEMMA WriteLineIs ==
  ASSUME NEW e \in Item
  PROVE  /\ WriteLine(e) \in Text /\ WriteLine(e) # <<>> /\ Whole(WriteLine(e))
         /\ e \in Legible => Parsed(WriteLine(e)) = <<e>>
<1> DEFINE line == Body(e)
           nl == <<Newline>>
           m == Len(line)
           t == line \o nl
<1>1. line \in Text
  BY BodyIs
<1>2. Sized(line, m) /\ m \in Nat
  BY <1>1 DEF Sized, Text
<1>3. Sized(nl, 1) /\ nl[1] = Newline
  <2>1. Newline \in Chars
    BY AliasMapAssumption DEF Separators
  <2> QED
    BY <2>1 DEF Text, Sized
<1>4. WriteLine(e) = t
  BY DEF WriteLine, Body
<1> HIDE DEF line, nl, m
<1>5. StandsBehind(t, line, m, nl, 1)
  BY <1>2, <1>3, BehindIs
<1>6. t \in Text /\ t # <<>> /\ Whole(t)
  <2> HIDE DEF t
  <2>1. t \in Text /\ Len(t) = m + 1 /\ 1 \in 1 .. 1 /\ t[m + 1] = nl[1]
    BY <1>5 DEF StandsBehind, Sized
  <2> QED
    BY <1>2, <1>3, <2>1 DEF Whole
<1>7. ASSUME e \in Legible PROVE Parsed(t) = <<e>>
  <2>1. \A i \in 1 .. m : line[i] # Newline
    <3> DEFINE n == e.name
               h == e.host
               d == Decimal(e.id)
               a == Len(n)
               b == Len(h)
               c == Len(d)
    <3>1. /\ m = a + b + c + 2 /\ a \in Nat /\ b \in Nat /\ c \in Nat /\ Plain(d) /\ d \in Text
          /\ \A k \in 1 .. a : line[k] = n[k]
          /\ line[a + 1] = Comma
          /\ \A k \in 1 .. b : line[a + 1 + k] = h[k]
          /\ line[a + b + 2] = Comma
          /\ \A k \in 1 .. c : line[a + b + 2 + k] = d[k]
      BY BodyIs DEF m, line
    <3>2. n \in Text /\ h \in Text /\ Plain(n) /\ Plain(h)
      BY <1>7 DEF Legible, Item
    <3>3. /\ \A k \in 1 .. a : n[k] # Newline
          /\ \A k \in 1 .. b : h[k] # Newline
          /\ \A k \in 1 .. c : d[k] # Newline
      BY <3>1, <3>2, TextIs DEF Plain, Separators
    <3>4. Comma # Newline
      BY DEF Comma, Newline
    <3> HIDE DEF n, h, d, a, b, c
    <3> SUFFICES ASSUME NEW i \in 1 .. m PROVE line[i] # Newline
      OBVIOUS
    <3>5. CASE i \in 1 .. a
      BY <3>1, <3>3, <3>5
    <3>6. CASE i = a + 1
      BY <3>1, <3>4, <3>6
    <3>7. CASE i \in a + 2 .. a + b + 1
      <4> DEFINE k == i - (a + 1)
      <4>1. k \in 1 .. b /\ a + 1 + k = i
        BY <3>1, <3>7
      <4> HIDE DEF k
      <4> QED
        BY <3>1, <3>3, <4>1
    <3>8. CASE i = a + b + 2
      BY <3>1, <3>4, <3>8
    <3>9. CASE i \in a + b + 3 .. m
      <4> DEFINE k == i - (a + b + 2)
      <4>1. k \in 1 .. c /\ a + b + 2 + k = i
        BY <3>1, <3>9
      <4> HIDE DEF k
      <4> QED
        BY <3>1, <3>3, <4>1
    <3> QED
      BY <1>2, <3>1, <3>5, <3>6, <3>7, <3>8, <3>9
  <2>2. Parsed(t) = ReadLine(line)
    BY <1>1, <2>1, ParsedLine DEF nl, m
  <2>3. ReadLine(line) = <<e>>
    BY <1>7, ReadBack DEF line
  <2> QED
    BY <2>2, <2>3
<1> QED
  BY <1>4, <1>6, <1>7

\* app_alias_write_map and app_alias_read_map: each entry reads back as its line does.
LEMMA WrittenReads ==
  ASSUME NEW list \in Seq(Item)
  PROVE  LET back == [i \in DOMAIN list |-> Parsed(WriteLine(list[i]))]
         IN  /\ Written(list) \in Text
             /\ PartsOf(back, Legible)
             /\ Parsed(Written(list)) = Joined(back, Len(list))
<1> DEFINE back == [i \in DOMAIN list |-> Parsed(WriteLine(list[i]))]
           line == [i \in DOMAIN list |-> WriteLine(list[i])]
           last == Len(list)
           P == {n \in Nat : n <= last => /\ Whole(Joined(line, n))
                                          /\ Parsed(Joined(line, n)) = Joined(back, n)}
<1>1. last \in Nat /\ DOMAIN list = 1 .. last /\ \A i \in 1 .. last : list[i] \in Item
  OBVIOUS
<1>2. /\ DOMAIN line = 1 .. last /\ DOMAIN back = 1 .. last
      /\ \A i \in 1 .. last : /\ line[i] \in Text /\ line[i] # <<>> /\ Whole(line[i])
                              /\ back[i] = Parsed(line[i])
  BY <1>1, WriteLineIs
<1>3. Written(list) = Joined(line, last)
  BY DEF Written
<1> HIDE DEF line, back, last
<1>4. PartsOf(line, Chars) /\ PartsOf(back, Legible)
  <2>1. \A i \in 1 .. last : back[i] \in Seq(Legible)
    BY <1>2, ParsedIs
  <2> QED
    BY <1>2, <2>1 DEF PartsOf, Text
<1>5. 0 \in P
  <2>1. Joined(line, 0) = <<>> /\ Joined(back, 0) = <<>>
    BY <1>4, JoinedMore DEF PartsOf
  <2> QED
    BY <2>1, ParsedNone DEF Whole
<1>6. ASSUME NEW n \in Nat, n \in P PROVE n + 1 \in P
  <2> SUFFICES ASSUME n + 1 <= last
               PROVE  Whole(Joined(line, n + 1)) /\ Parsed(Joined(line, n + 1)) = Joined(back, n + 1)
    OBVIOUS
  <2> DEFINE w == Joined(line, n)
             v == line[n + 1]
  <2>1. n + 1 \in 1 .. last /\ n <= last
    BY <1>1
  <2>2. /\ w \in Text /\ Joined(line, n + 1) = w \o v
        /\ Joined(back, n + 1) = Joined(back, n) \o back[n + 1]
    <3>1. w \in Seq(Chars) /\ Joined(line, n + 1) = w \o v
      BY <1>2, <1>4, <2>1, JoinedMore DEF PartsOf
    <3>2. Joined(back, n + 1) = Joined(back, n) \o back[n + 1]
      BY <1>2, <1>4, <2>1, JoinedMore DEF PartsOf
    <3> QED
      BY <3>1, <3>2 DEF Text
  <2>3. Whole(w) /\ Parsed(w) = Joined(back, n)
    BY <1>6, <2>1
  <2>4. v \in Text /\ v # <<>> /\ Whole(v) /\ back[n + 1] = Parsed(v)
    BY <1>2, <2>1
  <2> HIDE DEF w, v
  <2>5. Parsed(w \o v) = Parsed(w) \o Parsed(v)
    BY <2>2, <2>3, <2>4, ParsedApart
  <2>6. Whole(w \o v)
    <3> DEFINE a == Len(w)
               b == Len(v)
               t == w \o v
    <3>1. Sized(w, a) /\ Sized(v, b) /\ a \in Nat /\ b \in Nat \ {0} /\ v[b] = Newline
      <4>1. b # 0
        BY <2>4 DEF Text
      <4> QED
        BY <2>2, <2>4, <4>1 DEF Sized, Text, Whole
    <3> HIDE DEF a, b
    <3>2. StandsBehind(t, w, a, v, b)
      BY <3>1, BehindIs
    <3> HIDE DEF t
    <3>3. Len(t) = a + b /\ t[a + b] = v[b]
      BY <3>1, <3>2 DEF StandsBehind, Sized
    <3>4. Whole(t)
      BY <3>1, <3>3 DEF Whole
    <3> QED
      BY <3>4 DEF t
  <2> QED
    BY <2>2, <2>3, <2>4, <2>5, <2>6
<1>7. Nat \subseteq P
  <2> HIDE DEF P
  <2> QED
    BY <1>5, <1>6, SetInduction
<1>8. last \in P
  BY <1>1, <1>7
<1>9. Parsed(Joined(line, last)) = Joined(back, last)
  BY <1>1, <1>8
<1>10. Joined(line, last) \in Text
  BY <1>1, <1>4, JoinedMore DEF PartsOf, Text
<1> QED
  BY <1>3, <1>4, <1>9, <1>10 DEF back, last

\* Entries that are plain all read back as they were.
LEMMA LegibleReadsBack ==
  ASSUME NEW list \in Seq(Item), \A i \in DOMAIN list : list[i] \in Legible
  PROVE  Parsed(Written(list)) = list
<1> DEFINE back == [i \in DOMAIN list |-> Parsed(WriteLine(list[i]))]
           members == [i \in DOMAIN list |-> <<list[i]>>]
<1>1. \A i \in DOMAIN list : list[i] \in Item /\ back[i] = <<list[i]>>
  BY WriteLineIs
<1>2. back = members
  BY <1>1
<1>3. Parsed(Written(list)) = Joined(back, Len(list))
  BY WrittenReads
<1>4. Joined(members, Len(list)) = list
  BY JoinedMembers
<1> QED
  BY <1>2, <1>3, <1>4

-----------------------------------------------------------------------------
(* The id of a name: that of its first entry with an id in range *)

Hits(kind, list, name) == {i \in At(list, name) : InRange(kind, list[i].id)}

\* A list ends behind its last place.
LEMMA ListIs ==
  ASSUME NEW list \in Seq(Item)
  PROVE  Len(list) \in Nat /\ DOMAIN list = 1 .. Len(list) /\ \A i \in 1 .. Len(list) : list[i] \in Item
OBVIOUS

\* It is one of the name's, and in range.
LEMMA AliasedIs ==
  ASSUME NEW kind, NEW list \in Seq(Item), NEW name, Aliased(kind, list, name) # 0
  PROVE  \E i \in 1 .. Len(list) :
           /\ list[i].name = name
           /\ list[i].id = Aliased(kind, list, name)
           /\ InRange(kind, list[i].id)
<1> DEFINE H == Hits(kind, list, name)
<1>1. DOMAIN list = 1 .. Len(list) /\ Len(list) \in Nat
  BY ListIs
<1>2. H # {} /\ Aliased(kind, list, name) = list[First(H)].id
  BY DEF Aliased, Hits
<1>3. H \subseteq 1 .. Len(list) /\ H \subseteq Nat
  BY <1>1 DEF Hits, At
<1>4. First(H) \in H
  <2> HIDE DEF H
  <2> QED
    BY <1>2, <1>3, FirstIsLeast
<1> QED
  BY <1>2, <1>3, <1>4 DEF Hits, At

\* No entry of the name with an id in range, no id.
LEMMA AliasedNone ==
  ASSUME NEW kind, NEW list \in Seq(Item), NEW name
  PROVE  Aliased(kind, list, name) = 0 <=>
           \A i \in 1 .. Len(list) : list[i].name = name => ~ InRange(kind, list[i].id)
<1>1. DOMAIN list = 1 .. Len(list) /\ Len(list) \in Nat
  BY ListIs
<1>2. CASE Aliased(kind, list, name) = 0
  <2>1. Hits(kind, list, name) = {}
    <3> SUFFICES ASSUME Hits(kind, list, name) # {} PROVE FALSE
      OBVIOUS
    <3>1. Hits(kind, list, name) \subseteq Nat
      BY <1>1 DEF Hits, At
    <3>2. First(Hits(kind, list, name)) \in Hits(kind, list, name)
      BY <3>1, FirstIsLeast
    <3>3. InRange(kind, Aliased(kind, list, name))
      BY <3>2 DEF Aliased, Hits
    <3> QED
      BY <1>2, <3>3 DEF InRange
  <2> QED
    BY <1>1, <1>2, <2>1 DEF Hits, At
<1>3. CASE Aliased(kind, list, name) # 0
  BY <1>3, AliasedIs
<1> QED
  BY <1>2, <1>3

\* It is the id of the first entry that has the name, if that is in range.
LEMMA AliasedFirst ==
  ASSUME NEW kind, NEW list \in Seq(Item), NEW at \in 1 .. Len(list), InRange(kind, list[at].id),
         \A i \in 1 .. Len(list) : i < at => list[i].name # list[at].name
  PROVE  Aliased(kind, list, list[at].name) = list[at].id
<1> DEFINE H == Hits(kind, list, list[at].name)
<1>1. DOMAIN list = 1 .. Len(list) /\ Len(list) \in Nat
  BY ListIs
<1>2. at \in H /\ H \subseteq Nat /\ \A j \in H : at <= j
  BY <1>1 DEF Hits, At
<1>3. First(H) = at
  <2> HIDE DEF H
  <2> QED
    BY <1>2, FirstIs
<1> QED
  BY <1>2, <1>3 DEF Aliased, Hits

\* What comes behind counts if nothing before it does.
LEMMA AliasedBehind ==
  ASSUME NEW kind, NEW a \in Seq(Item), NEW b \in Seq(Item), NEW name
  PROVE  Aliased(kind, a \o b, name)
           = IF Aliased(kind, a, name) # 0 THEN Aliased(kind, a, name) ELSE Aliased(kind, b, name)
<1> DEFINE all == a \o b
           n == Len(a)
           m == Len(b)
           H == Hits(kind, a, name)
           K == Hits(kind, b, name)
           G == Hits(kind, all, name)
<1>1. /\ n \in Nat /\ DOMAIN a = 1 .. n /\ m \in Nat /\ DOMAIN b = 1 .. m
      /\ all \in Seq(Item) /\ Len(all) = n + m
      /\ \A i \in 1 .. n + m : all[i] = IF i <= n THEN a[i] ELSE b[i - n]
  BY ConcatProperties, ListIs
<1> HIDE DEF all, n, m
<1>2. DOMAIN all = 1 .. n + m
  BY <1>1, ListIs
<1>3. \A i \in 1 .. n : all[i] = a[i]
  BY <1>1
<1>4. ASSUME NEW i \in 1 .. m PROVE all[n + i] = b[i]
  <2> DEFINE j == n + i
  <2>1. j \in 1 .. n + m /\ ~ (j <= n) /\ j - n = i
    BY <1>1
  <2> HIDE DEF j
  <2> QED
    BY <1>1, <2>1 DEF j
<1>5. /\ H \subseteq 1 .. n /\ K \subseteq 1 .. m /\ G \subseteq 1 .. n + m
      /\ \A i \in 1 .. n : i \in G <=> i \in H
      /\ \A i \in 1 .. m : n + i \in G <=> i \in K
  <2>1. H \subseteq 1 .. n /\ K \subseteq 1 .. m /\ G \subseteq 1 .. n + m
    BY <1>1, <1>2 DEF Hits, At
  <2>2. \A i \in 1 .. n : i \in 1 .. n + m
    BY <1>1
  <2>3. \A i \in 1 .. n : i \in G <=> i \in H
    BY <1>1, <1>2, <1>3, <2>2 DEF Hits, At
  <2>4. \A i \in 1 .. m : n + i \in 1 .. n + m
    BY <1>1
  <2>5. \A i \in 1 .. m : n + i \in G <=> i \in K
    BY <1>1, <1>2, <1>4, <2>4 DEF Hits, At
  <2> QED
    BY <2>1, <2>3, <2>5
<1>6. H \subseteq Nat /\ K \subseteq Nat /\ G \subseteq Nat
  BY <1>1, <1>5
<1>7. /\ Aliased(kind, all, name) = IF G = {} THEN 0 ELSE all[First(G)].id
      /\ Aliased(kind, a, name) = IF H = {} THEN 0 ELSE a[First(H)].id
      /\ Aliased(kind, b, name) = IF K = {} THEN 0 ELSE b[First(K)].id
  BY DEF Aliased, Hits
<1>8. Aliased(kind, a, name) = 0 <=> H = {}
  BY <1>1, AliasedNone DEF Hits, At, n
<1> HIDE DEF G, H, K
<1>9. CASE H # {}
  <2>1. First(H) \in H /\ \A j \in H : First(H) <= j
    BY <1>6, <1>9, FirstIsLeast
  <2>2. First(H) \in G /\ \A j \in G : First(H) <= j
    <3> DEFINE i == First(H)
    <3>1. i \in 1 .. n /\ i \in G /\ \A j \in H : i <= j
      BY <1>5, <2>1
    <3> HIDE DEF i
    <3>2. ASSUME NEW j \in G PROVE i <= j
      <4>1. j \in 1 .. n + m
        BY <1>5
      <4>2. CASE j \in 1 .. n
        BY <1>5, <3>1, <4>2
      <4>3. CASE j \notin 1 .. n
        BY <1>1, <3>1, <4>1, <4>3
      <4> QED
        BY <4>2, <4>3
    <3> QED
      BY <3>1, <3>2 DEF i
  <2>3. First(G) = First(H)
    BY <1>6, <2>2, FirstIs
  <2>4. all[First(H)] = a[First(H)]
    BY <1>3, <1>5, <2>1
  <2> QED
    BY <1>7, <1>8, <1>9, <2>2, <2>3, <2>4 DEF all
<1>10. CASE H = {} /\ K # {}
  <2>1. First(K) \in K /\ \A j \in K : First(K) <= j
    BY <1>6, <1>10, FirstIsLeast
  <2> DEFINE k == First(K)
             i == n + k
  <2> HIDE DEF k
  <2>2. k \in 1 .. m /\ i \in G /\ \A j \in K : k <= j
    BY <1>5, <2>1 DEF k
  <2>3. ASSUME NEW j \in G PROVE i <= j
    <3>1. j \in 1 .. n + m /\ j \notin 1 .. n
      BY <1>5, <1>10
    <3>2. j - n \in 1 .. m /\ n + (j - n) = j
      BY <1>1, <3>1
    <3>3. k <= j - n
      BY <1>5, <2>2, <3>2
    <3> QED
      BY <1>1, <2>2, <3>1, <3>3
  <2> HIDE DEF i
  <2>4. First(G) = i
    BY <1>6, <2>2, <2>3, FirstIs
  <2>5. all[i] = b[k]
    BY <1>4, <2>2 DEF i
  <2> QED
    BY <1>7, <1>8, <1>10, <2>2, <2>4, <2>5 DEF all, k
<1>11. CASE H = {} /\ K = {}
  <2>1. G = {}
    <3> SUFFICES ASSUME NEW j \in G PROVE FALSE
      OBVIOUS
    <3>1. j \in 1 .. n + m /\ j \notin 1 .. n
      BY <1>5, <1>11
    <3>2. j - n \in 1 .. m /\ n + (j - n) = j
      BY <1>1, <3>1
    <3> QED
      BY <1>5, <1>11, <3>2
  <2> QED
    BY <1>7, <1>8, <1>11, <2>1 DEF all
<1> QED
  BY <1>9, <1>10, <1>11

PartId(kind, p, i, name) == IF i \in DOMAIN p THEN Aliased(kind, p[i], name) ELSE 0

\* Parts that have the same id for a name, place by place, have the same joined.
LEMMA AliasedJoined ==
  ASSUME NEW kind, NEW name, NEW p, PartsOf(p, Item), NEW q, PartsOf(q, Item), NEW last \in Nat,
         \A i \in 1 .. last : PartId(kind, p, i, name) = PartId(kind, q, i, name)
  PROVE  Aliased(kind, Joined(p, last), name) = Aliased(kind, Joined(q, last), name)
<1> DEFINE Id(r, n) == Aliased(kind, Joined(r, n), name)
           P == {n \in Nat : n <= last => Id(p, n) = Id(q, n)}
<1>1. 0 \in P
  <2>1. Joined(p, 0) = <<>> /\ Joined(q, 0) = <<>>
    BY JoinedMore DEF PartsOf
  <2> QED
    BY <2>1
<1>2. ASSUME NEW r, PartsOf(r, Item), NEW n \in Nat
      PROVE  Id(r, n + 1) = IF Id(r, n) # 0 THEN Id(r, n) ELSE PartId(kind, r, n + 1, name)
  <2> DEFINE a == Joined(r, n)
             b == r[n + 1]
  <2>1. /\ a \in Seq(Item)
        /\ Joined(r, n + 1) = IF n + 1 \in DOMAIN r THEN a \o b ELSE a
    BY <1>2, JoinedMore DEF PartsOf
  <2>2. CASE n + 1 \in DOMAIN r
    <3>1. b \in Seq(Item)
      BY <1>2, <2>2 DEF PartsOf
    <3>2. Joined(r, n + 1) = a \o b
      BY <2>1, <2>2
    <3>3. PartId(kind, r, n + 1, name) = Aliased(kind, b, name)
      BY <2>2 DEF PartId
    <3> HIDE DEF b
    <3>4. Aliased(kind, a \o b, name) = IF Id(r, n) # 0 THEN Id(r, n) ELSE Aliased(kind, b, name)
      <4> HIDE DEF a
      <4>1. Aliased(kind, a \o b, name) = IF Aliased(kind, a, name) # 0 THEN Aliased(kind, a, name)
                                          ELSE Aliased(kind, b, name)
        BY <2>1, <3>1, AliasedBehind
      <4> QED
        BY <4>1 DEF a
    <3> QED
      BY <3>2, <3>3, <3>4
  <2>3. CASE n + 1 \notin DOMAIN r
    BY <2>1, <2>3 DEF PartId
  <2> QED
    BY <2>2, <2>3
<1>3. ASSUME NEW n \in Nat, n \in P PROVE n + 1 \in P
  <2> SUFFICES ASSUME n + 1 <= last PROVE Id(p, n + 1) = Id(q, n + 1)
    OBVIOUS
  <2>1. n + 1 \in 1 .. last /\ Id(p, n) = Id(q, n)
    BY <1>3
  <2>2. PartId(kind, p, n + 1, name) = PartId(kind, q, n + 1, name)
    BY <2>1
  <2> HIDE DEF Id
  <2> QED
    BY <1>2, <2>1, <2>2
<1>4. Nat \subseteq P
  <2> HIDE DEF P
  <2> QED
    BY <1>1, <1>3, SetInduction
<1>5. last \in P
  BY <1>4
<1> QED
  BY <1>5

\* A list of one entry.
LEMMA AliasedOne ==
  ASSUME NEW kind, NEW e \in Item, NEW name, e.name # name
  PROVE  Aliased(kind, <<e>>, name) = 0
<1>1. <<e>> \in Seq(Item) /\ Len(<<e>>) = 1 /\ <<e>>[1] = e
  OBVIOUS
<1> DEFINE list == <<e>>
<1>2. list \in Seq(Item) /\ \A i \in 1 .. Len(list) : list[i].name # name
  BY <1>1
<1> HIDE DEF list
<1>3. Aliased(kind, list, name) = 0
  BY <1>2, AliasedNone
<1> QED
  BY <1>3 DEF list

-----------------------------------------------------------------------------
(* What a list gives *)

\* One list behind another gives what both give.
LEMMA GivenBehind ==
  ASSUME NEW kind, NEW S, NEW a \in Seq(Item), NEW b \in Seq(Item),
         GivenBy(kind, a) \subseteq S, GivenBy(kind, b) \subseteq S
  PROVE  GivenBy(kind, a \o b) \subseteq S
<1> DEFINE all == a \o b
<1>1. /\ Len(a) \in Nat /\ DOMAIN a = 1 .. Len(a) /\ Len(b) \in Nat /\ DOMAIN b = 1 .. Len(b)
      /\ all \in Seq(Item) /\ Len(all) = Len(a) + Len(b)
      /\ \A i \in 1 .. Len(a) + Len(b) : all[i] = IF i <= Len(a) THEN a[i] ELSE b[i - Len(a)]
  BY ConcatProperties, ListIs
<1> HIDE DEF all
<1>2. DOMAIN all = 1 .. Len(a) + Len(b)
  BY <1>1, ListIs
<1>3. ASSUME NEW i \in DOMAIN all PROVE <<kind, all[i].name, all[i].id>> \in S
  <2>1. CASE i <= Len(a)
    <3>1. i \in DOMAIN a /\ all[i] = a[i]
      BY <1>1, <1>2, <2>1
    <3> QED
      BY <3>1 DEF GivenBy
  <2>2. CASE ~ (i <= Len(a))
    <3>1. i - Len(a) \in DOMAIN b /\ all[i] = b[i - Len(a)]
      BY <1>1, <1>2, <2>2
    <3> QED
      BY <3>1 DEF GivenBy
  <2> QED
    BY <2>1, <2>2
<1>4. GivenBy(kind, all) \subseteq S
  BY <1>3 DEF GivenBy
<1> QED
  BY <1>4 DEF all

\* Parts give, joined, no more than they give.
LEMMA GivenJoined ==
  ASSUME NEW kind, NEW S, NEW p, PartsOf(p, Item), NEW last \in Nat,
         \A i \in DOMAIN p : GivenBy(kind, p[i]) \subseteq S
  PROVE  GivenBy(kind, Joined(p, last)) \subseteq S
<1> DEFINE P == {n \in Nat : GivenBy(kind, Joined(p, n)) \subseteq S}
<1>1. 0 \in P
  <2>1. Joined(p, 0) = <<>>
    BY JoinedMore DEF PartsOf
  <2> QED
    BY <2>1 DEF GivenBy
<1>2. ASSUME NEW n \in Nat, n \in P PROVE n + 1 \in P
  <2> SUFFICES GivenBy(kind, Joined(p, n + 1)) \subseteq S
    OBVIOUS
  <2> DEFINE a == Joined(p, n)
             b == p[n + 1]
  <2>1. a \in Seq(Item) /\ Joined(p, n + 1) = IF n + 1 \in DOMAIN p THEN a \o b ELSE a
    BY JoinedMore DEF PartsOf
  <2>2. GivenBy(kind, a) \subseteq S
    BY <1>2
  <2>3. CASE n + 1 \in DOMAIN p
    <3>1. b \in Seq(Item) /\ GivenBy(kind, b) \subseteq S /\ Joined(p, n + 1) = a \o b
      BY <2>1, <2>3 DEF PartsOf
    <3>2. GivenBy(kind, a \o b) \subseteq S
      <4> HIDE DEF a, b
      <4> QED
        BY <2>1, <2>2, <3>1, GivenBehind
    <3> HIDE DEF a, b
    <3> QED
      BY <3>1, <3>2
  <2>4. CASE n + 1 \notin DOMAIN p
    BY <2>1, <2>2, <2>4
  <2> QED
    BY <2>3, <2>4
<1>3. Nat \subseteq P
  <2> HIDE DEF P
  <2> QED
    BY <1>1, <1>2, SetInduction
<1>4. last \in P
  BY <1>3
<1> QED
  BY <1>4

\* Entries that read back are entries.
LEMMA LegibleSeq ==
  /\ \A list \in Seq(Legible) : list \in Seq(Item) /\ \A i \in DOMAIN list : list[i] \in Legible
  /\ \A p : PartsOf(p, Legible) => PartsOf(p, Item)
<1>1. Legible \subseteq Item
  BY DEF Legible
<1>2. \A list \in Seq(Legible) : list \in Seq(Item)
  BY <1>1, SeqMonotonic
<1> QED
  BY <1>2 DEF PartsOf

\* What is written gives no more than its lines read back as.
LEMMA GivenWritten ==
  ASSUME NEW kind, NEW S, NEW list \in Seq(Item),
         \A i \in DOMAIN list : GivenBy(kind, Parsed(WriteLine(list[i]))) \subseteq S
  PROVE  GivenBy(kind, Parsed(Written(list))) \subseteq S
<1> DEFINE back == [i \in DOMAIN list |-> Parsed(WriteLine(list[i]))]
<1>1. PartsOf(back, Item) /\ Parsed(Written(list)) = Joined(back, Len(list))
  BY WrittenReads, LegibleSeq
<1>2. \A i \in DOMAIN back : GivenBy(kind, back[i]) \subseteq S
  OBVIOUS
<1> HIDE DEF back
<1>3. GivenBy(kind, Joined(back, Len(list))) \subseteq S
  BY <1>1, <1>2, ListIs, GivenJoined
<1> QED
  BY <1>1, <1>3

-----------------------------------------------------------------------------
(* Setting and deleting *)

\* An entry has its place in a list, before which no entry has its name, and all
\* others have kept theirs.
Placed(list, e, new, at) ==
  /\ at \in 1 .. Len(new) /\ new[at] = e
  /\ Len(new) = IF at <= Len(list) THEN Len(list) ELSE Len(list) + 1
  /\ \A i \in 1 .. Len(new) : i # at => i <= Len(list) /\ new[i] = list[i]
  /\ \A i \in 1 .. Len(list) : i < at => list[i].name # e.name
  /\ at <= Len(list) => list[at].name = e.name

\* An update puts the entry there.
LEMMA UpdatedPlace ==
  ASSUME NEW list \in Seq(Item), NEW e \in Item
  PROVE  Updated(list, e) \in Seq(Item) /\ \E at \in Nat : Placed(list, e, Updated(list, e), at)
<1> DEFINE S == At(list, e.name)
<1>1. /\ Len(list) \in Nat /\ DOMAIN list = 1 .. Len(list) /\ S \subseteq 1 .. Len(list)
      /\ \A i \in 1 .. Len(list) : i \in S <=> list[i].name = e.name
  BY ListIs DEF At
<1>2. CASE S = {}
  <2> DEFINE new == Append(list, e)
             at == Len(list) + 1
  <2>1. /\ new \in Seq(Item) /\ Len(new) = at /\ new[at] = e
        /\ \A i \in 1 .. Len(list) : new[i] = list[i]
    OBVIOUS
  <2>2. \A i \in 1 .. at : i # at => i \in 1 .. Len(list)
    BY <1>1
  <2>3. at \in Nat /\ at \in 1 .. at /\ ~ (at <= Len(list))
    BY <1>1
  <2>4. Updated(list, e) = new
    BY <1>2 DEF Updated
  <2> HIDE DEF new, at
  <2>5. Placed(list, e, new, at)
    BY <1>1, <1>2, <2>1, <2>2, <2>3 DEF Placed, at
  <2> QED
    BY <2>1, <2>3, <2>4, <2>5
<1>3. CASE S # {}
  <2> DEFINE at == First(S)
             new == [list EXCEPT ![at] = e]
  <2>1. at \in S /\ \A j \in S : at <= j
    <3>1. S \subseteq Nat
      BY <1>1
    <3> HIDE DEF S
    <3> QED
      BY <1>3, <3>1, FirstIsLeast
  <2>2. Updated(list, e) = new
    BY <1>3 DEF Updated
  <2> HIDE DEF S, at
  <2>3. at \in 1 .. Len(list) /\ list[at].name = e.name
    BY <1>1, <2>1
  <2>4. /\ new \in Seq(Item) /\ Len(new) = Len(list) /\ new[at] = e
        /\ \A i \in 1 .. Len(list) : i # at => new[i] = list[i]
    BY <2>3
  <2>5. \A i \in 1 .. Len(list) : i < at => list[i].name # e.name
    BY <1>1, <2>1, <2>3
  <2> HIDE DEF new
  <2>6. Placed(list, e, new, at)
    BY <1>1, <2>3, <2>4, <2>5 DEF Placed
  <2> QED
    BY <1>1, <2>2, <2>3, <2>4, <2>6
<1> QED
  BY <1>2, <1>3

\* The name has the id of the entry then.
LEMMA UpdatedSets ==
  ASSUME NEW kind, NEW list \in Seq(Item), NEW e \in Item, InRange(kind, e.id)
  PROVE  Aliased(kind, Updated(list, e), e.name) = e.id
<1> DEFINE new == Updated(list, e)
<1>1. new \in Seq(Item)
  BY UpdatedPlace
<1>2. PICK at \in Nat : Placed(list, e, new, at)
  BY UpdatedPlace
<1> HIDE DEF new
<1>3. Len(list) \in Nat /\ Len(new) \in Nat
  BY <1>1, ListIs
<1>4. at \in 1 .. Len(new) /\ new[at] = e
  BY <1>2 DEF Placed
<1>5. \A i \in 1 .. Len(new) : i < at => new[i].name # e.name
  <2> SUFFICES ASSUME NEW i \in 1 .. Len(new), i < at PROVE new[i].name # e.name
    OBVIOUS
  <2>1. i # at
    BY <1>3, <1>4
  <2>2. i <= Len(list) /\ new[i] = list[i]
    BY <1>2, <2>1 DEF Placed
  <2>3. i \in 1 .. Len(list)
    BY <1>3, <2>2
  <2> QED
    BY <1>2, <2>2, <2>3 DEF Placed
<1>6. Aliased(kind, new, new[at].name) = new[at].id
  BY <1>1, <1>4, <1>5, AliasedFirst
<1> QED
  BY <1>4, <1>6 DEF new

\* A list with an entry gives what both give, in memory and read back.
LEMMA UpdatedGives ==
  ASSUME NEW kind, NEW S, NEW list \in Seq(Legible), NEW e \in Item,
         GivenBy(kind, list) \subseteq S, <<kind, e.name, e.id>> \in S,
         GivenBy(kind, Parsed(WriteLine(e))) \subseteq S
  PROVE  /\ Updated(list, e) \in Seq(Item)
         /\ GivenBy(kind, Updated(list, e)) \subseteq S
         /\ GivenBy(kind, Parsed(Written(Updated(list, e)))) \subseteq S
<1> DEFINE new == Updated(list, e)
<1>1. /\ list \in Seq(Item) /\ \A i \in DOMAIN list : list[i] \in Legible
      /\ Legible \subseteq Item
  BY LegibleSeq DEF Legible
<1>2. new \in Seq(Item)
  BY <1>1, UpdatedPlace
<1>3. PICK at \in Nat : Placed(list, e, new, at)
  BY <1>1, UpdatedPlace
<1> HIDE DEF new
<1>4. Len(list) \in Nat /\ DOMAIN list = 1 .. Len(list) /\ DOMAIN new = 1 .. Len(new)
  BY <1>1, <1>2, ListIs
<1>5. ASSUME NEW i \in DOMAIN new
      PROVE  new[i] = e \/ (i \in DOMAIN list /\ new[i] = list[i])
  BY <1>3, <1>4, <1>5 DEF Placed
<1>6. ASSUME NEW i \in DOMAIN list PROVE <<kind, list[i].name, list[i].id>> \in S
  BY DEF GivenBy
<1>7. GivenBy(kind, new) \subseteq S
  BY <1>5, <1>6 DEF GivenBy
<1>8. ASSUME NEW i \in DOMAIN new PROVE GivenBy(kind, Parsed(WriteLine(new[i]))) \subseteq S
  <2>1. CASE new[i] = e
    BY <2>1
  <2>2. CASE i \in DOMAIN list /\ new[i] = list[i]
    <3> DEFINE d == list[i]
    <3>1. d \in Legible /\ d \in Item /\ <<kind, d.name, d.id>> \in S /\ new[i] = d
      BY <1>1, <1>6, <2>2
    <3> HIDE DEF d
    <3>2. Parsed(WriteLine(d)) = <<d>>
      BY <3>1, WriteLineIs
    <3>3. GivenBy(kind, <<d>>) \subseteq S
      BY <3>1 DEF GivenBy
    <3> QED
      BY <3>1, <3>2, <3>3
  <2> QED
    BY <1>5, <2>1, <2>2
<1>9. GivenBy(kind, Parsed(Written(new))) \subseteq S
  BY <1>2, <1>8, GivenWritten
<1> QED
  BY <1>2, <1>7, <1>9 DEF new

\* Written and read back, it has the ids it had, but for the name of the entry and
\* those its line reads back as.
LEMMA UpdatedSpares ==
  ASSUME NEW kind, NEW list \in Seq(Legible), NEW e \in Item, NEW n, n # e.name,
         At(Parsed(WriteLine(e)), n) = {}
  PROVE  Aliased(kind, Parsed(Written(Updated(list, e))), n) = Aliased(kind, list, n)
<1> DEFINE new == Updated(list, e)
           back == [i \in DOMAIN new |-> Parsed(WriteLine(new[i]))]
           members == [i \in DOMAIN list |-> <<list[i]>>]
<1>1. /\ list \in Seq(Item) /\ \A i \in DOMAIN list : list[i] \in Legible
      /\ Legible \subseteq Item
  BY LegibleSeq DEF Legible
<1>2. new \in Seq(Item)
  BY <1>1, UpdatedPlace
<1>3. PICK at \in Nat : Placed(list, e, new, at)
  BY <1>1, UpdatedPlace
<1> HIDE DEF new
<1>4. /\ Len(list) \in Nat /\ DOMAIN list = 1 .. Len(list)
      /\ Len(new) \in Nat /\ DOMAIN new = 1 .. Len(new)
  BY <1>1, <1>2, ListIs
<1>5. PartsOf(back, Item) /\ Parsed(Written(new)) = Joined(back, Len(new))
  BY <1>2, WrittenReads, LegibleSeq
<1>6. PartsOf(members, Item)
  BY <1>1, <1>4 DEF PartsOf
<1>7. Joined(members, Len(list)) = list
  BY <1>1, JoinedMembers
<1>8. Joined(members, Len(new)) = list
  <2>1. Len(list) <= Len(new)
    BY <1>3, <1>4 DEF Placed
  <2>2. \A i \in Len(list) + 1 .. Len(new) : i \notin DOMAIN members
    BY <1>4
  <2>3. \A i \in DOMAIN members : members[i] \in Seq(Item)
    BY <1>6 DEF PartsOf
  <2> HIDE DEF members
  <2>4. Joined(members, Len(new)) = Joined(members, Len(list))
    BY <1>4, <2>1, <2>2, <2>3, JoinedSame
  <2> QED
    BY <1>7, <2>4
<1>9. ASSUME NEW i \in 1 .. Len(new) PROVE PartId(kind, back, i, n) = PartId(kind, members, i, n)
  <2>1. CASE i # at
    <3>1. i \in DOMAIN list /\ new[i] = list[i]
      BY <1>3, <1>4, <2>1 DEF Placed
    <3> DEFINE d == list[i]
    <3>2. d \in Legible /\ d \in Item
      BY <1>1, <3>1
    <3>3. Parsed(WriteLine(d)) = <<d>>
      <4> HIDE DEF d
      <4> QED
        BY <3>2, WriteLineIs
    <3>4. back[i] = members[i] /\ i \in DOMAIN back /\ i \in DOMAIN members
      BY <1>4, <3>1, <3>3
    <3> HIDE DEF back, members
    <3> QED
      BY <3>4 DEF PartId
  <2>2. CASE i = at
    <3>1. new[i] = e
      BY <1>3, <2>2 DEF Placed
    <3>2. PartId(kind, back, i, n) = 0
      <4>1. back[i] = Parsed(WriteLine(e)) /\ i \in DOMAIN back
        BY <1>4, <3>1
      <4>2. Aliased(kind, Parsed(WriteLine(e)), n) = 0
        BY DEF Aliased
      <4> HIDE DEF back
      <4> QED
        BY <4>1, <4>2 DEF PartId
    <3>3. CASE i <= Len(list)
      <4> DEFINE d == list[i]
      <4>1. i \in DOMAIN list /\ d.name = e.name
        BY <1>3, <1>4, <2>2, <3>3 DEF Placed
      <4>2. d \in Item /\ members[i] = <<d>> /\ i \in DOMAIN members
        BY <1>1, <4>1
      <4> HIDE DEF d, members
      <4>3. Aliased(kind, <<d>>, n) = 0
        BY <4>1, <4>2, AliasedOne
      <4> QED
        BY <3>2, <4>2, <4>3 DEF PartId
    <3>4. CASE ~ (i <= Len(list))
      <4>1. i \notin DOMAIN members
        BY <1>4, <3>4
      <4> QED
        BY <3>2, <4>1 DEF PartId
    <3> QED
      BY <3>3, <3>4
  <2> QED
    BY <2>1, <2>2
<1> HIDE DEF back, members
<1>10. Aliased(kind, Joined(back, Len(new)), n) = Aliased(kind, Joined(members, Len(new)), n)
  BY <1>4, <1>5, <1>6, <1>9, AliasedJoined
<1> QED
  BY <1>5, <1>8, <1>10 DEF new

\* One list has no id for a name, and for the others those of the other.
Lacks(kind, new, name, list) ==
  /\ Aliased(kind, new, name) = 0
  /\ \A n : n # name => Aliased(kind, new, n) = Aliased(kind, list, n)

\* A list without a name has no id for it, and for the others those it had.
LEMMA WithoutIs ==
  ASSUME NEW kind, NEW list \in Seq(Legible), NEW name
  PROVE  /\ Without(list, name) \in Seq(Legible)
         /\ Lacks(kind, Without(list, name), name, list)
         /\ \A S : GivenBy(kind, list) \subseteq S => GivenBy(kind, Without(list, name)) \subseteq S
<1> DEFINE kept == [i \in DOMAIN list \ At(list, name) |-> <<list[i]>>]
           members == [i \in DOMAIN list |-> <<list[i]>>]
           none == <<>>
           last == Len(list)
<1>1. /\ list \in Seq(Item) /\ \A i \in DOMAIN list : list[i] \in Legible
      /\ Legible \subseteq Item
  BY LegibleSeq DEF Legible
<1>2. last \in Nat /\ DOMAIN list = 1 .. last
  BY <1>1, ListIs
<1>3. PartsOf(kept, Legible) /\ PartsOf(members, Item) /\ PartsOf(none, Item)
  BY <1>1 DEF PartsOf
<1>4. PartsOf(kept, Item)
  BY <1>3, LegibleSeq
<1>5. Without(list, name) = Joined(kept, last)
  BY DEF Without
<1>6. Joined(members, last) = list
  BY <1>1, JoinedMembers
<1>7. Joined(none, last) = <<>>
  <2>1. \A i \in DOMAIN none : none[i] \in Seq(Item)
    BY <1>3 DEF PartsOf
  <2>2. 0 \in Nat /\ 0 <= last /\ \A i \in 0 + 1 .. last : i \notin DOMAIN none
    BY <1>2
  <2> HIDE DEF none, last
  <2>3. Joined(none, 0) = <<>>
    BY <2>1, <2>2, JoinedMore
  <2>4. Joined(none, last) = Joined(none, 0)
    BY <1>2, <2>1, <2>2, JoinedSame
  <2> QED
    BY <2>3, <2>4
<1>8. /\ \A i \in DOMAIN kept : i \in DOMAIN list /\ list[i].name # name /\ kept[i] = <<list[i]>>
      /\ \A i \in DOMAIN list : list[i].name # name => i \in DOMAIN kept
      /\ DOMAIN members = DOMAIN list /\ \A i \in DOMAIN list : members[i] = <<list[i]>>
      /\ \A i : i \notin DOMAIN none
  BY DEF At
<1>9. ASSUME NEW i \in DOMAIN list, NEW n, list[i].name # n PROVE Aliased(kind, <<list[i]>>, n) = 0
  <2> DEFINE d == list[i]
  <2>1. d \in Item /\ d.name # n
    BY <1>1, <1>9
  <2> HIDE DEF d
  <2>2. Aliased(kind, <<d>>, n) = 0
    BY <2>1, AliasedOne
  <2> QED
    BY <2>2 DEF d
<1>10. Joined(kept, last) \in Seq(Legible)
  <2> HIDE DEF kept
  <2> QED
    BY <1>2, <1>3, JoinedMore DEF PartsOf
<1>14. ASSUME NEW S, GivenBy(kind, list) \subseteq S, NEW i \in DOMAIN kept
       PROVE  GivenBy(kind, kept[i]) \subseteq S
  <2> DEFINE d == list[i]
  <2>1. kept[i] = <<d>> /\ <<kind, d.name, d.id>> \in S
    BY <1>8, <1>14 DEF GivenBy
  <2> HIDE DEF d
  <2> QED
    BY <2>1 DEF GivenBy
<1> HIDE DEF kept, members, none, last
<1>11. Aliased(kind, Joined(kept, last), name) = 0
  <2>1. \A i \in 1 .. last : PartId(kind, kept, i, name) = PartId(kind, none, i, name)
    BY <1>8, <1>9 DEF PartId
  <2>2. Aliased(kind, Joined(kept, last), name) = Aliased(kind, Joined(none, last), name)
    BY <1>2, <1>3, <1>4, <2>1, AliasedJoined
  <2>3. Aliased(kind, <<>>, name) = 0
    BY DEF Aliased, At
  <2> QED
    BY <1>7, <2>2, <2>3
<1>12. ASSUME NEW n, n # name
       PROVE  Aliased(kind, Joined(kept, last), n) = Aliased(kind, Joined(members, last), n)
  <2>1. \A i \in 1 .. last : PartId(kind, kept, i, n) = PartId(kind, members, i, n)
    <3> SUFFICES ASSUME NEW i \in 1 .. last
                 PROVE  PartId(kind, kept, i, n) = PartId(kind, members, i, n)
      OBVIOUS
    <3>1. CASE list[i].name # name
      BY <1>2, <1>8, <3>1 DEF PartId
    <3>2. CASE list[i].name = name
      BY <1>2, <1>8, <1>9, <1>12, <3>2 DEF PartId
    <3> QED
      BY <3>1, <3>2
  <2> QED
    BY <1>2, <1>3, <1>4, <2>1, AliasedJoined
<1>13. ASSUME NEW S, GivenBy(kind, list) \subseteq S
       PROVE  GivenBy(kind, Joined(kept, last)) \subseteq S
  BY <1>2, <1>4, <1>13, <1>14, GivenJoined
<1>15. Lacks(kind, Without(list, name), name, list)
  BY <1>5, <1>6, <1>11, <1>12 DEF Lacks
<1> QED
  BY <1>5, <1>10, <1>13, <1>15

-----------------------------------------------------------------------------
(* Looking up, and two writers of one file *)

\* What a name resolves to is in range, and given to it by the map unless it is the
\* number the name is.
LEMMA ResolvedIs ==
  ASSUME NEW kind \in Kinds, NEW text \in Text, NEW name \in Names
  PROVE  LET id == Resolved(kind, text, name)
             alias == Aliased(kind, Parsed(text), Spelled[name])
         IN  /\ id \in 0 .. MaxId[kind]
             /\ id # 0 => /\ id = IF alias # 0 THEN alias ELSE Number[name]
                          /\ \/ <<kind, Spelled[name], id>> \in GivenBy(kind, Parsed(text))
                             \/ id = Number[name]
<1> DEFINE list == Parsed(text)
           n == Spelled[name]
           alias == Aliased(kind, list, n)
<1>1. list \in Seq(Item)
  BY ParsedIs, LegibleSeq
<1>2. MaxId[kind] \in Nat
  BY AliasMapAssumption
<1>3. ASSUME alias # 0
      PROVE  alias \in 1 .. MaxId[kind] /\ <<kind, n, alias>> \in GivenBy(kind, list)
  <2> HIDE DEF list, n
  <2>1. PICK i \in 1 .. Len(list) :
          list[i].name = n /\ list[i].id = alias /\ InRange(kind, list[i].id)
    BY <1>1, <1>3, AliasedIs
  <2>2. i \in DOMAIN list
    BY <1>1, <2>1, ListIs
  <2>3. <<kind, list[i].name, list[i].id>> \in GivenBy(kind, list)
    BY <2>2 DEF GivenBy
  <2>4. alias \in 1 .. MaxId[kind]
    BY <2>1 DEF InRange
  <2> QED
    BY <2>1, <2>3, <2>4
<1>4. Resolved(kind, text, name) =
        IF alias # 0 THEN alias ELSE IF Number[name] \in 1 .. MaxId[kind] THEN Number[name] ELSE 0
  BY DEF Resolved, InRange
<1> HIDE DEF alias
<1>5. Resolved(kind, text, name) \in 0 .. MaxId[kind]
  BY <1>2, <1>3, <1>4
<1>6. Resolved(kind, text, name) # 0 => Resolved(kind, text, name) = IF alias # 0 THEN alias ELSE Number[name]
  BY <1>4
<1> HIDE DEF list, n
<1>7. Resolved(kind, text, name) # 0 =>
        <<kind, n, Resolved(kind, text, name)>> \in GivenBy(kind, list) \/ Resolved(kind, text, name) = Number[name]
  BY <1>3, <1>6
<1> QED
  BY <1>5, <1>6, <1>7 DEF alias, list, n

\* A text over another is a text, and over nothing it is itself.
LEMMA OverlaidIs ==
  ASSUME NEW new \in Text, NEW old \in Text
  PROVE  Overlaid(new, old) \in Text /\ Overlaid(new, <<>>) = new
<1>1. Len(new) \in Nat /\ Len(old) \in Nat /\ new \in Seq(Chars) /\ old \in Seq(Chars)
  BY DEF Text
<1>2. SubSeq(old, Len(new) + 1, Len(old)) \in Seq(Chars)
  <2>1. /\ Len(new) + 1 \in Int /\ Len(old) \in Int
        /\ \A i \in Len(new) + 1 .. Len(old) : old[i] \in Chars
    BY <1>1
  <2> QED
    BY <2>1, SubSeqProperties
<1>3. Overlaid(new, old) \in Text
  BY <1>1, <1>2, ConcatProperties DEF Overlaid, Text
<1>4. SubSeq(<<>>, Len(new) + 1, Len(<<>>)) = <<>>
  <2> DEFINE none == <<>>
             a == Len(new) + 1
  <2>1. none \in Seq(Chars) /\ Len(none) = 0 /\ a \in Nat /\ 0 < a
    BY <1>1
  <2> HIDE DEF none, a
  <2>2. SubSeq(none, a, 0) = <<>>
    BY <2>1, SubSeqEmpty
  <2> QED
    BY <2>1, <2>2 DEF none, a
<1>5. Overlaid(new, <<>>) = new
  BY <1>1, <1>4, ConcatEmptySeq DEF Overlaid
<1> QED
  BY <1>3, <1>5

-----------------------------------------------------------------------------
(* The places of a line *)

\* A table says of each option how many words it takes.
IsTable(table) == \A o \in DOMAIN table : table[o].takes \in Nat /\ table[o].last \in BOOLEAN

\* Every word takes a place of its own and those of its values.
LEMMA ExtentIs ==
  ASSUME NEW table, IsTable(table), NEW word
  PROVE  Extent(table, word) \in Nat \ {0}
<1>1. CASE word \in Dashed \cap DOMAIN table /\ word \notin DOMAIN Equals \cup {"--"}
  <2>1. table[word].takes \in Nat
    BY <1>1 DEF IsTable
  <2> QED
    BY <1>1, <2>1 DEF Extent
<1>2. CASE ~ (word \in Dashed \cap DOMAIN table /\ word \notin DOMAIN Equals \cup {"--"})
  <2>1. Extent(table, word) = 1
    BY <1>2 DEF Extent
  <2> QED
    BY <2>1
<1> QED
  BY <1>1, <1>2

\* S are the heads among the first n places.
AreHeads(table, line, S, n) ==
  \A i \in 1 .. n : i \in S <=> \A j \in S : j < i => j + Extent(table, line[j]) <= i

\* Every line has its heads: whether a place is one depends on those before it.
LEMMA HeadsAre ==
  ASSUME NEW table, NEW line \in Seq(STRING)
  PROVE  /\ Heads(table, line) \subseteq 1 .. Len(line)
         /\ AreHeads(table, line, Heads(table, line), Len(line))
<1> DEFINE last == Len(line)
           P == {n \in Nat : n <= last => \E S \in SUBSET (1 .. n) : AreHeads(table, line, S, n)}
<1>1. 0 \in P
  BY DEF AreHeads
<1>2. ASSUME NEW n \in Nat, n \in P PROVE n + 1 \in P
  <2> SUFFICES ASSUME n + 1 <= last
               PROVE  \E S \in SUBSET (1 .. n + 1) : AreHeads(table, line, S, n + 1)
    OBVIOUS
  <2>1. PICK S \in SUBSET (1 .. n) : AreHeads(table, line, S, n)
    BY <1>2
  <2> DEFINE E(j) == j + Extent(table, line[j])
             new == \A j \in S : E(j) <= n + 1
             T == IF new THEN S \cup {n + 1} ELSE S
  <2> HIDE DEF E
  <2>2. \A i \in 1 .. n : i \in S <=> \A j \in S : j < i => E(j) <= i
    BY <2>1 DEF AreHeads, E
  <2>3. \A j \in 1 .. n : j < n + 1 /\ j # n + 1
    OBVIOUS
  <2>4. \A i \in 1 .. n, j \in T : j < i => j \in S
    OBVIOUS
  <2>5. ASSUME NEW i \in 1 .. n + 1
        PROVE  i \in T <=> \A j \in T : j < i => E(j) <= i
    <3>1. CASE i = n + 1
      <4>1. \A j \in T : j < n + 1 <=> j \in S
        BY <2>3
      <4>2. n + 1 \in T <=> new
        BY <2>3
      <4>3. S \subseteq T
        OBVIOUS
      <4> HIDE DEF T
      <4>4. (\A j \in T : j < i => E(j) <= i) <=> new
        BY <3>1, <4>1, <4>3
      <4> QED
        BY <3>1, <4>2, <4>4
    <3>2. CASE i # n + 1
      <4>1. i \in 1 .. n
        BY <3>2
      <4>2. i \in T <=> i \in S
        BY <3>2
      <4>3. S \subseteq T
        OBVIOUS
      <4> HIDE DEF T
      <4> QED
        BY <2>2, <2>4, <4>1, <4>2, <4>3
    <3> QED
      BY <3>1, <3>2
  <2>6. T \in SUBSET (1 .. n + 1)
    OBVIOUS
  <2> HIDE DEF T
  <2>7. AreHeads(table, line, T, n + 1)
    BY <2>5 DEF AreHeads, E
  <2> QED
    BY <2>6, <2>7
<1>3. Nat \subseteq P
  <2> HIDE DEF P
  <2> QED
    BY <1>1, <1>2, SetInduction
<1>4. last \in Nat /\ DOMAIN line = 1 .. last
  OBVIOUS
<1>5. \E S \in SUBSET DOMAIN line : AreHeads(table, line, S, last)
  <2>1. last \in P
    BY <1>3, <1>4
  <2>2. last <= last
    BY <1>4
  <2>3. \E S \in SUBSET (1 .. last) : AreHeads(table, line, S, last)
    BY <2>1, <2>2
  <2> HIDE DEF last
  <2> QED
    BY <1>4, <2>3
<1> HIDE DEF last
<1>6. Heads(table, line) = CHOOSE S \in SUBSET DOMAIN line : AreHeads(table, line, S, last)
  BY <1>4 DEF Heads, AreHeads
<1>7. Heads(table, line) \in SUBSET DOMAIN line /\ AreHeads(table, line, Heads(table, line), last)
  BY <1>5, <1>6
<1> QED
  BY <1>4, <1>7 DEF last

-----------------------------------------------------------------------------
(* The parser, word by word *)

\* f is what the parser has before the first word and after each of the first n.
Parses(f, table, line, n) ==
  f = [i \in 0 .. n |-> IF i = 0 THEN Blank ELSE Read(table, f[i - 1], line, i)]

\* The parser has a state after each of any number of words.
LEMMA ParsesExists ==
  ASSUME NEW table, NEW line, NEW n \in Nat
  PROVE  \E f : Parses(f, table, line, n)
<1> DEFINE P == {m \in Nat : \E f : Parses(f, table, line, m)}
           R(p, i) == Read(table, p, line, i)
<1> HIDE DEF R
<1>1. 0 \in P
  <2> DEFINE f == [i \in 0 .. 0 |-> Blank]
  <2>1. f = [i \in 0 .. 0 |-> IF i = 0 THEN Blank ELSE Read(table, f[i - 1], line, i)]
    OBVIOUS
  <2>2. Parses(f, table, line, 0)
    BY <2>1 DEF Parses
  <2> QED
    BY <2>2
<1>2. ASSUME NEW m \in Nat, m \in P PROVE m + 1 \in P
  <2>1. PICK f : Parses(f, table, line, m)
    BY <1>2
  <2>2. \A i \in 0 .. m : f[i] = IF i = 0 THEN Blank ELSE R(f[i - 1], i)
    BY <2>1 DEF Parses, R
  <2> DEFINE g == [i \in 0 .. m + 1 |-> IF i = m + 1 THEN R(f[m], i) ELSE f[i]]
  <2>3. ASSUME NEW i \in 0 .. m + 1
        PROVE  g[i] = IF i = 0 THEN Blank ELSE R(g[i - 1], i)
    <3>1. CASE i = m + 1
      <4>1. i # 0 /\ i - 1 = m /\ m \in 0 .. m + 1 /\ m # m + 1
        BY <3>1
      <4> QED
        BY <3>1, <4>1
    <3>2. CASE i = 0
      <4>1. i \in 0 .. m /\ i # m + 1
        BY <3>2
      <4>2. g[i] = f[i]
        BY <4>1
      <4> HIDE DEF g
      <4> QED
        BY <2>2, <3>2, <4>1, <4>2
    <3>3. CASE i # 0 /\ i # m + 1
      <4>1. i \in 0 .. m /\ i - 1 \in 0 .. m
        BY <3>3
      <4>2. g[i] = f[i] /\ g[i - 1] = f[i - 1]
        BY <4>1
      <4> HIDE DEF g
      <4> QED
        BY <2>2, <3>3, <4>1, <4>2
    <3> QED
      BY <3>1, <3>2, <3>3
  <2>4. g = [i \in 0 .. m + 1 |-> g[i]]
    OBVIOUS
  <2> HIDE DEF g
  <2>5. Parses(g, table, line, m + 1)
    BY <2>3, <2>4 DEF Parses, R
  <2> QED
    BY <2>5
<1>3. Nat \subseteq P
  <2> HIDE DEF P
  <2> QED
    BY <1>1, <1>2, SetInduction
<1> QED
  BY <1>3

\* Parse goes from word to word and looks at what is missing.
LEMMA ParseSteps ==
  ASSUME NEW table, NEW required, NEW line \in Seq(STRING)
  PROVE  \E f :
           /\ f[0] = Blank
           /\ \A i \in 1 .. Len(line) : f[i] = Read(table, f[i - 1], line, i)
           /\ Parse(table, required, line)
                = IF f[Len(line)].failed \/ \E name \in required : ~ Has(f[Len(line)], name) THEN Garbled
                  ELSE [failed |-> FALSE, options |-> f[Len(line)].options, words |-> f[Len(line)].words]
<1> DEFINE last == Len(line)
           h == CHOOSE f : Parses(f, table, line, last)
<1>1. last \in Nat
  OBVIOUS
<1>2. Parse(table, required, line)
        = IF h[last].failed \/ \E name \in required : ~ Has(h[last], name) THEN Garbled
          ELSE [failed |-> FALSE, options |-> h[last].options, words |-> h[last].words]
  BY DEF Parse, Parses
<1>3. Parses(h, table, line, last)
  BY <1>1, ParsesExists
<1> HIDE DEF h
<1>4. \A i \in 0 .. last : h[i] = IF i = 0 THEN Blank ELSE Read(table, h[i - 1], line, i)
  BY <1>3 DEF Parses
<1>5. h[0] = Blank /\ \A i \in 1 .. last : h[i] = Read(table, h[i - 1], line, i)
  <2>1. 0 \in 0 .. last /\ \A i \in 1 .. last : i \in 0 .. last /\ i # 0
    BY <1>1
  <2> QED
    BY <1>4, <2>1
<1> QED
  BY <1>2, <1>5

-----------------------------------------------------------------------------
(* What the first words of a line say *)

\* Among the first n places: the uses of an option, and the last of them.
UsesTo(table, line, name, n) == {j \in UsesAt(table, line) : j <= n /\ NameAt(line, j) = name}

LastTo(table, line, name, n) ==
  CHOOSE j \in UsesTo(table, line, name, n) : \A k \in UsesTo(table, line, name, n) : k <= j

FirstUses(table, line) ==
  {j \in UsesAt(table, line) : \A k \in UsesAt(table, line) : NameAt(line, k) = NameAt(line, j) => j <= k}

NamesTo(table, line, n) == Joined([j \in FirstUses(table, line) |-> <<NameAt(line, j)>>], n)

WordsTo(table, line, n) == Joined([j \in WordsAt(table, line) |-> <<line[j]>>], n)

OptionTo(table, line, name, n) ==
  [name |-> name, values |-> ValuesAt(table, line, LastTo(table, line, name, n))]

OptionsTo(table, line, n) ==
  [k \in DOMAIN NamesTo(table, line, n) |-> OptionTo(table, line, NamesTo(table, line, n)[k], n)]

InOrderTo(table, line, n) ==
  /\ \A j \in UsesAt(table, line) : j <= n => Proper(table, line, j)
  /\ \A j \in UsesAt(table, line) \ FirstUses(table, line) : j <= n => table[NameAt(line, j)].last
  /\ Len(WordsTo(table, line, n)) <= MaxPositionals

\* Uses and marks are heads, and all of them are places of the line.
LEMMA PlacesAre ==
  ASSUME NEW table, NEW line \in Seq(STRING)
  PROVE  /\ Marks(table, line) \subseteq Heads(table, line)
         /\ UsesAt(table, line) \subseteq Heads(table, line)
         /\ FirstUses(table, line) \subseteq UsesAt(table, line)
         /\ WordsAt(table, line) \subseteq 1 .. Len(line)
         /\ Heads(table, line) \subseteq 1 .. Len(line)
<1>1. Heads(table, line) \subseteq 1 .. Len(line) /\ DOMAIN line = 1 .. Len(line)
  BY HeadsAre
<1> QED
  BY <1>1 DEF Marks, UsesAt, FirstUses, WordsAt

\* One more place is one more word, if it is one.
LEMMA WordsMore ==
  ASSUME NEW table, NEW line \in Seq(STRING), NEW n \in Nat
  PROVE  /\ WordsTo(table, line, 0) = <<>>
         /\ WordsTo(table, line, n) \in Seq(STRING)
         /\ WordsTo(table, line, n + 1)
              = IF n + 1 \in WordsAt(table, line) THEN Append(WordsTo(table, line, n), line[n + 1])
                ELSE WordsTo(table, line, n)
<1> DEFINE W == WordsAt(table, line)
           parts == [j \in W |-> <<line[j]>>]
           so == Joined(parts, n)
<1>1. \A j \in W : line[j] \in STRING
  BY PlacesAre
<1>2. \A j \in DOMAIN parts : parts[j] \in Seq(STRING)
  BY <1>1
<1>3. DOMAIN parts = W /\ (n + 1 \in W => parts[n + 1] = <<line[n + 1]>>)
  OBVIOUS
<1> HIDE DEF parts, W
<1>4. /\ Joined(parts, 0) = <<>>
      /\ so \in Seq(STRING)
      /\ Joined(parts, n + 1) = IF n + 1 \in DOMAIN parts THEN so \o parts[n + 1] ELSE so
  BY <1>2, JoinedMore
<1> HIDE DEF so
<1>5. ASSUME n + 1 \in W PROVE so \o <<line[n + 1]>> = Append(so, line[n + 1])
  <2>1. line[n + 1] \in STRING
    BY <1>1, <1>5
  <2> QED
    BY <1>4, <2>1
<1>6. Joined(parts, n + 1) = IF n + 1 \in W THEN Append(so, line[n + 1]) ELSE so
  BY <1>3, <1>4, <1>5
<1> QED
  BY <1>4, <1>6 DEF so, parts, W, WordsTo

\* The names of the options used.
NamesUsed(table, line) == {NameAt(line, j) : j \in UsesAt(table, line)}

\* One more place is one more name, if it is the first use of its option.
LEMMA NamesMore ==
  ASSUME NEW table, NEW line \in Seq(STRING), NEW n \in Nat
  PROVE  /\ NamesTo(table, line, 0) = <<>>
         /\ NamesTo(table, line, n) \in Seq(NamesUsed(table, line))
         /\ NamesTo(table, line, n + 1)
              = IF n + 1 \in FirstUses(table, line) THEN Append(NamesTo(table, line, n), NameAt(line, n + 1))
                ELSE NamesTo(table, line, n)
<1> DEFINE F == FirstUses(table, line)
           N == NamesUsed(table, line)
           parts == [j \in F |-> <<NameAt(line, j)>>]
           so == Joined(parts, n)
           m == NameAt(line, n + 1)
<1>1. \A j \in F : NameAt(line, j) \in N
  BY PlacesAre DEF NamesUsed
<1>2. \A j \in DOMAIN parts : parts[j] \in Seq(N)
  <2> HIDE DEF N, F
  <2> QED
    BY <1>1
<1>3. DOMAIN parts = F /\ (n + 1 \in F => parts[n + 1] = <<m>>)
  OBVIOUS
<1> HIDE DEF parts, F, N
<1>4. /\ Joined(parts, 0) = <<>>
      /\ so \in Seq(N)
      /\ Joined(parts, n + 1) = IF n + 1 \in DOMAIN parts THEN so \o parts[n + 1] ELSE so
  BY <1>2, JoinedMore
<1>5. ASSUME n + 1 \in F PROVE so \o <<m>> = Append(so, m)
  <2>1. m \in N
    BY <1>1, <1>5
  <2> HIDE DEF so, m
  <2> QED
    BY <1>4, <2>1
<1> HIDE DEF so, m
<1>6. Joined(parts, n + 1) = IF n + 1 \in F THEN Append(so, m) ELSE so
  BY <1>3, <1>4, <1>5
<1> QED
  BY <1>4, <1>6 DEF so, parts, F, N, m, NamesTo

\* A use is the first of its option if none of the places before uses it.
LEMMA FirstUseIs ==
  ASSUME NEW table, NEW line \in Seq(STRING), NEW n \in Nat, n + 1 \in UsesAt(table, line)
  PROVE  n + 1 \in FirstUses(table, line) <=> UsesTo(table, line, NameAt(line, n + 1), n) = {}
<1>1. UsesAt(table, line) \subseteq Nat
  BY PlacesAre
<1>2. \A k \in UsesAt(table, line) : k <= n <=> ~ (n + 1 <= k)
  BY <1>1
<1> QED
  BY <1>2 DEF FirstUses, UsesTo

\* Among no places there is no use.
LEMMA UsesWithin ==
  ASSUME NEW table, NEW line \in Seq(STRING), NEW n \in Nat, NEW name
  PROVE  /\ UsesTo(table, line, name, 0) = {}
         /\ UsesTo(table, line, name, n) \subseteq 1 .. n
<1>1. UsesAt(table, line) \subseteq Nat \ {0}
  BY PlacesAre
<1> QED
  BY <1>1 DEF UsesTo

\* One more place is one more use of its option, if it is one.
LEMMA UsesMore ==
  ASSUME NEW table, NEW line \in Seq(STRING), NEW n \in Nat, NEW name
  PROVE  /\ (n + 1 \in UsesAt(table, line) /\ NameAt(line, n + 1) = name) =>
              UsesTo(table, line, name, n + 1) = UsesTo(table, line, name, n) \cup {n + 1}
         /\ ~ (n + 1 \in UsesAt(table, line) /\ NameAt(line, n + 1) = name) =>
              UsesTo(table, line, name, n + 1) = UsesTo(table, line, name, n)
<1>1. UsesAt(table, line) \subseteq Nat \ {0}
  BY PlacesAre
<1>2. \A k \in UsesAt(table, line) : k <= n + 1 <=> k <= n \/ k = n + 1
  BY <1>1
<1> QED
  BY <1>1, <1>2 DEF UsesTo

\* The names are those of the options used so far.
LEMMA NamesAre ==
  ASSUME NEW table, NEW line \in Seq(STRING), NEW n \in Nat, NEW name
  PROVE  (\E k \in DOMAIN NamesTo(table, line, n) : NamesTo(table, line, n)[k] = name)
           <=> UsesTo(table, line, name, n) # {}
<1> DEFINE N(i) == NamesTo(table, line, i)
           U(i) == UsesTo(table, line, name, i)
           Named(i) == \E k \in DOMAIN N(i) : N(i)[k] = name
           P == {i \in Nat : Named(i) <=> U(i) # {}}
<1>1. 0 \in P
  <2>1. N(0) = <<>> /\ U(0) = {}
    BY NamesMore, UsesWithin
  <2> QED
    BY <2>1
<1>2. ASSUME NEW i \in Nat, i \in P PROVE i + 1 \in P
  <2> DEFINE s == N(i)
             m == NameAt(line, i + 1)
             uses == UsesAt(table, line)
             firsts == FirstUses(table, line)
  <2>1. N(i + 1) = IF i + 1 \in firsts THEN Append(s, m) ELSE s
    BY NamesMore
  <2>2. s \in Seq(NamesUsed(table, line))
    BY NamesMore
  <2>3. /\ (i + 1 \in uses /\ m = name) => U(i + 1) = U(i) \cup {i + 1}
        /\ ~ (i + 1 \in uses /\ m = name) => U(i + 1) = U(i)
    BY UsesMore
  <2>4. Named(i) <=> U(i) # {}
    BY <1>2
  <2>5. firsts \subseteq uses
    BY PlacesAre
  <2>6. i + 1 \in uses => (i + 1 \in firsts <=> UsesTo(table, line, m, i) = {})
    BY FirstUseIs
  <2>7. CASE i + 1 \in firsts
    <3>1. N(i + 1) = Append(s, m) /\ m \in NamesUsed(table, line)
      BY <2>1, <2>5, <2>7 DEF NamesUsed
    <3> DEFINE t == Append(s, m)
    <3>2. /\ DOMAIN s = 1 .. Len(s) /\ DOMAIN t = 1 .. Len(s) + 1 /\ Len(s) \in Nat
          /\ \A k \in 1 .. Len(s) : t[k] = s[k]
          /\ t[Len(s) + 1] = m
      <4> HIDE DEF s, m
      <4> QED
        BY <2>2, <3>1
    <3>3. Named(i + 1) <=> \E k \in DOMAIN t : t[k] = name
      BY <3>1
    <3>4. Named(i) <=> \E k \in DOMAIN s : s[k] = name
      OBVIOUS
    <3> HIDE DEF t, s, Named
    <3>5. Named(i + 1) <=> Named(i) \/ m = name
      BY <3>2, <3>3, <3>4
    <3> HIDE DEF U
    <3>6. Named(i + 1) <=> U(i + 1) # {}
      BY <2>3, <2>4, <2>5, <2>7, <3>5
    <3> QED
      BY <3>6
  <2>8. CASE i + 1 \notin firsts
    <3>1. N(i + 1) = s
      BY <2>1, <2>8
    <3>2. Named(i + 1) <=> Named(i)
      BY <3>1
    <3>3. i + 1 \in uses /\ m = name => U(i) # {}
      BY <2>6, <2>8
    <3> HIDE DEF U, Named
    <3>4. Named(i + 1) <=> U(i + 1) # {}
      BY <2>3, <2>4, <3>2, <3>3
    <3> QED
      BY <3>4
  <2> QED
    BY <2>7, <2>8
<1>3. Nat \subseteq P
  <2> HIDE DEF P
  <2> QED
    BY <1>1, <1>2, SetInduction
<1> QED
  BY <1>3

\* The use of an option at a place, and what that says of all places up to it.
OptionAt(table, line, j) == [name |-> NameAt(line, j), values |-> ValuesAt(table, line, j)]

\* An option used at the last of some places has the values of that use.
LEMMA OptionIs ==
  ASSUME NEW table, NEW line \in Seq(STRING), NEW n \in Nat, n + 1 \in UsesAt(table, line)
  PROVE  OptionTo(table, line, NameAt(line, n + 1), n + 1) = OptionAt(table, line, n + 1)
<1> DEFINE m == NameAt(line, n + 1)
           T == UsesTo(table, line, m, n + 1)
           l == LastTo(table, line, m, n + 1)
<1>1. n + 1 \in T
  BY DEF UsesTo
<1>2. n + 1 \in Nat
  OBVIOUS
<1>3. T \subseteq 1 .. n + 1
  BY <1>2, UsesWithin
<1>4. l = CHOOSE j \in T : \A k \in T : k <= j
  BY DEF LastTo
<1> HIDE DEF T, l
<1>5. \A k \in T : k <= n + 1
  BY <1>3
<1>6. l \in T /\ \A k \in T : k <= l
  BY <1>1, <1>4, <1>5
<1>7. l = n + 1
  BY <1>1, <1>3, <1>6
<1> QED
  BY <1>7 DEF l, OptionTo, OptionAt

\* A place that does not use an option leaves its values.
LEMMA OptionKept ==
  ASSUME NEW table, NEW line \in Seq(STRING), NEW n \in Nat, NEW name,
         ~ (n + 1 \in UsesAt(table, line) /\ NameAt(line, n + 1) = name)
  PROVE  OptionTo(table, line, name, n + 1) = OptionTo(table, line, name, n)
<1>1. UsesTo(table, line, name, n + 1) = UsesTo(table, line, name, n)
  BY UsesMore
<1> QED
  BY <1>1 DEF OptionTo, LastTo

\* A place where no option is used leaves them as they are.
LEMMA OptionsSame ==
  ASSUME NEW table, NEW line \in Seq(STRING), NEW n \in Nat, n + 1 \notin UsesAt(table, line)
  PROVE  OptionsTo(table, line, n + 1) = OptionsTo(table, line, n)
<1>1. NamesTo(table, line, n + 1) = NamesTo(table, line, n)
  BY NamesMore, PlacesAre
<1> DEFINE s == NamesTo(table, line, n)
<1>2. \A k \in DOMAIN s : OptionTo(table, line, s[k], n + 1) = OptionTo(table, line, s[k], n)
  <2> SUFFICES ASSUME NEW name
               PROVE  OptionTo(table, line, name, n + 1) = OptionTo(table, line, name, n)
    OBVIOUS
  <2> QED
    BY OptionKept
<1> HIDE DEF s
<1>3. [k \in DOMAIN s |-> OptionTo(table, line, s[k], n + 1)]
        = [k \in DOMAIN s |-> OptionTo(table, line, s[k], n)]
  BY <1>2
<1> QED
  BY <1>1, <1>3 DEF s, OptionsTo

\* The first use of an option puts it at the end.
LEMMA OptionsNew ==
  ASSUME NEW table, NEW line \in Seq(STRING), NEW n \in Nat, n + 1 \in FirstUses(table, line)
  PROVE  OptionsTo(table, line, n + 1) = Append(OptionsTo(table, line, n), OptionAt(table, line, n + 1))
<1> DEFINE m == NameAt(line, n + 1)
           s == NamesTo(table, line, n)
           t == Append(s, m)
           o == OptionAt(table, line, n + 1)
           Old(name) == OptionTo(table, line, name, n)
           New1(name) == OptionTo(table, line, name, n + 1)
           old == [k \in DOMAIN s |-> Old(s[k])]
           new == [k \in DOMAIN t |-> New1(t[k])]
           X == {Old(s[k]) : k \in DOMAIN s} \cup {o}
<1>1. n + 1 \in UsesAt(table, line)
  BY PlacesAre
<1>2. NamesTo(table, line, n + 1) = t
  BY NamesMore
<1>3. s \in Seq(NamesUsed(table, line)) /\ m \in NamesUsed(table, line)
  BY <1>1, NamesMore DEF NamesUsed
<1>4. UsesTo(table, line, m, n) = {}
  BY <1>1, FirstUseIs
<1>5. \A k \in DOMAIN s : s[k] # m
  BY <1>4, NamesAre
<1>6. \A name : name # m => New1(name) = Old(name)
  BY OptionKept
<1>7. New1(m) = o
  BY <1>1, OptionIs
<1>8. OptionsTo(table, line, n + 1) = new /\ OptionsTo(table, line, n) = old
  BY <1>2 DEF OptionsTo
<1> HIDE DEF s, m, o, Old, New1
<1>9. /\ Len(s) \in Nat /\ DOMAIN s = 1 .. Len(s) /\ DOMAIN t = 1 .. Len(s) + 1
      /\ \A k \in 1 .. Len(s) : t[k] = s[k]
      /\ t[Len(s) + 1] = m
  BY <1>3
<1> HIDE DEF t
<1>10. old \in [1 .. Len(s) -> X] /\ o \in X
  BY <1>9
<1>11. old \in Seq(X) /\ Len(old) = Len(s)
  <2> HIDE DEF X, old
  <2> QED
    BY <1>9, <1>10
<1> DEFINE app == Append(old, o)
<1>12. /\ app \in Seq(X)
       /\ Len(app) = Len(s) + 1
       /\ \A k \in 1 .. Len(s) : app[k] = old[k]
       /\ app[Len(s) + 1] = o
  <2> HIDE DEF X, old
  <2> QED
    BY <1>9, <1>10, <1>11
<1>13. app = [k \in 1 .. Len(s) + 1 |-> app[k]]
  <2> HIDE DEF X, app
  <2>1. app \in [1 .. Len(app) -> X]
    BY <1>12
  <2> QED
    BY <1>12, <2>1
<1> HIDE DEF app
<1>14. \A k \in 1 .. Len(s) + 1 : new[k] = app[k]
  <2>1. ASSUME NEW k \in 1 .. Len(s) PROVE new[k] = app[k]
    <3>1. k \in 1 .. Len(s) + 1 /\ k \in DOMAIN s
      BY <1>9
    <3>2. new[k] = New1(s[k]) /\ old[k] = Old(s[k])
      BY <1>9, <3>1
    <3> HIDE DEF new, old
    <3> QED
      BY <1>5, <1>6, <1>12, <3>1, <3>2
  <2>2. new[Len(s) + 1] = app[Len(s) + 1]
    <3>1. Len(s) + 1 \in 1 .. Len(s) + 1
      BY <1>9
    <3>2. new[Len(s) + 1] = New1(m)
      BY <1>9, <3>1
    <3> HIDE DEF new, old
    <3> QED
      BY <1>7, <1>12, <3>2
  <2>3. \A k \in 1 .. Len(s) + 1 : k \in 1 .. Len(s) \/ k = Len(s) + 1
    BY <1>9
  <2> HIDE DEF new, old
  <2> QED
    BY <2>1, <2>2, <2>3
<1>15. DOMAIN new = 1 .. Len(s) + 1 /\ new = [k \in DOMAIN new |-> new[k]]
  BY <1>9
<1> HIDE DEF new, old, X
<1>16. new = app
  BY <1>13, <1>14, <1>15
<1> QED
  BY <1>8, <1>16 DEF o, app

\* A later use takes the place of the first.
LEMMA OptionsAgain ==
  ASSUME NEW table, NEW line \in Seq(STRING), NEW n \in Nat,
         n + 1 \in UsesAt(table, line), n + 1 \notin FirstUses(table, line)
  PROVE  OptionsTo(table, line, n + 1)
           = [k \in DOMAIN OptionsTo(table, line, n) |->
                IF NamesTo(table, line, n)[k] = NameAt(line, n + 1) THEN OptionAt(table, line, n + 1)
                ELSE OptionsTo(table, line, n)[k]]
<1> DEFINE m == NameAt(line, n + 1)
           s == NamesTo(table, line, n)
           o == OptionAt(table, line, n + 1)
           Old(name) == OptionTo(table, line, name, n)
           New1(name) == OptionTo(table, line, name, n + 1)
           old == [k \in DOMAIN s |-> Old(s[k])]
<1>1. NamesTo(table, line, n + 1) = s
  BY NamesMore
<1>2. \A name : name # m => New1(name) = Old(name)
  BY OptionKept
<1>3. New1(m) = o
  BY OptionIs
<1>4. OptionsTo(table, line, n + 1) = [k \in DOMAIN s |-> New1(s[k])]
  BY <1>1 DEF OptionsTo
<1>5. OptionsTo(table, line, n) = old
  BY DEF OptionsTo
<1> HIDE DEF s, m, o, Old, New1
<1>6. \A k \in DOMAIN s : New1(s[k]) = IF s[k] = m THEN o ELSE old[k]
  <2> SUFFICES ASSUME NEW k \in DOMAIN s PROVE New1(s[k]) = IF s[k] = m THEN o ELSE old[k]
    OBVIOUS
  <2>1. old[k] = Old(s[k])
    OBVIOUS
  <2> HIDE DEF old
  <2> QED
    BY <1>2, <1>3, <2>1
<1>7. DOMAIN old = DOMAIN s
  OBVIOUS
<1> HIDE DEF old
<1>8. [k \in DOMAIN s |-> New1(s[k])] = [k \in DOMAIN old |-> IF s[k] = m THEN o ELSE old[k]]
  BY <1>6, <1>7
<1> QED
  BY <1>4, <1>5, <1>8 DEF s, m, o

\* argv_store_option: an option is kept as it is used at the next place, unless it was
\* used before and may not be used again.
LEMMA StoredIs ==
  ASSUME NEW table, NEW line \in Seq(STRING), NEW n \in Nat, n + 1 \in UsesAt(table, line),
         NEW p, p.options = OptionsTo(table, line, n), table[NameAt(line, n + 1)].last \in BOOLEAN
  PROVE  LET stored == Stored(table, p, NameAt(line, n + 1), ValuesAt(table, line, n + 1))
         IN  IF n + 1 \in FirstUses(table, line) \/ table[NameAt(line, n + 1)].last
             THEN stored = [p EXCEPT !.options = OptionsTo(table, line, n + 1)]
             ELSE stored = Failed(p)
<1> DEFINE m == NameAt(line, n + 1)
           v == ValuesAt(table, line, n + 1)
           o == OptionAt(table, line, n + 1)
           s == NamesTo(table, line, n)
           options == OptionsTo(table, line, n)
           firsts == FirstUses(table, line)
           used == Uses(p, m)
<1>1. DOMAIN options = DOMAIN s /\ \A k \in DOMAIN s : options[k].name = s[k]
  BY DEF OptionsTo, OptionTo
<1>2. used = {k \in DOMAIN s : s[k] = m}
  BY <1>1 DEF Uses
<1>3. used = {} <=> n + 1 \in firsts
  <2>1. used = {} <=> UsesTo(table, line, m, n) = {}
    <3>1. \A name : (\E k \in DOMAIN s : s[k] = name) <=> UsesTo(table, line, name, n) # {}
      BY NamesAre
    <3> HIDE DEF s, m, used
    <3> QED
      BY <1>2, <3>1
  <2> QED
    BY <2>1, FirstUseIs
<1>4. o = [name |-> m, values |-> v]
  BY DEF OptionAt
<1>5. Stored(table, p, m, v) =
        CASE used = {} -> [p EXCEPT !.options = Append(@, o)]
          [] used # {} /\ table[m].last ->
               [p EXCEPT !.options = [i \in DOMAIN @ |-> IF i \in used THEN o ELSE @[i]]]
          [] OTHER -> Failed(p)
  BY <1>4 DEF Stored
<1>6. CASE n + 1 \in firsts
  <2>1. OptionsTo(table, line, n + 1) = Append(options, o)
    BY <1>6, OptionsNew
  <2>2. Stored(table, p, m, v) = [p EXCEPT !.options = Append(@, o)]
    <3> HIDE DEF used, m, v, o
    <3> QED
      BY <1>3, <1>5, <1>6
  <2> HIDE DEF m, v, o, options
  <2>3. Stored(table, p, m, v) = [p EXCEPT !.options = OptionsTo(table, line, n + 1)]
    BY <2>1, <2>2 DEF options
  <2> QED
    BY <1>6, <2>3 DEF m, v
<1>7. CASE n + 1 \notin firsts /\ table[m].last
  <2>1. OptionsTo(table, line, n + 1) = [k \in DOMAIN options |-> IF s[k] = m THEN o ELSE options[k]]
    BY <1>7, OptionsAgain
  <2>2. Stored(table, p, m, v)
          = [p EXCEPT !.options = [i \in DOMAIN @ |-> IF i \in used THEN o ELSE @[i]]]
    <3> HIDE DEF used, m, v, o
    <3> QED
      BY <1>3, <1>5, <1>7
  <2> HIDE DEF m, v, o, s, options
  <2>3. [k \in DOMAIN options |-> IF s[k] = m THEN o ELSE options[k]]
          = [k \in DOMAIN options |-> IF k \in used THEN o ELSE options[k]]
    <3> HIDE DEF used
    <3> QED
      BY <1>1, <1>2
  <2>4. Stored(table, p, m, v) = [p EXCEPT !.options = OptionsTo(table, line, n + 1)]
    <3> HIDE DEF used
    <3> QED
      BY <2>1, <2>2, <2>3 DEF options
  <2> QED
    BY <1>7, <2>4 DEF m, v
<1>8. CASE n + 1 \notin firsts /\ ~ table[m].last
  <2>1. Stored(table, p, m, v) = Failed(p)
    <3> HIDE DEF used, m, v, o
    <3> QED
      BY <1>3, <1>5, <1>8
  <2> QED
    BY <1>8, <2>1
<1> QED
  BY <1>6, <1>7, <1>8

-----------------------------------------------------------------------------
(* What the parser has found after some words *)

\* Some place before this one is a "--" that counts.
Behind(table, line, i) == \E m \in Marks(table, line) : m < i

\* The last option so far wants k more words.
Wanting(table, line, n, k) ==
  /\ \A j \in Heads(table, line) : j <= n => j + Extent(table, line[j]) <= n + k + 1
  /\ k > 0 => \E j \in Heads(table, line) : j <= n /\ j + Extent(table, line[j]) = n + k + 1

\* A parser has failed if the first n places are not in order; otherwise it has the
\* options and the words of these places, knows whether it is behind a "--" and how many
\* words are still values.
Found(table, line, p, n) ==
  /\ p.failed \in BOOLEAN
  /\ p.failed <=> ~ InOrderTo(table, line, n)
  /\ ~ p.failed =>
       /\ p = [options |-> OptionsTo(table, line, n), words |-> WordsTo(table, line, n),
               wants |-> p.wants, literal |-> p.literal, failed |-> FALSE]
       /\ p.wants \in Nat /\ p.literal \in BOOLEAN
       /\ p.literal <=> Behind(table, line, n + 1)
       /\ p.literal => p.wants = 0
       /\ ~ p.literal => Wanting(table, line, n, p.wants)

\* argv_parse: what a place is depends on its word, on whether it is a head and on
\* whether it is behind a "--".
LEMMA PlaceIs ==
  ASSUME NEW table, NEW line \in Seq(STRING), NEW i \in 1 .. Len(line)
  PROVE  /\ i \in UsesAt(table, line)
              <=> i \in Heads(table, line) /\ line[i] \in Dashed \ {"--"} /\ ~ Behind(table, line, i)
         /\ i \in WordsAt(table, line)
              <=> Behind(table, line, i) \/ (i \in Heads(table, line) /\ line[i] \notin Dashed)
         /\ Behind(table, line, i + 1)
              <=> Behind(table, line, i) \/ (i \in Heads(table, line) /\ line[i] = "--")
<1>1. DOMAIN line = 1 .. Len(line)
  OBVIOUS
<1>2. i \in UsesAt(table, line)
        <=> i \in Heads(table, line) /\ line[i] \in Dashed \ {"--"} /\ ~ Behind(table, line, i)
  BY DEF UsesAt, Behind
<1>3. i \in WordsAt(table, line)
        <=> Behind(table, line, i) \/ (i \in Heads(table, line) /\ line[i] \notin Dashed)
  BY <1>1 DEF WordsAt, Behind
<1>4. Marks(table, line) \subseteq Nat
  BY PlacesAre
<1>5. \A m \in Marks(table, line) : m < i + 1 <=> m < i \/ m = i
  BY <1>4
<1>6. i \in Marks(table, line) <=> i \in Heads(table, line) /\ line[i] = "--"
  BY DEF Marks
<1>7. Behind(table, line, i + 1) <=> Behind(table, line, i) \/ i \in Marks(table, line)
  BY <1>5 DEF Behind
<1> QED
  BY <1>2, <1>3, <1>6, <1>7

\* The next place is a head unless a word is wanted there.
LEMMA HeadIfNotWanted ==
  ASSUME NEW table, IsTable(table), NEW line \in Seq(STRING), NEW n \in Nat, n + 1 <= Len(line),
         NEW k \in Nat, Wanting(table, line, n, k)
  PROVE  n + 1 \in Heads(table, line) <=> k = 0
<1> DEFINE H == Heads(table, line)
           E(j) == j + Extent(table, line[j])
<1>1. H \subseteq 1 .. Len(line) /\ AreHeads(table, line, H, Len(line))
  BY HeadsAre
<1>2. n + 1 \in 1 .. Len(line)
  OBVIOUS
<1>3. n + 1 \in H <=> \A j \in H : j < n + 1 => E(j) <= n + 1
  BY <1>1, <1>2 DEF AreHeads
<1>4. /\ \A j \in H : j <= n => E(j) <= n + k + 1
      /\ k > 0 => \E j \in H : j <= n /\ E(j) = n + k + 1
  BY DEF Wanting
<1>5. \A j \in H : j \in Nat /\ (j <= n <=> j < n + 1)
  BY <1>1
<1>6. \A j \in H : E(j) \in Nat
  <2> SUFFICES ASSUME NEW j \in H PROVE E(j) \in Nat
    OBVIOUS
  <2>1. Extent(table, line[j]) \in Nat
    BY ExtentIs
  <2> QED
    BY <1>5, <2>1
<1> HIDE DEF H, E
<1>7. CASE k = 0
  <2>1. n + k + 1 = n + 1 /\ \A j \in H : j < n + 1 => j <= n
    BY <1>5, <1>7
  <2>2. \A j \in H : j < n + 1 => E(j) <= n + 1
    BY <1>4, <2>1
  <2> QED
    BY <1>3, <1>7, <2>2 DEF H
<1>8. CASE k # 0
  <2>1. PICK j \in H : j <= n /\ E(j) = n + k + 1
    BY <1>4, <1>8
  <2>2. j < n + 1 /\ ~ (E(j) <= n + 1)
    BY <1>5, <1>8, <1>6, <2>1
  <2> QED
    BY <1>3, <1>8, <2>2 DEF H
<1> QED
  BY <1>7, <1>8

\* A word that is wanted leaves one less.
LEMMA WantsOneLess ==
  ASSUME NEW table, IsTable(table), NEW line \in Seq(STRING), NEW n \in Nat, n + 1 <= Len(line),
         NEW k \in Nat, k # 0, Wanting(table, line, n, k)
  PROVE  Wanting(table, line, n + 1, k - 1)
<1> DEFINE H == Heads(table, line)
           E(j) == j + Extent(table, line[j])
<1>1. n + 1 \notin H
  BY HeadIfNotWanted
<1>2. H \subseteq Nat
  BY PlacesAre
<1>3. \A j \in H : j <= n + 1 <=> j <= n
  BY <1>1, <1>2
<1>4. (n + 1) + (k - 1) + 1 = n + k + 1
  OBVIOUS
<1> HIDE DEF H
<1> QED
  BY <1>3, <1>4 DEF Wanting, H

\* A head that comes when none is wanted leaves its own to be wanted.
LEMMA WantsItsWords ==
  ASSUME NEW table, IsTable(table), NEW line \in Seq(STRING), NEW n \in Nat, n + 1 <= Len(line),
         Wanting(table, line, n, 0), NEW k \in Nat, Extent(table, line[n + 1]) = k + 1
  PROVE  Wanting(table, line, n + 1, k)
<1> DEFINE H == Heads(table, line)
           E(j) == j + Extent(table, line[j])
<1>1. n + 1 \in H
  BY HeadIfNotWanted
<1>2. H \subseteq Nat
  BY PlacesAre
<1>3. \A j \in H : E(j) \in Nat
  <2> SUFFICES ASSUME NEW j \in H PROVE E(j) \in Nat
    OBVIOUS
  <2>1. Extent(table, line[j]) \in Nat
    BY ExtentIs
  <2> QED
    BY <1>2, <2>1
<1>4. \A j \in H : j <= n => E(j) <= n + 0 + 1
  BY DEF Wanting
<1>5. E(n + 1) = (n + 1) + k + 1
  OBVIOUS
<1> HIDE DEF H, E
<1>6. \A j \in H : j <= n + 1 => E(j) <= (n + 1) + k + 1
  <2> SUFFICES ASSUME NEW j \in H, j <= n + 1 PROVE E(j) <= (n + 1) + k + 1
    OBVIOUS
  <2>1. CASE j = n + 1
    BY <1>5, <2>1
  <2>2. CASE j # n + 1
    <3>1. j <= n
      BY <1>2, <2>2
    <3> QED
      BY <1>3, <1>4, <3>1
  <2> QED
    BY <2>1, <2>2
<1>7. \E j \in H : j <= n + 1 /\ E(j) = (n + 1) + k + 1
  BY <1>1, <1>5
<1> QED
  BY <1>6, <1>7 DEF Wanting, H, E

\* One more place keeps a line in order if its option and its word may be there.
LEMMA InOrderMore ==
  ASSUME NEW table, NEW line \in Seq(STRING), NEW n \in Nat, n + 1 <= Len(line)
  PROVE  InOrderTo(table, line, n + 1)
           <=> /\ InOrderTo(table, line, n)
               /\ n + 1 \in UsesAt(table, line) =>
                    /\ Proper(table, line, n + 1)
                    /\ n + 1 \in FirstUses(table, line) \/ table[NameAt(line, n + 1)].last
               /\ n + 1 \in WordsAt(table, line) => ~ (Len(WordsTo(table, line, n)) >= MaxPositionals)
<1> DEFINE U == UsesAt(table, line)
           F == FirstUses(table, line)
           A(j) == Proper(table, line, j)
           B(j) == table[NameAt(line, j)].last
           c == Len(WordsTo(table, line, n))
           d == Len(WordsTo(table, line, n + 1))
           word == n + 1 \in WordsAt(table, line)
<1>1. U \subseteq Nat /\ F \subseteq U
  BY PlacesAre
<1>2. c \in Nat /\ d = IF word THEN c + 1 ELSE c
  <2> DEFINE s == WordsTo(table, line, n)
  <2>1. /\ s \in Seq(STRING)
        /\ WordsTo(table, line, n + 1) = IF word THEN Append(s, line[n + 1]) ELSE s
    BY WordsMore
  <2>2. n + 1 \in 1 .. Len(line)
    OBVIOUS
  <2>3. line[n + 1] \in STRING
    BY <2>2
  <2> DEFINE e == line[n + 1]
  <2> HIDE DEF s, word, e
  <2>4. Len(Append(s, e)) = Len(s) + 1
    BY <2>1, <2>3 DEF e
  <2>5. d = IF word THEN Len(s) + 1 ELSE Len(s)
    BY <2>1, <2>4 DEF e
  <2> HIDE DEF d
  <2> QED
    BY <2>1, <2>5 DEF s
<1>3. \A j \in U : j <= n + 1 <=> j <= n \/ j = n + 1
  BY <1>1
<1>4. MaxPositionals \in Nat
  BY CommandLineAssumption
<1>5. /\ InOrderTo(table, line, n + 1) <=>
           (\A j \in U : j <= n + 1 => A(j)) /\ (\A j \in U \ F : j <= n + 1 => B(j)) /\ d <= MaxPositionals
      /\ InOrderTo(table, line, n) <=>
           (\A j \in U : j <= n => A(j)) /\ (\A j \in U \ F : j <= n => B(j)) /\ c <= MaxPositionals
  BY DEF InOrderTo
<1> HIDE DEF U, F, A, B, c, d, word
<1>6. d <= MaxPositionals <=> c <= MaxPositionals /\ (word => ~ (c >= MaxPositionals))
  BY <1>2, <1>4
<1>7. (\A j \in U : j <= n + 1 => A(j)) <=> (\A j \in U : j <= n => A(j)) /\ (n + 1 \in U => A(n + 1))
  BY <1>3
<1>8. (\A j \in U \ F : j <= n + 1 => B(j))
        <=> (\A j \in U \ F : j <= n => B(j)) /\ (n + 1 \in U => n + 1 \in F \/ B(n + 1))
  BY <1>3
<1>9. InOrderTo(table, line, n + 1)
        <=> InOrderTo(table, line, n) /\ (n + 1 \in U => A(n + 1) /\ (n + 1 \in F \/ B(n + 1)))
              /\ (word => ~ (c >= MaxPositionals))
  BY <1>5, <1>6, <1>7, <1>8
<1> QED
  BY <1>9 DEF U, F, A, B, c, word

\* What to look for in a line that is still in order, and in one that is not.
LEMMA FoundGood ==
  ASSUME NEW table, NEW line, NEW n, NEW k \in Nat, NEW b \in BOOLEAN,
         NEW os, os = OptionsTo(table, line, n), NEW ws, ws = WordsTo(table, line, n), NEW p,
         p = [options |-> os, words |-> ws, wants |-> k, literal |-> b, failed |-> FALSE],
         InOrderTo(table, line, n), b <=> Behind(table, line, n + 1), b => k = 0,
         ~ b => Wanting(table, line, n, k)
  PROVE  Found(table, line, p, n)
<1>1. p.wants = k /\ p.literal = b /\ p.failed = FALSE
  OBVIOUS
<1> QED
  BY <1>1 DEF Found

\* And nothing else is said of one that is not.
LEMMA FoundBad ==
  ASSUME NEW table, NEW line, NEW n, NEW p, p.failed = TRUE, ~ InOrderTo(table, line, n)
  PROVE  Found(table, line, p, n)
BY DEF Found

\* argv_append_positional: a word.
LEMMA FoundWord ==
  ASSUME NEW table, NEW line \in Seq(STRING), NEW n \in Nat, n + 1 <= Len(line),
         NEW b \in BOOLEAN, InOrderTo(table, line, n),
         n + 1 \in WordsAt(table, line), n + 1 \notin UsesAt(table, line),
         b <=> Behind(table, line, (n + 1) + 1), ~ b => Wanting(table, line, n + 1, 0), NEW p,
         p = [options |-> OptionsTo(table, line, n), words |-> WordsTo(table, line, n),
              wants |-> 0, literal |-> b, failed |-> FALSE]
  PROVE  Found(table, line, Positional(p, line[n + 1]), n + 1)
<1> DEFINE full == Len(WordsTo(table, line, n)) >= MaxPositionals
           q == Positional(p, line[n + 1])
           os == OptionsTo(table, line, n + 1)
           ws == WordsTo(table, line, n + 1)
<1>1. InOrderTo(table, line, n + 1) <=> ~ full
  BY InOrderMore
<1>2. CASE full
  <2>1. q.failed = TRUE
    BY <1>2 DEF Positional, Failed
  <2> HIDE DEF q
  <2>2. Found(table, line, q, n + 1)
    BY <1>1, <1>2, <2>1, FoundBad
  <2> QED
    BY <2>2 DEF q
<1>3. CASE ~ full
  <2>1. OptionsTo(table, line, n) = os
    BY OptionsSame
  <2>2. Append(WordsTo(table, line, n), line[n + 1]) = ws
    BY WordsMore
  <2>3. q = [p EXCEPT !.words = Append(@, line[n + 1])]
    BY <1>3 DEF Positional
  <2> HIDE DEF q, full
  <2>4. q = [options |-> os, words |-> ws, wants |-> 0, literal |-> b, failed |-> FALSE]
    <3> HIDE DEF os, ws
    <3> QED
      BY <2>1, <2>2, <2>3
  <2> DEFINE i == n + 1
  <2>5. InOrderTo(table, line, i) /\ b <=> Behind(table, line, i + 1)
    BY <1>1, <1>3
  <2> HIDE DEF os, ws
  <2>6. Found(table, line, q, n + 1)
    <3>1. os = OptionsTo(table, line, n + 1) /\ ws = WordsTo(table, line, n + 1)
      BY DEF os, ws
    <3> QED
      BY <1>1, <1>3, <2>4, <3>1, FoundGood
  <2> QED
    BY <2>6 DEF q
<1> QED
  BY <1>2, <1>3

\* An option as it should be is stored, if it is the first or may be used again.
LEMMA FoundOption ==
  ASSUME NEW table, IsTable(table), NEW line \in Seq(STRING), NEW n \in Nat, n + 1 <= Len(line),
         InOrderTo(table, line, n), Proper(table, line, n + 1),
         n + 1 \notin WordsAt(table, line), n + 1 \in UsesAt(table, line),
         ~ Behind(table, line, (n + 1) + 1), NEW k \in Nat, Wanting(table, line, n + 1, k), NEW p,
         p = [options |-> OptionsTo(table, line, n), words |-> WordsTo(table, line, n),
              wants |-> 0, literal |-> FALSE, failed |-> FALSE]
  PROVE  LET stored == Stored(table, p, NameAt(line, n + 1), ValuesAt(table, line, n + 1))
         IN  Found(table, line, [stored EXCEPT !.wants = k], n + 1)
<1> DEFINE m == NameAt(line, n + 1)
           again == n + 1 \in FirstUses(table, line) \/ table[m].last
           stored == Stored(table, p, m, ValuesAt(table, line, n + 1))
           q == [stored EXCEPT !.wants = k]
           os == OptionsTo(table, line, n + 1)
           ws == WordsTo(table, line, n + 1)
<1>1. InOrderTo(table, line, n + 1) <=> again
  BY InOrderMore
<1>2. table[m].last \in BOOLEAN
  BY DEF Proper, IsTable
<1>3. p.options = OptionsTo(table, line, n)
  OBVIOUS
<1>4. IF again THEN stored = [p EXCEPT !.options = os] ELSE stored = Failed(p)
  BY <1>2, <1>3, StoredIs
<1> HIDE DEF again, stored
<1>5. CASE ~ again
  <2>1. stored = [p EXCEPT !.failed = TRUE]
    BY <1>4, <1>5 DEF Failed
  <2>2. q.failed = TRUE
    BY <2>1
  <2> HIDE DEF q
  <2>3. Found(table, line, q, n + 1)
    BY <1>1, <1>5, <2>2, FoundBad
  <2> QED
    BY <2>3 DEF q, stored
<1>6. CASE again
  <2>1. WordsTo(table, line, n) = ws
    BY WordsMore
  <2>2. stored = [p EXCEPT !.options = os]
    BY <1>4, <1>6
  <2>3. q = [options |-> os, words |-> ws, wants |-> k, literal |-> FALSE, failed |-> FALSE]
    <3> HIDE DEF os, ws
    <3>1. p = [options |-> p.options, words |-> ws, wants |-> 0, literal |-> FALSE, failed |-> FALSE]
      BY <2>1
    <3>2. stored = [options |-> os, words |-> ws, wants |-> 0, literal |-> FALSE, failed |-> FALSE]
      BY <2>2, <3>1
    <3>3. q = [stored EXCEPT !.wants = k]
      OBVIOUS
    <3> HIDE DEF q
    <3> QED
      BY <3>2, <3>3
  <2> HIDE DEF os, ws, q
  <2>4. Found(table, line, q, n + 1)
    <3>1. os = OptionsTo(table, line, n + 1) /\ ws = WordsTo(table, line, n + 1)
      BY DEF os, ws
    <3>2. FALSE \in BOOLEAN
      OBVIOUS
    <3> QED
      BY <1>1, <1>6, <2>3, <3>1, <3>2, FoundGood
  <2> QED
    BY <2>4 DEF q, stored
<1> QED
  BY <1>5, <1>6

\* An option that is unknown, or without its values, is refused.
LEMMA FoundImproper ==
  ASSUME NEW table, NEW line \in Seq(STRING), NEW n \in Nat, n + 1 <= Len(line),
         n + 1 \in UsesAt(table, line), ~ Proper(table, line, n + 1), NEW p, p.failed = FALSE,
         p = [options |-> p.options, words |-> p.words, wants |-> p.wants, literal |-> p.literal,
              failed |-> FALSE]
  PROVE  Found(table, line, Failed(p), n + 1)
<1>1. ~ InOrderTo(table, line, n + 1)
  BY InOrderMore
<1> DEFINE q == Failed(p)
<1>2. q.failed = TRUE
  BY DEF Failed
<1> HIDE DEF q
<1>3. Found(table, line, q, n + 1)
  BY <1>1, <1>2, FoundBad
<1> QED
  BY <1>3 DEF q

\* argv_parse: one more word.
LEMMA FoundMore ==
  ASSUME NEW table, IsTable(table), NEW line \in Seq(STRING), NEW n \in Nat, n + 1 <= Len(line),
         NEW p, Found(table, line, p, n)
  PROVE  Found(table, line, Read(table, p, line, n + 1), n + 1)
<1> DEFINE i == n + 1
           w == line[i]
           q == Read(table, p, line, i)
           uses == UsesAt(table, line)
           words == WordsAt(table, line)
           heads == Heads(table, line)
           Later(j) == Behind(table, line, j)
           more == InOrderTo(table, line, i)
<1>1. /\ i \in uses <=> i \in heads /\ w \in Dashed \ {"--"} /\ ~ Later(i)
      /\ i \in words <=> Later(i) \/ (i \in heads /\ w \notin Dashed)
      /\ Later(i + 1) <=> Later(i) \/ (i \in heads /\ w = "--")
  <2>1. i \in 1 .. Len(line)
    OBVIOUS
  <2> HIDE DEF i
  <2> QED
    BY <2>1, PlaceIs
<1>2. CASE p.failed
  <2>1. ~ more
    BY <1>2, InOrderMore DEF Found
  <2>2. q = p /\ p.failed = TRUE
    BY <1>2 DEF Read, Found
  <2> HIDE DEF q
  <2>3. Found(table, line, q, n + 1)
    BY <2>1, <2>2, FoundBad
  <2> QED
    BY <2>3 DEF q
<1> DEFINE os == OptionsTo(table, line, n)
           ws == WordsTo(table, line, n)
           k == p.wants
           b == p.literal
<1>3. ASSUME ~ p.failed
      PROVE  /\ p = [options |-> os, words |-> ws, wants |-> k, literal |-> b, failed |-> FALSE]
             /\ k \in Nat /\ b \in BOOLEAN
             /\ b <=> Later(i)
             /\ b => k = 0
             /\ ~ b => Wanting(table, line, n, k)
             /\ InOrderTo(table, line, n)
  BY <1>3 DEF Found
<1>4. CASE ~ p.failed /\ k > 0
  <2>1. k \in Nat /\ k # 0 /\ ~ b /\ ~ Later(i) /\ Wanting(table, line, n, k) /\ InOrderTo(table, line, n)
    BY <1>3, <1>4
  <2>2. i \notin heads
    BY <2>1, HeadIfNotWanted
  <2>3. i \notin uses /\ i \notin words /\ ~ Later(i + 1)
    BY <1>1, <2>1, <2>2
  <2>4. more
    BY <2>1, <2>3, InOrderMore
  <2>5. OptionsTo(table, line, i) = os /\ WordsTo(table, line, i) = ws
    BY <2>3, OptionsSame, WordsMore
  <2>6. Wanting(table, line, i, k - 1) /\ k - 1 \in Nat
    BY <2>1, WantsOneLess
  <2>7. q = [p EXCEPT !.wants = @ - 1]
    BY <1>4 DEF Read
  <2>8. p = [options |-> os, words |-> ws, wants |-> k, literal |-> FALSE, failed |-> FALSE]
    BY <1>3, <1>4, <2>1
  <2> HIDE DEF q, os, ws, k
  <2>9. q = [options |-> os, words |-> ws, wants |-> k - 1, literal |-> FALSE, failed |-> FALSE]
    BY <2>7, <2>8
  <2> DEFINE l == k - 1
  <2>10. FALSE \in BOOLEAN /\ l \in Nat
    BY <2>6
  <2>11. Found(table, line, q, i)
    <3> HIDE DEF l, i
    <3> QED
      BY <2>3, <2>4, <2>5, <2>6, <2>9, <2>10, FoundGood DEF l
  <2> QED
    BY <2>11 DEF q
<1>5. CASE ~ p.failed /\ ~ (k > 0) /\ (b \/ w \notin Dashed)
  <2>1. k = 0 /\ (~ b => Wanting(table, line, n, 0)) /\ InOrderTo(table, line, n) /\ b \in BOOLEAN
    BY <1>3, <1>5
  <2>2. b <=> Later(i)
    BY <1>3, <1>5
  <2>3. ~ b => i \in heads /\ Wanting(table, line, i, 0)
    <3> SUFFICES ASSUME ~ b PROVE i \in heads /\ Wanting(table, line, i, 0)
      OBVIOUS
    <3>1. Extent(table, w) = 0 + 1
      BY <1>5 DEF Extent
    <3> QED
      BY <2>1, <3>1, HeadIfNotWanted, WantsItsWords
  <2>4. i \in words /\ i \notin uses /\ (b <=> Later(i + 1))
    <3>1. w \notin Dashed => w # "--"
      BY CommandLineAssumption
    <3> QED
      BY <1>1, <1>5, <2>2, <2>3, <3>1
  <2>5. q = Positional(p, w)
    BY <1>5 DEF Read
  <2>6. p = [options |-> os, words |-> ws, wants |-> 0, literal |-> b, failed |-> FALSE]
    BY <1>3, <1>5, <2>1
  <2>7. Found(table, line, Positional(p, w), i)
    <3> DEFINE c == b
    <3> HIDE DEF c
    <3>1. c \in BOOLEAN /\ (c <=> Later(i + 1)) /\ (~ c => Wanting(table, line, i, 0))
      BY <2>1, <2>3, <2>4 DEF c
    <3>2. p = [options |-> os, words |-> ws, wants |-> 0, literal |-> c, failed |-> FALSE]
      BY <2>6 DEF c
    <3> QED
      BY <2>1, <2>4, <3>1, <3>2, FoundWord
  <2> HIDE DEF q
  <2>8. Found(table, line, q, i)
    BY <2>5, <2>7
  <2> QED
    BY <2>8 DEF q
<1>6. CASE ~ p.failed /\ ~ (k > 0) /\ ~ b /\ w \in Dashed
  <2>1. /\ p = [options |-> os, words |-> ws, wants |-> 0, literal |-> FALSE, failed |-> FALSE]
        /\ Wanting(table, line, n, 0) /\ InOrderTo(table, line, n) /\ ~ Later(i)
    <3>1. k = 0 /\ b = FALSE
      BY <1>3, <1>6
    <3> HIDE DEF os, ws
    <3> QED
      BY <1>3, <1>6, <3>1
  <2>2. i \in heads
    BY <2>1, HeadIfNotWanted
  <2>3. i \notin words
    BY <1>1, <1>6, <2>1
  <2>4. q = CASE w = "--" -> [p EXCEPT !.literal = TRUE]
              [] w \in DOMAIN Equals -> WithEquals(table, p, Equals[w][1], Equals[w][2])
              [] w \in DOMAIN table \ ({"--"} \cup DOMAIN Equals) -> WithValues(table, p, line, i)
              [] OTHER -> Failed(p)
    BY <1>6, <2>1 DEF Read
  <2>5. "--" \notin DOMAIN Equals
    BY CommandLineAssumption
  <2> HIDE DEF q
  <2>6. CASE w = "--"
    <3>1. q = [p EXCEPT !.literal = TRUE]
      BY <2>4, <2>5, <2>6
    <3>2. i \notin uses /\ Later(i + 1)
      BY <1>1, <2>2, <2>6
    <3>3. more
      BY <2>1, <2>3, <3>2, InOrderMore
    <3>4. OptionsTo(table, line, i) = os /\ WordsTo(table, line, i) = ws
      BY <2>3, <3>2, OptionsSame, WordsMore
    <3> HIDE DEF os, ws
    <3>5. q = [options |-> os, words |-> ws, wants |-> 0, literal |-> TRUE, failed |-> FALSE]
      BY <2>1, <3>1
    <3>6. TRUE \in BOOLEAN /\ 0 \in Nat
      OBVIOUS
    <3>7. Found(table, line, q, i)
      <4> HIDE DEF i
      <4> QED
        BY <3>2, <3>3, <3>4, <3>5, <3>6, FoundGood
    <3> QED
      BY <3>7 DEF q
  <2>7. ASSUME w # "--" PROVE i \in uses /\ ~ Later(i + 1)
    BY <1>1, <1>6, <2>1, <2>2, <2>7
  <2>8. /\ p.failed = FALSE
        /\ p = [options |-> p.options, words |-> p.words, wants |-> p.wants, literal |-> p.literal,
                failed |-> FALSE]
    BY <2>1
  <2>9. ASSUME w # "--", q = Failed(p), ~ Proper(table, line, i) PROVE Found(table, line, q, i)
    <3>1. i \in uses
      BY <2>7, <2>9
    <3>2. Found(table, line, Failed(p), i)
      BY <2>8, <2>9, <3>1, FoundImproper
    <3> QED
      BY <2>9, <3>2
  <2>10. ASSUME w # "--", NEW l \in Nat, Extent(table, w) = l + 1, Proper(table, line, i),
                q = [Stored(table, p, NameAt(line, i), ValuesAt(table, line, i)) EXCEPT !.wants = l]
         PROVE  Found(table, line, q, i)
    <3>1. i \in uses /\ ~ Later(i + 1)
      BY <2>7, <2>10
    <3>2. Wanting(table, line, i, l)
      BY <2>1, <2>10, WantsItsWords
    <3> DEFINE stored == Stored(table, p, NameAt(line, i), ValuesAt(table, line, i))
    <3>3. Found(table, line, [stored EXCEPT !.wants = l], i)
      BY <2>1, <2>3, <2>10, <3>1, <3>2, FoundOption
    <3> QED
      BY <2>10, <3>3
  <2>11. CASE w # "--" /\ w \in DOMAIN Equals
    <3> DEFINE key == Equals[w][1]
               value == Equals[w][2]
    <3>1. q = WithEquals(table, p, key, value)
      BY <2>4, <2>11
    <3>2. NameAt(line, i) = key /\ ValuesAt(table, line, i) = <<value>>
      BY <2>11 DEF NameAt, ValuesAt
    <3>3. Proper(table, line, i) <=> key \in DOMAIN table /\ table[key].takes = 1
      BY <2>11, <3>2 DEF Proper
    <3>4. Extent(table, w) = 0 + 1
      BY <2>11 DEF Extent
    <3>5. CASE Proper(table, line, i)
      <4>1. q = Stored(table, p, key, <<value>>)
        BY <3>1, <3>3, <3>5 DEF WithEquals
      <4>2. Stored(table, p, key, <<value>>) = [Stored(table, p, key, <<value>>) EXCEPT !.wants = 0]
        <5> DEFINE v == <<value>>
                   stored == Stored(table, p, key, v)
        <5>1. p.options = OptionsTo(table, line, n) /\ table[key].last \in BOOLEAN
          BY <2>1, <3>3, <3>5 DEF IsTable
        <5>2. \/ stored = [p EXCEPT !.options = OptionsTo(table, line, i)]
              \/ stored = [p EXCEPT !.failed = TRUE]
          BY <2>7, <2>11, <3>2, <5>1, StoredIs DEF Failed
        <5> HIDE DEF stored, os, ws
        <5>3. stored = [stored EXCEPT !.wants = 0]
          BY <2>1, <5>2
        <5> QED
          BY <5>3 DEF stored
      <4> QED
        BY <2>10, <2>11, <3>2, <3>4, <3>5, <4>1, <4>2 DEF q
    <3>6. CASE ~ Proper(table, line, i)
      <4>1. q = Failed(p)
        BY <3>1, <3>3, <3>6 DEF WithEquals
      <4> QED
        BY <2>9, <2>11, <3>6, <4>1 DEF q
    <3> QED
      BY <3>5, <3>6
  <2>12. CASE w # "--" /\ w \notin DOMAIN Equals /\ w \in DOMAIN table
    <3> DEFINE takes == table[w].takes
               values == SubSeq(line, i + 1, i + takes)
    <3>1. q = WithValues(table, p, line, i)
      BY <2>4, <2>12
    <3>2. NameAt(line, i) = w /\ ValuesAt(table, line, i) = values
      BY <2>12 DEF NameAt, ValuesAt
    <3>3. takes \in Nat /\ Len(line) \in Nat
      BY <2>12 DEF IsTable
    <3>4. Proper(table, line, i) <=> ~ (takes > Len(line) - i)
      <4>1. Proper(table, line, i) <=> i + takes <= Len(line)
        BY <2>12, <3>2 DEF Proper
      <4> HIDE DEF takes
      <4> QED
        BY <3>3, <4>1
    <3>5. Extent(table, w) = takes + 1
      <4>1. Extent(table, w) = 1 + takes
        BY <1>6, <2>12 DEF Extent
      <4> QED
        BY <3>3, <4>1
    <3>6. q = IF takes > Len(line) - i THEN Failed(p)
              ELSE [Stored(table, p, w, values) EXCEPT !.wants = takes]
      BY <3>1 DEF WithValues
    <3>7. CASE Proper(table, line, i)
      <4>1. q = [Stored(table, p, w, values) EXCEPT !.wants = takes]
        BY <3>4, <3>6, <3>7
      <4> HIDE DEF takes, values
      <4> QED
        BY <2>10, <2>12, <3>2, <3>3, <3>5, <3>7, <4>1 DEF q
    <3>8. CASE ~ Proper(table, line, i)
      <4>1. q = Failed(p)
        BY <3>4, <3>6, <3>8
      <4> QED
        BY <2>9, <2>12, <3>8, <4>1 DEF q
    <3> QED
      BY <3>7, <3>8
  <2>13. CASE w # "--" /\ w \notin DOMAIN Equals /\ w \notin DOMAIN table
    <3>1. q = Failed(p)
      BY <2>4, <2>13
    <3>2. ~ Proper(table, line, i)
      BY <2>13 DEF Proper, NameAt
    <3> QED
      BY <2>9, <2>13, <3>1, <3>2 DEF q
  <2>14. Found(table, line, q, i)
    BY <2>6, <2>11, <2>12, <2>13 DEF q
  <2> QED
    BY <2>14 DEF q
<1> QED
  <2>1. ~ p.failed => (k > 0) \/ (~ (k > 0) /\ (b \/ w \notin Dashed)) \/ (~ (k > 0) /\ ~ b /\ w \in Dashed)
    OBVIOUS
  <2> QED
    BY <1>2, <1>4, <1>5, <1>6, <2>1

\* Before the first word there is nothing to find.
LEMMA FoundFirst ==
  ASSUME NEW table, NEW line \in Seq(STRING)
  PROVE  Found(table, line, Blank, 0)
<1> DEFINE empty == <<>>
<1>1. NamesTo(table, line, 0) = empty /\ WordsTo(table, line, 0) = empty
  <2>1. 0 \in Nat
    OBVIOUS
  <2> QED
    BY <2>1, NamesMore, WordsMore
<1>2. DOMAIN empty = {} /\ empty = [k \in {} |-> OptionTo(table, line, empty[k], 0)] /\ Len(empty) = 0
  OBVIOUS
<1>3. Blank = [options |-> empty, words |-> empty, wants |-> 0, literal |-> FALSE, failed |-> FALSE]
  BY DEF Blank
<1> HIDE DEF empty
<1>4. OptionsTo(table, line, 0) = empty
  BY <1>1, <1>2 DEF OptionsTo
<1>5. \A j \in Heads(table, line) : j \in Nat /\ ~ (j <= 0) /\ ~ (j < 0 + 1)
  BY PlacesAre
<1>6. InOrderTo(table, line, 0)
  <2>1. \A j \in UsesAt(table, line) : ~ (j <= 0)
    BY <1>5, PlacesAre
  <2>2. Len(WordsTo(table, line, 0)) <= MaxPositionals
    BY <1>1, <1>2, CommandLineAssumption
  <2> QED
    BY <2>1, <2>2 DEF InOrderTo
<1>7. ~ Behind(table, line, 0 + 1)
  BY <1>5, PlacesAre DEF Behind
<1>8. Wanting(table, line, 0, 0)
  BY <1>5 DEF Wanting
<1>9. FALSE \in BOOLEAN /\ 0 \in Nat
  OBVIOUS
<1> QED
  BY <1>1, <1>3, <1>4, <1>6, <1>7, <1>8, <1>9, FoundGood

\* argv_parse: the parser finds what the places of the words say, for every table and
\* every line.
THEOREM ParseIsReading ==
  ASSUME NEW table, IsTable(table), NEW required, NEW line \in Seq(STRING)
  PROVE  Parse(table, required, line) = Reading(table, required, line)
<1> DEFINE end == Len(line)
<1>1. PICK f :
        /\ f[0] = Blank
        /\ \A i \in 1 .. end : f[i] = Read(table, f[i - 1], line, i)
        /\ Parse(table, required, line)
             = IF f[end].failed \/ \E name \in required : ~ Has(f[end], name) THEN Garbled
               ELSE [failed |-> FALSE, options |-> f[end].options, words |-> f[end].words]
  BY ParseSteps
<1>2. end \in Nat
  OBVIOUS
<1> DEFINE P == {n \in Nat : n <= end => Found(table, line, f[n], n)}
<1>3. 0 \in P
  BY <1>1, FoundFirst
<1>4. ASSUME NEW n \in Nat, n \in P PROVE n + 1 \in P
  <2> SUFFICES ASSUME n + 1 <= end PROVE Found(table, line, f[n + 1], n + 1)
    OBVIOUS
  <2>1. Found(table, line, f[n], n)
    BY <1>2, <1>4
  <2>2. n + 1 \in 1 .. end /\ (n + 1) - 1 = n
    BY <1>2
  <2>3. f[n + 1] = Read(table, f[n], line, n + 1)
    BY <1>1, <2>2
  <2> DEFINE p == f[n]
  <2> HIDE DEF p
  <2>4. Found(table, line, Read(table, p, line, n + 1), n + 1)
    BY <2>1, FoundMore DEF p
  <2> QED
    BY <2>3, <2>4 DEF p
<1>5. Nat \subseteq P
  <2> HIDE DEF P
  <2> QED
    BY <1>3, <1>4, SetInduction
<1> DEFINE p == f[end]
<1>6. Found(table, line, p, end)
  <2>1. end \in P /\ end <= end
    BY <1>2, <1>5
  <2> QED
    BY <2>1
<1> HIDE DEF p
<1> DEFINE uses    == UsesAt(table, line)
           of(n)   == {i \in uses : NameAt(line, i) = n}
           last(n) == CHOOSE i \in of(n) : \A j \in of(n) : j <= i
           firsts  == {i \in uses : \A j \in of(NameAt(line, i)) : i <= j}
           names   == Joined([i \in firsts |-> <<NameAt(line, i)>>], end)
           words   == Joined([i \in WordsAt(table, line) |-> <<line[i]>>], end)
           said    == [k \in DOMAIN names |->
                         [name |-> names[k], values |-> ValuesAt(table, line, last(names[k]))]]
           order   == /\ \A i \in uses : Proper(table, line, i)
                      /\ \A i \in uses \ firsts : table[NameAt(line, i)].last
                      /\ Len(words) <= MaxPositionals
                      /\ \A n \in required : of(n) # {}
<1>7. Reading(table, required, line)
        = IF order THEN [failed |-> FALSE, options |-> said, words |-> words] ELSE Garbled
  BY DEF Reading
<1>8. \A j \in uses : j <= end
  BY <1>2, PlacesAre
<1>9. \A n : of(n) = UsesTo(table, line, n, end)
  BY <1>8 DEF UsesTo
<1>10. \A n : last(n) = LastTo(table, line, n, end)
  <2> HIDE DEF of
  <2> QED
    BY <1>9 DEF LastTo
<1>11. firsts = FirstUses(table, line)
  BY DEF FirstUses
<1>12. words = WordsTo(table, line, end)
  BY DEF WordsTo
<1> HIDE DEF firsts, last, of, words
<1>13. names = NamesTo(table, line, end)
  BY <1>11 DEF NamesTo
<1> HIDE DEF names
<1>14. said = OptionsTo(table, line, end)
  BY <1>10, <1>13 DEF OptionsTo, OptionTo
<1>15. order <=> InOrderTo(table, line, end) /\ \A n \in required : UsesTo(table, line, n, end) # {}
  BY <1>8, <1>9, <1>11, <1>12 DEF InOrderTo
<1> HIDE DEF order, said
<1>16. CASE p.failed
  <2>1. ~ order
    BY <1>6, <1>15, <1>16 DEF Found
  <2> QED
    BY <1>1, <1>7, <1>16, <2>1 DEF p
<1>17. CASE ~ p.failed
  <2>1. /\ InOrderTo(table, line, end)
        /\ p = [options |-> OptionsTo(table, line, end), words |-> WordsTo(table, line, end),
                wants |-> p.wants, literal |-> p.literal, failed |-> FALSE]
    BY <1>6, <1>17 DEF Found
  <2>2. p.options = said /\ p.words = words
    BY <1>12, <1>14, <2>1
  <2>3. ASSUME NEW name PROVE Has(p, name) <=> UsesTo(table, line, name, end) # {}
    <3> DEFINE s == NamesTo(table, line, end)
    <3>1. (\E k \in DOMAIN s : s[k] = name) <=> UsesTo(table, line, name, end) # {}
      BY <1>2, NamesAre
    <3>2. DOMAIN p.options = DOMAIN s /\ \A k \in DOMAIN s : p.options[k].name = s[k]
      BY <1>14, <2>2 DEF OptionsTo, OptionTo
    <3> HIDE DEF s
    <3> QED
      BY <3>1, <3>2 DEF Has, Uses
  <2>4. order <=> ~ \E name \in required : ~ Has(p, name)
    BY <1>15, <2>1, <2>3
  <2>5. Parse(table, required, line)
          = IF p.failed \/ \E name \in required : ~ Has(p, name) THEN Garbled
            ELSE [failed |-> FALSE, options |-> p.options, words |-> p.words]
    BY <1>1 DEF p
  <2> QED
    BY <1>7, <1>17, <2>2, <2>4, <2>5
<1> QED
  BY <1>16, <1>17

\* The tables say of each option how many words it takes.
LEMMA TablesAre ==
  ASSUME NEW mode \in {"default", "from", "alias", "transmit"}
  PROVE  IsTable(Tables[mode])
<1>1. IsTable(ModeTable) /\ IsTable(SaveTable) /\ IsTable(AliasTable) /\ IsTable(TransmitTable)
  BY DEF IsTable, ModeTable, SaveTable, AliasTable, TransmitTable, Option
<1> QED
  BY <1>1 DEF Tables

\* opts.c, app_opts_parse_command: every line makes the command that is meant by it.
THEOREM CommandIsMeant ==
  ASSUME NEW line \in Seq(STRING)
  PROVE  Command(line) = Meant(line)
<1> DEFINE mode == ParseMode(line)
           args == Arguments(mode, line)
<1>1. CASE mode = "help"
  BY <1>1 DEF Command, Meant
<1>2. CASE mode # "help"
  <2>1. mode \in {"default", "from", "alias", "transmit"} /\ line # <<>>
    BY <1>2 DEF ParseMode
  <2>2. args \in Seq(STRING)
    <3>1. line \in Seq(STRING) /\ line # <<>>
      BY <2>1
    <3> HIDE DEF mode
    <3>2. Tail(line) \in Seq(STRING)
      BY <3>1
    <3>3. args = line \/ args = Tail(line)
      BY DEF Arguments
    <3> QED
      BY <3>1, <3>2, <3>3
  <2>3. IsTable(Tables[mode])
    BY <2>1, TablesAre
  <2> DEFINE table == Tables[mode]
             required == Required(mode)
  <2> HIDE DEF mode, args, table, required
  <2>4. Parse(table, required, args) = Reading(table, required, args)
    BY <2>2, <2>3, ParseIsReading DEF table
  <2>5. Command(line) = CommandOf(mode, line, Parse(table, required, args))
    BY <1>2 DEF Command, mode, args, table, required
  <2>6. Meant(line) = CommandOf(mode, line, Reading(table, required, args))
    BY <1>2 DEF Meant, mode, args, table, required
  <2> QED
    BY <2>4, <2>5, <2>6
<1> QED
  BY <1>1, <1>2

-----------------------------------------------------------------------------
(* The inductive invariant *)

\* Every line given makes the command meant by it.
LEMMA LinesReadAsMeant == \A run \in Runs : run.command = run.meant
<1> SUFFICES ASSUME NEW g \in Given PROVE Command(g.line) = g.meant
  BY DEF Runs
<1>1. g.line \in Seq(STRING) /\ g.meant = Meant(g.line)
  BY ClientCommandsAssumption
<1> QED
  BY <1>1, CommandIsMeant

\* What maps and set commands gave, and what was torn.
Known == given \cup torn

\* What a text reads back as.
Says(kind, text) == GivenBy(kind, Parsed(text))

\* What a command makes of the list it read.
Changed(m, list) ==
  IF m.op = "set" THEN Updated(list, EntryOf(m)) ELSE Without(list, Spelled[m.name])

AtStep(pc, op) ==
  \/ op \in {"set", "delete"} /\ pc \in {"look", "read", "open", "write"}
  \/ op = "wipe" /\ pc \in {"unlink user", "unlink action"}
  \/ op = "save" /\ pc \in {"save", "keep"}
  \/ op = "clear" /\ pc = "clear"
  \/ op = "knock" /\ pc \in {"user", "action", "default", "sent"}

Commands == {Refused} \cup {run.command : run \in Runs}
Meanings == {Refused} \cup {run.meant : run \in Runs}

Pcs == {"idle", "look", "read", "open", "write", "unlink user", "unlink action", "save", "keep",
           "clear", "user", "action", "default", "sent"}

ClientRecord == [pc : Pcs, command : Commands, meant : Meanings, list : Seq(Item),
          read : Seq(Item),
          linked : BOOLEAN, alone : BOOLEAN, user : Nat, action : Nat, from : Ips \cup {Unset}]

\* What a command that is not idle is at.
Busy(k, gv) ==
  /\ \E run \in Runs : k.command = run.command /\ k.meant = run.meant
  /\ k.command = k.meant
  /\ Accepted(k.meant)
  /\ AtStep(k.pc, k.meant.op)
  /\ k.meant.op = "set" => GivenIn(k.meant) \subseteq gv

\* The list in memory is what the command makes of the list it read, and gives nothing
\* new, nor does what its text reads back as.
ListOK(k, gv) ==
  IF k.pc \in {"open", "write"}
  THEN /\ k.read \in Seq(Legible) /\ k.list = Changed(k.meant, k.read)
       /\ GivenBy(k.meant.kind, k.list) \subseteq gv
       /\ Says(k.meant.kind, Written(k.list)) \subseteq gv
  ELSE k.list = <<>> /\ k.read = <<>>

IdsOK(k, gv) ==
  /\ k.user \in 0 .. MaxId["user"] /\ k.action \in 0 .. MaxId["action"]
  /\ k.user # 0 => <<"user", Spelled[k.meant.user], k.user>> \in gv \/ k.user = Number[k.meant.user]
  /\ k.action # 0 =>
       <<"action", Spelled[k.meant.action], k.action>> \in gv \/ k.action = Number[k.meant.action]

DefaultIn(df, user) == IF df[user] \in Ips THEN df[user] ELSE Unset

\* What a command that runs alone has found is still so.
AloneOK(k, mp, df) ==
  k.alone =>
    /\ k.pc = "write" => k.linked /\ mp[k.meant.kind].text = <<>>
    /\ k.pc \in {"action", "default", "sent"} =>
         k.user # 0 /\ k.user = Resolved("user", mp["user"].text, k.meant.user)
    /\ k.pc \in {"default", "sent"} =>
         k.action # 0 /\ k.action = Resolved("action", mp["action"].text, k.meant.action)
    /\ k.pc = "sent" =>
         k.from = IF Told(k.meant) # Unset THEN Told(k.meant) ELSE DefaultIn(df, k.meant.user)

Steady(k, gv) == k \in ClientRecord /\ (k = Idle \/ Busy(k, gv)) /\ ListOK(k, gv) /\ IdsOK(k, gv)

ClientOK(k, mp, df, gv) == Steady(k, gv) /\ AloneOK(k, mp, df)

MapsOK(mp, gv) ==
  /\ mp \in [Kinds -> [exists : BOOLEAN, text : Text]]
  /\ \A k \in Kinds : ~ mp[k].exists => mp[k] = Absent
  /\ \A k \in Kinds : Says(k, mp[k].text) \subseteq gv

DefaultsOK(df) == df \in [Names -> {"absent", "empty"} \cup Ips]

\* A file that still has its name is there.
LinkedOK(k, mp) == k.pc = "write" /\ k.linked => mp[k.meant.kind].exists

CommandsInv ==
  /\ MapsOK(maps, Known)
  /\ \A c \in Clients : LinkedOK(client[c], maps)
  /\ DefaultsOK(defaults)
  /\ client \in [Clients -> ClientRecord]
  /\ \A c \in Clients : ClientOK(client[c], maps, defaults, Known)
  /\ \A c \in Clients : client[c].alone => \A o \in Others(c) : client[o] = Idle
  /\ started \in 0 .. MaxCommands

\* An empty map gives nothing.
LEMMA EmptyIs ==
  /\ <<>> \in Text /\ <<>> \in Seq(Item) /\ <<>> \in Seq(Legible)
  /\ \A k : GivenBy(k, <<>>) = {} /\ Says(k, <<>>) = {}
BY ParsedNone DEF GivenBy, Says

\* What a command makes of the list it read.
LEMMA ChangedIs ==
  ASSUME NEW gv, NEW m, NEW list \in Seq(Legible), GivenBy(m.kind, list) \subseteq gv,
         m.op = "set" => EntryOf(m) \in Item /\ GivenIn(m) \subseteq gv
  PROVE  /\ Changed(m, list) \in Seq(Item)
         /\ GivenBy(m.kind, Changed(m, list)) \subseteq gv
         /\ Says(m.kind, Written(Changed(m, list))) \subseteq gv
<1>1. CASE m.op = "set"
  <2> DEFINE e == EntryOf(m)
             kind == m.kind
  <2>1. Changed(m, list) = Updated(list, e)
    BY <1>1 DEF Changed
  <2>2. e \in Item /\ <<kind, e.name, e.id>> \in gv /\ GivenBy(kind, Parsed(WriteLine(e))) \subseteq gv
    BY <1>1 DEF GivenIn, EntryOf, Entry
  <2>3. GivenBy(kind, list) \subseteq gv
    OBVIOUS
  <2> HIDE DEF e, kind
  <2>4. /\ Updated(list, e) \in Seq(Item) /\ GivenBy(kind, Updated(list, e)) \subseteq gv
        /\ GivenBy(kind, Parsed(Written(Updated(list, e)))) \subseteq gv
    BY <2>2, <2>3, UpdatedGives
  <2> QED
    BY <2>1, <2>4 DEF Says, kind
<1>2. CASE m.op # "set"
  <2> DEFINE new == Without(list, Spelled[m.name])
  <2>1. Changed(m, list) = new
    BY <1>2 DEF Changed
  <2>2. new \in Seq(Legible) /\ GivenBy(m.kind, new) \subseteq gv
    BY WithoutIs
  <2> HIDE DEF new
  <2>3. new \in Seq(Item) /\ \A i \in DOMAIN new : new[i] \in Legible
    BY <2>2, LegibleSeq
  <2>4. Parsed(Written(new)) = new
    BY <2>3, LegibleReadsBack
  <2> QED
    BY <2>1, <2>2, <2>3, <2>4 DEF Says
<1> QED
  BY <1>1, <1>2

\* A client without a command holds nothing that could go stale.
LEMMA IdleOK ==
  /\ Idle \in ClientRecord
  /\ Idle.pc = "idle" /\ Idle.list = <<>> /\ Idle.read = <<>> /\ ~ Idle.alone
  /\ \A n : n = [Idle EXCEPT !.linked = FALSE] => n = Idle
  /\ \A n : n = [Idle EXCEPT !.alone = FALSE] => n = Idle
  /\ \A mp, df, gv : ClientOK(Idle, mp, df, gv)
<1>1. Idle \in ClientRecord
  <2>1. Refused \in Commands /\ Refused \in Meanings /\ <<>> \in Seq(Item)
    BY EmptyIs DEF Commands, Meanings
  <2> DEFINE empty == <<>>
  <2>2. /\ Idle = [pc |-> "idle", command |-> Refused, meant |-> Refused, list |-> empty,
                   read |-> empty, linked |-> FALSE, alone |-> FALSE, user |-> 0, action |-> 0,
                   from |-> Unset]
        /\ empty \in Seq(Item)
    BY <2>1 DEF Idle
  <2> HIDE DEF empty
  <2> DEFINE pc == "idle"
  <2>3. pc \in Pcs
    BY DEF Pcs
  <2> HIDE DEF pc
  <2> QED
    BY ONLY <2>1, <2>2, <2>3 DEF ClientRecord, pc
<1>2. /\ Idle.pc = "idle" /\ Idle.list = <<>> /\ Idle.read = <<>> /\ Idle.alone = FALSE
      /\ Idle.user = 0 /\ Idle.action = 0
  BY DEF Idle
<1>3. ASSUME NEW n, n = [Idle EXCEPT !.linked = FALSE] \/ n = [Idle EXCEPT !.alone = FALSE]
      PROVE  n = Idle
  BY <1>3 DEF Idle
<1>4. MaxId["user"] \in Nat /\ MaxId["action"] \in Nat
  BY AliasMapAssumption DEF Kinds
<1>5. ASSUME NEW mp, NEW df, NEW gv PROVE ClientOK(Idle, mp, df, gv)
  BY <1>1, <1>2, <1>4 DEF ClientOK, Steady, ListOK, IdsOK, AloneOK
<1> QED
  BY <1>1, <1>2, <1>3, <1>5

\* What others do leaves a command that is not alone, apart from the name of its file.
LEMMA Unaffected ==
  ASSUME NEW k, NEW gv, NEW gw, NEW n, Steady(k, gv), gv \subseteq gw, k # Idle => ~ n.alone,
         \/ n = k
         \/ n = [k EXCEPT !.linked = FALSE]
         \/ n = [k EXCEPT !.alone = FALSE]
  PROVE  \A mp, df : ClientOK(n, mp, df, gw)
<1>1. CASE k = Idle
  <2>1. n = Idle
    BY <1>1, IdleOK
  <2> QED
    BY <2>1, IdleOK
<1>2. CASE k # Idle
  <2>1. k \in ClientRecord
    BY DEF Steady
  <2>2. /\ n \in ClientRecord
        /\ n.pc = k.pc /\ n.command = k.command /\ n.meant = k.meant /\ n.list = k.list
        /\ n.read = k.read /\ n.user = k.user /\ n.action = k.action
    BY <2>1 DEF ClientRecord
  <2>3. Busy(k, gv) /\ ListOK(k, gv) /\ IdsOK(k, gv)
    BY <1>2 DEF Steady
  <2>4. Busy(n, gw)
    BY <2>2, <2>3 DEF Busy
  <2>5. ListOK(n, gw)
    BY <2>2, <2>3 DEF ListOK
  <2>6. IdsOK(n, gw)
    BY <2>2, <2>3 DEF IdsOK
  <2>7. ~ n.alone
    BY <1>2
  <2> QED
    BY <2>2, <2>4, <2>5, <2>6, <2>7 DEF ClientOK, Steady, AloneOK
<1> QED
  BY <1>1, <1>2

\* A step of a command keeps the invariant if what it leaves does.
LEMMA ChangeMade ==
  ASSUME CommandsInv, NEW c \in Clients, client[c] # Idle,
         MapsOK(maps', Known'), DefaultsOK(defaults'), Known \subseteq Known', UNCHANGED started,
         client' = [x \in Clients |-> client'[x]],
         ClientOK(client'[c], maps', defaults', Known'),
         client'[c].alone => client[c].alone,
         \A x \in Clients : LinkedOK(client'[x], maps'),
         \A x \in Others(c) : client'[x] = client[x] \/ client'[x] = [client[x] EXCEPT !.linked = FALSE]
  PROVE  CommandsInv'
<1>1. ASSUME NEW x \in Others(c) PROVE ClientOK(client'[x], maps', defaults', Known')
  <2>1. /\ x \in Clients /\ c \in Others(x)
        /\ Steady(client[x], Known) /\ client[x] \in ClientRecord
        /\ client[x].alone => client[c] = Idle
    BY <1>1 DEF CommandsInv, Others, ClientOK
  <2>2. ~ client'[x].alone
    BY <1>1, <2>1 DEF ClientRecord
  <2>3. client'[x] = client[x] \/ client'[x] = [client[x] EXCEPT !.linked = FALSE]
    BY <1>1
  <2> QED
    BY <2>1, <2>2, <2>3, Unaffected
<1>2. \A x \in Clients : ClientOK(client'[x], maps', defaults', Known')
  BY <1>1 DEF Others
<1>3. \A x \in Clients : client'[x] \in ClientRecord
  BY <1>2 DEF ClientOK, Steady
<1>4. ASSUME NEW x \in Clients, client'[x].alone, NEW o \in Others(x) PROVE client'[o] = Idle
  <2>1. client[x].alone
    <3>1. CASE x = c
      BY <1>4, <3>1
    <3>2. CASE x # c
      <4>1. client[x] \in ClientRecord /\ x \in Others(c)
        BY <3>2 DEF CommandsInv, Others
      <4> QED
        BY <1>4, <4>1 DEF ClientRecord
    <3> QED
      BY <3>1, <3>2
  <2>2. client[o] = Idle
    BY <1>4, <2>1 DEF CommandsInv
  <2>3. o \in Others(c)
    BY <1>4, <2>2 DEF Others
  <2> QED
    BY <2>2, <2>3, IdleOK
<1>5. client' \in [Clients -> ClientRecord]
  BY <1>3
<1> QED
  BY <1>2, <1>4, <1>5 DEF CommandsInv

\* Names and hosts are texts.
LEMMA SpelledIs == \A w \in DOMAIN Spelled \cup Names : Spelled[w] \in Text
BY AliasMapAssumption DEF Text

\* What a command that runs is about.
LEMMA RunsAsMeant ==
  ASSUME CommandsInv, NEW c \in Clients, client[c].pc # "idle"
  PROVE  LET k == client[c]
             m == k.meant
         IN  /\ k # Idle /\ k \in ClientRecord /\ ListOK(k, Known) /\ IdsOK(k, Known)
             /\ k.command = m /\ Busy(k, Known)
             /\ AtStep(k.pc, m.op)
             /\ m.op \in {"set", "delete"} => m.kind \in Kinds /\ m.name \in Names
             /\ m.op = "set" =>
                  InRange(m.kind, m.id) /\ EntryOf(m) \in Item /\ GivenIn(m) \subseteq Known
             /\ m.op \in {"save", "clear"} => m.name \in Names
             /\ m.op = "save" => m.ip \in Ips
             /\ m.op = "knock" => m.user \in Names /\ m.action \in Names
<1> DEFINE k == client[c]
<1>1. k # Idle
  BY IdleOK
<1>2. k \in ClientRecord /\ Busy(k, Known) /\ ListOK(k, Known) /\ IdsOK(k, Known)
  BY <1>1 DEF CommandsInv, ClientOK, Steady
<1>3. PICK run \in Runs : k.meant = run.meant
  BY <1>2 DEF Busy
<1>4. PICK g \in Given : k.meant = g.meant
  BY <1>3 DEF Runs
<1> HIDE DEF k
<1>5. LET m == k.meant
      IN  /\ m.op \in {"set", "delete"} => m.kind \in Kinds /\ m.name \in Names
          /\ m.op = "set" => InRange(m.kind, m.id) /\ m.host \in DOMAIN Spelled
          /\ m.op \in {"save", "clear"} => m.name \in Names
          /\ m.op = "save" => m.ip \in Ips
          /\ m.op = "knock" => m.user \in Names /\ m.action \in Names
  BY <1>4, ClientCommandsAssumption
<1>6. /\ k.command = k.meant /\ AtStep(k.pc, k.meant.op)
      /\ k.meant.op = "set" => GivenIn(k.meant) \subseteq Known
  BY <1>2 DEF Busy
<1>7. ASSUME k.meant.op = "set" PROVE EntryOf(k.meant) \in Item
  <2> DEFINE m == k.meant
  <2>1. m.kind \in Kinds /\ m.name \in Names /\ m.host \in DOMAIN Spelled /\ InRange(m.kind, m.id)
    BY <1>5, <1>7
  <2> HIDE DEF m
  <2>2. Spelled[m.name] \in Text /\ Spelled[m.host] \in Text
    BY <2>1, SpelledIs
  <2>3. Uint32Max \in Nat /\ MaxId[m.kind] \in 0 .. Uint32Max
    BY <2>1, AliasMapAssumption
  <2>4. m.id \in 1 .. Uint32Max
    BY <2>1, <2>3 DEF InRange
  <2> QED
    BY <2>2, <2>4 DEF EntryOf, Entry, Item, m
<1> QED
  BY <1>1, <1>2, <1>5, <1>6, <1>7 DEF k

\* The same, of a step that takes no file away.
LEMMA StepMade ==
  ASSUME CommandsInv, NEW c \in Clients, client[c] # Idle,
         MapsOK(maps', Known'), DefaultsOK(defaults'), Known \subseteq Known', UNCHANGED started,
         client' = [x \in Clients |-> client'[x]],
         ClientOK(client'[c], maps', defaults', Known'),
         client'[c].alone => client[c].alone,
         \A q \in Kinds : maps[q].exists => maps'[q].exists,
         LinkedOK(client'[c], maps'),
         \A x \in Others(c) : client'[x] = client[x] \/ client'[x] = [client[x] EXCEPT !.linked = FALSE]
  PROVE  CommandsInv'
<1>1. ASSUME NEW x \in Others(c) PROVE LinkedOK(client'[x], maps')
  <2>1. x \in Clients /\ client[x] \in ClientRecord /\ LinkedOK(client[x], maps)
    BY DEF Others, CommandsInv
  <2>2. CASE client'[x] = client[x]
    <3>1. CASE client[x].pc = "write"
      <4>1. client[x].meant.kind \in Kinds
        BY <2>1, <3>1, RunsAsMeant DEF AtStep
      <4> QED
        BY <2>1, <2>2, <4>1 DEF LinkedOK
    <3>2. CASE client[x].pc # "write"
      BY <2>2, <3>2 DEF LinkedOK
    <3> QED
      BY <3>1, <3>2
  <2>3. CASE client'[x] = [client[x] EXCEPT !.linked = FALSE]
    BY <2>1, <2>3 DEF LinkedOK, ClientRecord
  <2> QED
    BY <2>2, <2>3
<1>2. \A x \in Clients : LinkedOK(client'[x], maps')
  BY <1>1 DEF Others
<1> QED
  BY <1>2, ChangeMade

\* A command that is done, or given up.
LEMMA EndMade ==
  ASSUME CommandsInv, NEW c \in Clients, client[c] # Idle, Ends(c),
         \A q \in Kinds : maps[q].exists => maps'[q].exists,
         MapsOK(maps', Known'), DefaultsOK(defaults'), Known \subseteq Known', UNCHANGED started
  PROVE  CommandsInv'
<1>1. client \in [Clients -> ClientRecord]
  BY DEF CommandsInv
<1>2. /\ client' = [x \in Clients |-> client'[x]]
      /\ client'[c] = Idle
      /\ \A x \in Others(c) : client'[x] = client[x]
  BY <1>1 DEF Ends, Others
<1>3. ClientOK(client'[c], maps', defaults', Known') /\ ~ client'[c].alone
  BY <1>2, IdleOK
<1>4. LinkedOK(client'[c], maps')
  BY <1>2, IdleOK DEF LinkedOK
<1> QED
  BY <1>2, <1>3, <1>4, StepMade

-----------------------------------------------------------------------------
(* Its steps *)

\* Maps of older versions, no defaults and no command.
LEMMA InitOK == Init => CommandsInv
<1> SUFFICES ASSUME Init PROVE CommandsInv
  OBVIOUS
<1>1. \A k \in Kinds : OldFiles(k) \subseteq [exists : BOOLEAN, text : Text]
  <2>1. \A k \in Kinds : OldMaps[k] \subseteq Text
    BY ClientCommandsAssumption DEF Text
  <2> DEFINE empty == <<>>
             File(l) == [exists |-> TRUE, text |-> l]
  <2>2. \A l \in Text : File(l) \in [exists : BOOLEAN, text : Text]
    OBVIOUS
  <2>3. Absent \in [exists : BOOLEAN, text : Text]
    <3>1. Absent = [exists |-> FALSE, text |-> empty] /\ empty \in Text
      BY EmptyIs DEF Absent
    <3> HIDE DEF empty
    <3> QED
      BY <3>1
  <2>4. \A k \in Kinds : OldFiles(k) = {Absent} \cup {File(l) : l \in OldMaps[k]}
    BY DEF OldFiles
  <2> HIDE DEF empty, File
  <2> QED
    BY <2>1, <2>2, <2>3, <2>4
<1>2. PICK u \in OldFiles("user"), a \in OldFiles("action") : maps = [user |-> u, action |-> a]
  BY DEF Init
<1>3. maps = [k \in Kinds |-> maps[k]] /\ \A k \in Kinds : maps[k] \in OldFiles(k)
  BY <1>2 DEF Kinds
<1>4. maps \in [Kinds -> [exists : BOOLEAN, text : Text]]
  BY <1>1, <1>3
<1>5. \A k \in Kinds : ~ maps[k].exists => maps[k] = Absent
  BY <1>3 DEF OldFiles
<1>6. \A k \in Kinds : Says(k, maps[k].text) \subseteq Known
  BY DEF Init, Known, Says
<1>7. client = [c \in Clients |-> Idle] /\ started = 0 /\ defaults = [n \in Names |-> "absent"]
  BY DEF Init
<1>8. MaxCommands \in Nat
  BY ClientCommandsAssumption
<1> QED
  BY <1>4, <1>5, <1>6, <1>7, <1>8, IdleOK DEF CommandsInv, MapsOK, DefaultsOK, LinkedOK

\* alias.c: access says whether there is a map.
LEMMA LookKeeps == ASSUME CommandsInv, NEW c \in Clients, Look(c) PROVE CommandsInv'
<1> DEFINE k == client[c]
           n == client'[c]
           m == k.meant
<1>1. k.pc = "look" /\ UNCHANGED <<maps, defaults, started>> /\ Known' = Known
  BY DEF Look, On, Known
<1>2. /\ k # Idle /\ k \in ClientRecord /\ ListOK(k, Known) /\ IdsOK(k, Known)
      /\ k.command = m /\ Busy(k, Known) /\ AtStep("look", m.op)
      /\ m.op \in {"set", "delete"} => m.kind \in Kinds /\ m.name \in Names
      /\ m.op = "set" => EntryOf(m) \in Item /\ GivenIn(m) \subseteq Known
  BY <1>1, RunsAsMeant
<1>3. MapsOK(maps', Known) /\ DefaultsOK(defaults') /\ client \in [Clients -> ClientRecord]
  BY <1>1 DEF CommandsInv
<1>4. CASE Goes(c, "read")
  <2>1. /\ client' = [x \in Clients |-> client'[x]]
        /\ n = [k EXCEPT !.pc = "read"]
        /\ \A x \in Others(c) : client'[x] = client[x]
    BY <1>3, <1>4 DEF Goes, Others
  <2>2. /\ n \in ClientRecord /\ n.pc = "read"
        /\ n.command = k.command /\ n.meant = k.meant /\ n.list = k.list /\ n.read = k.read
        /\ n.user = k.user /\ n.action = k.action /\ n.alone = k.alone
    BY <1>2, <2>1 DEF ClientRecord, Pcs
  <2> HIDE DEF n
  <2>3. Busy(n, Known)
    BY <1>1, <1>2, <2>2 DEF Busy, AtStep
  <2>4. ListOK(n, Known) /\ IdsOK(n, Known)
    BY <1>1, <1>2, <2>2 DEF ListOK, IdsOK
  <2>5. ClientOK(n, maps', defaults', Known)
    BY <2>2, <2>3, <2>4 DEF ClientOK, Steady, AloneOK
  <2> QED
    BY <1>1, <1>2, <1>3, <2>1, <2>2, <2>5, StepMade DEF n, LinkedOK
<1>5. CASE /\ m.op = "set"
           /\ client' = [client EXCEPT ![c].pc = "open",
                                       ![c].list = Updated(<<>>, EntryOf(client[c].command))]
  <2> DEFINE new == Changed(m, k.read)
  <2>1. /\ k.read = <<>> /\ k.read \in Seq(Legible) /\ GivenBy(m.kind, k.read) \subseteq Known
    BY <1>1, <1>2, EmptyIs DEF ListOK
  <2>2. /\ new \in Seq(Item) /\ GivenBy(m.kind, new) \subseteq Known
        /\ Says(m.kind, Written(new)) \subseteq Known
    BY <1>2, <2>1, ChangedIs
  <2>3. new = Updated(<<>>, EntryOf(m))
    BY <1>5, <2>1 DEF Changed
  <2> HIDE DEF new
  <2>4. client' = [client EXCEPT ![c].pc = "open", ![c].list = new]
    BY <1>2, <1>5, <2>3
  <2>5. /\ client' = [x \in Clients |-> client'[x]]
        /\ n = [k EXCEPT !.pc = "open", !.list = new]
        /\ \A x \in Others(c) : client'[x] = client[x]
    BY <1>3, <2>4 DEF Others
  <2>6. /\ n \in ClientRecord /\ n.pc = "open"
        /\ n.command = k.command /\ n.meant = k.meant /\ n.list = new /\ n.read = k.read
        /\ n.user = k.user /\ n.action = k.action /\ n.alone = k.alone
    BY <1>2, <2>2, <2>5 DEF ClientRecord, Pcs
  <2> HIDE DEF n
  <2>7. Busy(n, Known)
    BY <1>1, <1>2, <2>6 DEF Busy, AtStep
  <2>8. ListOK(n, Known) /\ IdsOK(n, Known)
    <3>1. new = Changed(m, k.read)
      BY DEF new
    <3>2. ListOK(n, Known)
      BY <2>1, <2>6, <2>2, <3>1 DEF ListOK
    <3> QED
      BY <1>2, <2>6, <3>2 DEF IdsOK
  <2>9. ClientOK(n, maps', defaults', Known)
    BY <2>6, <2>7, <2>8 DEF ClientOK, Steady, AloneOK
  <2> QED
    BY <1>1, <1>2, <1>3, <2>5, <2>6, <2>9, StepMade DEF n, LinkedOK
<1>6. CASE Ends(c)
  BY <1>1, <1>2, <1>3, <1>6, EndMade
<1> QED
  BY <1>2, <1>4, <1>5, <1>6 DEF Look

\* app_alias_read_map and the change of the list in memory.
LEMMA ReadMapKeeps == ASSUME CommandsInv, NEW c \in Clients, ReadMap(c) PROVE CommandsInv'
<1> DEFINE k == client[c]
           n == client'[c]
           m == k.meant
           found == Parsed(maps[m.kind].text)
           new == Changed(m, found)
<1>1. k.pc = "read" /\ UNCHANGED <<maps, defaults, started>> /\ Known' = Known
  BY DEF ReadMap, On, Known
<1>2. /\ k # Idle /\ k \in ClientRecord /\ ListOK(k, Known) /\ IdsOK(k, Known)
      /\ k.command = m /\ Busy(k, Known) /\ AtStep("read", m.op)
      /\ m.op \in {"set", "delete"} => m.kind \in Kinds /\ m.name \in Names
      /\ m.op = "set" => EntryOf(m) \in Item /\ GivenIn(m) \subseteq Known
  BY <1>1, RunsAsMeant
<1>3. MapsOK(maps', Known) /\ DefaultsOK(defaults') /\ client \in [Clients -> ClientRecord]
  BY <1>1 DEF CommandsInv
<1>4. CASE Ends(c)
  BY <1>1, <1>2, <1>3, <1>4, EndMade
<1>5. CASE client' = [client EXCEPT ![c].pc = "open", ![c].read = found, ![c].list = new]
  <2>1. m.kind \in Kinds /\ m.name \in Names /\ m.op \in {"set", "delete"}
    BY <1>2 DEF AtStep
  <2>2. maps[m.kind].text \in Text /\ Says(m.kind, maps[m.kind].text) \subseteq Known
    BY <1>1, <1>3, <2>1 DEF MapsOK
  <2>3. found \in Seq(Legible) /\ found \in Seq(Item) /\ GivenBy(m.kind, found) \subseteq Known
    BY <2>2, ParsedIs, LegibleSeq DEF Says
  <2> HIDE DEF found
  <2>4. /\ new \in Seq(Item) /\ GivenBy(m.kind, new) \subseteq Known
        /\ Says(m.kind, Written(new)) \subseteq Known
    BY <1>2, <2>3, ChangedIs
  <2>5. new = Changed(m, found)
    OBVIOUS
  <2> HIDE DEF new
  <2>6. /\ client' = [x \in Clients |-> client'[x]]
        /\ n = [k EXCEPT !.pc = "open", !.read = found, !.list = new]
        /\ \A x \in Others(c) : client'[x] = client[x]
    BY <1>3, <1>5 DEF Others
  <2>7. /\ n \in ClientRecord /\ n.pc = "open"
        /\ n.command = k.command /\ n.meant = k.meant /\ n.list = new /\ n.read = found
        /\ n.user = k.user /\ n.action = k.action /\ n.alone = k.alone
    BY <1>2, <2>3, <2>4, <2>6 DEF ClientRecord, Pcs
  <2> HIDE DEF n
  <2>8. Busy(n, Known)
    BY <1>1, <1>2, <2>7 DEF Busy, AtStep
  <2>9. ListOK(n, Known) /\ IdsOK(n, Known)
    BY <1>2, <2>3, <2>4, <2>5, <2>7 DEF ListOK, IdsOK
  <2>10. ClientOK(n, maps', defaults', Known)
    BY <2>7, <2>8, <2>9 DEF ClientOK, Steady, AloneOK
  <2> QED
    BY <1>1, <1>2, <1>3, <2>6, <2>7, <2>10, StepMade DEF n, LinkedOK
<1>6. Ends(c) \/ client' = [client EXCEPT ![c].pc = "open", ![c].read = found, ![c].list = new]
  BY <1>2 DEF ReadMap, Kind, Changed
<1> QED
  BY <1>4, <1>5, <1>6

\* app_alias_write_map: fopen empties the file under every other writer.
LEMMA OpenMapKeeps == ASSUME CommandsInv, NEW c \in Clients, OpenMap(c) PROVE CommandsInv'
<1> DEFINE k == client[c]
           n == client'[c]
           m == k.meant
<1>1. k.pc = "open" /\ UNCHANGED <<defaults, started>> /\ Known' = Known
  BY DEF OpenMap, On, Known
<1>2. /\ k # Idle /\ k \in ClientRecord /\ ListOK(k, Known) /\ IdsOK(k, Known)
      /\ k.command = m /\ Busy(k, Known) /\ AtStep("open", m.op)
      /\ m.op \in {"set", "delete"} => m.kind \in Kinds
  BY <1>1, RunsAsMeant
<1>3. /\ maps' = [maps EXCEPT ![m.kind] = [exists |-> TRUE, text |-> <<>>]]
      /\ client' = [client EXCEPT ![c].pc = "write", ![c].linked = TRUE]
  BY <1>2 DEF OpenMap, Kind
<1>4. m.kind \in Kinds /\ m.op \in {"set", "delete"}
  BY <1>2 DEF AtStep
<1>5. MapsOK(maps, Known) /\ DefaultsOK(defaults') /\ client \in [Clients -> ClientRecord]
  BY <1>1 DEF CommandsInv
<1>6. /\ MapsOK(maps', Known) /\ maps'[m.kind].text = <<>>
      /\ \A q \in Kinds : maps[q].exists => maps'[q].exists
      /\ maps'[m.kind].exists
  <2> DEFINE empty == <<>>
  <2>1. empty \in Text /\ \A x \in Kinds : Says(x, empty) = {}
    BY EmptyIs
  <2>2. maps' = [maps EXCEPT ![m.kind] = [exists |-> TRUE, text |-> empty]]
    BY <1>3
  <2> HIDE DEF empty
  <2>3. /\ maps' \in [Kinds -> [exists : BOOLEAN, text : Text]]
        /\ maps'[m.kind] = [exists |-> TRUE, text |-> empty]
        /\ \A x \in Kinds : x # m.kind => maps'[x] = maps[x]
    BY <1>4, <1>5, <2>1, <2>2 DEF MapsOK
  <2>4. MapsOK(maps', Known)
    BY <1>5, <2>1, <2>3 DEF MapsOK
  <2> QED
    BY <2>3, <2>4 DEF empty
<1>7. /\ client' = [x \in Clients |-> client'[x]]
      /\ n = [k EXCEPT !.pc = "write", !.linked = TRUE]
      /\ \A x \in Others(c) : client'[x] = client[x]
  BY <1>3, <1>5 DEF Others
<1>8. /\ n \in ClientRecord /\ n.pc = "write" /\ n.linked
      /\ n.command = k.command /\ n.meant = k.meant /\ n.list = k.list /\ n.read = k.read
      /\ n.user = k.user /\ n.action = k.action /\ n.alone = k.alone
  BY <1>2, <1>7 DEF ClientRecord, Pcs
<1> HIDE DEF n
<1>9. Busy(n, Known)
  BY <1>1, <1>2, <1>8 DEF Busy, AtStep
<1>10. ListOK(n, Known) /\ IdsOK(n, Known)
  BY <1>1, <1>2, <1>8 DEF ListOK, IdsOK
<1>11. AloneOK(n, maps', defaults')
  BY <1>6, <1>8 DEF AloneOK
<1>12. ClientOK(n, maps', defaults', Known)
  BY <1>8, <1>9, <1>10, <1>11 DEF ClientOK, Steady
<1> QED
  BY <1>1, <1>2, <1>5, <1>6, <1>7, <1>8, <1>12, StepMade DEF n, LinkedOK

\* fclose writes over the text that is there; what is left reads as was meant, or is torn.
LEMMA WritesKeeps ==
  ASSUME CommandsInv, NEW c \in Clients, NEW text \in Text, Writes(c, text)
  PROVE  CommandsInv'
<1> DEFINE k == client[c]
           m == k.meant
           old == maps[m.kind]
           new == Overlaid(text, old.text)
<1>1. k.pc = "write" /\ UNCHANGED <<defaults, given, started>> /\ Ends(c)
  BY DEF Writes, On
<1>2. /\ k # Idle /\ ListOK(k, Known) /\ k.command = m /\ AtStep("write", m.op)
      /\ m.op \in {"set", "delete"} => m.kind \in Kinds
  BY <1>1, RunsAsMeant
<1>3. m.kind \in Kinds
  BY <1>2 DEF AtStep
<1>4. MapsOK(maps, Known) /\ DefaultsOK(defaults')
  BY <1>1 DEF CommandsInv
<1>5. CASE k.linked
  <2>1. old \in [exists : BOOLEAN, text : Text]
    BY <1>3, <1>4 DEF MapsOK
  <2>2. new \in Text
    BY <2>1, OverlaidIs
  <2>3. /\ maps' = [maps EXCEPT ![m.kind].text = new]
        /\ torn' = IF new = Written(k.list) THEN torn ELSE torn \cup Says(m.kind, new)
    BY <1>2, <1>5 DEF Writes, Kind, Says
  <2>4. Known \subseteq Known' /\ Says(m.kind, new) \subseteq Known'
    <3>1. CASE new = Written(k.list)
      <4>1. Says(m.kind, Written(k.list)) \subseteq Known
        BY <1>1, <1>2 DEF ListOK
      <4>2. torn' = torn
        BY <2>3, <3>1
      <4>3. Known' = Known
        BY <1>1, <4>2 DEF Known
      <4> QED
        BY <3>1, <4>1, <4>3
    <3>2. CASE new # Written(k.list)
      <4>1. torn' = torn \cup Says(m.kind, new)
        BY <2>3, <3>2
      <4> QED
        BY <1>1, <4>1 DEF Known
    <3> QED
      BY <3>1, <3>2
  <2> HIDE DEF new
  <2>5. /\ maps' \in [Kinds -> [exists : BOOLEAN, text : Text]]
        /\ maps'[m.kind].exists = old.exists /\ maps'[m.kind].text = new
        /\ \A x \in Kinds : x # m.kind => maps'[x] = maps[x]
    BY <1>3, <1>4, <2>2, <2>3 DEF MapsOK
  <2>6. old.exists
    BY <1>1, <1>2, <1>5 DEF CommandsInv, LinkedOK
  <2>7. MapsOK(maps', Known')
    <3>1. \A x \in Kinds : ~ maps'[x].exists => maps'[x] = Absent
      BY <1>4, <2>5, <2>6 DEF MapsOK
    <3>2. \A x \in Kinds : Says(x, maps'[x].text) \subseteq Known'
      BY <1>4, <2>4, <2>5 DEF MapsOK
    <3> QED
      BY <2>5, <3>1, <3>2 DEF MapsOK
  <2>8. \A q \in Kinds : maps[q].exists => maps'[q].exists
    BY <2>5, <2>6
  <2> QED
    BY <1>1, <1>2, <1>4, <2>4, <2>7, <2>8, EndMade
<1>6. CASE ~ k.linked
  <2>1. maps' = maps /\ Known' = Known
    BY <1>1, <1>6 DEF Writes, Known
  <2> QED
    BY <1>1, <1>2, <1>4, <2>1, EndMade
<1> QED
  BY <1>5, <1>6

\* A map that is taken away leaves its writers with files that have no name.
LEMMA UnlinkKeeps ==
  ASSUME CommandsInv, NEW c \in Clients, client[c] # Idle, NEW kind \in Kinds, NEW next,
         Unlink(c, kind, next), Steady(next, Known),
         next.pc \in {"idle", "unlink action"}, next.alone => client[c].alone
  PROVE  CommandsInv'
<1>1. /\ maps' = [maps EXCEPT ![kind] = Absent] /\ UNCHANGED <<defaults, started>> /\ Known' = Known
      /\ client' = [Unlinked(kind) EXCEPT ![c] = next]
  BY DEF Unlink, Known
<1>2. MapsOK(maps, Known) /\ DefaultsOK(defaults') /\ client \in [Clients -> ClientRecord]
  BY <1>1 DEF CommandsInv
<1>3. MapsOK(maps', Known) /\ \A q \in Kinds : q # kind => maps'[q] = maps[q]
  <2> DEFINE empty == <<>>
  <2>1. Absent = [exists |-> FALSE, text |-> empty] /\ Absent.text = empty
    BY DEF Absent
  <2>2. empty \in Text /\ \A q \in Kinds : Says(q, empty) = {}
    BY EmptyIs
  <2> HIDE DEF empty
  <2>3. Absent \in [exists : BOOLEAN, text : Text]
    BY <2>1, <2>2
  <2>4. /\ maps' \in [Kinds -> [exists : BOOLEAN, text : Text]]
        /\ maps'[kind] = Absent
        /\ \A q \in Kinds : q # kind => maps'[q] = maps[q]
    BY <1>1, <1>2, <2>3 DEF MapsOK
  <2> QED
    BY <1>2, <2>1, <2>2, <2>4 DEF MapsOK
<1>4. /\ client' = [x \in Clients |-> client'[x]]
      /\ client'[c] = next
      /\ \A x \in Others(c) : client'[x] = IF client[x].pc = "write" /\ Kind(x) = kind
                                           THEN [client[x] EXCEPT !.linked = FALSE] ELSE client[x]
  BY <1>1 DEF Unlinked, Others
<1>5. ClientOK(client'[c], maps', defaults', Known)
  BY <1>4 DEF ClientOK, AloneOK
<1>6. ASSUME NEW x \in Clients PROVE LinkedOK(client'[x], maps')
  <2>1. CASE x = c
    BY <1>4, <2>1 DEF LinkedOK
  <2>2. CASE x # c
    <3>1. x \in Others(c) /\ client[x] \in ClientRecord /\ LinkedOK(client[x], maps)
      BY <2>2 DEF Others, CommandsInv
    <3>2. CASE client[x].pc = "write" /\ Kind(x) = kind
      BY <1>4, <3>1, <3>2 DEF LinkedOK, ClientRecord
    <3>3. CASE client[x].pc = "write" /\ Kind(x) # kind
      <4>1. client[x].meant.kind \in Kinds /\ client[x].meant.kind # kind
        BY <3>3, RunsAsMeant DEF AtStep, Kind
      <4>2. client'[x] = client[x]
        BY <1>4, <3>1, <3>3
      <4> QED
        BY <1>3, <3>1, <4>1, <4>2 DEF LinkedOK
    <3>4. CASE client[x].pc # "write"
      BY <1>4, <3>1, <3>4 DEF LinkedOK
    <3> QED
      BY <3>2, <3>3, <3>4
  <2> QED
    BY <2>1, <2>2
<1>7. /\ client'[c].alone => client[c].alone
      /\ \A x \in Others(c) :
           client'[x] = client[x] \/ client'[x] = [client[x] EXCEPT !.linked = FALSE]
  BY <1>4
<1>8. \A x \in Clients : LinkedOK(client'[x], maps')
  BY <1>6
<1> QED
  BY <1>1, <1>2, <1>3, <1>4, <1>5, <1>7, <1>8, ChangeMade

\* command.c: wiping the map of the users.
LEMMA UnlinkUsersKeeps == ASSUME CommandsInv, NEW c \in Clients, UnlinkUsers(c) PROVE CommandsInv'
<1> DEFINE k == client[c]
           n == [k EXCEPT !.pc = "unlink action"]
<1>1. k.pc = "unlink user" /\ "user" \in Kinds
  BY DEF UnlinkUsers, On, Kinds
<1>2. k # Idle /\ k \in ClientRecord /\ ListOK(k, Known) /\ IdsOK(k, Known) /\ Busy(k, Known)
  BY <1>1, RunsAsMeant
<1>3. CASE Unlink(c, "user", Idle)
  BY <1>1, <1>2, <1>3, IdleOK, UnlinkKeeps DEF ClientOK
<1>4. CASE Unlink(c, "user", n)
  <2>1. /\ n \in ClientRecord /\ n.pc = "unlink action"
        /\ n.command = k.command /\ n.meant = k.meant /\ n.list = k.list /\ n.read = k.read
        /\ n.user = k.user /\ n.action = k.action /\ n.alone = k.alone
    BY <1>2 DEF ClientRecord, Pcs
  <2> HIDE DEF n
  <2>2. Steady(n, Known)
    BY <1>1, <1>2, <2>1 DEF Steady, Busy, AtStep, ListOK, IdsOK
  <2> QED
    BY <1>1, <1>2, <1>4, <2>1, <2>2, UnlinkKeeps
<1> QED
  BY <1>3, <1>4 DEF UnlinkUsers

\* command.c: wiping the map of the actions.
LEMMA UnlinkActionsKeeps == ASSUME CommandsInv, NEW c \in Clients, UnlinkActions(c) PROVE CommandsInv'
<1>1. client[c].pc = "unlink action" /\ "action" \in Kinds /\ Unlink(c, "action", Idle)
  BY DEF UnlinkActions, On, Kinds
<1>2. client[c] # Idle
  BY <1>1, RunsAsMeant
<1> QED
  BY <1>1, <1>2, IdleOK, UnlinkKeeps DEF ClientOK

\* env: the file of a default is opened, and emptied.
LEMMA OpenDefaultKeeps == ASSUME CommandsInv, NEW c \in Clients, OpenDefault(c) PROVE CommandsInv'
<1> DEFINE k == client[c]
           n == client'[c]
<1>1. k.pc = "save" /\ UNCHANGED <<maps, started>> /\ Known' = Known
  BY DEF OpenDefault, On, Known
<1>2. k # Idle /\ k \in ClientRecord /\ ListOK(k, Known) /\ IdsOK(k, Known) /\ Busy(k, Known)
  BY <1>1, RunsAsMeant
<1>3. MapsOK(maps', Known) /\ client \in [Clients -> ClientRecord] /\ DefaultsOK(defaults)
  BY <1>1 DEF CommandsInv
<1>4. DefaultsOK(defaults')
  BY <1>3 DEF OpenDefault, DefaultsOK
<1>5. client' = [client EXCEPT ![c].pc = "keep", ![c].linked = TRUE]
  BY DEF OpenDefault
<1>6. /\ client' = [x \in Clients |-> client'[x]]
      /\ n = [k EXCEPT !.pc = "keep", !.linked = TRUE]
      /\ \A x \in Others(c) : client'[x] = client[x]
  BY <1>3, <1>5 DEF Others
<1>7. /\ n \in ClientRecord /\ n.pc = "keep"
      /\ n.command = k.command /\ n.meant = k.meant /\ n.list = k.list /\ n.read = k.read
      /\ n.user = k.user /\ n.action = k.action /\ n.alone = k.alone
  BY <1>2, <1>6 DEF ClientRecord, Pcs
<1> HIDE DEF n
<1>8. ClientOK(n, maps', defaults', Known)
  BY <1>1, <1>2, <1>7 DEF ClientOK, Steady, Busy, AtStep, ListOK, IdsOK, AloneOK
<1> QED
  BY <1>1, <1>2, <1>3, <1>4, <1>6, <1>7, <1>8, StepMade DEF n, LinkedOK

\* env: the address is written.
LEMMA WriteDefaultKeeps == ASSUME CommandsInv, NEW c \in Clients, WriteDefault(c) PROVE CommandsInv'
<1>1. client[c].pc = "keep" /\ UNCHANGED <<maps, started>> /\ Known' = Known /\ Ends(c)
  BY DEF WriteDefault, On, Known
<1>2. client[c] # Idle /\ client[c].command.ip \in Ips
  BY <1>1, RunsAsMeant DEF AtStep
<1>3. MapsOK(maps', Known) /\ DefaultsOK(defaults)
  BY <1>1 DEF CommandsInv
<1>4. DefaultsOK(defaults')
  <2> DEFINE new == client[c].command.ip
  <2>1. defaults' = [defaults EXCEPT ![Name(c)] = new] \/ defaults' = defaults
    BY DEF WriteDefault
  <2> HIDE DEF new
  <2> QED
    BY <1>2, <1>3, <2>1 DEF DefaultsOK, new
<1> QED
  BY <1>1, <1>2, <1>3, <1>4, EndMade

\* env: the file of a default is taken away.
LEMMA ClearDefaultKeeps == ASSUME CommandsInv, NEW c \in Clients, ClearDefault(c) PROVE CommandsInv'
<1>1. client[c].pc = "clear" /\ UNCHANGED <<maps, started>> /\ Known' = Known
  BY DEF ClearDefault, On, Known
<1>2. client[c] # Idle
  BY <1>1, RunsAsMeant
<1>3. MapsOK(maps', Known) /\ DefaultsOK(defaults)
  BY <1>1 DEF CommandsInv
<1>4. DefaultsOK(defaults')
  BY <1>3 DEF ClearDefault, DefaultsOK
<1>5. /\ client' = [x \in Clients |-> client'[x]]
      /\ client'[c] = Idle
      /\ \A x \in Others(c) : client'[x] = client[x] \/ client'[x] = [client[x] EXCEPT !.linked = FALSE]
  BY DEF ClearDefault, Others
<1>6. ClientOK(client'[c], maps', defaults', Known) /\ ~ client'[c].alone /\ client'[c].pc # "write"
  BY <1>5, IdleOK
<1> QED
  BY <1>1, <1>2, <1>3, <1>4, <1>5, <1>6, StepMade DEF LinkedOK

\* transmit.c: the user by alias or number.
LEMMA LookUpUserKeeps == ASSUME CommandsInv, NEW c \in Clients, LookUpUser(c) PROVE CommandsInv'
<1> DEFINE k == client[c]
           n == client'[c]
           m == k.meant
           id == Resolved("user", maps["user"].text, m.user)
<1>1. k.pc = "user" /\ UNCHANGED <<maps, defaults, started>> /\ Known' = Known
  BY DEF LookUpUser, On, Known
<1>2. /\ k # Idle /\ k \in ClientRecord /\ ListOK(k, Known) /\ IdsOK(k, Known) /\ Busy(k, Known)
      /\ k.command = m /\ m.op = "knock" /\ m.user \in Names
  BY <1>1, RunsAsMeant DEF AtStep
<1>3. MapsOK(maps', Known) /\ DefaultsOK(defaults') /\ client \in [Clients -> ClientRecord]
  BY <1>1 DEF CommandsInv
<1>4. /\ id \in 0 .. MaxId["user"] /\ MaxId["user"] \in Nat /\ id \in Nat
      /\ id # 0 => <<"user", Spelled[m.user], id>> \in Known \/ id = Number[m.user]
  <2>1. "user" \in Kinds /\ MaxId["user"] \in Nat
    BY AliasMapAssumption DEF Kinds
  <2>2. maps["user"].text \in Text /\ Says("user", maps["user"].text) \subseteq Known
    BY <1>1, <1>3, <2>1 DEF MapsOK
  <2>3. /\ id \in 0 .. MaxId["user"]
        /\ id # 0 => <<"user", Spelled[m.user], id>> \in Says("user", maps["user"].text) \/ id = Number[m.user]
    BY <1>2, <2>1, <2>2, ResolvedIs DEF Says
  <2> HIDE DEF id
  <2> QED
    BY <2>1, <2>2, <2>3
<1>5. Ends(c) \/ (id # 0 /\ client' = [client EXCEPT ![c].pc = "action", ![c].user = id])
  BY <1>2 DEF LookUpUser
<1>6. id = Resolved("user", maps'["user"].text, m.user)
  BY <1>1
<1> HIDE DEF id
<1>7. CASE Ends(c)
  BY <1>1, <1>2, <1>3, <1>7, EndMade
<1>8. CASE id # 0 /\ client' = [client EXCEPT ![c].pc = "action", ![c].user = id]
  <2>1. /\ client' = [x \in Clients |-> client'[x]]
        /\ n = [k EXCEPT !.pc = "action", !.user = id]
        /\ \A x \in Others(c) : client'[x] = client[x]
    BY <1>3, <1>8 DEF Others
  <2>2. /\ n \in ClientRecord /\ n.pc = "action"
        /\ n.command = k.command /\ n.meant = k.meant /\ n.list = k.list /\ n.read = k.read
        /\ n.user = id /\ n.action = k.action /\ n.alone = k.alone
    BY <1>2, <1>4, <2>1 DEF ClientRecord, Pcs
  <2> HIDE DEF n
  <2>3. Steady(n, Known)
    BY <1>1, <1>2, <1>4, <2>2 DEF Steady, Busy, AtStep, ListOK, IdsOK
  <2>4. AloneOK(n, maps', defaults')
    BY <1>6, <1>8, <2>2 DEF AloneOK
  <2> QED
    BY <1>1, <1>2, <1>3, <2>1, <2>2, <2>3, <2>4, StepMade DEF n, LinkedOK, ClientOK
<1> QED
  BY <1>5, <1>7, <1>8

\* transmit.c: the action by alias or number.
LEMMA LookUpActionKeeps == ASSUME CommandsInv, NEW c \in Clients, LookUpAction(c) PROVE CommandsInv'
<1> DEFINE k == client[c]
           n == client'[c]
           m == k.meant
           id == Resolved("action", maps["action"].text, m.action)
<1>1. k.pc = "action" /\ UNCHANGED <<maps, defaults, started>> /\ Known' = Known
  BY DEF LookUpAction, On, Known
<1>2. /\ k # Idle /\ k \in ClientRecord /\ ListOK(k, Known) /\ IdsOK(k, Known) /\ Busy(k, Known)
      /\ k.command = m /\ m.op = "knock" /\ m.action \in Names
  BY <1>1, RunsAsMeant DEF AtStep
<1>3. /\ MapsOK(maps', Known) /\ DefaultsOK(defaults') /\ client \in [Clients -> ClientRecord]
      /\ AloneOK(k, maps, defaults)
  BY <1>1 DEF CommandsInv, ClientOK
<1>4. /\ id \in 0 .. MaxId["action"] /\ MaxId["action"] \in Nat /\ id \in Nat
      /\ id # 0 => <<"action", Spelled[m.action], id>> \in Known \/ id = Number[m.action]
  <2>1. "action" \in Kinds /\ MaxId["action"] \in Nat
    BY AliasMapAssumption DEF Kinds
  <2>2. maps["action"].text \in Text /\ Says("action", maps["action"].text) \subseteq Known
    BY <1>1, <1>3, <2>1 DEF MapsOK
  <2>3. /\ id \in 0 .. MaxId["action"]
        /\ id # 0 => <<"action", Spelled[m.action], id>> \in Says("action", maps["action"].text) \/ id = Number[m.action]
    BY <1>2, <2>1, <2>2, ResolvedIs DEF Says
  <2> HIDE DEF id
  <2> QED
    BY <2>1, <2>2, <2>3
<1>5. Ends(c) \/ (id # 0 /\ client' = [client EXCEPT ![c].pc = "default", ![c].action = id])
  BY <1>2 DEF LookUpAction
<1>6. id = Resolved("action", maps'["action"].text, m.action)
  BY <1>1
<1> HIDE DEF id
<1>7. CASE Ends(c)
  BY <1>1, <1>2, <1>3, <1>7, EndMade
<1>8. CASE id # 0 /\ client' = [client EXCEPT ![c].pc = "default", ![c].action = id]
  <2>1. /\ client' = [x \in Clients |-> client'[x]]
        /\ n = [k EXCEPT !.pc = "default", !.action = id]
        /\ \A x \in Others(c) : client'[x] = client[x]
    BY <1>3, <1>8 DEF Others
  <2>2. /\ n \in ClientRecord /\ n.pc = "default"
        /\ n.command = k.command /\ n.meant = k.meant /\ n.list = k.list /\ n.read = k.read
        /\ n.user = k.user /\ n.action = id /\ n.alone = k.alone
    BY <1>2, <1>4, <2>1 DEF ClientRecord, Pcs
  <2> HIDE DEF n
  <2>3. Steady(n, Known)
    BY <1>1, <1>2, <1>4, <2>2 DEF Steady, Busy, AtStep, ListOK, IdsOK
  <2>4. AloneOK(n, maps', defaults')
    BY <1>1, <1>3, <1>6, <1>8, <2>2 DEF AloneOK
  <2> QED
    BY <1>1, <1>2, <1>3, <2>1, <2>2, <2>3, <2>4, StepMade DEF n, LinkedOK, ClientOK
<1> QED
  BY <1>5, <1>7, <1>8

\* transmit.c: the address told, or the default of the user.
LEMMA LookUpDefaultKeeps == ASSUME CommandsInv, NEW c \in Clients, LookUpDefault(c) PROVE CommandsInv'
<1> DEFINE k == client[c]
           n == client'[c]
           m == k.meant
           told == Told(m)
           from == IF told # Unset THEN told ELSE DefaultIn(defaults, m.user)
<1>1. k.pc = "default" /\ UNCHANGED <<maps, defaults, started>> /\ Known' = Known
  BY DEF LookUpDefault, On, Known
<1>2. /\ k # Idle /\ k \in ClientRecord /\ ListOK(k, Known) /\ IdsOK(k, Known) /\ Busy(k, Known)
      /\ k.command = m
  BY <1>1, RunsAsMeant
<1>3. /\ MapsOK(maps', Known) /\ DefaultsOK(defaults') /\ client \in [Clients -> ClientRecord]
      /\ AloneOK(k, maps, defaults)
  BY <1>1 DEF CommandsInv, ClientOK
<1>4. Ends(c) \/ ((told # Unset => told \in Ips)
                  /\ client' = [client EXCEPT ![c].pc = "sent", ![c].from = from])
  BY <1>2 DEF LookUpDefault, Default, DefaultIn
<1>5. CASE Ends(c)
  BY <1>1, <1>2, <1>3, <1>5, EndMade
<1>6. CASE (told # Unset => told \in Ips) /\ client' = [client EXCEPT ![c].pc = "sent", ![c].from = from]
  <2>1. /\ from \in Ips \cup {Unset}
        /\ from = IF told # Unset THEN told ELSE DefaultIn(defaults', m.user)
    BY <1>1, <1>6 DEF DefaultIn
  <2> HIDE DEF from
  <2>2. /\ client' = [x \in Clients |-> client'[x]]
        /\ n = [k EXCEPT !.pc = "sent", !.from = from]
        /\ \A x \in Others(c) : client'[x] = client[x]
    BY <1>3, <1>6 DEF Others
  <2>3. /\ n \in ClientRecord /\ n.pc = "sent"
        /\ n.command = k.command /\ n.meant = k.meant /\ n.list = k.list /\ n.read = k.read
        /\ n.user = k.user /\ n.action = k.action /\ n.alone = k.alone /\ n.from = from
    BY <1>2, <2>1, <2>2 DEF ClientRecord, Pcs
  <2> HIDE DEF n
  <2>4. Steady(n, Known)
    BY <1>1, <1>2, <2>3 DEF Steady, Busy, AtStep, ListOK, IdsOK
  <2>5. AloneOK(n, maps', defaults')
    BY <1>1, <1>3, <2>1, <2>3 DEF AloneOK
  <2> QED
    BY <1>1, <1>2, <1>3, <2>2, <2>3, <2>4, <2>5, StepMade DEF n, LinkedOK, ClientOK
<1> QED
  BY <1>4, <1>5, <1>6

\* A command that ends, or is killed, leaves the files.
LEMMA EndsKeeps ==
  ASSUME CommandsInv, NEW c \in Clients, client[c] # Idle, Ends(c),
         UNCHANGED <<maps, defaults, given, torn, started>>
  PROVE  CommandsInv'
<1>1. MapsOK(maps', Known') /\ DefaultsOK(defaults') /\ Known' = Known
  BY DEF CommandsInv, Known
<1> QED
  BY <1>1, EndMade

\* A command that starts is the one meant, and is alone if no other runs.
LEMMA StartKeeps ==
  ASSUME CommandsInv, NEW c \in Clients, NEW run \in Runs, Start(c, run)
  PROVE  CommandsInv'
<1> DEFINE n == client'[c]
           m == run.meant
           b == \A o \in Others(c) : client[o] = Idle
<1>1. /\ client[c] = Idle /\ started < MaxCommands /\ Accepted(run.command)
      /\ started' = started + 1 /\ UNCHANGED <<maps, defaults>>
      /\ Known \subseteq Known' /\ (m.op = "set" => GivenIn(m) \subseteq Known')
  BY DEF Start, Known
<1>2. /\ run.command = m /\ m \in Commands /\ m \in Meanings
      /\ m.op \in {"set", "delete", "wipe", "save", "clear", "knock"}
  <2>1. run.command = m
    BY LinesReadAsMeant
  <2>2. PICK g \in Given : m = g.meant
    BY DEF Runs
  <2>3. m.op \in {"set", "delete", "wipe", "save", "clear", "knock", "refused", "print"}
    BY <2>2, ClientCommandsAssumption
  <2>4. m.op \notin {"refused", "print"}
    BY <1>1, <2>1 DEF Accepted
  <2>5. m \in Commands /\ m \in Meanings
    BY <2>1 DEF Commands, Meanings
  <2> QED
    BY <2>1, <2>3, <2>4, <2>5
<1>3. /\ MapsOK(maps, Known) /\ DefaultsOK(defaults') /\ client \in [Clients -> ClientRecord]
      /\ \A x \in Clients : Steady(client[x], Known)
      /\ started \in 0 .. MaxCommands /\ MaxCommands \in Nat
  BY <1>1, ClientCommandsAssumption DEF CommandsInv, ClientOK
<1>4. /\ client' = [x \in Clients |-> client'[x]]
      /\ n = [Idle EXCEPT !.pc = FirstStep(run.command), !.command = run.command,
                          !.meant = run.meant, !.alone = b]
      /\ \A x \in Others(c) : client'[x] = [client[x] EXCEPT !.alone = FALSE]
  BY DEF Start, Others
<1>5. /\ AtStep(FirstStep(m), m.op) /\ FirstStep(m) \in Pcs
      /\ FirstStep(m) \notin {"open", "write", "action", "default", "sent"}
  BY <1>2 DEF FirstStep, AtStep, Pcs
<1> DEFINE start == FirstStep(m)
<1>6. /\ n \in ClientRecord /\ n.pc = start
      /\ n.command = m /\ n.meant = m /\ n.list = Idle.list /\ n.read = Idle.read
      /\ n.user = Idle.user /\ n.action = Idle.action /\ n.alone = b
  <2>1. Idle \in ClientRecord /\ b \in BOOLEAN
    BY IdleOK
  <2>2. n = [Idle EXCEPT !.pc = start, !.command = m, !.meant = m, !.alone = b]
    BY <1>2, <1>4
  <2>3. start \in Pcs
    BY <1>5
  <2> HIDE DEF n, m, b, start
  <2> QED
    BY <1>2, <2>1, <2>2, <2>3 DEF ClientRecord
<1> HIDE DEF n
<1>7. ClientOK(n, maps', defaults', Known')
  <2>1. Busy(n, Known')
    BY <1>1, <1>2, <1>5, <1>6 DEF Busy
  <2>2. ListOK(n, Known')
    BY <1>5, <1>6, IdleOK DEF ListOK
  <2>3. IdsOK(n, Known')
    <3>1. Idle.user = 0 /\ Idle.action = 0 /\ MaxId["user"] \in Nat /\ MaxId["action"] \in Nat
      BY AliasMapAssumption DEF Idle, Kinds
    <3> QED
      BY <1>6, <3>1 DEF IdsOK
  <2>4. AloneOK(n, maps', defaults')
    BY <1>5, <1>6 DEF AloneOK
  <2> QED
    BY <1>6, <2>1, <2>2, <2>3, <2>4 DEF ClientOK, Steady
<1>8. ASSUME NEW x \in Others(c)
      PROVE  /\ ClientOK(client'[x], maps', defaults', Known')
             /\ ~ client'[x].alone
             /\ LinkedOK(client'[x], maps')
             /\ client[x] = Idle => client'[x] = Idle
  <2>1. x \in Clients /\ client[x] \in ClientRecord /\ Steady(client[x], Known)
    BY <1>3 DEF Others
  <2>2. client'[x] = [client[x] EXCEPT !.alone = FALSE]
    BY <1>4
  <2>3. /\ ~ client'[x].alone
        /\ client'[x].pc = client[x].pc /\ client'[x].linked = client[x].linked
        /\ client'[x].meant = client[x].meant
    BY <2>1, <2>2 DEF ClientRecord
  <2>4. ClientOK(client'[x], maps', defaults', Known')
    BY <1>1, <2>1, <2>2, <2>3, Unaffected
  <2>5. LinkedOK(client'[x], maps')
    BY <1>1, <2>1, <2>3 DEF LinkedOK, CommandsInv
  <2>6. client[x] = Idle => client'[x] = Idle
    BY <2>2, IdleOK
  <2> QED
    BY <2>3, <2>4, <2>5, <2>6
<1>9. MapsOK(maps', Known')
  BY <1>1, <1>3 DEF MapsOK
<1>10. /\ \A x \in Clients : ClientOK(client'[x], maps', defaults', Known')
       /\ \A x \in Clients : LinkedOK(client'[x], maps')
  <2>1. LinkedOK(n, maps')
    BY <1>5, <1>6 DEF LinkedOK
  <2> QED
    BY <1>7, <1>8, <2>1 DEF Others, n
<1>11. client' \in [Clients -> ClientRecord]
  BY <1>4, <1>10 DEF ClientOK, Steady
<1>12. ASSUME NEW x \in Clients, client'[x].alone, NEW o \in Others(x) PROVE client'[o] = Idle
  <2>1. x = c
    BY <1>8, <1>12 DEF Others
  <2>2. client[o] = Idle
    BY <1>6, <1>12, <2>1 DEF n
  <2> QED
    BY <1>8, <1>12, <2>1, <2>2
<1>13. started' \in 0 .. MaxCommands
  BY <1>1, <1>3
<1> QED
  BY <1>3, <1>9, <1>10, <1>11, <1>12, <1>13 DEF CommandsInv

\* The text of a list is a text.
LEMMA WrittenIs == ASSUME CommandsInv, NEW c \in Clients PROVE Written(client[c].list) \in Text
<1> DEFINE list == client[c].list
<1>1. list \in Seq(Item)
  BY DEF CommandsInv, ClientOK, Steady, ClientRecord
<1> HIDE DEF list
<1>2. Written(list) \in Text
  BY <1>1, WrittenReads
<1> QED
  BY <1>2 DEF list

\* A full disk: some of the text is written.
LEMMA WriteFailsKeeps == ASSUME CommandsInv, NEW c \in Clients, WriteFails(c) PROVE CommandsInv'
<1> DEFINE text == Written(client[c].list)
<1>1. text \in Text
  BY WrittenIs
<1>2. PICK n \in 0 .. Len(text) - 1 : Writes(c, SubSeq(text, 1, n))
  BY DEF WriteFails
<1> HIDE DEF text
<1>3. text \in Seq(Chars) /\ Len(text) \in Nat
  BY <1>1 DEF Text
<1>4. n \in Int /\ n < Len(text)
  BY <1>3
<1>5. \A i \in 1 .. n : text[i] \in Chars
  BY <1>3, <1>4
<1>6. SubSeq(text, 1, n) \in Text
  BY <1>4, <1>5, SubSeqProperties DEF Text
<1> QED
  BY <1>2, <1>6, WritesKeeps

\* Every step of every command keeps the invariant.
LEMMA CommandsNext == ASSUME CommandsInv, [Next]_vars PROVE CommandsInv'
<1>1. ASSUME NEW c \in Clients, Step(c) PROVE CommandsInv'
  <2>1. CASE Look(c)
    BY <2>1, LookKeeps
  <2>2. CASE ReadMap(c)
    BY <2>2, ReadMapKeeps
  <2>3. CASE OpenMap(c)
    BY <2>3, OpenMapKeeps
  <2>4. CASE WriteMap(c)
    <3>1. Written(client[c].list) \in Text
      BY WrittenIs
    <3> QED
      BY <2>4, <3>1, WritesKeeps DEF WriteMap
  <2>5. CASE WriteFails(c)
    BY <2>5, WriteFailsKeeps
  <2>6. CASE UnlinkUsers(c)
    BY <2>6, UnlinkUsersKeeps
  <2>7. CASE UnlinkActions(c)
    BY <2>7, UnlinkActionsKeeps
  <2>8. CASE OpenDefault(c)
    BY <2>8, OpenDefaultKeeps
  <2>9. CASE WriteDefault(c)
    BY <2>9, WriteDefaultKeeps
  <2>10. CASE ClearDefault(c)
    BY <2>10, ClearDefaultKeeps
  <2>11. CASE LookUpUser(c)
    BY <2>11, LookUpUserKeeps
  <2>12. CASE LookUpAction(c)
    BY <2>12, LookUpActionKeeps
  <2>13. CASE LookUpDefault(c)
    BY <2>13, LookUpDefaultKeeps
  <2>14. CASE Done(c)
    <3>1. client[c] # Idle
      BY <2>14, IdleOK DEF Done, On
    <3> QED
      BY <2>14, <3>1, EndsKeeps DEF Done
  <2>15. CASE Kill(c)
    BY <2>15, EndsKeeps DEF Kill
  <2> QED
    BY <1>1, <2>1, <2>2, <2>3, <2>4, <2>5, <2>6, <2>7, <2>8, <2>9, <2>10, <2>11, <2>12, <2>13,
       <2>14, <2>15 DEF Step
<1>2. CASE \E c \in Clients : \E run \in Runs : Start(c, run)
  BY <1>2, StartKeeps
<1>3. CASE UNCHANGED vars
  <2>1. UNCHANGED <<maps, defaults, client, started>> /\ Known' = Known
    BY <1>3 DEF vars, Known
  <2> QED
    BY <2>1 DEF CommandsInv
<1> QED
  BY <1>1, <1>2, <1>3 DEF Next

\* What holds of every behaviour of any number of commands that overlap, are killed or
\* meet a full disk.
THEOREM CommandsInvariance == Spec => []CommandsInv
<1>1. Init => CommandsInv
  BY InitOK
<1>2. CommandsInv /\ [Next]_vars => CommandsInv'
  BY CommandsNext
<1> QED
  BY <1>1, <1>2, PTL DEF Spec

-----------------------------------------------------------------------------
(* What the commands promise *)

\* The invariant says of what types all is.
LEMMA CommandsTyped == CommandsInv => TypeOK
<1> SUFFICES ASSUME CommandsInv PROVE TypeOK
  OBVIOUS
<1>1. \A k \in Kinds : /\ maps[k].exists \in BOOLEAN /\ maps[k].text \in Seq(Chars)
                       /\ ~ maps[k].exists => maps[k] = Absent
  BY DEF CommandsInv, MapsOK, Text
<1>2. \A list \in Seq(Item) : list \in Seq(Entries)
  <2>1. Item \subseteq Entries
    BY AliasMapAssumption DEF Item, Entries, Text
  <2> QED
    BY <2>1, SeqMonotonic
<1>3. ASSUME NEW c \in Clients
      PROVE  /\ client[c] = Idle \/ \E run \in Runs : client[c].command = run.command
             /\ client[c].list \in Seq(Entries) /\ client[c].read \in Seq(Entries)
             /\ client[c].user \in 0 .. MaxId["user"] /\ client[c].action \in 0 .. MaxId["action"]
  <2>1. client[c] \in ClientRecord /\ IdsOK(client[c], Known) /\ (client[c] = Idle \/ Busy(client[c], Known))
    BY DEF CommandsInv, ClientOK, Steady
  <2>2. client[c].list \in Seq(Item) /\ client[c].read \in Seq(Item)
    BY <2>1 DEF ClientRecord
  <2> QED
    BY <1>2, <2>1, <2>2 DEF IdsOK, Busy
<1> QED
  BY <1>1, <1>3 DEF TypeOK, CommandsInv, DefaultsOK

\* The types of the maps, the defaults and the commands.
THEOREM CommandsTypes == Spec => []TypeOK
BY CommandsInvariance, CommandsTyped, PTL

\* It says that commands are the ones meant.
LEMMA CommandsMeant == CommandsInv => RunsWhatWasMeant
<1> SUFFICES ASSUME CommandsInv, NEW c \in Clients PROVE client[c].command = client[c].meant
  BY DEF RunsWhatWasMeant
<1>1. client[c] = Idle \/ Busy(client[c], Known)
  BY DEF CommandsInv, ClientOK, Steady
<1> QED
  BY <1>1 DEF Busy, Idle

\* opts.c, app_opts_parse_command, and argv.c, argv_parse: what runs is what the line
\* says by the places of its words.
THEOREM RunsWhatWasMeantAlways == Spec => []RunsWhatWasMeant
BY CommandsInvariance, CommandsMeant, PTL

\* It says of every id in a file or in memory that it was given, or torn.
LEMMA CommandsInvent == CommandsInv => IdsWereGiven
<1> SUFFICES ASSUME CommandsInv PROVE IdsWereGiven
  OBVIOUS
<1>1. \A k \in Kinds : Says(k, maps[k].text) \subseteq Known
  BY DEF CommandsInv, MapsOK
<1>2. \A c \in Clients : ListOK(client[c], Known) /\ IdsOK(client[c], Known)
  BY DEF CommandsInv, ClientOK, Steady
<1> QED
  BY <1>1, <1>2 DEF IdsWereGiven, ListOK, IdsOK, Known, Says

\* alias.c, app_alias_write_map: what is in a map was given to its name, or was left by
\* a writer that another had overtaken or that found the disk full.
THEOREM IdsGivenAlways == Spec => []IdsWereGiven
BY CommandsInvariance, CommandsInvent, PTL

\* It says what a transmit that ran alone has found.
LEMMA CommandsAliased == CommandsInv => SentAsAliased
<1> SUFFICES ASSUME CommandsInv, NEW c \in Clients, client[c].pc = "sent", client[c].alone
             PROVE  LET m == client[c].meant
                        Agrees(kind, name, id) ==
                          LET alias == Aliased(kind, Parsed(maps[kind].text), Spelled[name])
                          IN  id = IF alias # 0 THEN alias ELSE Number[name]
                    IN  /\ Agrees("user", m.user, client[c].user)
                        /\ Agrees("action", m.action, client[c].action)
                        /\ client[c].from = IF Told(m) # Unset THEN Told(m) ELSE Default(m.user)
  BY DEF SentAsAliased
<1> DEFINE k == client[c]
           m == k.meant
           Hit(kind, name) == Resolved(kind, maps[kind].text, name)
           Alias(kind, name) == Aliased(kind, Parsed(maps[kind].text), Spelled[name])
<1>1. /\ k.user # 0 /\ k.user = Hit("user", m.user)
      /\ k.action # 0 /\ k.action = Hit("action", m.action)
      /\ k.from = IF Told(m) # Unset THEN Told(m) ELSE DefaultIn(defaults, m.user)
  BY DEF CommandsInv, ClientOK, AloneOK
<1>2. ASSUME NEW kind \in Kinds, NEW name \in Names, Hit(kind, name) # 0
      PROVE  Hit(kind, name) = IF Alias(kind, name) # 0 THEN Alias(kind, name) ELSE Number[name]
  <2> DEFINE text == maps[kind].text
  <2>1. text \in Text
    BY DEF CommandsInv, MapsOK
  <2>2. Resolved(kind, text, name) # 0
    BY <1>2
  <2> HIDE DEF text
  <2>3. Resolved(kind, text, name) =
          IF Aliased(kind, Parsed(text), Spelled[name]) # 0
          THEN Aliased(kind, Parsed(text), Spelled[name]) ELSE Number[name]
    BY <2>1, <2>2, ResolvedIs
  <2> QED
    BY <2>3 DEF text
<1>3. /\ "user" \in Kinds /\ "action" \in Kinds
      /\ m.user \in Names /\ m.action \in Names
  <2>1. AtStep("sent", m.op) /\ (m.op = "knock" => m.user \in Names /\ m.action \in Names)
    BY RunsAsMeant
  <2> QED
    BY <2>1 DEF AtStep, Kinds
<1>4. Default(m.user) = DefaultIn(defaults, m.user)
  BY DEF Default, DefaultIn
<1> HIDE DEF Hit, Alias
<1>5. k.user = IF Alias("user", m.user) # 0 THEN Alias("user", m.user) ELSE Number[m.user]
  BY <1>1, <1>2, <1>3
<1>6. k.action = IF Alias("action", m.action) # 0 THEN Alias("action", m.action) ELSE Number[m.action]
  BY <1>1, <1>2, <1>3
<1> QED
  BY <1>1, <1>4, <1>5, <1>6 DEF Alias

\* transmit.c, app_opts_transmit_apply_parsed: an alias first, then a number.
THEOREM AliasesAlways == Spec => []SentAsAliased
BY CommandsInvariance, CommandsAliased, PTL

\* What has an effect on a list has it on the file: for each name, and for the one a
\* command is about.
LEMMA ChangedReads ==
  ASSUME NEW m, NEW list \in Seq(Legible), NEW n,
         m.op = "set" => EntryOf(m) \in Item /\ InRange(m.kind, m.id)
  PROVE  LET after == Aliased(m.kind, Parsed(Written(Changed(m, list))), n)
             name == Spelled[m.name]
         IN  /\ n # name => \/ after = Aliased(m.kind, list, n)
                            \/ m.op = "set" /\ At(Parsed(WriteLine(EntryOf(m))), n) # {}
             /\ m.op # "set" /\ n = name => after = 0
             /\ m.op = "set" /\ Plain(name) /\ Plain(Spelled[m.host]) /\ n = name => after = m.id
<1> DEFINE name == Spelled[m.name]
           kind == m.kind
<1>1. list \in Seq(Item) /\ \A i \in DOMAIN list : list[i] \in Legible
  BY LegibleSeq
<1>2. CASE m.op # "set"
  <2> DEFINE new == Without(list, name)
  <2>1. new \in Seq(Legible) /\ Lacks(kind, new, name, list)
    BY WithoutIs
  <2>2. Changed(m, list) = new
    BY <1>2 DEF Changed
  <2> HIDE DEF new
  <2>3. new \in Seq(Item) /\ \A i \in DOMAIN new : new[i] \in Legible
    BY <2>1, LegibleSeq
  <2>4. Parsed(Written(new)) = new
    BY <2>3, LegibleReadsBack
  <2> QED
    BY <1>2, <2>1, <2>2, <2>4 DEF Lacks
<1>3. CASE m.op = "set"
  <2> DEFINE e == EntryOf(m)
             new == Updated(list, e)
  <2>1. Changed(m, list) = new
    BY <1>3 DEF Changed
  <2>2. /\ e \in Item /\ e.name = name /\ e.host = Spelled[m.host] /\ e.id = m.id
        /\ InRange(kind, e.id)
    BY <1>3 DEF EntryOf, Entry
  <2> HIDE DEF e
  <2>3. ASSUME n # name, At(Parsed(WriteLine(e)), n) = {}
        PROVE  Aliased(kind, Parsed(Written(new)), n) = Aliased(kind, list, n)
    BY <2>2, <2>3, UpdatedSpares
  <2>4. ASSUME Plain(name), Plain(Spelled[m.host])
        PROVE  Aliased(kind, Parsed(Written(new)), name) = m.id
    <3>1. e \in Legible
      BY <2>2, <2>4 DEF Legible
    <3>2. new \in Seq(Item)
      BY <1>1, <2>2, UpdatedPlace
    <3>3. PICK at \in Nat : Placed(list, e, new, at)
      BY <1>1, <2>2, UpdatedPlace
    <3>4. Aliased(kind, new, e.name) = e.id
      BY <1>1, <2>2, UpdatedSets
    <3> HIDE DEF new
    <3>5. DOMAIN list = 1 .. Len(list) /\ DOMAIN new = 1 .. Len(new)
      BY <1>1, <3>2, ListIs
    <3>6. \A i \in DOMAIN new : new[i] = e \/ (i \in DOMAIN list /\ new[i] = list[i])
      BY <3>3, <3>5 DEF Placed
    <3>7. \A i \in DOMAIN new : new[i] \in Legible
      BY <1>1, <3>1, <3>6
    <3>8. Parsed(Written(new)) = new
      BY <3>2, <3>7, LegibleReadsBack
    <3> QED
      BY <2>2, <3>4, <3>8
  <2> HIDE DEF new
  <2> QED
    BY <1>3, <2>1, <2>3, <2>4 DEF e
<1> QED
  BY <1>2, <1>3

\* alias.c and command.c: what a command that runs alone writes is all there is then,
\* and what it makes of what it read.
LEMMA WrittenAlone ==
  ASSUME CommandsInv, NEW c \in Clients, WriteMap(c), client[c].alone
  PROVE  LET k == client[c]
             m == k.meant
         IN  /\ k.read \in Seq(Legible) /\ maps'[m.kind].text = Written(Changed(m, k.read))
             /\ m.op \in {"set", "delete"}
             /\ m.op = "set" => EntryOf(m) \in Item /\ InRange(m.kind, m.id)
<1> DEFINE k == client[c]
           m == k.meant
           text == Written(k.list)
<1>1. k.pc = "write" /\ Writes(c, text)
  BY DEF WriteMap, Writes, On
<1>2. /\ ListOK(k, Known) /\ k.command = m /\ AtStep("write", m.op)
      /\ m.op \in {"set", "delete"} => m.kind \in Kinds
      /\ m.op = "set" => InRange(m.kind, m.id) /\ EntryOf(m) \in Item
  BY <1>1, RunsAsMeant
<1>3. m.kind \in Kinds /\ m.op \in {"set", "delete"}
  BY <1>2 DEF AtStep
<1>4. k.linked /\ maps[m.kind].text = <<>> /\ maps \in [Kinds -> [exists : BOOLEAN, text : Text]]
  BY <1>1 DEF CommandsInv, ClientOK, AloneOK, MapsOK
<1>5. k.read \in Seq(Legible) /\ k.list = Changed(m, k.read)
  BY <1>1, <1>2 DEF ListOK
<1>6. text \in Text
  BY WrittenIs
<1> DEFINE old == maps[m.kind].text
           new == Overlaid(text, old)
<1>7. maps' = [maps EXCEPT ![m.kind].text = new]
  BY <1>1, <1>2, <1>4 DEF Writes, Kind
<1>8. new = text
  <2>1. old = <<>> /\ <<>> \in Text
    BY <1>4, EmptyIs
  <2> HIDE DEF old, text
  <2> QED
    BY <1>6, <2>1, OverlaidIs
<1> HIDE DEF new
<1>9. maps'[m.kind].text = new
  BY <1>3, <1>4, <1>7
<1> QED
  BY <1>2, <1>3, <1>5, <1>8, <1>9

\* A command that runs alone and to its end does what it says, to every name, for every
\* map that was there before it.
THEOREM AloneTakesEffect == Spec => TakesEffectAlone
<1> DEFINE Effect ==
      \A c \in Clients : (WriteMap(c) /\ client[c].alone) =>
       LET m == client[c].meant
           name == Spelled[m.name]
           before(n) == Aliased(m.kind, client[c].read, n)
           after(n) == Aliased(m.kind, Parsed(maps'[m.kind].text), n)
           Spared(n) == \/ after(n) = before(n)
                        \/ m.op = "set" /\ At(Parsed(WriteLine(EntryOf(m))), n) # {}
       IN  /\ \A w \in Names : Spelled[w] # name => Spared(Spelled[w])
           /\ m.op = "delete" => after(name) = 0
           /\ m.op = "set" /\ Plain(name) /\ Plain(Spelled[m.host]) => after(name) = m.id
<1>1. CommandsInv /\ [Next]_vars => [Effect]_vars
  <2> SUFFICES ASSUME CommandsInv, NEW c \in Clients, WriteMap(c), client[c].alone
               PROVE  LET m == client[c].meant
                          name == Spelled[m.name]
                          before(n) == Aliased(m.kind, client[c].read, n)
                          after(n) == Aliased(m.kind, Parsed(maps'[m.kind].text), n)
                          Spared(n) == \/ after(n) = before(n)
                                       \/ m.op = "set" /\ At(Parsed(WriteLine(EntryOf(m))), n) # {}
                      IN  /\ \A w \in Names : Spelled[w] # name => Spared(Spelled[w])
                          /\ m.op = "delete" => after(name) = 0
                          /\ m.op = "set" /\ Plain(name) /\ Plain(Spelled[m.host]) => after(name) = m.id
    OBVIOUS
  <2> DEFINE m == client[c].meant
             list == client[c].read
             name == Spelled[m.name]
             text == maps'[m.kind].text
             after(n) == Aliased(m.kind, Parsed(text), n)
  <2>1. /\ list \in Seq(Legible) /\ text = Written(Changed(m, list)) /\ m.op \in {"set", "delete"}
        /\ m.op = "set" => EntryOf(m) \in Item /\ InRange(m.kind, m.id)
    BY WrittenAlone
  <2>2. ASSUME NEW n
        PROVE  /\ n # name => \/ after(n) = Aliased(m.kind, list, n)
                              \/ m.op = "set" /\ At(Parsed(WriteLine(EntryOf(m))), n) # {}
               /\ m.op # "set" /\ n = name => after(n) = 0
               /\ m.op = "set" /\ Plain(name) /\ Plain(Spelled[m.host]) /\ n = name => after(n) = m.id
    <3> HIDE DEF m, list, text
    <3> QED
      BY <2>1, ChangedReads
  <2>3. /\ m.op = "delete" => after(name) = 0
        /\ m.op = "set" /\ Plain(name) /\ Plain(Spelled[m.host]) => after(name) = m.id
    BY <2>2
  <2>4. \A w \in Names : Spelled[w] # name =>
          \/ after(Spelled[w]) = Aliased(m.kind, list, Spelled[w])
          \/ m.op = "set" /\ At(Parsed(WriteLine(EntryOf(m))), Spelled[w]) # {}
    BY <2>2
  <2> QED
    BY <2>3, <2>4
<1>2. [][Next]_vars /\ []CommandsInv => [][Effect]_vars
  BY <1>1, PTL
<1>3. Spec => [][Effect]_vars
  BY <1>2, CommandsInvariance, PTL DEF Spec
<1> QED
  BY <1>3 DEF TakesEffectAlone
=============================================================================
