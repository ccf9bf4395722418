------------------------------- MODULE IpRange -------------------------------
(***************************************************************************)
(* IPv4 restrictions as range.c reads them: an address, or an address, a   *)
(* slash and the length of a prefix.  A text is what it splits into at its *)
(* slashes, without the blanks around it: an address, -1 for what is none, *)
(* and the number strtoul makes of each part behind a slash.  A part that  *)
(* is empty is 0, one that is no number is above Width.                    *)
(***************************************************************************)
EXTENDS Integers, Sequences

CONSTANTS
  Width,    \* bits of an address
  IpTexts   \* word -> [address, prefixes], for the words that stand for an IP text

ASSUME IpRangeAssumption ==
  /\ Width \in Nat \ {0}
  /\ \A w \in DOMAIN IpTexts :
       /\ IpTexts[w].address \in -1 .. 2^Width - 1
       /\ IpTexts[w].prefixes \in Seq(Int)

IsAddress(w) == w \in DOMAIN IpTexts /\ IpTexts[w].address >= 0

IsSingle(w) == IsAddress(w) /\ IpTexts[w].prefixes = <<>>

IsCidr(w) ==
  /\ IsAddress(w)
  /\ Len(IpTexts[w].prefixes) = 1
  /\ IpTexts[w].prefixes[1] \in 0 .. Width

\* The mask of a prefix keeps the upper bits: whole blocks of 2^(Width - prefix).
Masked(address, prefix) == address \div 2^(Width - prefix)

\* An address restricts as a prefix of all its bits does.
Admits(w, ip) ==
  /\ IsSingle(ip)
  /\ IsSingle(w) \/ IsCidr(w)
  /\ LET prefix == IF IsSingle(w) THEN Width ELSE IpTexts[w].prefixes[1]
     IN  Masked(IpTexts[w].address, prefix) = Masked(IpTexts[ip].address, prefix)
=============================================================================
