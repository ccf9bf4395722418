-------------------------------- MODULE Places --------------------------------
(***************************************************************************)
(* Sequences put together from the places of another one: what the         *)
(* references for ConfigDocument and CommandLine are written with.         *)
(***************************************************************************)
EXTENDS Integers, Sequences

\* Sequences, each at a place, one after the other up to the last place.
Joined(parts, last) ==
  LET upTo[i \in 0 .. last] ==
        IF i = 0 THEN <<>> ELSE IF i \in DOMAIN parts THEN upTo[i - 1] \o parts[i] ELSE upTo[i - 1]
  IN  upTo[last]
=============================================================================
