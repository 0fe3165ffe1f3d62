-------------------------------- MODULE Lists --------------------------------
(***************************************************************************)
(* Sequences as the program's lists: what is kept of one, and what a       *)
(* dictionary becomes when an entry is written.                            *)
(***************************************************************************)
EXTENDS Integers, Sequences, Functions

Listed(s) == s \in Seq(Range(s))

\* The elements of a sequence at some of its places, in order.
Kept(s, places) ==
    LET kept[n \in 0..Len(s)] ==
            IF n = 0 THEN <<>>
            ELSE IF n \in places THEN Append(kept[n - 1], s[n]) ELSE kept[n - 1]
    IN  kept[Len(s)]

\* A dictionary with one entry written.
Entered(f, x, y) == [u \in DOMAIN f \cup {x} |-> IF u = x THEN y ELSE f[u]]
=============================================================================
