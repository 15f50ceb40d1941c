---------------------------- MODULE Subsequences ----------------------------
(***************************************************************************)
(* What the program writes as filter, partition or retain on a vector, with *)
(* a recursive function that proofs can reason about.                      *)
(***************************************************************************)
EXTENDS Naturals, Sequences

(* The elements of s at the indices of I, in their order.                      *)
Kept(s, I) ==
    LET kept[n \in 0 .. Len(s)] ==
            IF n = 0 THEN << >>
            ELSE IF n \in I THEN Append(kept[n - 1], s[n]) ELSE kept[n - 1]
    IN kept[Len(s)]

(* The elements of s that pass a test, in their order.                         *)
Filtered(s, Passes(_)) == Kept(s, {i \in DOMAIN s : Passes(s[i])})
=============================================================================
