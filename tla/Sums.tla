-------------------------------- MODULE Sums --------------------------------
(***************************************************************************)
(* The sum of a list of sizes: of the blocks under a node, the fields of a *)
(* record, the parts of a key.                                             *)
(***************************************************************************)
EXTENDS Naturals, Sequences

Total(sizes) ==
  LET upTo[n \in 0..Len(sizes)] ==
        IF n = 0 THEN 0 ELSE upTo[n - 1] + sizes[n]
  IN  upTo[Len(sizes)]

=============================================================================
