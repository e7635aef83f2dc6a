------------------------------ MODULE MCHashes ------------------------------
(***************************************************************************)
(* Values for TLC: lengths and forks on both sides of the last carry, with *)
(* bytes of one bit, so that 255 is the largest number.                    *)
(***************************************************************************)
EXTENDS Hashes

EdgeNumbers == {0, 1, 2, 127, 128, 255}

=============================================================================
