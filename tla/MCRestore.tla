------------------------------- MODULE MCRestore -------------------------------
(***************************************************************************)
(* A small instance of Restore: two restores without --force, of the same  *)
(* backup or of another, and one with it, into one path.  A header of two  *)
(* bytes and words of eight make every sum near the end of the word occur. *)
(***************************************************************************)
EXTENDS Restore, TLC

CONSTANTS p1, p2, f1, a, b, zstd, lz4, odd

MCRawLen == (a :> 2) @@ (b :> 1)
MCRecorded == (a :> [tag |-> zstd, length |-> 2]) @@ (b :> [tag |-> lz4, length |-> 1])

MCCids == (p1 :> <<a, b>>) @@ (p2 :> <<b>>) @@ (f1 :> <<a>>)
MCTotals == (p1 :> {3}) @@ (p2 :> {1}) @@ (f1 :> {2, 3})

(* A rotten payload, and of one of the two: no file, a header that says    *)
(* less, or the largest length; of the other: an unknown tag, the other    *)
(* codec, another length.                                                  *)
Rotten(c) == [Stored(c) EXCEPT !.body = Bad]

MCFound ==
    (a :> {Rotten(a), Missing,
           [Stored(a) EXCEPT !.frame.declared = 0],
           [Stored(a) EXCEPT !.frame.declared = Word - 1]}) @@
    (b :> {Rotten(b),
           [Stored(b) EXCEPT !.frame.tag = odd],
           [Stored(b) EXCEPT !.frame.tag = zstd],
           [Stored(b) EXCEPT !.frame = Encode(lz4, Recorded[b].length + 1)]})
=============================================================================
