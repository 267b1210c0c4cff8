----------------------------- MODULE MCRepository -----------------------------
(***************************************************************************)
(* A small instance of Repository: three backups that share chunks, with   *)
(* different codecs; one source repeats its chunks, so that a backup also  *)
(* meets the files it has itself just written.  With one worker and a      *)
(* queue of one chunk that source is also long enough to hang, before and  *)
(* after its first chunk is written.                                       *)
(***************************************************************************)
EXTENDS Repository, TLC

CONSTANTS j1, j2, j3, a, b, zstd, lz4

MCSource == (j1 :> <<b>>) @@ (j2 :> <<b, a, b, a>>) @@ (j3 :> <<a>>)
MCInFlight == [j \in Job |-> 2]
MCRequested == (j1 :> zstd) @@ (j2 :> lz4) @@ (j3 :> zstd)
=============================================================================
