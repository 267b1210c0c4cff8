------------------------------ MODULE StoredChunk ------------------------------
(***************************************************************************)
(* The chunk file format: a header of HeaderLen bytes with magic, version, *)
(* codec tag and payload length, then the payload.  Lengths are machine    *)
(* words, so the sum in decode may wrap around (codec.rs:88; a build with  *)
(* overflow checks panics instead and accepts nothing).  The length in the *)
(* header has as many bits as a usize here: codec.rs:87 casts it, which is *)
(* exact on 64-bit targets only.                                           *)
(***************************************************************************)
EXTENDS Integers

CONSTANTS
    HeaderLen,      \* STORED_CHUNK_HEADER_LEN, 24
    Word,           \* one more than the largest length, 2^64
    Tag,            \* what the tag byte may be
    KnownTag        \* what from_tag accepts

ASSUME StoredChunkAssumption ==
    /\ HeaderLen \in Nat /\ Word \in Nat /\ HeaderLen < Word
    /\ KnownTag \subseteq Tag

Length == 0 .. Word - 1

(* The bytes of a file, as far as decode looks at them: whether magic and  *)
(* version are right, the tag, the length in the header, and the size.     *)
Frame == [sound : BOOLEAN, tag : Tag, declared : Length, size : Length]

Encode(tag, length) ==
    [sound |-> TRUE, tag |-> tag, declared |-> length, size |-> HeaderLen + length]

(* Mutant of Decodes: the file may be longer than the header says.         *)
DecodesPrefix(f) ==
    /\ f.size >= HeaderLen
    /\ f.sound
    /\ f.tag \in KnownTag
    /\ f.size >= (HeaderLen + f.declared) % Word

(* decode returns Ok.                                                      *)
Decodes(f) ==
    /\ f.size >= HeaderLen
    /\ f.sound
    /\ f.tag \in KnownTag
    /\ f.size = (HeaderLen + f.declared) % Word

(* The payload decode returns is the rest of the file, however long the    *)
(* header says it is.                                                      *)
PayloadLen(f) == f.size - HeaderLen
=============================================================================
