------------------------------- MODULE Fnv1a -------------------------------
(***************************************************************************)
(* The hash of a content, hash_64_fnv1a (src/core/hash_fnv1a.hpp), that    *)
(* FileIntegrator::createFile() names an asset by.  Its width is reduced,  *)
(* and its constants with it.                                              *)
(***************************************************************************)
EXTENDS Integers, Sequences, SequencesExt, Bitwise

CONSTANT HashBits       \* the width of the hash (64 in the code)

FnvOffset == 37
FnvPrime == 27

ASSUME HashAssumption == HashBits \in 8..64

hash_64_fnv1a(content) ==
    FoldLeft(LAMBDA hash, byte : ((hash ^^ byte) * FnvPrime) % 2^HashBits,
             FnvOffset, content)
=============================================================================
