--------------------------- MODULE MCBacnetBatch ---------------------------
(* BacnetBatch with one other reader.                                      *)
EXTENDS BacnetBatch

CONSTANT k1

MCProperties == <<k1>>
=============================================================================
