---------------------------- MODULE MCBacnetRead ----------------------------
(* BacnetRead on small sets of threads, keys and invoke ids.               *)
EXTENDS BacnetRead, TLC

Symmetry == Permutations(Readers) \cup Permutations(Keys) \cup Permutations(InvokeIds)
=============================================================================
