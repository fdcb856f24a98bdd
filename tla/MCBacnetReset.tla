---------------------------- MODULE MCBacnetReset ----------------------------
(* BacnetReset on small sets of threads, keys and invoke ids.              *)
EXTENDS BacnetReset, TLC

Symmetry == Permutations(Readers) \cup Permutations(Keys) \cup Permutations(InvokeIds)
=============================================================================
