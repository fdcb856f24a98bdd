---------------------------- MODULE MCBacnetReload ----------------------------
(* BacnetReload with a few callers and edits.                              *)
EXTENDS BacnetReload
=============================================================================
