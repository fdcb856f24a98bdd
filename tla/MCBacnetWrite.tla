---------------------------- MODULE MCBacnetWrite ----------------------------
(* A small instance of BacnetWrite.                                        *)
EXTENDS BacnetWrite
=============================================================================
