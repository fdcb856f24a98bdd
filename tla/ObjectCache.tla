----------------------------- MODULE ObjectCache -----------------------------
(***************************************************************************)
(* What the BACnet driver promises its callers about each object key, with *)
(* no invoke ids, locks or messages: at most one question to the device is *)
(* open per key; an answer gives the key a reading the property had while  *)
(* the question was open or earlier, but never one older than the reading  *)
(* already held; giving up leaves the reading alone.  An answer may also   *)
(* come to nothing and take with it the reading that was held, which is    *)
(* not a promise a caller would ask for, but is what the driver does when  *)
(* it runs out of memory.                                                  *)
(***************************************************************************)
EXTENDS Naturals

CONSTANTS Keys,       (* object keys                                       *)
          MaxVersion  (* bound: how often a property changes               *)

VARIABLES open,    (* keys with a question to the device open              *)
          held,    (* held[k]: no reading (0), or 1 + the version read     *)
          lost,    (* keys whose last answer came to nothing: what is in   *)
                   (* held of them was once read, and cannot be had now    *)
          device   (* the version each property has on the device          *)

absVars == <<open, held, lost, device>>

Init ==
  /\ open = {}
  /\ held = [k \in Keys |-> 0]
  /\ lost = {}
  /\ device = [k \in Keys |-> 0]

Ask(k) ==
  /\ k \notin open
  /\ open' = open \cup {k}
  /\ UNCHANGED <<held, lost, device>>

Answer(k) ==
  /\ k \in open
  /\ open' = open \ {k}
  /\ \E v \in held[k]..(device[k] + 1) : v > 0 /\ held' = [held EXCEPT ![k] = v]
  /\ lost' = lost \ {k}
  /\ UNCHANGED device

Spoil(k) ==
  /\ k \in open
  /\ open' = open \ {k}
  /\ lost' = lost \cup {k}
  /\ UNCHANGED <<held, device>>

GiveUp ==
  /\ \E K \in SUBSET open : K # {} /\ open' = open \ K
  /\ UNCHANGED <<held, lost, device>>

Change(k) ==
  /\ device[k] < MaxVersion
  /\ device' = [device EXCEPT ![k] = @ + 1]
  /\ UNCHANGED <<open, held, lost>>

(* Only for a driver that is released: every question and every reading.   *)
Forget ==
  /\ open' = {}
  /\ held' = [k \in Keys |-> 0]
  /\ lost' = {}
  /\ UNCHANGED device

Next == (\E k \in Keys : Ask(k) \/ Answer(k) \/ Spoil(k) \/ Change(k)) \/ GiveUp

Spec == Init /\ [][Next]_absVars
=============================================================================
