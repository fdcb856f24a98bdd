------------------------------- MODULE MqttRing -------------------------------
(***************************************************************************)
(* The MQTT driver's buffer of received messages: a ring of                *)
(* MAX_MSG_BUFFER_SIZE slots that the library's callback thread fills and  *)
(* application threads empty.  Each operation is one msg_mutex critical    *)
(* section, so each is one step.  A message is its arrival number and the  *)
(* length of its payload; the connection test before a read is in          *)
(* MqttConn.                                                               *)
(***************************************************************************)
EXTENDS Integers, Sequences

CONSTANTS
  MAX_MSG_BUFFER_SIZE,
  MAX_MESSAGE_SIZE,
  Lengths,             (* payload lengths that arrive                      *)
  MaxSent              (* bound: messages that arrive                      *)

ASSUME SizesAssumption ==
  /\ MAX_MSG_BUFFER_SIZE \in Nat \ {0} /\ MAX_MESSAGE_SIZE \in Nat \ {0}
  /\ Lengths \subseteq Nat
  /\ MaxSent \in Nat

VARIABLES
  msg_buffer,          (* the slots                                        *)
  msg_buffer_head,     (* the slot of the oldest message                   *)
  msg_buffer_tail,     (* the slot the next message goes to                *)
  msg_buffer_count,    (* messages held                                    *)
  returned,            (* what the last read gave its caller               *)
  sent                 (* history: the length of every message that came   *)

vars == <<msg_buffer, msg_buffer_head, msg_buffer_tail, msg_buffer_count,
          returned, sent>>

Indices  == 0..(MAX_MSG_BUFFER_SIZE - 1)
Messages == [number: Nat, length: 0..MAX_MESSAGE_SIZE]
NoData   == [number |-> 0, length |-> 0]

(* Slots, indices and counters keep their ranges.                          *)
TypeOK ==
  /\ msg_buffer \in [Indices -> Messages]
  /\ msg_buffer_head \in Indices
  /\ msg_buffer_tail \in Indices
  /\ msg_buffer_count \in 0..MAX_MSG_BUFFER_SIZE
  /\ returned \in Messages
  /\ sent \in Seq(Lengths)

Init ==
  /\ msg_buffer = [i \in Indices |-> NoData]
  /\ msg_buffer_head = 0
  /\ msg_buffer_tail = 0
  /\ msg_buffer_count = 0
  /\ returned = NoData
  /\ sent = <<>>

-----------------------------------------------------------------------------
Following(i) == (i + 1) % MAX_MSG_BUFFER_SIZE

(* A slot has room for MAX_MESSAGE_SIZE bytes; the caller's buffer, of the *)
(* same size, also for the terminating NUL.                                *)
Stored(length) == IF length < MAX_MESSAGE_SIZE THEN length ELSE MAX_MESSAGE_SIZE

Copied(length) == IF length < MAX_MESSAGE_SIZE THEN length ELSE MAX_MESSAGE_SIZE - 1

Full == msg_buffer_count >= MAX_MSG_BUFFER_SIZE

(* Mutant: the oldest message is given up in the count, not in the head.   *)
messageArrived_KeepsHead(length) ==
  /\ Len(sent) < MaxSent
  /\ sent' = Append(sent, length)
  /\ msg_buffer' = [msg_buffer EXCEPT ![msg_buffer_tail] =
                      [number |-> Len(sent) + 1, length |-> Stored(length)]]
  /\ msg_buffer_tail' = Following(msg_buffer_tail)
  /\ msg_buffer_count' = (IF Full THEN msg_buffer_count - 1 ELSE msg_buffer_count) + 1
  /\ UNCHANGED <<msg_buffer_head, returned>>

(* messageArrived: a full ring gives up its oldest message first.          *)
messageArrived(length) ==
  /\ Len(sent) < MaxSent
  /\ sent' = Append(sent, length)
  /\ msg_buffer_head' = IF Full THEN Following(msg_buffer_head) ELSE msg_buffer_head
  /\ msg_buffer' = [msg_buffer EXCEPT ![msg_buffer_tail] =
                      [number |-> Len(sent) + 1, length |-> Stored(length)]]
  /\ msg_buffer_tail' = Following(msg_buffer_tail)
  /\ msg_buffer_count' = (IF Full THEN msg_buffer_count - 1 ELSE msg_buffer_count) + 1
  /\ UNCHANGED returned

mqtt_proto_read ==
  LET msg == msg_buffer[msg_buffer_head] IN
  /\ msg_buffer_count > 0
  /\ returned' = [msg EXCEPT !.length = Copied(msg.length)]
  /\ msg_buffer_head' = Following(msg_buffer_head)
  /\ msg_buffer_count' = msg_buffer_count - 1
  /\ UNCHANGED <<msg_buffer, msg_buffer_tail, sent>>

mqtt_proto_read_nothing ==
  /\ msg_buffer_count = 0
  /\ returned' = NoData
  /\ UNCHANGED <<msg_buffer, msg_buffer_head, msg_buffer_tail, msg_buffer_count, sent>>

(* A reload releases the context and initialises a new one, whose slots    *)
(* hold whatever malloc returns: here, what the old ones held.             *)
proto_driver_init ==
  /\ msg_buffer_head' = 0
  /\ msg_buffer_tail' = 0
  /\ msg_buffer_count' = 0
  /\ UNCHANGED <<msg_buffer, returned, sent>>

Next ==
  \/ \E length \in Lengths : messageArrived(length)
  \/ mqtt_proto_read \/ mqtt_proto_read_nothing \/ proto_driver_init

Spec == Init /\ [][Next]_vars
-----------------------------------------------------------------------------
(* The number of the oldest message held.                                  *)
Oldest == Len(sent) - msg_buffer_count + 1

Slot(j) == (msg_buffer_head + j) % MAX_MSG_BUFFER_SIZE

(* Three counters that the code moves separately describe one window: the  *)
(* tail is count slots after the head, and from the head on the slots hold *)
(* the newest count messages in the order they came, none twice.           *)
Window ==
  /\ msg_buffer_count <= Len(sent)
  /\ msg_buffer_tail = Slot(msg_buffer_count)
  /\ \A j \in 0..(msg_buffer_count - 1) :
       msg_buffer[Slot(j)] = [number |-> Oldest + j, length |-> Stored(sent[Oldest + j])]

Abstract ==
  INSTANCE DropOldest WITH
    N <- MAX_MSG_BUFFER_SIZE, Limit <- MAX_MESSAGE_SIZE - 1, oldest <- Oldest

(* The ring is the drop-oldest queue: order, no duplicates, loss only when *)
(* full or reinitialised, "no data" only when empty, and a payload cut     *)
(* only when it does not fit the caller's buffer with its NUL.             *)
ImplementsDropOldest == Abstract!Spec
=============================================================================
