---------------------------- MODULE MqttRingProofs ----------------------------
(***************************************************************************)
(* Proofs about MqttRing for every ring size, message size, set of payload *)
(* lengths and number of messages.                                         *)
(***************************************************************************)
EXTENDS MqttRing, TLAPS

(* Modular arithmetic on indices, without %.                               *)
LEMMA ModIndex ==
  ASSUME NEW M \in Nat \ {0}, NEW x \in 0..(2 * M - 1)
  PROVE  x % M = IF x < M THEN x ELSE x - M
  OBVIOUS

Wrap(x) == IF x < MAX_MSG_BUFFER_SIZE THEN x ELSE x - MAX_MSG_BUFFER_SIZE

LEMMA FollowingWraps ==
  ASSUME NEW i \in Indices
  PROVE  Following(i) = Wrap(i + 1) /\ Following(i) \in Indices
<1>1. i + 1 \in 0..(2 * MAX_MSG_BUFFER_SIZE - 1)
  BY SizesAssumption DEF Indices
<1>2. Following(i) = Wrap(i + 1)
  BY <1>1, ModIndex, SizesAssumption DEF Following, Wrap
<1> QED
  BY <1>2, SizesAssumption DEF Wrap, Indices

LEMMA IndexWraps ==
  ASSUME NEW h \in Indices, NEW j \in 0..MAX_MSG_BUFFER_SIZE
  PROVE  (h + j) % MAX_MSG_BUFFER_SIZE = Wrap(h + j) /\ Wrap(h + j) \in Indices
<1>1. h + j \in 0..(2 * MAX_MSG_BUFFER_SIZE - 1)
  BY SizesAssumption DEF Indices
<1>2. (h + j) % MAX_MSG_BUFFER_SIZE = Wrap(h + j)
  BY <1>1, ModIndex, SizesAssumption DEF Wrap
<1> QED
  BY <1>1, <1>2, SizesAssumption DEF Wrap, Indices

(* What a reader gets of a payload after both copies.                      *)
LEMMA PayloadCut ==
  /\ \A length \in Lengths : Stored(length) \in 0..MAX_MESSAGE_SIZE
  /\ \A stored \in 0..MAX_MESSAGE_SIZE : Copied(stored) \in 0..MAX_MESSAGE_SIZE
  /\ \A length \in Lengths : Copied(Stored(length)) = Abstract!Cut(length)
  BY SizesAssumption DEF Stored, Copied, Abstract!Cut

-----------------------------------------------------------------------------
LEMMA InitType == Init => TypeOK
<1> SUFFICES ASSUME Init PROVE TypeOK
  OBVIOUS
<1>1. NoData \in Messages /\ 0 \in Indices /\ 0 \in 0..MAX_MSG_BUFFER_SIZE
  BY SizesAssumption DEF NoData, Messages, Indices
<1> QED
  BY <1>1 DEF Init, TypeOK

LEMMA StepType == TypeOK /\ [Next]_vars => TypeOK'
<1> SUFFICES ASSUME TypeOK, [Next]_vars PROVE TypeOK'
  OBVIOUS
<1>1. Following(msg_buffer_head) \in Indices /\ Following(msg_buffer_tail) \in Indices
  BY FollowingWraps DEF TypeOK
<1>2. ASSUME NEW length \in Lengths, messageArrived(length) PROVE TypeOK'
  <2>1. [number |-> Len(sent) + 1, length |-> Stored(length)] \in Messages
    BY PayloadCut DEF TypeOK, Messages
  <2>2. msg_buffer_count' \in 0..MAX_MSG_BUFFER_SIZE
    BY <1>2, SizesAssumption DEF messageArrived, Full, TypeOK
  <2>3. sent' \in Seq(Lengths)
    BY <1>2 DEF messageArrived, TypeOK
  <2> QED
    BY <1>1, <1>2, <2>1, <2>2, <2>3 DEF messageArrived, TypeOK
<1>3. CASE mqtt_proto_read
  <2>1. msg_buffer[msg_buffer_head] \in Messages
    BY DEF TypeOK
  <2>2. returned' \in Messages
    BY <1>3, <2>1, PayloadCut DEF mqtt_proto_read, Messages
  <2>3. msg_buffer_count' \in 0..MAX_MSG_BUFFER_SIZE
    BY <1>3, SizesAssumption DEF mqtt_proto_read, TypeOK
  <2> QED
    BY <1>1, <1>3, <2>2, <2>3 DEF mqtt_proto_read, TypeOK
<1>4. CASE mqtt_proto_read_nothing
  BY <1>4, SizesAssumption DEF mqtt_proto_read_nothing, TypeOK, NoData, Messages
<1>5. CASE proto_driver_init
  BY <1>5, SizesAssumption DEF proto_driver_init, TypeOK, Indices
<1>6. CASE UNCHANGED vars
  BY <1>6 DEF vars, TypeOK
<1> QED
  BY <1>2, <1>3, <1>4, <1>5, <1>6 DEF Next

(* Head, tail and count stay in range for any ring and message size.       *)
THEOREM TypeCorrect == Spec => []TypeOK
  BY InitType, StepType, PTL DEF Spec

-----------------------------------------------------------------------------
(* Window with the modular arithmetic resolved.                            *)
LEMMA WindowWraps ==
  ASSUME TypeOK
  PROVE  Window <=>
           /\ msg_buffer_count <= Len(sent)
           /\ msg_buffer_tail = Wrap(msg_buffer_head + msg_buffer_count)
           /\ \A j \in 0..(msg_buffer_count - 1) :
                msg_buffer[Wrap(msg_buffer_head + j)]
                  = [number |-> Oldest + j, length |-> Stored(sent[Oldest + j])]
<1>1. \A j \in 0..msg_buffer_count : Slot(j) = Wrap(msg_buffer_head + j)
  BY IndexWraps, SizesAssumption DEF Slot, TypeOK
<1>2. msg_buffer_count \in 0..msg_buffer_count
      /\ \A j \in 0..(msg_buffer_count - 1) : j \in 0..msg_buffer_count
  BY DEF TypeOK
<1> QED
  BY <1>1, <1>2 DEF Window

LEMMA ArrivedWindow ==
  ASSUME TypeOK, TypeOK', Window, NEW length \in Lengths, messageArrived(length)
  PROVE  Window'
<1> DEFINE n == Len(sent)  N == MAX_MSG_BUFFER_SIZE
           new == [number |-> n + 1, length |-> Stored(length)]
<1>0. /\ N \in Nat \ {0} /\ n \in Nat
      /\ msg_buffer_head \in 0..(N - 1) /\ msg_buffer_tail \in 0..(N - 1)
      /\ msg_buffer_count \in 0..N
  BY SizesAssumption DEF TypeOK, Indices
<1>1. /\ Len(sent') = n + 1 /\ sent'[n + 1] = length
      /\ \A i \in 1..n : sent'[i] = sent[i]
  BY DEF messageArrived, TypeOK
<1>2. /\ msg_buffer_count <= n
      /\ msg_buffer_tail = Wrap(msg_buffer_head + msg_buffer_count)
      /\ \A j \in 0..(msg_buffer_count - 1) :
           msg_buffer[Wrap(msg_buffer_head + j)]
             = [number |-> Oldest + j, length |-> Stored(sent[Oldest + j])]
  BY WindowWraps
<1>3. /\ msg_buffer'[msg_buffer_tail] = new
      /\ \A i \in Indices : i # msg_buffer_tail => msg_buffer'[i] = msg_buffer[i]
  BY DEF messageArrived, TypeOK
<1>4. /\ msg_buffer_tail' = Wrap(msg_buffer_tail + 1)
      /\ Full => msg_buffer_head' = Wrap(msg_buffer_head + 1)
                 /\ msg_buffer_count = N /\ msg_buffer_count' = N
      /\ ~Full => msg_buffer_head' = msg_buffer_head
                  /\ msg_buffer_count < N /\ msg_buffer_count' = msg_buffer_count + 1
  BY FollowingWraps, SizesAssumption DEF messageArrived, TypeOK, Full
<1>5. msg_buffer_tail' = Wrap(msg_buffer_head' + msg_buffer_count')
  <2>1. CASE Full
    BY <1>0, <1>2, <1>4, <2>1 DEF Wrap
  <2>2. CASE ~Full
    BY <1>0, <1>2, <1>4, <2>2 DEF Wrap
  <2> QED
    BY <2>1, <2>2
<1>6. Oldest' = (n + 1) - msg_buffer_count' + 1 /\ Oldest = n - msg_buffer_count + 1
  BY <1>1 DEF Oldest
<1>7. ASSUME NEW j \in 0..(msg_buffer_count' - 1)
      PROVE  msg_buffer'[Wrap(msg_buffer_head' + j)]
               = [number |-> Oldest' + j, length |-> Stored(sent'[Oldest' + j])]
  <2>0. j \in Nat /\ msg_buffer_count' \in Nat
    BY <1>0, <1>4
  <2>1. CASE j = msg_buffer_count' - 1
    <3>1. Wrap(msg_buffer_head' + j) = msg_buffer_tail
      <4>1. CASE Full
        BY <1>0, <1>2, <1>4, <2>1, <4>1 DEF Wrap
      <4>2. CASE ~Full
        BY <1>0, <1>2, <1>4, <2>1, <4>2 DEF Wrap
      <4> QED
        BY <4>1, <4>2
    <3>2. Oldest' + j = n + 1
      BY <1>0, <1>6, <2>0, <2>1
    <3> QED
      BY <1>1, <1>3, <3>1, <3>2
  <2>2. CASE j < msg_buffer_count' - 1
    <3> DEFINE old == IF Full THEN j + 1 ELSE j
    <3>1. old \in 0..(msg_buffer_count - 1) /\ Oldest' + j = Oldest + old
      <4>1. CASE Full
        BY <1>0, <1>4, <1>6, <2>0, <2>2, <4>1
      <4>2. CASE ~Full
        BY <1>0, <1>4, <1>6, <2>0, <2>2, <4>2
      <4> QED
        BY <4>1, <4>2
    <3>2. /\ Wrap(msg_buffer_head' + j) = Wrap(msg_buffer_head + old)
          /\ Wrap(msg_buffer_head + old) \in 0..(N - 1)
          /\ Wrap(msg_buffer_head + old) # msg_buffer_tail
      <4>1. CASE Full
        BY <1>0, <1>2, <1>4, <2>0, <2>2, <4>1 DEF Wrap
      <4>2. CASE ~Full
        BY <1>0, <1>2, <1>4, <2>0, <2>2, <4>2 DEF Wrap
      <4> QED
        BY <4>1, <4>2
    <3>3. /\ msg_buffer'[Wrap(msg_buffer_head' + j)] = msg_buffer[Wrap(msg_buffer_head + old)]
          /\ msg_buffer[Wrap(msg_buffer_head + old)]
               = [number |-> Oldest + old, length |-> Stored(sent[Oldest + old])]
      BY <1>2, <1>3, <3>1, <3>2 DEF Indices
    <3>4. Oldest + old \in 1..n
      BY <1>0, <1>2, <1>6, <3>1
    <3> QED
      BY <1>1, <3>1, <3>3, <3>4
  <2> QED
    BY <1>0, <2>0, <2>1, <2>2
<1>8. msg_buffer_count' <= Len(sent')
  BY <1>0, <1>1, <1>2, <1>4
<1>9. ASSUME NEW j \in 0..msg_buffer_count'
      PROVE  (msg_buffer_head' + j) % N = Wrap(msg_buffer_head' + j)
  <2>1. j \in 0..N /\ msg_buffer_head' \in Indices
    BY <1>0, <1>4 DEF TypeOK
  <2> QED
    BY <2>1, IndexWraps
<1>10. msg_buffer_count' \in 0..msg_buffer_count'
       /\ \A j \in 0..(msg_buffer_count' - 1) : j \in 0..msg_buffer_count'
  BY <1>0, <1>4
<1> QED
  BY <1>5, <1>7, <1>8, <1>9, <1>10 DEF Window, Slot

LEMMA ReadWindow ==
  ASSUME TypeOK, TypeOK', Window, mqtt_proto_read
  PROVE  Window'
<1> DEFINE N == MAX_MSG_BUFFER_SIZE
<1>0. /\ N \in Nat \ {0} /\ Len(sent) \in Nat
      /\ msg_buffer_head \in 0..(N - 1) /\ msg_buffer_head' \in Indices
      /\ msg_buffer_count \in 1..N /\ msg_buffer_count' = msg_buffer_count - 1
      /\ UNCHANGED <<msg_buffer, msg_buffer_tail, sent>>
  BY SizesAssumption DEF mqtt_proto_read, TypeOK, Indices
<1>1. msg_buffer_head' = Wrap(msg_buffer_head + 1)
  BY FollowingWraps DEF mqtt_proto_read, TypeOK
<1>2. /\ msg_buffer_count <= Len(sent)
      /\ msg_buffer_tail = Wrap(msg_buffer_head + msg_buffer_count)
      /\ \A j \in 0..(msg_buffer_count - 1) :
           msg_buffer[Wrap(msg_buffer_head + j)]
             = [number |-> Oldest + j, length |-> Stored(sent[Oldest + j])]
  BY WindowWraps
<1>3. Oldest' = Oldest + 1
  BY <1>0 DEF Oldest
<1>4. ASSUME NEW j \in 0..msg_buffer_count'
      PROVE  /\ (msg_buffer_head' + j) % N = Wrap(msg_buffer_head' + j)
             /\ Wrap(msg_buffer_head' + j) = Wrap(msg_buffer_head + (j + 1))
  <2>1. j \in 0..N /\ j \in Nat /\ j < msg_buffer_count
    BY <1>0
  <2>2. (msg_buffer_head' + j) % N = Wrap(msg_buffer_head' + j)
    BY <1>0, <2>1, IndexWraps
  <2>3. Wrap(msg_buffer_head' + j) = Wrap(msg_buffer_head + (j + 1))
    BY <1>0, <1>1, <2>1 DEF Wrap
  <2> QED
    BY <2>2, <2>3
<1>5. msg_buffer_tail' = Slot(msg_buffer_count)'
  <2>1. msg_buffer_count' \in 0..msg_buffer_count' /\ msg_buffer_count' + 1 = msg_buffer_count
    BY <1>0
  <2> QED
    BY <1>0, <1>2, <1>4, <2>1 DEF Slot
<1>6. ASSUME NEW j \in 0..(msg_buffer_count' - 1)
      PROVE  msg_buffer'[Slot(j)']
               = [number |-> Oldest' + j, length |-> Stored(sent'[Oldest' + j])]
  <2>1. j \in 0..msg_buffer_count' /\ j + 1 \in 0..(msg_buffer_count - 1)
    BY <1>0
  <2>2. Oldest' + j = Oldest + (j + 1)
    BY <1>0, <1>3, <2>1 DEF Oldest
  <2> QED
    BY <1>0, <1>2, <1>4, <2>1, <2>2 DEF Slot
<1>7. msg_buffer_count' <= Len(sent')
  BY <1>0, <1>2
<1> QED
  BY <1>5, <1>6, <1>7 DEF Window

LEMMA StepWindow == TypeOK /\ TypeOK' /\ Window /\ [Next]_vars => Window'
<1> SUFFICES ASSUME TypeOK, TypeOK', Window, [Next]_vars PROVE Window'
  OBVIOUS
<1>1. ASSUME NEW length \in Lengths, messageArrived(length) PROVE Window'
  BY <1>1, ArrivedWindow
<1>2. CASE mqtt_proto_read
  BY <1>2, ReadWindow
<1>3. CASE proto_driver_init
  <2>1. 0 % MAX_MSG_BUFFER_SIZE = 0
    BY ModIndex, SizesAssumption
  <2>2. Len(sent') \in Nat
    BY DEF TypeOK
  <2> QED
    BY <1>3, <2>1, <2>2 DEF proto_driver_init, Window, Slot
<1>4. CASE mqtt_proto_read_nothing \/ UNCHANGED vars
  BY <1>4 DEF mqtt_proto_read_nothing, vars, Window, Slot, Oldest
<1> QED
  BY <1>1, <1>2, <1>3, <1>4 DEF Next

LEMMA InitWindow == Init => Window
<1> SUFFICES ASSUME Init PROVE Window
  OBVIOUS
<1>1. (0 + 0) % MAX_MSG_BUFFER_SIZE = 0
  BY ModIndex, SizesAssumption
<1> QED
  BY <1>1 DEF Init, Window, Slot

(* The ring is a window on the newest messages, in order, wherever the     *)
(* head has wrapped to.                                                    *)
THEOREM WindowHolds == Spec => []Window
  BY InitType, StepType, InitWindow, StepWindow, PTL DEF Spec

-----------------------------------------------------------------------------
(***************************************************************************)
(* Refinement: every step of the ring is a step of the drop-oldest queue.  *)
(***************************************************************************)
LEMMA RefineInit == Init => Abstract!Init
  BY DEF Init, Abstract!Init, Oldest, NoData, Abstract!Nothing

LEMMA RefineStep ==
  TypeOK /\ Window /\ [Next]_vars => [Abstract!Next]_(Abstract!absVars)
<1> SUFFICES ASSUME TypeOK, Window, [Next]_vars
             PROVE  Abstract!Next \/ UNCHANGED Abstract!absVars
  OBVIOUS
<1>0. /\ Len(sent) \in Nat /\ msg_buffer_count \in Nat
      /\ msg_buffer_count <= Len(sent) /\ msg_buffer_count <= MAX_MSG_BUFFER_SIZE
      /\ MAX_MSG_BUFFER_SIZE \in Nat \ {0}
  BY SizesAssumption DEF TypeOK, Window
<1>1. ASSUME NEW length \in Lengths, messageArrived(length) PROVE Abstract!Next
  <2>1. Len(sent') = Len(sent) + 1
    BY <1>1 DEF messageArrived, TypeOK
  <2>2. Oldest' = IF Len(sent) - Oldest + 1 < MAX_MSG_BUFFER_SIZE THEN Oldest ELSE Oldest + 1
    <3>1. msg_buffer_count' = IF Full THEN msg_buffer_count ELSE msg_buffer_count + 1
      BY <1>0, <1>1 DEF messageArrived
    <3>2. Oldest = Len(sent) - msg_buffer_count + 1
          /\ Oldest' = (Len(sent) + 1) - msg_buffer_count' + 1
      BY <2>1 DEF Oldest
    <3>3. (Len(sent) - Oldest + 1 < MAX_MSG_BUFFER_SIZE) <=> ~Full
      BY <1>0, <3>2 DEF Full
    <3>4. CASE Full
      BY <1>0, <3>1, <3>2, <3>3, <3>4
    <3>5. CASE ~Full
      <4>1. msg_buffer_count' = msg_buffer_count + 1
        BY <3>1, <3>5
      <4>2. (Len(sent) + 1) - msg_buffer_count' + 1 = Len(sent) - msg_buffer_count + 1
        BY <1>0, <4>1
      <4>3. Oldest' = Oldest
        BY <3>2, <4>2
      <4> QED
        BY <3>3, <3>5, <4>3
    <3> QED
      BY <3>4, <3>5
  <2>3. Abstract!Arrive(length)
    BY <1>1, <2>2 DEF messageArrived, Abstract!Arrive
  <2> QED
    BY <2>3 DEF Abstract!Next
<1>2. CASE mqtt_proto_read
  <2>1. /\ msg_buffer_count > 0 /\ UNCHANGED sent
        /\ msg_buffer_count' = msg_buffer_count - 1
        /\ returned' = [msg_buffer[msg_buffer_head] EXCEPT
                          !.length = Copied(msg_buffer[msg_buffer_head].length)]
    BY <1>2 DEF mqtt_proto_read
  <2>2. 0 \in 0..(msg_buffer_count - 1) /\ Oldest \in 1..Len(sent)
    BY <1>0, <2>1 DEF Oldest
  <2>3. Slot(0) = msg_buffer_head
    <3>1. msg_buffer_head \in 0..(2 * MAX_MSG_BUFFER_SIZE - 1)
          /\ msg_buffer_head < MAX_MSG_BUFFER_SIZE /\ msg_buffer_head + 0 = msg_buffer_head
      BY <1>0 DEF TypeOK, Indices
    <3> QED
      BY <3>1, ModIndex, SizesAssumption DEF Slot
  <2>4. msg_buffer[msg_buffer_head] = [number |-> Oldest, length |-> Stored(sent[Oldest])]
    <3>1. Oldest + 0 = Oldest
      BY <2>2
    <3> QED
      BY <2>2, <2>3, <3>1 DEF Window
  <2>5. sent[Oldest] \in Lengths
    BY <2>2 DEF TypeOK
  <2>6. returned' = [number |-> Oldest, length |-> Abstract!Cut(sent[Oldest])]
    BY <2>1, <2>4, <2>5, PayloadCut
  <2>7. Oldest' = Oldest + 1 /\ Oldest <= Len(sent)
    BY <1>0, <2>1, <2>2 DEF Oldest
  <2> QED
    BY <2>1, <2>6, <2>7 DEF Abstract!Next, Abstract!Read
<1>3. CASE mqtt_proto_read_nothing
  <2>1. Oldest > Len(sent) /\ UNCHANGED <<sent, Oldest>> /\ returned' = Abstract!Nothing
    BY <1>0, <1>3 DEF mqtt_proto_read_nothing, Oldest, NoData, Abstract!Nothing
  <2> QED
    BY <2>1 DEF Abstract!Next, Abstract!ReadNothing
<1>4. CASE proto_driver_init
  <2>1. Oldest' = Len(sent) + 1 /\ UNCHANGED <<sent, returned>>
    BY <1>0, <1>4 DEF proto_driver_init, Oldest
  <2> QED
    BY <2>1 DEF Abstract!Next, Abstract!Reset
<1>5. CASE UNCHANGED vars
  BY <1>5 DEF vars, Abstract!absVars, Oldest
<1> QED
  BY <1>1, <1>2, <1>3, <1>4, <1>5 DEF Next

(* The ring implements the drop-oldest queue: messages are read in the     *)
(* order of arrival, none twice, and lost only when the ring is full or    *)
(* the context is initialised anew.                                        *)
THEOREM Refinement == Spec => ImplementsDropOldest
  BY InitType, StepType, InitWindow, StepWindow, RefineInit, RefineStep, PTL
  DEF Spec, ImplementsDropOldest, Abstract!Spec
=============================================================================
