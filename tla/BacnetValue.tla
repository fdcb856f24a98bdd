---------------------------- MODULE BacnetValue ----------------------------
(***************************************************************************)
(* The way of a value through the driver: a caller's bacnet_data_value_t   *)
(* becomes an application value of the stack (convert_to_application_      *)
(* value), the device has it, an ack brings it back into the cache         *)
(* (store_application_value), readers copy it, and the batch read puts it  *)
(* into a field.  Numbers are cut to the width of their field; the text of *)
(* a string is on the heap, and the copies of a value share it.            *)
(* There is one property, of any of the kinds the batch reads.  What       *)
(* requests and when an ack comes is the subject of BacnetRead; here an    *)
(* ack may come at any time.                                               *)
(***************************************************************************)
EXTENDS Integers, Sequences

CONSTANTS
  Callers, Batcher,  (* the threads that read; the one that runs the batch *)
  AppValues,         (* the values the device may have of its own accord   *)
  Inputs,            (* the values callers write                           *)
  Characters, NUL,   (* what strings are made of, the terminator with it   *)
  WordBits,          (* the bits of a uint32_t                             *)
  ByteBits,          (* the bits of a bit string that are kept (8)         *)
  FlagBits,          (* the bits of Status_Flags (4)                       *)
  StringLimit,       (* MAX_OCTET_STRING_BYTES, MAX_CHARACTER_STRING_BYTES *)
  NULL,              (* a pointer to nothing                               *)
  Unset,             (* the mark of a field that has no value              *)
  Garbage,           (* a union member read that was not the one written   *)
  Nothing,           (* history: no application value, no input            *)
  MaxChanges,        (* bound: how often the property changes              *)
  MaxBuffers         (* bound: how many strings are allocated              *)

(* A value has a type and, by that, a number (a Boolean is 0 or 1) or a    *)
(* text.  Of an application value the type is the tag: beside the types of *)
(* the driver a bit string, with its bits for a text, and what the driver  *)
(* has no type for ("OTHER").                                              *)
StringTypes == {"OCTET_STRING", "CHARACTER_STRING"}
Numeric == {"REAL", "DOUBLE", "UNSIGNED", "SIGNED"}
InputTypes == Numeric \union StringTypes \union {"NULL", "BOOLEAN", "ENUM"}
AnyTag == InputTypes \union {"BIT_STRING", "OTHER"}

Word == 2^WordBits

ASSUME ValueAssumption ==
  /\ Batcher \in Callers
  /\ NUL \in Characters
  /\ FlagBits \in Nat /\ ByteBits \in Nat /\ WordBits \in Nat
  /\ FlagBits <= ByteBits /\ ByteBits <= WordBits
  /\ StringLimit \in Nat /\ MaxBuffers \in Nat /\ MaxChanges \in Nat
  /\ \A a \in AppValues :
       /\ a.tag \in StringTypes => a.text \in Seq(Characters)
       /\ a.tag = "BIT_STRING" => a.text \in Seq(BOOLEAN)
       /\ a.tag = "UNSIGNED" => a.number \in Nat
       /\ a.tag = "ENUM" => a.number \in 0..Word - 1
  /\ \A i \in Inputs :
       /\ i.type \in InputTypes
       /\ i.type \in StringTypes => i.text = NULL \/ i.text \in Seq(Characters)
       /\ i.type \in {"UNSIGNED", "ENUM"} => i.number \in 0..Word - 1

VARIABLES
  field,    (* which property of the object it is; never changes           *)
  device,   (* its value in the device and (history) the input it is from  *)
  ack,      (* the answer under way, or Nothing                            *)
  state,    (* its ObjectState; history: what cached_value was made from   *)
  heap,     (* the text of every buffer allocated                          *)
  held,     (* each caller's *req->value, with its history                 *)
  batch,    (* how far plc_proto_read_object_properties is with it         *)
  slot,     (* the field of bacnet_object_properties_t                     *)
  changes   (* how often the property changed                              *)

vars == <<field, device, ack, state, heap, held, batch, slot, changes>>

-----------------------------------------------------------------------------
(* The datatypes the standard gives the property.                          *)
Datatypes ==
  [object_name |-> {"CHARACTER_STRING"}, description |-> {"CHARACTER_STRING"},
   present_value |-> AnyTag, relinquish_default |-> AnyTag,
   status_flags |-> {"BIT_STRING"}, out_of_service |-> {"BOOLEAN"},
   event_state |-> {"ENUM"}, units |-> {"ENUM"},
   cov_increment |-> {"REAL", "DOUBLE", "UNSIGNED"}]

AsSigned(n) == IF n < Word \div 2 THEN n ELSE n - Word     \* (int32_t)n

(***************************************************************************)
(* convert_to_application_value                                            *)
(***************************************************************************)
FitsString(text, longest) == text # NULL /\ Len(text) > 0 /\ Len(text) <= longest

(* The terminator needs a place.                                           *)
Accepts(input) ==
  CASE input.type = "OCTET_STRING" -> FitsString(input.text, StringLimit)
    [] input.type = "CHARACTER_STRING" -> FitsString(input.text, StringLimit - 1)
    [] OTHER -> TRUE

(* characterstring_init_ansi reads up to the first NUL.                    *)
CString(text) ==
  SubSeq(text, 1, (CHOOSE n \in 1..Len(text) :
                     text[n] = NUL /\ \A m \in 1..n - 1 : text[m] # NUL) - 1)

Terminated(text) == IF text[Len(text)] = NUL THEN text ELSE Append(text, NUL)

(* Mutant: the last character is taken for the terminator.                 *)
Converted_LastCharacterLost(input) ==
  [tag |-> input.type, number |-> input.number,
   text |-> IF input.type = "CHARACTER_STRING"
            THEN SubSeq(input.text, 1, Len(input.text) - 1) ELSE input.text]

(* A number keeps its value: the members of the stack are as wide or wider.*)
Converted(input) ==
  [tag |-> input.type, number |-> input.number,
   text |-> IF input.type = "CHARACTER_STRING" THEN CString(Terminated(input.text))
            ELSE input.text]

(***************************************************************************)
(* store_application_value                                                 *)
(***************************************************************************)
(* Mutant: the bits are worth one place more than they are.                *)
Flags_OffByOne(bits) ==
  LET flags[n \in 0..ByteBits] ==
        IF n = 0 THEN 0
        ELSE flags[n - 1] + (IF n <= Len(bits) /\ bits[n] THEN 2^n ELSE 0)
  IN IF Len(bits) <= WordBits THEN flags[ByteBits] ELSE 0

(* The loop over the bits of a bit string: bit i is worth 2^i.             *)
Flags(bits) ==
  LET flags[n \in 0..ByteBits] ==
        IF n = 0 THEN 0
        ELSE flags[n - 1] + (IF n <= Len(bits) /\ bits[n] THEN 2^(n - 1) ELSE 0)
  IN IF Len(bits) <= WordBits THEN flags[ByteBits] ELSE 0

StoredType(tag) == IF tag = "BIT_STRING" THEN "UNSIGNED" ELSE tag

(* Unsigned_Int has twice the bits of unsigned_value.                      *)
StoredNumber(app) ==
  CASE app.tag = "UNSIGNED" -> app.number % Word
    [] app.tag = "BIT_STRING" -> Flags(app.text)
    [] OTHER -> app.number

(* What is allocated for a string: a character string gets a terminator.   *)
Buffer(app) == IF app.tag = "CHARACTER_STRING" THEN Append(app.text, NUL) ELSE app.text

-----------------------------------------------------------------------------
(* A bacnet_data_value_t as memory is set to zero.  A number and a pointer *)
(* overlap in the union; the length of a string overlaps with nothing.     *)
Value(type, number, data, length) ==
  [type |-> type, number |-> number, data |-> data, length |-> length]

NoValue == Value("NULL", 0, NULL, 0)
Nobodys == [value |-> NoValue, sent |-> Nothing, author |-> Nothing]

Init ==
  /\ field \in DOMAIN Datatypes
  /\ \E a \in AppValues : a.tag \in Datatypes[field] /\ device = [value |-> a, author |-> Nothing]
  /\ ack = Nothing
  /\ state = [cached_value |-> NoValue, has_valid_cache |-> FALSE,
              sent |-> Nothing, author |-> Nothing]
  /\ heap = <<>>
  /\ held = [c \in Callers |-> Nobodys]
  /\ batch = "idle"
  /\ slot = Unset
  /\ changes = 0

Changes(value, author) ==
  /\ changes < MaxChanges
  /\ value.tag \in Datatypes[field]
  /\ device' = [value |-> value, author |-> author]
  /\ changes' = changes + 1
  /\ UNCHANGED <<field, ack, state, heap, held, batch, slot>>

(* The device changes the property by itself.                              *)
DeviceChanges == \E a \in AppValues : Changes(a, Nothing)

(* A caller writes the property and the device takes it.  A write that is  *)
(* refused, by the driver or by the device, changes nothing.               *)
Write == \E i \in Inputs : Accepts(i) /\ Changes(Converted(i), i)

(* The device answers a read.                                              *)
Answer ==
  /\ ack = Nothing
  /\ ack' = device
  /\ UNCHANGED <<field, device, state, heap, held, batch, slot, changes>>

-----------------------------------------------------------------------------
(* handle_read_property_ack, with object_states_mutex held: what it stores *)
(* and where that is from.                                                 *)
Caches(value) ==
  /\ state' = [cached_value |-> value, has_valid_cache |-> TRUE,
               sent |-> ack.value, author |-> ack.author]
  /\ ack' = Nothing
  /\ UNCHANGED <<field, device, held, batch, slot, changes>>

StoreNumber ==
  /\ ack # Nothing
  /\ ack.value.tag \notin StringTypes \union {"OTHER"}
  /\ LET old == state.cached_value IN
     Caches(Value(StoredType(ack.value.tag),
                  IF ack.value.tag = "NULL" THEN old.number ELSE StoredNumber(ack.value),
                  old.data, old.length))
  /\ UNCHANGED heap

Points(at) == Value(ack.value.tag, state.cached_value.number, at, Len(ack.value.text))

(* Mutant: the buffer of the last string is used again.                    *)
StoreString_InPlace ==
  /\ ack # Nothing
  /\ ack.value.tag \in StringTypes
  /\ LET old == state.cached_value IN
     IF old.type \in StringTypes /\ old.data # NULL
     THEN /\ heap' = [heap EXCEPT ![old.data] = Buffer(ack.value)]
          /\ Caches(Points(old.data))
     ELSE /\ Len(heap) < MaxBuffers
          /\ heap' = Append(heap, Buffer(ack.value))
          /\ Caches(Points(Len(heap) + 1))

(* The buffer of the value before is neither used again nor freed.         *)
StoreString ==
  /\ ack # Nothing
  /\ ack.value.tag \in StringTypes
  /\ Len(heap) < MaxBuffers
  /\ heap' = Append(heap, Buffer(ack.value))
  /\ Caches(Points(Len(heap) + 1))

(* malloc fails: the type and the pointer are written already, the length  *)
(* is the last string's, and has_valid_cache is left as it was.            *)
StoreFails ==
  /\ ack # Nothing
  /\ ack.value.tag \in StringTypes
  /\ LET old == state.cached_value IN
     state' = [cached_value |-> Value(ack.value.tag, old.number, NULL, old.length),
               has_valid_cache |-> state.has_valid_cache, sent |-> Nothing, author |-> Nothing]
  /\ ack' = Nothing
  /\ UNCHANGED <<field, device, heap, held, batch, slot, changes>>

(* A tag the driver has no type for.                                       *)
StoreUnsupported ==
  /\ ack # Nothing
  /\ ack.value.tag = "OTHER"
  /\ ack' = Nothing
  /\ UNCHANGED <<field, device, state, heap, held, batch, slot, changes>>

-----------------------------------------------------------------------------
(* plc_proto_read, with object_states_mutex held, copies the value: of a   *)
(* string the pointer.                                                     *)
Copies(c) ==
  /\ state.has_valid_cache
  /\ held' = [held EXCEPT ![c] = [value |-> state.cached_value, sent |-> state.sent,
                                  author |-> state.author]]

Read(c) ==
  /\ c # Batcher
  /\ Copies(c)
  /\ UNCHANGED <<field, device, ack, state, heap, batch, slot, changes>>

(* plc_proto_read_object_properties comes to the property and its          *)
(* read_property_sync succeeds.  What it does otherwise is in BacnetBatch. *)
BatchRead ==
  /\ batch = "idle"
  /\ Copies(Batcher)
  /\ batch' = "read"
  /\ UNCHANGED <<field, device, ack, state, heap, slot, changes>>

(* The copy of a string for the field, if it can be allocated.             *)
strdup_safe(value) ==
  {Unset} \union
  {SubSeq(heap[at], 1, value.length) :
     at \in IF value.data = NULL \/ value.length = 0 THEN {} ELSE {value.data}}

(* A member of the union that is read without a look at the type.          *)
Member(value, type) == IF value.type = type THEN value.number ELSE Garbage

(* What becomes of the field.  In present_value a second test for UNSIGNED *)
(* stands where the one for SIGNED would be.                               *)
FieldValues(value) ==
  CASE field \in {"object_name", "description"} ->
         IF value.type = "CHARACTER_STRING" THEN strdup_safe(value) ELSE {Unset}
    [] field = "present_value" ->
         {IF value.type \in {"REAL", "DOUBLE", "UNSIGNED"} THEN value.number ELSE Unset}
    [] field = "relinquish_default" ->
         {IF value.type \in {"REAL", "DOUBLE"} THEN value.number ELSE Unset}
    [] field = "status_flags" ->
         {IF value.type = "UNSIGNED" THEN value.number % 2^FlagBits ELSE Unset}
    [] field = "out_of_service" -> {Member(value, "BOOLEAN")}
    [] field = "event_state" -> {Member(value, "ENUM")}
    [] field = "units" ->
         {IF value.type = "ENUM" THEN AsSigned(value.number) ELSE Garbage}
    [] OTHER -> {Member(value, "REAL")}

(* With no lock held any more: a string's text is read through the copy.   *)
BatchStore ==
  /\ batch = "read"
  /\ slot' \in FieldValues(held[Batcher].value)
  /\ batch' = "stored"
  /\ UNCHANGED <<field, device, ack, state, heap, held, changes>>

(* plc_proto_free_object_properties, and the next batch may begin.         *)
BatchRelease ==
  /\ batch = "stored"
  /\ batch' = "idle"
  /\ slot' = Unset
  /\ UNCHANGED <<field, device, ack, state, heap, held, changes>>

Next ==
  \/ DeviceChanges \/ Write \/ Answer
  \/ StoreNumber \/ StoreString \/ StoreFails \/ StoreUnsupported
  \/ \E c \in Callers : Read(c)
  \/ BatchRead \/ BatchStore \/ BatchRelease

Spec == Init /\ [][Next]_vars
-----------------------------------------------------------------------------
(* Every text is a sequence of characters, every caller has its copy.      *)
TextOK(app) == app.tag \in StringTypes => app.text \in Seq(Characters)

TypeOK ==
  /\ TextOK(device.value)
  /\ ack # Nothing => TextOK(ack.value)
  /\ heap \in Seq(Seq(Characters))
  /\ DOMAIN held = Callers

(* What a copy of the cached value says of a string is what the device     *)
(* sent, also after the cache went on to other values: the buffer is the   *)
(* text, with its length.  Only a failed allocation leaves a string        *)
(* without one, and never with somebody else's.                            *)
Attached(copy) ==
  /\ copy.value.data \in DOMAIN heap
  /\ heap[copy.value.data] = Buffer(copy.sent)
  /\ copy.value.length = Len(copy.sent.text)

Intact(copy) ==
  copy.value.type \in StringTypes =>
    (copy.value.data = NULL /\ copy.sent = Nothing) \/ Attached(copy)

Cached == [value |-> state.cached_value, sent |-> state.sent, author |-> state.author]

HeldStringIsSent == Intact(Cached) /\ \A c \in Callers : Intact(held[c])

(* What a caller reads back is what was written, if the device still has   *)
(* it: numbers and octets exactly, text up to its first NUL.               *)
Before(text, end) == {n \in 1..Len(text) : \A m \in 1..n : text[m] # end}

ReadsAs(value, input) ==
  /\ value.type = input.type
  /\ input.type \notin StringTypes \union {"NULL"} => value.number = input.number
  /\ input.type = "OCTET_STRING" => heap[value.data] = input.text
  /\ input.type = "CHARACTER_STRING" =>
       /\ 1..value.length = Before(input.text, NUL)
       /\ \A n \in 1..value.length : heap[value.data][n] = input.text[n]
       /\ heap[value.data][value.length + 1] = NUL

ReadBackIsWritten ==
  \A c \in Callers : held[c].author # Nothing => ReadsAs(held[c].value, held[c].author)

(* A field the batch filled is the property as the device sent it: a       *)
(* number modulo the word (the units are signed in their field), a bit     *)
(* string bit by bit (when it is not longer than a word), and of           *)
(* cov_increment only a REAL is right.                                     *)
Bit(n, i) == (n \div 2^i) % 2 = 1
HasBits(n, bits, width) ==
  /\ n \in 0..2^width - 1
  /\ \A i \in 0..width - 1 : Bit(n, i) <=> (i < Len(bits) /\ bits[i + 1])

Shows(n, app) ==
  CASE app.tag = "UNSIGNED" -> n \in 0..Word - 1 /\ (app.number - n) % Word = 0
    [] app.tag = "BIT_STRING" ->
         Len(app.text) <= WordBits =>
           HasBits(n, app.text, IF field = "status_flags" THEN FlagBits ELSE ByteBits)
    [] app.tag \in StringTypes -> n = app.text
    [] app.tag = "ENUM" /\ field = "units" -> n % Word = app.number
    [] OTHER -> n = app.number

FieldIsProperty ==
  (batch = "stored" /\ slot # Unset /\ ~(field = "cov_increment" /\ held[Batcher].sent.tag # "REAL"))
    => Shows(slot, held[Batcher].sent)
=============================================================================
