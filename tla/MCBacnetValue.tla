--------------------------- MODULE MCBacnetValue ---------------------------
(* BacnetValue with words of three bits, bytes of two and one flag.        *)
EXTENDS BacnetValue

CONSTANT a

Number(tag, values) == {[tag |-> tag, number |-> v, text |-> <<>>] : v \in values}
Text(tag, texts) == {[tag |-> tag, number |-> 0, text |-> t] : t \in texts}
Texts == {<<>>, <<a, NUL, a>>}
Bits == {<<FALSE, TRUE>>, <<TRUE, TRUE, TRUE>>, <<TRUE, TRUE, TRUE, TRUE>>}

MCAppValues ==
  Number("NULL", {0}) \union Number("BOOLEAN", {0}) \union Number("UNSIGNED", {13})
  \union Number("SIGNED", {-2}) \union Number("REAL", {2}) \union Number("DOUBLE", {3})
  \union Number("ENUM", {6}) \union Text("BIT_STRING", Bits) \union Number("OTHER", {0})
  \union Text("OCTET_STRING", {<<a>>}) \union Text("CHARACTER_STRING", Texts)

NumberIn(type, values) == {[type |-> type, number |-> v, text |-> <<>>] : v \in values}
TextIn(type, texts) == {[type |-> type, number |-> 0, text |-> t] : t \in texts}

(* Of every type one, and the strings that are refused beside those that   *)
(* fit: none, empty, too long.                                             *)
MCInputs ==
  NumberIn("NULL", {0}) \union NumberIn("BOOLEAN", {1}) \union NumberIn("UNSIGNED", {5})
  \union NumberIn("SIGNED", {-3}) \union NumberIn("REAL", {1}) \union NumberIn("DOUBLE", {1})
  \union NumberIn("ENUM", {2})
  \union TextIn("OCTET_STRING", {NULL, <<>>, <<a, NUL>>, <<a, a, a, a>>})
  \union TextIn("CHARACTER_STRING",
               {NULL, <<>>, <<NUL>>, <<a, a>>, <<a, NUL>>, <<NUL, a>>, <<a, a, a>>})
=============================================================================
