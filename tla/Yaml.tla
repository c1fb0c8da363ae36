-------------------------------- MODULE Yaml --------------------------------
(***************************************************************************)
(* What yaml.safe_load returns, and how the two catalogues look into it    *)
(* (instruments/sources.py, instruments/sensors.py).                       *)
(***************************************************************************)
Text(t) == [text |-> t]
Number(n) == [int |-> n]
Bool(b) == [bool |-> b]
List(members) == [list |-> members]
Map(values) == [map |-> values]
Null == [null |-> TRUE]      \* a key with nothing after it
NoKey == [missing |-> TRUE]

Is(raw, kind) == kind \in DOMAIN raw
Get(raw, key) == IF key \in DOMAIN raw.map THEN raw.map[key] ELSE NoKey

(* str(raw), and str(raw.get(key, "")): nothing after a key is the text    *)
(* "None".  A number, a list or a mapping has a text nothing looks for.    *)
Str(raw) ==
  CASE Is(raw, "text") -> raw.text
    [] Is(raw, "null") -> "None"
    [] Is(raw, "missing") -> ""
    [] OTHER -> "other text"
=============================================================================
