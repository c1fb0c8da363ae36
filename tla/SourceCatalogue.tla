-------------------------- MODULE SourceCatalogue --------------------------
(***************************************************************************)
(* The format catalogue (instruments/sources.py): what a YAML document is  *)
(* made into, and which documents are refused.  A document is what         *)
(* yaml.safe_load returns: mappings, lists and scalars.                    *)
(***************************************************************************)
EXTENDS Yaml, Integers, FiniteSets

CONSTANTS
  None,      \* Python's None
  Regexes    \* the patterns that compile: text -> its named groups, and the
             \* header cells it matches with what each group then captures

KNOWN_CONTAINERS == {"xlsx", "csv"}
TEXT_CONTAINERS == {"csv"}
DECLARABLE_FACTS ==
  [fact \in {"timezone", "unit"} |-> IF fact = "unit" THEN "value_column" ELSE "timestamp_column"]

-----------------------------------------------------------------------------
(* _pattern: an absent key and an empty one are the pattern "None".        *)
Pattern(raw) == IF Is(raw, "missing") THEN "None" ELSE Str(raw)
Compiles(raw) == Pattern(raw) \in DOMAIN Regexes
Groups(raw) == Regexes[Pattern(raw)].groups

(* _positive_int: a bool is no position, though Python calls it an int.    *)
IsPosition(raw) == Is(raw, "int") /\ raw.int >= 1

(* _check_declared: the declared facts and the captured groups are one set *)
(* as far as there is a fact to declare.                                   *)
DeclaresWhatItCaptures(data, declares) ==
  /\ declares \subseteq DOMAIN DECLARABLE_FACTS
  /\ \A fact \in DOMAIN DECLARABLE_FACTS :
       fact \in declares <=> fact \in Groups(Get(data, DECLARABLE_FACTS[fact]))

DeclaredFacts(data) == {Str(fact) : fact \in Get(data, "header_declares").list}

DataAccepted(data) ==
  /\ \A key \in {"timestamp_column", "value_column"} : Compiles(Get(data, key))
  /\ Is(Get(data, "header_declares"), "list")
  /\ DeclaresWhatItCaptures(data, DeclaredFacts(data))
  /\ IsPosition(Get(data, "header_row"))

DataSpec(data) ==
  [header_row |-> Get(data, "header_row").int,
   sample_number_column |-> Str(Get(data, "sample_number_column")),
   timestamp_column |-> Pattern(Get(data, "timestamp_column")),
   value_column |-> Pattern(Get(data, "value_column")),
   header_declares |-> DeclaredFacts(data)]

(* _events_spec: the stamps' pattern has to compile, and no more.          *)
EventsAccepted(events) ==
  /\ Str(Get(events, "marker")) # ""
  /\ IsPosition(Get(events, "header_row"))
  /\ Compiles(Get(events, "timestamp_column"))

EventsSpec(events) ==
  [header_row |-> Get(events, "header_row").int,
   sample_number_column |-> Str(Get(events, "sample_number_column")),
   timestamp_column |-> Pattern(Get(events, "timestamp_column")),
   marker |-> Str(Get(events, "marker"))]

(* _details_spec *)
DetailColumns == {"section_column", "key_column", "value_column", "series_column"}

DetailsAccepted(details) ==
  /\ Str(Get(details, "layout")) = "key_value"
  /\ Str(Get(details, "series_prefix")) # ""
  /\ \A key \in DetailColumns : IsPosition(Get(details, key))

DetailsSpec(details) ==
  [key \in DetailColumns \cup {"series_prefix"} |->
     IF key = "series_prefix" THEN Str(Get(details, key)) ELSE Get(details, key).int]

(* _timestamp_format: text cells need one, typed cells may not have one.   *)
StampsReadable(container, raw) ==
  container \in TEXT_CONTAINERS <=> ~(Is(raw, "missing") \/ Is(raw, "null") \/ Str(raw) = "")

-----------------------------------------------------------------------------
(* _format.  A shape that is not a mapping is a shape the format lacks.    *)
FormatAccepted(raw) ==
  LET container == Str(Get(raw, "container"))
      tables == Get(raw, "tables")
      data == Get(raw, "data")
      events == Get(raw, "events")
      details == Get(raw, "details")
  IN  /\ container \in KNOWN_CONTAINERS
      /\ Is(tables, "map") /\ "data" \in DOMAIN tables.map
      /\ Is(data, "map") /\ {"timestamp_column", "value_column"} \subseteq DOMAIN data.map
      /\ DataAccepted(data)
      /\ StampsReadable(container, Get(raw, "timestamp_format"))
      /\ Is(events, "map") => EventsAccepted(events)
      /\ Is(details, "map") => DetailsAccepted(details)

SourceFormat(raw) ==
  LET tables == Get(raw, "tables").map
      stamps == Get(raw, "timestamp_format")
      events == Get(raw, "events")
      details == Get(raw, "details")
  IN  [container |-> Str(Get(raw, "container")),
       tables |-> [table \in DOMAIN tables |-> Str(tables[table])],
       data |-> DataSpec(Get(raw, "data")),
       timestamp_format |-> IF Is(stamps, "missing") \/ Is(stamps, "null") THEN None ELSE Str(stamps),
       events |-> IF Is(events, "map") THEN EventsSpec(events) ELSE None,
       details |-> IF Is(details, "map") THEN DetailsSpec(details) ELSE None]

(* parse_source_catalogue.  An entry that is not a mapping has no get: the *)
(* AttributeError is no refusal.  Which of two wrong entries comes first   *)
(* is the order of the document, which is abstracted from.                 *)
HasFormats(document) ==
  /\ Is(document, "map") /\ Is(Get(document, "formats"), "map")
  /\ DOMAIN Get(document, "formats").map # {}

Entries(document) == Get(document, "formats").map
HasNoEntry(document) == \E id \in DOMAIN Entries(document) : ~Is(Entries(document)[id], "map")
HasRefusedEntry(document) ==
  \E id \in DOMAIN Entries(document) :
    Is(Entries(document)[id], "map") /\ ~FormatAccepted(Entries(document)[id])

RefusesDocument(document) == HasFormats(document) => HasRefusedEntry(document)
CrashesOnDocument(document) == HasFormats(document) /\ HasNoEntry(document)
AcceptsDocument(document) == ~RefusesDocument(document) /\ ~CrashesOnDocument(document)

SourceCatalogue(document) ==
  [id \in DOMAIN Entries(document) |-> SourceFormat(Entries(document)[id])]
=============================================================================
