------------------------- MODULE MCSourceSelection -------------------------
(***************************************************************************)
(* Three things that may be wrong, one at a time: the directory (a data    *)
(* file of either kind under the declared name and under another, the two  *)
(* sidecars, a workbook, any of them damaged, one change), the catalogue   *)
(* (up to two slips in one entry, over complete sources), and the command. *)
(***************************************************************************)
EXTENDS SourceSelection, TLC

-----------------------------------------------------------------------------
(* Header cells and patterns.  A pattern without its groups matches what   *)
(* the one with them does; swapped groups capture each other's text.       *)
Stamp == "Date-Time (PDT)"
Reading == "Tidbit , F"

Regex(groups, captures) == [groups |-> groups, captures |-> captures]
On(cell, texts) == [c \in {cell} |-> texts]
NoTexts == [g \in {} |-> ""]

MCRegexes ==
  [t \in {"stamp", "stamp ungrouped", "reading", "reading ungrouped", "reading swapped",
          "timestamp", "value", "None", "other text"} |->
     CASE t = "stamp" -> Regex({"timezone"}, On(Stamp, [timezone |-> "PDT"]))
       [] t = "stamp ungrouped" -> Regex({}, On(Stamp, NoTexts))
       [] t = "reading" -> Regex({"series", "unit"}, On(Reading, [series |-> "Tidbit", unit |-> "F"]))
       [] t = "reading ungrouped" -> Regex({}, On(Reading, NoTexts))
       [] t = "reading swapped" ->
            Regex({"series", "unit"}, On(Reading, [series |-> "F", unit |-> "Tidbit"]))
       [] t = "timestamp" -> Regex({}, On("timestamp", NoTexts))
       [] t = "value" -> Regex({}, On("value", NoTexts))
       [] OTHER -> Regex({}, [c \in {} |-> NoTexts])]

Day == "year-month-day"
Swapped == "year-day-month"

Kind(header) ==
  [header |-> header, vendor |-> FALSE, written |-> "none", lookalike |-> "none",
   units |-> "none", series |-> None, zone |-> "none", statistics |-> "none"]

VendorData ==
  [Kind({"#", Stamp, Reading}) EXCEPT !.vendor = TRUE, !.written = Day, !.lookalike = Swapped,
                                      !.units = "F", !.zone = "PDT"]

DetailsOf(statistics) ==
  [Kind({"Details"}) EXCEPT !.series = Reading, !.zone = "PDT", !.statistics = statistics]

MCKinds ==
  [k \in {"vendor", "bare", "events", "details", "details off", "details silent", "text"} |->
     CASE k = "vendor" -> VendorData
       [] k = "bare" -> [Kind({"timestamp", "value"}) EXCEPT !.written = "ISO"]
       [] k = "events" -> Kind({"#", Stamp, "Button Down"})
       [] k = "details" -> DetailsOf("agree")
       [] k = "details off" -> DetailsOf("differ")
       [] k = "details silent" -> DetailsOf("none")
       [] OTHER -> Kind({})]

-----------------------------------------------------------------------------
(* sources.yaml *)
VendorShapes ==
  [data |-> Map([header_row |-> Number(1), sample_number_column |-> Text("#"),
                 timestamp_column |-> Text("stamp"), value_column |-> Text("reading"),
                 header_declares |-> List({Text("timezone"), Text("unit")})]),
   events |-> Map([header_row |-> Number(1), sample_number_column |-> Text("#"),
                   timestamp_column |-> Text("stamp"), marker |-> Text("Logged")]),
   details |-> Map([layout |-> Text("key_value"), section_column |-> Number(2), key_column |-> Number(3),
                    value_column |-> Number(4), series_column |-> Number(1),
                    series_prefix |-> Text("Series : ")])]

Entry(container, stamps, tables, shapes) ==
  << >> @@ [k \in {"container", "tables"} \cup DOMAIN shapes \cup
         IF stamps = NoKey THEN {} ELSE {"timestamp_format"} |->
     CASE k = "container" -> container [] k = "timestamp_format" -> stamps
       [] k = "tables" -> Map(tables) [] OTHER -> shapes[k]]

PackagedEntries ==
  [hoboconnect_xlsx |->
     Entry(Text("xlsx"), NoKey,
           [data |-> Text("Data"), events |-> Text("Events"), details |-> Text("Details")],
           VendorShapes),
   hoboconnect_sheets_csv |->
     Entry(Text("csv"), Text(Day),
           [data |-> Text("data.csv"), events |-> Text("events.csv"), details |-> Text("details.csv")],
           VendorShapes),
   generic_csv |->
     Entry(Text("csv"), Text("ISO"), [data |-> Text("data.csv")],
           [data |-> Map([header_row |-> Number(1), sample_number_column |-> Text(""),
                          timestamp_column |-> Text("timestamp"), value_column |-> Text("value"),
                          header_declares |-> List({})])])]

Document(entries) == Map([formats |-> Map(<< >> @@ [id \in DOMAIN entries |-> Map(entries[id])])])
MCPackaged == Document(PackagedEntries)

(* What a hand may leave or write at a place: nothing after the key, or    *)
(* another value of the kind, or of another.                               *)
Instead(key) ==
  CASE key \in {"container", "timestamp_format"} -> {Text("xlsx"), Text(Swapped), Text("csv")}
    [] key \in {"timestamp_column", "value_column"} ->
         {Text(t) : t \in DOMAIN MCRegexes \ {"None", "other text"}} \cup {Number(2)} \cup {Text("(broken")}
    [] key = "header_declares" -> {List({}), List({Text("unit")}), List({Text("depth")})}
    [] key = "header_row" -> {Number(0), Number(2), Bool(TRUE)}
    [] key \in {"sample_number_column", "marker", "layout", "series_prefix"} -> {Text("other")}
    [] key \in DetailColumns -> {Number(0), Number(3)}
    [] key \in {"data", "events", "details"} -> {Text("events.csv")}
    [] OTHER -> {Text("text")}

Values(key) == {NoKey, Null} \cup Instead(key)

(* A key that is left out is no key of the mapping.                        *)
WithKey(keys, key, value) ==
  IF value = NoKey THEN << >> @@ [k \in DOMAIN keys \ {key} |-> keys[k]]
                     ELSE (key :> value) @@ keys

SlipsAt(entry, key) ==
  {WithKey(entry, key, v) : v \in Values(key)} \cup
  IF key \in DOMAIN entry /\ Is(entry[key], "map")
  THEN UNION {{WithKey(entry, key, Map(WithKey(entry[key].map, k, v))) : v \in Values(k)} :
                k \in DOMAIN entry[key].map}
  ELSE {}

Slips(entry) == UNION {SlipsAt(entry, key) : key \in DOMAIN entry \cup {"timestamp_format"}}

Twice(entry) == UNION {Slips(once) : once \in Slips(entry)}

With(id, entry) == Document([PackagedEntries EXCEPT ![id] = entry])

SlippedDocuments ==
  {With("hoboconnect_xlsx", e) : e \in Slips(PackagedEntries.hoboconnect_xlsx)} \cup
  {With("hoboconnect_sheets_csv", e) : e \in Slips(PackagedEntries.hoboconnect_sheets_csv)} \cup
  {With("generic_csv", e) : e \in Twice(PackagedEntries.generic_csv)} \cup
  {Document([id \in DOMAIN PackagedEntries \ {lost} |-> PackagedEntries[id]]) :
     lost \in DOMAIN PackagedEntries} \cup
  {Map([formats |-> Map([id \in DOMAIN PackagedEntries |->
          IF id = empty THEN Null ELSE Map(PackagedEntries[id])])]) : empty \in DOMAIN PackagedEntries} \cup
  {Null, Map([formats |-> Null]), Map([format |-> Null])}

-----------------------------------------------------------------------------
(* Directories and command lines *)
MCSuffix ==
  [name \in {"data.csv", "temps.csv", "events.csv", "details.csv", "book.xlsx", "notes.txt"} |->
     CASE name = "book.xlsx" -> ".xlsx" [] name = "notes.txt" -> ".txt" [] OTHER -> ".csv"]

Workbook(details) ==
  [s \in {"Data", "Events", "Details"} |->
     CASE s = "Data" -> "vendor" [] s = "Events" -> "events" [] OTHER -> details]
Short == [s \in {"Data", "Details"} |-> Workbook("details")[s]]

Disk(data, temps, events, details, book) ==
  [name \in DOMAIN MCSuffix |->
     CASE name = "data.csv" -> data [] name = "temps.csv" -> temps
       [] name = "events.csv" -> events [] name = "details.csv" -> details
       [] name = "book.xlsx" -> book [] OTHER -> "text"]

MCDisks ==
  {Disk(data, temps, events, details, book) :
     data \in {Absent, Damaged, "vendor", "bare"}, temps \in {Absent, "vendor", "bare"},
     events \in {Absent, "events"},
     details \in {Absent, "details", "details off", "details silent"},
     book \in {Absent, Damaged, Workbook("details"), Workbook("details off"), Short}}

CompleteDisks ==
  {Disk("vendor", Absent, "events", details, Workbook(details)) :
     details \in {"details", "details silent"}}

Argv(command, sub, options, malformed, operands) ==
  [command |-> command, sub |-> sub, options |-> options, malformed |-> malformed,
   operands |-> operands, check_id |-> "unheard_of"]

InspectIt == Argv("inspect", "alone", {}, {}, 1)

(* Every command of the tree, and one that is not: as it should be typed,  *)
(* without an option it requires, with one it does not know, with a value  *)
(* that is no number, and with an operand too many or too few.             *)
AllOptions == {"--lat", "--lon", "--radius-km", "--site", "--from", "--to", "--check", "--pdf", "--out"}

MCInvocations ==
  LET leaves == UNION {{<<c, s>> : s \in DOMAIN Tree[c]} : c \in DOMAIN Tree}
      rule(l) == Tree[l[1]][l[2]]
      all(l) == rule(l).required \cup rule(l).optional
  IN  {Argv("typo", "show", {}, {}, 0), Argv("checks", "typo", {}, {}, 0)} \cup
      UNION {{Argv(l[1], l[2], all(l), {}, rule(l).operands),
              Argv(l[1], l[2], all(l) \cap {"--lat"}, {"--lat"} \cap all(l), rule(l).operands),
              Argv(l[1], l[2], all(l), all(l) \cap {"--lat"}, rule(l).operands),
              Argv(l[1], l[2], all(l), {}, rule(l).operands + 1),
              Argv(l[1], l[2], {}, {}, 0)}
             \cup {Argv(l[1], l[2], rule(l).required \cup {o}, {}, rule(l).operands) : o \in AllOptions} :
               l \in leaves}

Situation(argvs, documents, disks, paths) ==
  [argvs |-> argvs, documents |-> documents, disks |-> disks, paths |-> paths]

MCSituations ==
  {Situation({InspectIt}, {MCPackaged}, MCDisks, DOMAIN MCSuffix \cup {Directory}),
   Situation({InspectIt}, SlippedDocuments, CompleteDisks, {"data.csv", "book.xlsx", Directory}),
   Situation(MCInvocations, {MCPackaged}, CompleteDisks, {Directory})}

(* The slips and the headers are those the theorem on slips is about.       *)
ASSUME SlipsAssumption == SlipsAreApart /\ OneUnitAndZone
=============================================================================
