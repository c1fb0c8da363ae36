-------------------------- MODULE SourceSelection --------------------------
(***************************************************************************)
(* sensor-qaqc from its command line to its exit code: main's dispatch     *)
(* (CommandLine), the catalogue it loads (SourceCatalogue), the format a   *)
(* path is read as and its tables (readers.py, containers.py), the reader  *)
(* that the catalogue's shapes configure (hoboconnect.py, generic_csv.py), *)
(* and the gate.  What the reader makes of edited tables is in HoboReader, *)
(* of rows in DataTable; here a table is of a known kind, and what may be  *)
(* wrong is the catalogue, the directory and the command.                  *)
(*                                                                         *)
(* The directory belongs to whoever syncs the logger's files: until it is  *)
(* read a file may appear, vanish or change.                               *)
(***************************************************************************)
EXTENDS SourceCatalogue, CommandLine, Sequences

CONSTANTS
  Absent,        \* no file of that name
  Damaged,       \* a file whose container cannot be parsed
  Directory,     \* the path of the directory itself
  Suffix,        \* file name -> ".csv", ".xlsx" or another suffix
  Packaged,      \* the document that is shipped
  Situations,    \* what commands are, and find: sets of argv, document, disk, path
  Kinds,         \* kind of table -> the cells of its header, and what it states
  MaxChanges     \* model bound

Disks == UNION {s.disks : s \in Situations}

ASSUME SuffixAssumption == \A d \in Disks : DOMAIN d = DOMAIN Suffix
ASSUME DirectoryAssumption ==
  /\ Directory \notin DOMAIN Suffix
  /\ \A s \in Situations : s.paths \subseteq DOMAIN Suffix \cup {Directory}
ASSUME MaxChangesAssumption == MaxChanges \in Nat

FileNames == DOMAIN Suffix

READERS == <<"generic_csv", "hoboconnect_sheets_csv", "hoboconnect_xlsx">>  \* sorted
Formats == {READERS[i] : i \in DOMAIN READERS}
SUFFIX_CONTAINERS == [suffix \in {".xlsx", ".csv"} |-> IF suffix = ".csv" THEN "csv" ELSE "xlsx"]

VARIABLES
  argv,       \* the command line
  document,   \* sources.yaml as safe_load returns it
  disk,       \* file name -> its table, or the tables of its sheets
  path,       \* what inspect was pointed at
  catalogue,  \* format -> SourceFormat
  stage,      \* where the command is, or how it ended
  format,     \* the selected format
  read,       \* table -> the kind of content it was read from
  report,     \* what the extraction states
  exit,       \* the exit code, once there is one
  changes     \* how often the directory changed

loadVars == <<catalogue, format, read, report>>
vars == <<argv, document, disk, path, stage, exit, changes, loadVars>>

Nothing == [t \in {} |-> None]

Init ==
  /\ \E s \in Situations :
       argv \in s.argvs /\ document \in s.documents /\ disk \in s.disks /\ path \in s.paths
  /\ stage = "invoked" /\ exit = None /\ changes = 0
  /\ catalogue = Nothing /\ format = None /\ read = Nothing /\ report = Nothing

Same == UNCHANGED <<argv, document, disk, path, changes>>
Proceed(to) == stage' = to /\ exit' = None /\ Same
End(how, code) == stage' = how /\ exit' = code /\ Same

-----------------------------------------------------------------------------
(* main: usage errors, the commands without a body, and the dispatch.      *)
Dispatch ==
  /\ stage = "invoked" /\ UNCHANGED loadVars
  /\ IF ~IsUsage(argv) THEN End("usage", UsageExit)
     ELSE CASE Leaf(argv).func = "inspect_command" -> Proceed("inspect")
            [] Leaf(argv).func = "_not_implemented" -> End("unimplemented", EXIT_NO_RESULT)
            [] OTHER -> End("listed", ChecksExit(argv))

(* load_source_catalogue, inside inspect's try: a ValueError is caught.    *)
LoadCatalogue ==
  /\ stage = "inspect" /\ UNCHANGED <<format, read, report>>
  /\ \/ RefusesDocument(document) /\ End("bad_catalogue", EXIT_NO_RESULT) /\ UNCHANGED catalogue
     \/ CrashesOnDocument(document) /\ End("traceback", EXIT_NO_RESULT) /\ UNCHANGED catalogue
     \/ AcceptsDocument(document) /\ Proceed("asked")
          /\ catalogue' = SourceCatalogue(document)

-----------------------------------------------------------------------------
(* select_format *)
IsFile(name) == disk[name] # Absent
Tables(id) == catalogue[id].tables
NumberOfTables(id) == Cardinality(DOMAIN Tables(id))

Container == IF path = Directory THEN "csv" ELSE SUFFIX_CONTAINERS[Suffix[path]]

(* Pointing at a file makes it the data table; its siblings keep the names *)
(* the format declares.                                                    *)
SlipSiblingData(id, t) == Tables(id)[t]

Located(id, t) == IF t = "data" /\ path # Directory THEN path ELSE Tables(id)[t]

TablesPresent(id) ==
  IF catalogue[id].container = "xlsx" THEN path # Directory /\ IsFile(path)
  ELSE \A t \in DOMAIN Tables(id) : Located(id, t) \in FileNames /\ IsFile(Located(id, t))

Candidates == {i \in DOMAIN READERS : catalogue[READERS[i]].container = Container}
Matching == {i \in Candidates : TablesPresent(READERS[i])}

SlipFewestTablesFirst(i, j) ==
  \/ NumberOfTables(READERS[i]) < NumberOfTables(READERS[j])
  \/ NumberOfTables(READERS[i]) = NumberOfTables(READERS[j]) /\ i <= j

TriedNoLater(i, j) ==
  \/ NumberOfTables(READERS[i]) > NumberOfTables(READERS[j])
  \/ NumberOfTables(READERS[i]) = NumberOfTables(READERS[j]) /\ i <= j

Exists == path # Directory => IsFile(path)
KnownContainer == path # Directory => Suffix[path] \in DOMAIN SUFFIX_CONTAINERS

(* for_format is asked for every reader's format, whatever the container.  *)
KnownFormats == Formats \subseteq DOMAIN catalogue

SlipFallsThrough ==
  /\ stage = "asked"
  /\ ~(Exists /\ KnownContainer)
  /\ End("unreadable", EXIT_NO_RESULT) /\ UNCHANGED loadVars

RaiseUnreadable ==
  /\ stage = "asked"
  /\ Exists /\ KnownContainer /\ KnownFormats => Matching = {}
  /\ End("unreadable", EXIT_NO_RESULT) /\ UNCHANGED loadVars

SelectFormat ==
  /\ stage = "asked" /\ Exists /\ KnownContainer /\ KnownFormats
  /\ \E i \in Matching :
       /\ \A j \in Matching : TriedNoLater(i, j)
       /\ format' = READERS[i]
  /\ Proceed("selected") /\ UNCHANGED <<catalogue, read, report>>

(* The reader's constructor: a vendor's reader needs a details shape, the  *)
(* bare one a header that states nothing.                                  *)
Shape == catalogue[format]
IsBare == format = "generic_csv"
Constructible == IF IsBare THEN Shape.data.header_declares = {} ELSE Shape.details # None

ConstructReader ==
  /\ stage = "selected" /\ UNCHANGED loadVars
  /\ IF Constructible THEN Proceed("constructed") ELSE End("bad_shape", EXIT_NO_RESULT)

-----------------------------------------------------------------------------
(* read_tables.  A workbook is a function of its sheets' names; a damaged  *)
(* container raises an exception of its own library.                       *)
Content(t) ==
  IF Shape.container = "xlsx"
  THEN LET sheets == disk[path]
       IN  IF Tables(format)[t] \in DOMAIN sheets THEN sheets[Tables(format)[t]] ELSE Absent
  ELSE IF Located(format, t) \in FileNames THEN disk[Located(format, t)] ELSE Absent

Declared == DOMAIN Tables(format)
Opens == Shape.container = "xlsx" => IsFile(path) /\ disk[path] # Damaged

Loadable ==
  /\ Shape.container = "xlsx" => IsFile(path)
  /\ Opens => \A t \in Declared : Content(t) # Absent

Intact == Opens /\ \A t \in Declared : Content(t) # Damaged

RaiseMissingTable ==
  /\ stage = "constructed" /\ ~Loadable
  /\ End("missing_table", EXIT_NO_RESULT) /\ UNCHANGED loadVars

RaiseDamaged ==
  /\ stage = "constructed" /\ Loadable /\ ~Intact
  /\ End("traceback", EXIT_NO_RESULT) /\ UNCHANGED loadVars

ReadTables ==
  /\ stage = "constructed" /\ Loadable /\ Intact
  /\ read' = [t \in Declared |-> Content(t)]
  /\ Proceed("loaded") /\ UNCHANGED <<catalogue, format, report>>

-----------------------------------------------------------------------------
(* What the parsers find in a header with the shapes they were given.  The *)
(* header is a table's first row; a data row has no cell a pattern for     *)
(* headers matches.                                                        *)
Cells(t, row) == IF row = 1 THEN Kinds[read[t]].header ELSE {}
Found(pattern, cells) == {c \in cells : c \in DOMAIN Regexes[pattern].captures}
FoundOnce(pattern, cells) == Cardinality(Found(pattern, cells)) = 1

Captured(pattern, cells, group) ==
  IF group \in Regexes[pattern].groups
  THEN Regexes[pattern].captures[CHOOSE c \in Found(pattern, cells) : TRUE][group]
  ELSE None

(* parse_data: one column of each kind, the numbering where one is named   *)
(* (_locate), and text stamps in the declared format.  A format that swaps *)
(* day and month reads some stamps too, as other days.                     *)
DataCells == Cells("data", Shape.data.header_row)
Numbering == Shape.data.sample_number_column

DataLocated ==
  /\ FoundOnce(Shape.data.timestamp_column, DataCells)
  /\ FoundOnce(Shape.data.value_column, DataCells)
  /\ Numbering = "" \/ Numbering \in DataCells

Dates ==
  IF Shape.timestamp_format \in {None, Kinds[read["data"]].written} THEN {"written"}
  ELSE {"unreadable"} \cup
       IF Shape.timestamp_format = Kinds[read["data"]].lookalike THEN {"other days"} ELSE {}

Units == Captured(Shape.data.value_column, DataCells, "unit")
Zone == Captured(Shape.data.timestamp_column, DataCells, "timezone")

(* parse_details.  With another column or prefix than the vendor's the     *)
(* series or a required entry is not found, and the reader refuses.        *)
VendorDetails ==
  [section_column |-> 2, key_column |-> 3, value_column |-> 4, series_column |-> 1,
   series_prefix |-> "Series : "]

DetailsRead ==
  /\ "details" \in DOMAIN read  \* else a KeyError
  /\ Shape.details = VendorDetails
  /\ Kinds[read["details"]].series # None

(* parse_events: any other column is an event's, which a number is not the *)
(* mark of.  The group is asked for when the rows have been read.          *)
Marker == "Logged"
LogCells == Cells("events", Shape.events.header_row)

LogRead ==
  /\ "events" \in DOMAIN read  \* else a KeyError
  /\ FoundOnce(Shape.events.timestamp_column, LogCells)
  /\ Shape.events.sample_number_column = "#"
  /\ Shape.events.marker = Marker

LogHasGroup == "timezone" \in Regexes[Shape.events.timestamp_column].groups
LogZone == Captured(Shape.events.timestamp_column, LogCells, "timezone")

(* _units, _check_declared_unit, _events and _sample_time: both units and  *)
(* all the zones that are stated have to agree.                            *)
KnownUnits == {"F", "C"}
SeriesUnits == Captured(Shape.data.value_column, {Kinds[read["details"]].series}, "unit")
Statistics == Kinds[read["details"]].statistics

StatementsAgree ==
  /\ Units \in KnownUnits /\ SeriesUnits = Units
  /\ Shape.events # None => LogZone = Zone
  /\ Statistics # "none" => Zone = Kinds[read["details"]].zone

VendorReads ==
  DataLocated /\ DetailsRead /\ (Shape.events # None => LogRead /\ LogHasGroup) /\ StatementsAgree

Refuse == End("refused", EXIT_NO_RESULT) /\ UNCHANGED loadVars

RaiseNoSuchGroup ==
  /\ stage = "loaded" /\ ~IsBare
  /\ DataLocated /\ DetailsRead /\ Shape.events # None /\ LogRead /\ ~LogHasGroup
  /\ "unreadable" \in Dates => Dates # {"unreadable"}
  /\ End("no such group", EXIT_NO_RESULT) /\ UNCHANGED loadVars

RaiseUnreadTables ==
  /\ stage = "loaded"
  /\ \/ "unreadable" \in Dates
     \/ IF IsBare THEN ~DataLocated ELSE ~VendorReads
  /\ Refuse

(* HOBOconnectReader.read and GenericCsvReader.read; the second leaves all *)
(* that a source may state unstated.                                       *)
ParseTables ==
  /\ stage = "loaded"
  /\ IF IsBare THEN DataLocated ELSE VendorReads
  /\ \E dates \in Dates \ {"unreadable"} :
       report' = [dates |-> dates, numbered |-> Numbering # "",
                  units |-> IF IsBare THEN None ELSE Units,
                  zone |-> IF IsBare THEN None ELSE Zone,
                  log |-> ~IsBare /\ Shape.events # None,
                  statistics |-> IF IsBare THEN "none" ELSE Statistics]
  /\ Proceed("parsed") /\ UNCHANGED <<catalogue, format, read>>

(* verify_published_statistics, over samples that are the vendor's if they *)
(* were dated as written; the report's own conversion to UTC; and the exit *)
(* code, which a refused gate makes 1 after the report is printed.         *)
LOCAL_OFFSETS == {"PST", "PDT"}

SlipGateReported == FALSE
SlipStampsUnchecked == report.statistics = "differ"

GateRefused ==
  report.statistics # "none" /\ (report.statistics = "differ" \/ report.dates # "written")

Render ==
  /\ stage = "parsed" /\ UNCHANGED loadVars
  /\ IF report.zone # None /\ report.zone \notin LOCAL_OFFSETS THEN End("refused", EXIT_NO_RESULT)
     ELSE End("reported", IF GateRefused THEN EXIT_NO_RESULT ELSE EXIT_PRODUCED)

Inspect ==
  \/ LoadCatalogue \/ RaiseUnreadable \/ SelectFormat \/ ConstructReader
  \/ RaiseMissingTable \/ RaiseDamaged \/ ReadTables
  \/ RaiseNoSuchGroup \/ RaiseUnreadTables \/ ParseTables \/ Render

Main == Dispatch \/ Inspect

-----------------------------------------------------------------------------
(* Whoever owns the directory.                                             *)
Change ==
  /\ stage \in {"inspect", "asked", "selected", "constructed"}
  /\ changes < MaxChanges /\ document = Packaged  \* bound: not with a slip as well
  /\ \E name \in FileNames : \E kind \in {d[name] : d \in Disks} \ {disk[name]} :
       disk' = [disk EXCEPT ![name] = kind]
  /\ changes' = changes + 1
  /\ UNCHANGED <<argv, document, path, stage, exit, loadVars>>

Next == Main \/ Change
Spec == Init /\ [][Next]_vars
FairSpec == Spec /\ WF_vars(Main)

-----------------------------------------------------------------------------
(* "A bundle with a details sidecar must not be read as a bare CSV": data  *)
(* under the vendor's header is never reported as good without the         *)
(* statistics that came with it being reproduced, or their table read and  *)
(* found to publish none; whatever is in the directory, whenever it        *)
(* changed, and whatever the catalogue says, short of a bare format that   *)
(* describes the vendor's header (select_format, the readers, the gate).   *)
BareFormatDescribes(kind) ==
  /\ FoundOnce(catalogue["generic_csv"].data.timestamp_column, Kinds[kind].header)
  /\ FoundOnce(catalogue["generic_csv"].data.value_column, Kinds[kind].header)

GateIsNeverSkipped ==
  /\ stage = "reported" /\ exit = EXIT_PRODUCED
  /\ Kinds[read["data"]].vendor /\ ~BareFormatDescribes(read["data"])
  => /\ "details" \in DOMAIN read
     /\ Kinds[read["details"]].statistics # "differ"

(* What is shipped (sources.yaml) reads what HOBOconnect writes.           *)
DetailsKinds == {k \in DOMAIN Kinds : Kinds[k].series # None}

ReadsVendorTables(shape) ==
  LET data == Kinds["vendor"].header
      log == Kinds["events"].header
      units == Captured(shape.data.value_column, data, "unit")
      zone == Captured(shape.data.timestamp_column, data, "timezone")
  IN  /\ shape.data.header_row = 1 /\ shape.data.sample_number_column \in data
      /\ FoundOnce(shape.data.timestamp_column, data) /\ FoundOnce(shape.data.value_column, data)
      /\ shape.timestamp_format \in {None, Kinds["vendor"].written}
      /\ units \in KnownUnits /\ zone \in LOCAL_OFFSETS
      /\ shape.events # None /\ shape.events.header_row = 1
      /\ shape.events.sample_number_column = "#" /\ shape.events.marker = Marker
      /\ FoundOnce(shape.events.timestamp_column, log)
      /\ "timezone" \in Regexes[shape.events.timestamp_column].groups
      /\ Captured(shape.events.timestamp_column, log, "timezone") = zone
      /\ shape.details # None /\ shape.details = VendorDetails
      /\ \A k \in DetailsKinds :
           /\ Captured(shape.data.value_column, {Kinds[k].series}, "unit") = units
           /\ Kinds[k].statistics # "none" => Kinds[k].zone = zone

ASSUME PackagedAssumption ==
  LET formats == SourceCatalogue(Packaged)
  IN  /\ AcceptsDocument(Packaged) /\ DOMAIN formats = Formats
      /\ formats["hoboconnect_xlsx"].container = "xlsx"
      /\ formats["hoboconnect_xlsx"].tables =
           [data |-> "Data", events |-> "Events", details |-> "Details"]
      /\ formats["hoboconnect_sheets_csv"].container = "csv"
      /\ formats["hoboconnect_sheets_csv"].tables =
           [data |-> "data.csv", events |-> "events.csv", details |-> "details.csv"]
      /\ formats["generic_csv"].container = "csv"
      /\ formats["generic_csv"].tables = [data |-> "data.csv"]
      /\ ~FoundOnce(formats["generic_csv"].data.timestamp_column, Kinds["vendor"].header)
      /\ \A id \in Formats \ {"generic_csv"} : ReadsVendorTables(formats[id])

ASSUME ContentsAssumption ==
  /\ {"vendor", "events"} \subseteq DOMAIN Kinds /\ {Absent, Damaged} \cap DOMAIN Kinds = {}
  /\ None \notin KnownUnits
  /\ {"data.csv", "events.csv", "details.csv"} \subseteq DOMAIN Suffix

(* A complete source is never turned away: with the catalogue as packaged  *)
(* and nothing changing, a bundle whose three tables are there is read     *)
(* from the directory and from its data file alike, a workbook from its    *)
(* path, and the exit code is the gate's (select_format to render).        *)
WholeBundle(data) ==
  /\ Suffix[data] = ".csv" /\ disk[data] = "vendor"
  /\ disk["events.csv"] = "events" /\ disk["details.csv"] \in DetailsKinds

WholeWorkbook(book) ==
  /\ Suffix[book] = ".xlsx" /\ disk[book] \notin {Absent, Damaged}
  /\ DOMAIN disk[book] = {"Data", "Events", "Details"}
  /\ disk[book]["Data"] = "vendor" /\ disk[book]["Events"] = "events"
  /\ disk[book]["Details"] \in DetailsKinds

WholeSource ==
  /\ path = Directory => WholeBundle("data.csv")
  /\ path # Directory => WholeBundle(path) \/ WholeWorkbook(path)

CompleteSourcesAreRead ==
  exit # None /\ changes = 0 /\ IsUsage(argv) /\ Leaf(argv).func = "inspect_command"
    /\ document = Packaged /\ WholeSource =>
      /\ stage = "reported"
      /\ exit = EXIT_PRODUCED <=> report.statistics # "differ"

(* The file pointed at is the data that is parsed, never a sibling of the  *)
(* declared name (_tables_present, _from_csv_files).                       *)
PointedFileIsRead ==
  stage \in {"loaded", "parsed", "reported"} /\ path \in FileNames /\ changes = 0
    /\ Suffix[path] = ".csv" =>
      read["data"] = disk[path]

(* Slips of the hand in the catalogue cost a complete source no more than  *)
(* its log and the check of its numbering: whatever is refused or accepted *)
(* on loading, a report that exits 0 has the unit, the zone and the        *)
(* statistics of the file, and its dates wherever it publishes statistics  *)
(* to check them with (parse_source_catalogue, the readers, the gate).     *)
SlipsCostOnlyLogAndNumbering ==
  stage = "reported" /\ exit = EXIT_PRODUCED /\ changes = 0 /\ WholeSource =>
    LET data == Kinds["vendor"]
        details == Kinds[read["details"]]
    IN  /\ format # "generic_csv"
        /\ report.units = data.units /\ report.zone = data.zone
        /\ report.statistics = details.statistics
        /\ details.statistics # "none" => report.dates = "written"

(* What this takes of the slips: the vendor's entries still declare a      *)
(* zone, and either the bare entry is as shipped or the vendor's are found *)
(* as shipped and name more tables; and of the headers: they state one     *)
(* unit and one zone.                                                      *)
Recognisable(formats, shipped) ==
  LET vendors == Formats \ {"generic_csv"}
  IN  /\ \A id \in vendors : "timezone" \in formats[id].data.header_declares
      /\ \/ formats["generic_csv"] = shipped["generic_csv"]
         \/ /\ Cardinality(DOMAIN formats["generic_csv"].tables) \in 0..2
            /\ \A id \in vendors :
                 formats[id].container = shipped[id].container /\ formats[id].tables = shipped[id].tables

SlipsAreApart ==
  \A s \in Situations : \A doc \in s.documents :
    AcceptsDocument(doc) /\ Formats \subseteq DOMAIN SourceCatalogue(doc) =>
      Recognisable(SourceCatalogue(doc), SourceCatalogue(Packaged))

OneUnitAndZone ==
  \A pattern \in DOMAIN Regexes : \A cell \in DOMAIN Regexes[pattern].captures :
    LET texts == Regexes[pattern].captures[cell]
    IN  /\ "unit" \in Regexes[pattern].groups /\ texts["unit"] \in KnownUnits =>
             texts["unit"] = Kinds["vendor"].units
        /\ "timezone" \in Regexes[pattern].groups =>
             /\ texts["timezone"] # None
             /\ texts["timezone"] \in LOCAL_OFFSETS => texts["timezone"] = Kinds["vendor"].zone

(* Every command comes to an end, whatever is typed, whatever the          *)
(* catalogue says and whatever happens to the directory, and never with    *)
(* exit code 2, which a cron job would take for a drifted catalogue        *)
(* (_Parser.error, main, inspect_command).                                 *)
CommandEnds == <>(exit \in {EXIT_PRODUCED, EXIT_NO_RESULT})
=============================================================================
