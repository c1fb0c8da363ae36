----------------------- MODULE SourceSelectionProofs -----------------------
(***************************************************************************)
(* Whatever is typed, whatever the catalogue says, whatever a directory    *)
(* holds and whenever it changes, the checksum gate of a vendor's file is  *)
(* never skipped, and a file that is pointed at is the file that is read.  *)
(*                                                                         *)
(* Neither follows from the selection alone, which sees only the names of  *)
(* files: the first needs the header check of the parser and the KeyError  *)
(* of a reader whose details table was not located, the second that the    *)
(* selection and the load locate the data table in the same way, and that  *)
(* the catalogue refuses a format without one.  The last part is about the *)
(* slips of a hand in the catalogue, and what they cannot cost.            *)
(***************************************************************************)
EXTENDS SourceSelection, FiniteSetTheorems, TLAPS

Loading == {"asked", "selected", "constructed", "loaded", "parsed", "reported"}
Selected == {"selected", "constructed", "loaded", "parsed", "reported"}
HasRead == {"loaded", "parsed", "reported"}

SelectionInv ==
  /\ stage \in Selected => format \in DOMAIN catalogue /\ Shape.container = Container
  /\ stage \in Loading => \A id \in DOMAIN catalogue : "data" \in DOMAIN Tables(id)
  /\ stage \in {"parsed", "reported"} =>
       /\ IF IsBare THEN DataLocated ELSE VendorReads
       /\ ~IsBare => report.statistics = Statistics
  /\ stage = "reported" /\ exit = EXIT_PRODUCED => ~GateRefused
  /\ changes \in Nat
  /\ PointedFileIsRead

-----------------------------------------------------------------------------
(* Every format of an accepted catalogue locates a data table.             *)
LEMMA FormatsHaveData ==
  ASSUME NEW doc, AcceptsDocument(doc), NEW id \in DOMAIN SourceCatalogue(doc)
  PROVE  "data" \in DOMAIN SourceCatalogue(doc)[id].tables
<1> DEFINE raw == Entries(doc)[id]
<1>1. id \in DOMAIN Entries(doc) /\ SourceCatalogue(doc)[id] = SourceFormat(raw)
  BY DEF SourceCatalogue
<1>2. FormatAccepted(raw)
  BY <1>1 DEF AcceptsDocument, RefusesDocument, CrashesOnDocument, HasRefusedEntry, HasNoEntry
<1>3. "data" \in DOMAIN Get(raw, "tables").map
  BY <1>2 DEF FormatAccepted
<1> QED
  BY <1>1, <1>3 DEF SourceFormat

LEMMA PointedIsCsv ==
  ASSUME path \in FileNames, path # Directory, Suffix[path] = ".csv"
  PROVE  Container = "csv"
BY DEF Container, SUFFIX_CONTAINERS

(* A header row that is not the first has nothing a pattern finds.         *)
LEMMA HeaderIsFirst ==
  ASSUME NEW pattern, NEW t, NEW row, FoundOnce(pattern, Cells(t, row))
  PROVE  Cells(t, row) = Kinds[read[t]].header
<1>1. row = 1
  <2> SUFFICES ASSUME row # 1 PROVE FALSE
    OBVIOUS
  <2>1. Found(pattern, Cells(t, row)) = {}
    BY DEF Cells, Found
  <2> QED
    BY <2>1, FS_EmptySet DEF FoundOnce
<1> QED
  BY <1>1 DEF Cells

LEMMA SelectionInvInit == Init => SelectionInv
BY DEF Init, SelectionInv, Loading, Selected, PointedFileIsRead

(* The facts of a step that leaves all but the stage and the exit code.    *)
LEMMA SelectionInvEnd ==
  ASSUME SelectionInv, UNCHANGED loadVars, Same, stage' \notin Loading
  PROVE  SelectionInv'
BY DEF SelectionInv, Same, Loading, Selected, PointedFileIsRead

LEMMA SelectionInvStep == SelectionInv /\ [Next]_vars => SelectionInv'
<1> SUFFICES ASSUME SelectionInv, [Next]_vars PROVE SelectionInv'
  OBVIOUS
<1>1. CASE Dispatch
  <2>1. UNCHANGED loadVars /\ Same /\ stage' \notin Loading
    BY <1>1 DEF Dispatch, End, Proceed, Loading
  <2> QED
    BY <2>1, SelectionInvEnd
<1>2. CASE LoadCatalogue
  <2>1. CASE AcceptsDocument(document) /\ Proceed("asked") /\ catalogue' = SourceCatalogue(document)
    <3>1. \A id \in DOMAIN catalogue' : "data" \in DOMAIN Tables(id)'
      BY <2>1, FormatsHaveData DEF Tables
    <3> QED
      BY <2>1, <3>1 DEF SelectionInv, Proceed, Same, Loading, Selected, PointedFileIsRead
  <2>2. CASE UNCHANGED loadVars /\ Same /\ stage' \notin Loading
    BY <2>2, SelectionInvEnd
  <2> QED
    BY <1>2, <2>1, <2>2 DEF LoadCatalogue, End, Loading, loadVars
<1>3. CASE RaiseUnreadable \/ RaiseMissingTable \/ RaiseDamaged \/ RaiseNoSuchGroup \/ RaiseUnreadTables
  <2>1. UNCHANGED loadVars /\ Same /\ stage' \notin Loading
    BY <1>3 DEF RaiseUnreadable, RaiseMissingTable, RaiseDamaged, RaiseNoSuchGroup,
                RaiseUnreadTables, Refuse, End, Loading
  <2> QED
    BY <2>1, SelectionInvEnd
<1>4. CASE SelectFormat
  <2>1. /\ stage = "asked" /\ stage' = "selected" /\ Same
        /\ UNCHANGED <<catalogue, read, report>>
        /\ format' \in DOMAIN catalogue /\ catalogue[format'].container = Container
    BY <1>4 DEF SelectFormat, Proceed, Matching, Candidates, KnownFormats, Formats
  <2>2. Container' = Container /\ Shape' = catalogue[format']
    BY <2>1 DEF Container, Same, Shape
  <2> QED
    BY <2>1, <2>2 DEF SelectionInv, Same, Tables, Loading, Selected, PointedFileIsRead
<1>5. CASE ConstructReader
  <2>1. stage = "selected" /\ UNCHANGED loadVars /\ Same /\ stage' \in {"constructed", "bad_shape"}
    BY <1>5 DEF ConstructReader, Proceed, End
  <2>2. Container' = Container /\ Shape' = Shape /\ \A id : Tables(id)' = Tables(id)
    BY <2>1 DEF Container, Same, Shape, loadVars, Tables
  <2> QED
    BY <2>1, <2>2 DEF SelectionInv, Same, loadVars, Loading, Selected, PointedFileIsRead
<1>6. CASE ReadTables
  <2>1. /\ stage = "constructed" /\ stage' = "loaded" /\ Same
        /\ read' = [t \in Declared |-> Content(t)]
        /\ UNCHANGED <<catalogue, format, report>>
    BY <1>6 DEF ReadTables, Proceed
  <2>2. format \in DOMAIN catalogue /\ Shape.container = Container /\ "data" \in Declared
    BY <2>1 DEF SelectionInv, Loading, Selected, Declared
  <2>3. Container' = Container /\ Shape' = Shape /\ \A id : Tables(id)' = Tables(id)
    BY <2>1 DEF Container, Same, Shape, Tables
  <2>4. PointedFileIsRead'
    <3> SUFFICES ASSUME path \in FileNames, path # Directory, Suffix[path] = ".csv"
                 PROVE  read'["data"] = disk[path]
      BY <2>1, DirectoryAssumption DEF PointedFileIsRead, FileNames, Same
    <3>1. Shape.container = "csv"
      BY <2>2, PointedIsCsv
    <3> QED
      BY <2>1, <2>2, <3>1 DEF Content, Located
  <2> QED
    BY <2>1, <2>2, <2>3, <2>4 DEF SelectionInv, Same, Loading, Selected
<1>7. CASE ParseTables
  <2>1. /\ stage = "loaded" /\ stage' = "parsed" /\ Same
        /\ IF IsBare THEN DataLocated ELSE VendorReads
        /\ ~IsBare => report'.statistics = Statistics
        /\ UNCHANGED <<catalogue, format, read>>
    <3>1. /\ stage = "loaded" /\ Proceed("parsed") /\ UNCHANGED <<catalogue, format, read>>
          /\ IF IsBare THEN DataLocated ELSE VendorReads
      BY <1>7 DEF ParseTables
    <3>2. PICK dates \in Dates \ {"unreadable"} :
            report' = [dates |-> dates, numbered |-> Numbering # "",
                       units |-> IF IsBare THEN None ELSE Units,
                       zone |-> IF IsBare THEN None ELSE Zone,
                       log |-> ~IsBare /\ Shape.events # None,
                       statistics |-> IF IsBare THEN "none" ELSE Statistics]
      BY <1>7, Zenon DEF ParseTables
    <3> QED
      BY <3>1, <3>2 DEF Proceed
  <2>2. Container' = Container /\ Shape' = Shape /\ IsBare' = IsBare /\ Statistics' = Statistics
        /\ \A id : Tables(id)' = Tables(id)
    BY <2>1 DEF Container, Same, Shape, IsBare, Statistics, Tables
  <2>3. DataLocated' = DataLocated /\ VendorReads' = VendorReads
    BY <2>1 DEF DataLocated, VendorReads, Shape, DataCells, Numbering, Cells, DetailsRead, LogRead,
                LogCells, LogHasGroup, StatementsAgree, Units, Zone, LogZone, SeriesUnits, Statistics
  <2> QED
    BY <2>1, <2>2, <2>3 DEF SelectionInv, Same, Loading, Selected, PointedFileIsRead
<1>8. CASE Render
  <2>1. /\ stage = "parsed" /\ stage' \in {"reported", "refused"} /\ Same /\ UNCHANGED loadVars
        /\ stage' = "reported" /\ exit' = EXIT_PRODUCED => ~GateRefused
    BY <1>8 DEF Render, End, EXIT_PRODUCED, EXIT_NO_RESULT
  <2>2. Container' = Container /\ Shape' = Shape /\ IsBare' = IsBare /\ Statistics' = Statistics
        /\ GateRefused' = GateRefused /\ \A id : Tables(id)' = Tables(id)
    BY <2>1 DEF Container, Same, Shape, IsBare, Statistics, Tables, GateRefused, loadVars
  <2>3. DataLocated' = DataLocated /\ VendorReads' = VendorReads
    BY <2>1 DEF DataLocated, VendorReads, Shape, DataCells, Numbering, Cells, DetailsRead, LogRead, loadVars,
                LogCells, LogHasGroup, StatementsAgree, Units, Zone, LogZone, SeriesUnits, Statistics
  <2> QED
    BY <2>1, <2>2, <2>3 DEF SelectionInv, Same, loadVars, Loading, Selected, PointedFileIsRead
<1>9. CASE Change
  <2>1. /\ stage \notin {"loaded", "parsed", "reported"} /\ changes' = changes + 1 /\ changes \in Nat
        /\ UNCHANGED <<path, stage, exit, catalogue, format, read, report>>
    BY <1>9 DEF Change, SelectionInv, loadVars
  <2>2. Container' = Container /\ Shape' = Shape /\ \A id : Tables(id)' = Tables(id)
    BY <2>1 DEF Container, Shape, Tables
  <2> QED
    BY <2>1, <2>2 DEF SelectionInv, Loading, Selected, PointedFileIsRead
<1>10. CASE UNCHANGED vars
  BY <1>10 DEF vars, loadVars, SelectionInv, Loading, Selected, Container, Shape, Tables, IsBare,
               Statistics, GateRefused, DataLocated, VendorReads, DataCells, Numbering, Cells, DetailsRead,
               LogRead, LogCells, LogHasGroup, StatementsAgree, Units, Zone, LogZone, SeriesUnits,
               PointedFileIsRead
<1> QED
  BY <1>1, <1>2, <1>3, <1>4, <1>5, <1>6, <1>7, <1>8, <1>9, <1>10 DEF Next, Main, Inspect

LEMMA SelectionInvAlways == Spec => []SelectionInv
BY SelectionInvInit, SelectionInvStep, PTL DEF Spec

-----------------------------------------------------------------------------
(* Data under the vendor's header is never reported as good without the    *)
(* details table that came with it, nor where the statistics of that table *)
(* are not reproduced: for every catalogue, directory and change of it, as *)
(* long as the bare format does not itself describe the vendor's header    *)
(* ("must not be read as a bare CSV").                                     *)
THEOREM VendorFilesAreAlwaysGated == Spec => []GateIsNeverSkipped
<1>1. SelectionInv => GateIsNeverSkipped
  <2> SUFFICES ASSUME SelectionInv, stage = "reported", exit = EXIT_PRODUCED,
                      ~BareFormatDescribes(read["data"])
               PROVE  /\ "details" \in DOMAIN read
                      /\ Kinds[read["details"]].statistics # "differ"
    BY DEF GateIsNeverSkipped
  <2>1. (IF IsBare THEN DataLocated ELSE VendorReads) /\ ~GateRefused
        /\ (~IsBare => report.statistics = Statistics)
    BY DEF SelectionInv
  <2>2. ~IsBare
    <3> SUFFICES ASSUME IsBare PROVE FALSE
      OBVIOUS
    <3>1. DataLocated /\ Shape = catalogue["generic_csv"]
      BY <2>1 DEF IsBare, Shape
    <3>2. DataCells = Kinds[read["data"]].header
      BY <3>1, HeaderIsFirst DEF DataLocated, DataCells
    <3> QED
      BY <3>1, <3>2 DEF DataLocated, BareFormatDescribes
  <2>3. DetailsRead /\ report.statistics = Statistics
    BY <2>1, <2>2 DEF VendorReads
  <2> QED
    BY <2>1, <2>3 DEF DetailsRead, GateRefused, Statistics
<1> QED
  BY <1>1, SelectionInvAlways, PTL

(* The file pointed at is the data that is parsed, never a neighbour that  *)
(* has the declared name, whatever the catalogue (_tables_present,         *)
(* _from_csv_files).                                                       *)
THEOREM PointedFileIsAlwaysRead == Spec => []PointedFileIsRead
<1>1. SelectionInv => PointedFileIsRead
  BY DEF SelectionInv
<1> QED
  BY <1>1, SelectionInvAlways, PTL
-----------------------------------------------------------------------------
(* A complete source, read with the catalogue as shipped while nothing     *)
(* changes, goes through every stage.                                      *)
Undisturbed ==
  /\ changes = 0 /\ IsUsage(argv) /\ Leaf(argv).func = "inspect_command"
  /\ document = Packaged /\ WholeSource

Shipped == SourceCatalogue(Packaged)
VendorFormat == IF Container = "csv" THEN "hoboconnect_sheets_csv" ELSE "hoboconnect_xlsx"

PlacesInv ==
  /\ path \in FileNames \cup {Directory} /\ DOMAIN disk = FileNames
  /\ changes \in Nat

OnTrack ==
  /\ stage \in {"invoked", "inspect"} \cup Loading
  /\ stage # "reported" => exit = None
  /\ stage \in Loading => catalogue = Shipped
  /\ stage \in Selected => format = VendorFormat
  /\ stage \in HasRead =>
       /\ DOMAIN read = {"data", "events", "details"}
       /\ read["data"] = "vendor" /\ read["events"] = "events" /\ read["details"] \in DetailsKinds
  /\ stage \in {"parsed", "reported"} =>
       report.dates = "written" /\ report.zone \in LOCAL_OFFSETS
  /\ stage = "reported" => (exit = EXIT_PRODUCED <=> report.statistics # "differ")

CompletenessInv == PlacesInv /\ (Undisturbed => OnTrack)

LEMMA ShippedFormats ==
  /\ AcceptsDocument(Packaged) /\ DOMAIN Shipped = Formats
  /\ Shipped["hoboconnect_xlsx"].container = "xlsx"
  /\ Shipped["hoboconnect_xlsx"].tables = [data |-> "Data", events |-> "Events", details |-> "Details"]
  /\ Shipped["hoboconnect_sheets_csv"].container = "csv"
  /\ Shipped["hoboconnect_sheets_csv"].tables =
       [data |-> "data.csv", events |-> "events.csv", details |-> "details.csv"]
  /\ Shipped["generic_csv"].container = "csv" /\ DOMAIN Shipped["generic_csv"].tables = {"data"}
  /\ ReadsVendorTables(Shipped["hoboconnect_xlsx"])
  /\ ReadsVendorTables(Shipped["hoboconnect_sheets_csv"])
  /\ Formats = {"generic_csv", "hoboconnect_sheets_csv", "hoboconnect_xlsx"}
  /\ DOMAIN READERS = 1..3 /\ READERS[1] = "generic_csv"
  /\ READERS[2] = "hoboconnect_sheets_csv" /\ READERS[3] = "hoboconnect_xlsx"
<1>1. /\ DOMAIN READERS = 1..3 /\ READERS[1] = "generic_csv"
      /\ READERS[2] = "hoboconnect_sheets_csv" /\ READERS[3] = "hoboconnect_xlsx"
  BY DEF READERS
<1>2. Formats = {"generic_csv", "hoboconnect_sheets_csv", "hoboconnect_xlsx"}
  BY <1>1 DEF Formats
<1> DEFINE vendors == Formats \ {"generic_csv"}
<1>3. "hoboconnect_xlsx" \in vendors /\ "hoboconnect_sheets_csv" \in vendors
  BY <1>2
<1> HIDE DEF vendors
<1>4. \A id \in vendors : ReadsVendorTables(Shipped[id])
  BY PackagedAssumption DEF Shipped, vendors
<1> QED
  BY <1>1, <1>2, <1>3, <1>4, PackagedAssumption DEF Shipped

(* The files of a complete source.                                         *)
LEMMA WholeSourcesAreThere ==
  ASSUME PlacesInv, WholeSource
  PROVE  /\ Exists /\ KnownContainer
         /\ \/ /\ Container = "csv"
               /\ disk["events.csv"] = "events" /\ disk["details.csv"] \in DetailsKinds
               /\ path = Directory => disk["data.csv"] = "vendor"
               /\ path # Directory => disk[path] = "vendor"
            \/ /\ Container = "xlsx" /\ path # Directory /\ disk[path] \notin {Absent, Damaged}
               /\ DOMAIN disk[path] = {"Data", "Events", "Details"}
               /\ disk[path]["Data"] = "vendor" /\ disk[path]["Events"] = "events"
               /\ disk[path]["Details"] \in DetailsKinds
<1>1. CASE path = Directory
  <2>1. WholeBundle("data.csv") /\ Container = "csv" /\ Exists /\ KnownContainer
    BY <1>1 DEF WholeSource, Container, Exists, KnownContainer
  <2> QED
    BY <1>1, <2>1 DEF WholeBundle
<1>2. CASE path # Directory /\ WholeBundle(path)
  <2>1. Container = "csv" /\ KnownContainer
    BY <1>2 DEF WholeBundle, Container, KnownContainer, SUFFIX_CONTAINERS
  <2>2. Exists
    BY <1>2, ContentsAssumption DEF WholeBundle, Exists, IsFile
  <2> QED
    BY <1>2, <2>1, <2>2 DEF WholeBundle
<1>3. CASE path # Directory /\ WholeWorkbook(path)
  <2>1. Container = "xlsx" /\ KnownContainer /\ Exists
    BY <1>3 DEF WholeWorkbook, Container, KnownContainer, SUFFIX_CONTAINERS, Exists, IsFile
  <2> QED
    BY <1>3, <2>1 DEF WholeWorkbook
<1> QED
  BY <1>1, <1>2, <1>3 DEF WholeSource

LEMMA DetailsAreContents ==
  /\ \A k \in DetailsKinds : k \in DOMAIN Kinds /\ k # Absent /\ k # Damaged
  /\ "vendor" # Absent /\ "vendor" # Damaged /\ "events" # Absent /\ "events" # Damaged
BY ContentsAssumption DEF DetailsKinds

(* The format with the sidecars is found, and tried before the bare one.   *)
LEMMA VendorFormatMatches ==
  ASSUME PlacesInv, WholeSource, catalogue = Shipped
  PROVE  /\ KnownFormats
         /\ Matching # {}
         /\ \A i \in Matching : (\A j \in Matching : TriedNoLater(i, j)) => READERS[i] = VendorFormat
<1> USE ShippedFormats, DetailsAreContents
<1>1. KnownFormats
  BY DEF KnownFormats
<1>2. Candidates = IF Container = "csv" THEN {1, 2} ELSE IF Container = "xlsx" THEN {3} ELSE {}
  BY DEF Candidates
<1>3. CASE Container = "csv"
  <2>1. /\ disk["events.csv"] = "events" /\ disk["details.csv"] \in DetailsKinds
        /\ path = Directory => disk["data.csv"] = "vendor"
        /\ path # Directory => disk[path] = "vendor"
    BY <1>3, WholeSourcesAreThere
  <2>2. \A t \in DOMAIN Tables("hoboconnect_sheets_csv") :
          /\ Located("hoboconnect_sheets_csv", t) \in FileNames
          /\ IsFile(Located("hoboconnect_sheets_csv", t))
    <3> SUFFICES ASSUME NEW t \in {"data", "events", "details"}
                 PROVE  /\ Located("hoboconnect_sheets_csv", t) \in FileNames
                        /\ IsFile(Located("hoboconnect_sheets_csv", t))
      BY DEF Tables
    <3>1. /\ Tables("hoboconnect_sheets_csv")["data"] = "data.csv"
          /\ Tables("hoboconnect_sheets_csv")["events"] = "events.csv"
          /\ Tables("hoboconnect_sheets_csv")["details"] = "details.csv"
      BY DEF Tables
    <3> QED
      BY <2>1, <3>1, ContentsAssumption DEF Located, FileNames, IsFile, PlacesInv
  <2>3. 2 \in Matching
    BY <1>2, <1>3, <2>2 DEF Matching, TablesPresent
  <2>4. NumberOfTables("generic_csv") = 1 /\ NumberOfTables("hoboconnect_sheets_csv") = 3
    <3>1. Cardinality({"data"}) = 1
      BY FS_Singleton
    <3>2. Cardinality({"data"} \cup {"events"}) = 2 /\ IsFiniteSet({"data"} \cup {"events"})
      <4>1. "events" \notin {"data"} /\ IsFiniteSet({"data"})
        BY FS_Singleton
      <4>2. Cardinality({"data"} \cup {"events"}) = Cardinality({"data"}) + 1 /\ IsFiniteSet({"data"} \cup {"events"})
        BY <4>1, FS_AddElement
      <4> QED
        BY <3>1, <4>2
    <3>3. Cardinality(({"data"} \cup {"events"}) \cup {"details"}) = 3
      <4>1. "details" \notin {"data"} \cup {"events"}
        OBVIOUS
      <4>2. Cardinality(({"data"} \cup {"events"}) \cup {"details"}) = Cardinality({"data"} \cup {"events"}) + 1
        BY <3>2, <4>1, FS_AddElement
      <4> QED
        BY <3>2, <4>2
    <3>4. ({"data"} \cup {"events"}) \cup {"details"} = {"data", "events", "details"}
      OBVIOUS
    <3>5. /\ DOMAIN Tables("generic_csv") = {"data"}
          /\ DOMAIN Tables("hoboconnect_sheets_csv") = {"data", "events", "details"}
      BY DEF Tables
    <3> QED
      BY <3>1, <3>3, <3>4, <3>5 DEF NumberOfTables
  <2>5. ~TriedNoLater(1, 2)
    BY <2>4 DEF TriedNoLater
  <2> QED
    BY <1>1, <1>2, <1>3, <2>3, <2>5 DEF VendorFormat, Matching
<1>4. CASE Container = "xlsx"
  <2>1. path # Directory /\ disk[path] # Absent /\ Container # "csv"
    BY <1>4, WholeSourcesAreThere
  <2>2. 3 \in Matching
    BY <1>2, <1>4, <2>1 DEF Matching, TablesPresent, IsFile
  <2> QED
    BY <1>1, <1>2, <1>4, <2>1, <2>2 DEF VendorFormat, Matching
<1> QED
  BY <1>3, <1>4, WholeSourcesAreThere

(* Its reader is constructed, and its tables are there to be read.         *)
LEMMA VendorTablesLoad ==
  ASSUME PlacesInv, WholeSource, catalogue = Shipped, format = VendorFormat
  PROVE  /\ ~IsBare /\ Shape = Shipped[VendorFormat] /\ ReadsVendorTables(Shape)
         /\ Loadable /\ Intact
         /\ Declared = {"data", "events", "details"}
         /\ Content("data") = "vendor" /\ Content("events") = "events"
         /\ Content("details") \in DetailsKinds
<1> USE ShippedFormats, DetailsAreContents
<1>1. ~IsBare /\ Shape = Shipped[VendorFormat] /\ ReadsVendorTables(Shape)
  BY DEF IsBare, Shape, VendorFormat
<1>2. CASE Container = "csv"
  <2>1. /\ disk["events.csv"] = "events" /\ disk["details.csv"] \in DetailsKinds
        /\ path = Directory => disk["data.csv"] = "vendor"
        /\ path # Directory => disk[path] = "vendor"
    BY <1>2, WholeSourcesAreThere
  <2>2. format = "hoboconnect_sheets_csv" /\ Shape.container = "csv"
    BY <1>1, <1>2 DEF VendorFormat
  <2>3. /\ Declared = {"data", "events", "details"}
        /\ Tables(format)["data"] = "data.csv" /\ Tables(format)["events"] = "events.csv"
        /\ Tables(format)["details"] = "details.csv"
    BY <2>2 DEF Declared, Tables
  <2>4. /\ Content("data") = "vendor" /\ Content("events") = "events"
        /\ Content("details") \in DetailsKinds
    BY <2>1, <2>2, <2>3, ContentsAssumption DEF Content, Located, FileNames, PlacesInv
  <2> QED
    BY <1>1, <2>2, <2>3, <2>4 DEF Loadable, Intact, Opens
<1>3. CASE Container = "xlsx"
  <2>1. /\ path # Directory /\ disk[path] \notin {Absent, Damaged}
        /\ DOMAIN disk[path] = {"Data", "Events", "Details"}
        /\ disk[path]["Data"] = "vendor" /\ disk[path]["Events"] = "events"
        /\ disk[path]["Details"] \in DetailsKinds
    BY <1>3, WholeSourcesAreThere
  <2>2. format = "hoboconnect_xlsx" /\ Shape.container = "xlsx"
    BY <1>1, <1>3 DEF VendorFormat
  <2>3. /\ Declared = {"data", "events", "details"}
        /\ Tables(format)["data"] = "Data" /\ Tables(format)["events"] = "Events"
        /\ Tables(format)["details"] = "Details"
    BY <2>2 DEF Declared, Tables
  <2>4. /\ Content("data") = "vendor" /\ Content("events") = "events"
        /\ Content("details") \in DetailsKinds
    BY <2>1, <2>2, <2>3 DEF Content
  <2> QED
    BY <1>1, <2>1, <2>2, <2>3, <2>4 DEF Loadable, Intact, Opens, IsFile
<1> QED
  BY <1>2, <1>3, WholeSourcesAreThere

(* Its parsers find what they look for.                                    *)
LEMMA VendorTablesParse ==
  ASSUME ReadsVendorTables(Shape), ~IsBare,
         DOMAIN read = {"data", "events", "details"},
         read["data"] = "vendor", read["events"] = "events", read["details"] \in DetailsKinds
  PROVE  VendorReads /\ LogHasGroup /\ Dates = {"written"} /\ Zone \in LOCAL_OFFSETS
<1> USE DEF ReadsVendorTables
<1>1. DataCells = Kinds["vendor"].header
  BY DEF DataCells, Cells
<1>2. LogCells = Kinds["events"].header
  BY DEF LogCells, Cells
<1>3. DataLocated
  BY <1>1 DEF DataLocated, Numbering
<1>4. Dates = {"written"}
  BY DEF Dates
<1>5. LogRead /\ LogHasGroup /\ Shape.events # None
  BY <1>2 DEF LogRead, LogHasGroup
<1>6. DetailsRead
  BY DEF DetailsRead, DetailsKinds
<1>7. StatementsAgree /\ Zone \in LOCAL_OFFSETS
  BY <1>1, <1>2 DEF StatementsAgree, Units, Zone, LogZone, SeriesUnits, Statistics
<1> QED
  BY <1>3, <1>4, <1>5, <1>6, <1>7 DEF VendorReads

LEMMA CompletenessInit == Init => CompletenessInv
<1> SUFFICES ASSUME Init PROVE CompletenessInv
  OBVIOUS
<1>1. PICK s \in Situations : disk \in s.disks /\ path \in s.paths
  BY DEF Init
<1>2. disk \in Disks
  BY <1>1 DEF Disks
<1>3. PlacesInv
  BY <1>1, <1>2, SuffixAssumption, DirectoryAssumption DEF Init, PlacesInv, FileNames
<1> QED
  BY <1>3 DEF Init, CompletenessInv, OnTrack, Loading, Selected, HasRead

LEMMA CompletenessStep == CompletenessInv /\ [Next]_vars => CompletenessInv'
<1> SUFFICES ASSUME CompletenessInv, [Next]_vars PROVE CompletenessInv'
  OBVIOUS
<1> USE DEF CompletenessInv
<1>1. CASE UNCHANGED vars
  <2>1. /\ PlacesInv' = PlacesInv /\ Undisturbed' = Undisturbed
        /\ Container' = Container
    BY <1>1 DEF vars, PlacesInv, Undisturbed, WholeSource, WholeBundle, WholeWorkbook, Container
  <2> QED
    BY <1>1, <2>1 DEF vars, loadVars, OnTrack, VendorFormat
<1>2. CASE Change
  BY <1>2 DEF Change, PlacesInv, Undisturbed
<1>3. CASE Main
  <2>1. Same
    BY <1>3 DEF Main, Inspect, Dispatch, LoadCatalogue, RaiseUnreadable, SelectFormat, ConstructReader,
      RaiseMissingTable, RaiseDamaged, ReadTables, RaiseNoSuchGroup, RaiseUnreadTables, Refuse,
      ParseTables, Render, Proceed, End
  <2>2. PlacesInv' /\ Undisturbed' = Undisturbed /\ Container' = Container
    BY <2>1 DEF Same, PlacesInv, Undisturbed, WholeSource, WholeBundle, WholeWorkbook, Container
  <2> SUFFICES ASSUME Undisturbed PROVE OnTrack'
    BY <2>2
  <2>3. OnTrack /\ PlacesInv /\ WholeSource /\ document = Packaged
    BY DEF Undisturbed
  <2>4. VendorFormat' = VendorFormat
    BY <2>2 DEF VendorFormat
  <2> USE DEF Loading, Selected, HasRead
  <2>5. CASE Dispatch
    <3>1. stage' = "inspect" /\ exit' = None
      BY <2>5 DEF Undisturbed, Dispatch, Proceed
    <3> QED
      BY <2>5, <3>1 DEF OnTrack
  <2>6. CASE LoadCatalogue
    <3>1. stage' = "asked" /\ exit' = None /\ catalogue' = Shipped
      BY <2>3, <2>6, ShippedFormats DEF LoadCatalogue, AcceptsDocument, Proceed, Shipped
    <3> QED
      BY <3>1 DEF OnTrack
  <2>7. stage = "asked" => catalogue = Shipped /\ Exists /\ KnownContainer /\ KnownFormats /\ Matching # {}
    BY <2>3, VendorFormatMatches, WholeSourcesAreThere DEF OnTrack
  <2>8. ~RaiseUnreadable
    BY <2>7 DEF RaiseUnreadable
  <2>9. CASE SelectFormat
    <3>1. PICK i \in Matching : (\A j \in Matching : TriedNoLater(i, j)) /\ format' = READERS[i]
      BY <2>9 DEF SelectFormat
    <3>2. format' = VendorFormat
      BY <2>3, <2>7, <2>9, <3>1, VendorFormatMatches DEF SelectFormat
    <3>3. stage' = "selected" /\ exit' = None /\ catalogue' = Shipped
      BY <2>7, <2>9 DEF SelectFormat, Proceed
    <3> QED
      BY <2>4, <3>2, <3>3 DEF OnTrack
  <2>10. stage \in Selected =>
           /\ catalogue = Shipped /\ format = VendorFormat
           /\ ~IsBare /\ ReadsVendorTables(Shape) /\ Loadable /\ Intact
           /\ Declared = {"data", "events", "details"}
           /\ Content("data") = "vendor" /\ Content("events") = "events" /\ Content("details") \in DetailsKinds
    BY <2>3, VendorTablesLoad DEF OnTrack
  <2>11. CASE ConstructReader
    <3>1. Constructible
      BY <2>10, <2>11 DEF ConstructReader, Constructible, ReadsVendorTables
    <3>2. stage' = "constructed" /\ exit' = None /\ catalogue' = Shipped /\ format' = VendorFormat
      BY <2>10, <2>11, <3>1 DEF ConstructReader, Proceed, loadVars
    <3> QED
      BY <2>4, <3>2 DEF OnTrack
  <2>12. ~RaiseMissingTable /\ ~RaiseDamaged
    BY <2>10 DEF RaiseMissingTable, RaiseDamaged
  <2>13. CASE ReadTables
    <3>1. /\ stage' = "loaded" /\ exit' = None /\ catalogue' = Shipped /\ format' = VendorFormat
          /\ read' = [t \in Declared |-> Content(t)]
      BY <2>10, <2>13 DEF ReadTables, Proceed
    <3>2. /\ DOMAIN read' = {"data", "events", "details"}
          /\ read'["data"] = "vendor" /\ read'["events"] = "events" /\ read'["details"] \in DetailsKinds
      BY <2>10, <2>13, <3>1 DEF ReadTables
    <3> QED
      BY <2>4, <3>1, <3>2 DEF OnTrack
  <2>14. stage = "loaded" => VendorReads /\ LogHasGroup /\ Dates = {"written"} /\ Zone \in LOCAL_OFFSETS
    BY <2>3, <2>10, VendorTablesParse DEF OnTrack
  <2>15. ~RaiseNoSuchGroup /\ ~RaiseUnreadTables
    BY <2>10, <2>14 DEF RaiseNoSuchGroup, RaiseUnreadTables
  <2>16. CASE ParseTables
    <3>1. stage = "loaded" /\ stage' = "parsed" /\ exit' = None /\ UNCHANGED <<catalogue, format, read>>
      BY <2>16 DEF ParseTables, Proceed
    <3>2. PICK dates \in Dates \ {"unreadable"} :
            report' = [dates |-> dates, numbered |-> Numbering # "",
                       units |-> IF IsBare THEN None ELSE Units,
                       zone |-> IF IsBare THEN None ELSE Zone,
                       log |-> ~IsBare /\ Shape.events # None,
                       statistics |-> IF IsBare THEN "none" ELSE Statistics]
      BY <2>16, Zenon DEF ParseTables
    <3>3. report'.dates = "written" /\ report'.zone \in LOCAL_OFFSETS
      BY <2>10, <2>14, <3>1, <3>2
    <3> QED
      BY <2>3, <2>4, <3>1, <3>3 DEF OnTrack
  <2>17. CASE Render
    <3>1. /\ stage = "parsed" /\ UNCHANGED loadVars
          /\ report.zone \in LOCAL_OFFSETS /\ report.dates = "written"
      BY <2>3, <2>17 DEF OnTrack, Render
    <3>2. GateRefused <=> report.statistics = "differ"
      BY <3>1 DEF GateRefused
    <3>3. stage' = "reported" /\ (exit' = EXIT_PRODUCED <=> report.statistics # "differ")
      BY <2>17, <3>1, <3>2 DEF Render, End, EXIT_PRODUCED, EXIT_NO_RESULT
    <3> QED
      BY <2>3, <2>4, <3>1, <3>3 DEF OnTrack, loadVars
  <2> QED
    BY <1>3, <2>5, <2>6, <2>8, <2>9, <2>11, <2>12, <2>13, <2>15, <2>16, <2>17 DEF Main, Inspect
<1> QED
  BY <1>1, <1>2, <1>3 DEF Next

(* With the catalogue as shipped, and unless the directory changes, a      *)
(* complete bundle or workbook is read, whatever else lies beside it and   *)
(* whichever of its paths is given, and the exit code is its gate's        *)
(* (select_format, the readers, render).                                   *)
THEOREM CompleteSourcesAreAlwaysRead == Spec => []CompleteSourcesAreRead
<1>1. CompletenessInv => CompleteSourcesAreRead
  BY DEF CompletenessInv, Undisturbed, OnTrack, CompleteSourcesAreRead
<1> QED
  BY <1>1, CompletenessInit, CompletenessStep, PTL DEF Spec
-----------------------------------------------------------------------------
(* Slips of the hand in the catalogue.  Which format a complete source is  *)
(* read as, and from which table, is kept while nothing changes.           *)
Bare == catalogue["generic_csv"]
BareIsShipped == Bare = Shipped["generic_csv"]

SlipsInv ==
  /\ PlacesInv
  /\ \E s \in Situations : document \in s.documents
  /\ stage \in Loading => AcceptsDocument(document) /\ catalogue = SourceCatalogue(document)
  /\ stage \in Selected => KnownFormats /\ format \in Formats
  /\ changes = 0 /\ WholeSource =>
       /\ stage \in Selected /\ IsBare => BareIsShipped
       /\ stage \in HasRead /\ IsBare => read["data"] = "vendor"
  /\ stage \in {"parsed", "reported"} /\ ~IsBare => report.units = Units /\ report.zone = Zone
  /\ stage = "reported" => report.zone \in LOCAL_OFFSETS \cup {None}

(* Where the bare entry is not as shipped, the vendor's format is found    *)
(* and tried first.                                                        *)
LEMMA BareIsTriedLast ==
  ASSUME PlacesInv, WholeSource, KnownFormats, Recognisable(catalogue, Shipped),
         NEW i \in Matching, \A j \in Matching : TriedNoLater(i, j), READERS[i] = "generic_csv"
  PROVE  BareIsShipped
<1> SUFFICES ASSUME ~BareIsShipped PROVE FALSE
  OBVIOUS
<1> USE ShippedFormats, DetailsAreContents
<1> DEFINE vendors == Formats \ {"generic_csv"}
<1>1. "hoboconnect_xlsx" \in vendors /\ "hoboconnect_sheets_csv" \in vendors
  OBVIOUS
<1>2. /\ NumberOfTables("generic_csv") \in 0..2
      /\ \A id \in vendors :
           catalogue[id].container = Shipped[id].container /\ Tables(id) = Shipped[id].tables
  BY DEF Recognisable, BareIsShipped, Bare, NumberOfTables, Tables
<1> HIDE DEF vendors
<1>3. i \in 1..3 /\ i = 1
  BY DEF Matching, Candidates
<1>4. \A id \in vendors : NumberOfTables(id) = 3
  <2>1. Cardinality({"data"}) = 1 /\ IsFiniteSet({"data"}) /\ "events" \notin {"data"}
    BY FS_Singleton
  <2>2. /\ Cardinality({"data"} \cup {"events"}) = Cardinality({"data"}) + 1
        /\ IsFiniteSet({"data"} \cup {"events"})
    BY <2>1, FS_AddElement
  <2>3. "details" \notin {"data"} \cup {"events"}
    OBVIOUS
  <2>4. Cardinality(({"data"} \cup {"events"}) \cup {"details"}) = Cardinality({"data"} \cup {"events"}) + 1
    BY <2>2, <2>3, FS_AddElement
  <2>5. \A id \in vendors : DOMAIN Tables(id) = ({"data"} \cup {"events"}) \cup {"details"}
    BY <1>1, <1>2 DEF vendors
  <2> QED
    BY <2>1, <2>2, <2>4, <2>5 DEF NumberOfTables
<1>5. ~TriedNoLater(1, 2) /\ ~TriedNoLater(1, 3)
  BY <1>1, <1>2, <1>4 DEF TriedNoLater
<1>6. CASE Container = "csv"
  <2>1. /\ disk["events.csv"] = "events" /\ disk["details.csv"] \in DetailsKinds
        /\ path = Directory => disk["data.csv"] = "vendor"
        /\ path # Directory => disk[path] = "vendor"
    BY <1>6, WholeSourcesAreThere
  <2>2. Tables("hoboconnect_sheets_csv") =
          [data |-> "data.csv", events |-> "events.csv", details |-> "details.csv"]
        /\ catalogue["hoboconnect_sheets_csv"].container = "csv"
    BY <1>1, <1>2
  <2>3. \A t \in DOMAIN Tables("hoboconnect_sheets_csv") :
          /\ Located("hoboconnect_sheets_csv", t) \in FileNames
          /\ IsFile(Located("hoboconnect_sheets_csv", t))
    <3> SUFFICES ASSUME NEW t \in {"data", "events", "details"}
                 PROVE  /\ Located("hoboconnect_sheets_csv", t) \in FileNames
                        /\ IsFile(Located("hoboconnect_sheets_csv", t))
      BY <2>2
    <3>1. /\ Tables("hoboconnect_sheets_csv")["data"] = "data.csv"
          /\ Tables("hoboconnect_sheets_csv")["events"] = "events.csv"
          /\ Tables("hoboconnect_sheets_csv")["details"] = "details.csv"
      BY <2>2
    <3> QED
      BY <2>1, <3>1, ContentsAssumption DEF Located, FileNames, IsFile, PlacesInv
  <2>4. 2 \in Matching
    BY <1>6, <2>2, <2>3 DEF Matching, Candidates, TablesPresent
  <2> QED
    BY <1>3, <1>5, <2>4
<1>7. CASE Container = "xlsx"
  <2>1. path # Directory /\ disk[path] # Absent
    BY <1>7, WholeSourcesAreThere
  <2>2. catalogue["hoboconnect_xlsx"].container = "xlsx"
    BY <1>1, <1>2
  <2>3. 3 \in Matching
    BY <1>7, <2>1, <2>2 DEF Matching, Candidates, TablesPresent, IsFile
  <2> QED
    BY <1>3, <1>5, <2>3
<1> QED
  BY <1>6, <1>7, WholeSourcesAreThere

(* The bare format as shipped reads the data of a complete bundle.         *)
LEMMA BareReadsTheVendorsData ==
  ASSUME PlacesInv, WholeSource, IsBare, BareIsShipped, Shape.container = Container
  PROVE  "data" \in Declared /\ Content("data") = "vendor"
<1>1. Shape.container = "csv" /\ Container = "csv" /\ Tables(format) = [data |-> "data.csv"]
  BY PackagedAssumption DEF IsBare, BareIsShipped, Bare, Shape, Tables, Shipped
<1>2. /\ path = Directory => disk["data.csv"] = "vendor"
      /\ path # Directory => disk[path] = "vendor"
  BY <1>1, WholeSourcesAreThere
<1> QED
  BY <1>1, <1>2, ContentsAssumption DEF Declared, Content, Located, FileNames, PlacesInv
LEMMA SlipsInvInit == Init => SlipsInv
<1> SUFFICES ASSUME Init PROVE SlipsInv
  OBVIOUS
<1>1. PlacesInv
  BY CompletenessInit DEF CompletenessInv
<1> QED
  BY <1>1 DEF Init, SlipsInv, Loading, Selected, HasRead

(* The facts of a step that leaves all but the stage and the exit code.    *)
LEMMA SlipsInvEnd ==
  ASSUME SlipsInv, UNCHANGED loadVars, Same, stage' \notin Loading
  PROVE  SlipsInv'
BY DEF SlipsInv, Same, Loading, Selected, HasRead, PlacesInv

LEMMA SlipsInvStep == SlipsAreApart /\ SelectionInv /\ SlipsInv /\ [Next]_vars => SlipsInv'
<1> SUFFICES ASSUME SlipsAreApart, SelectionInv, SlipsInv, [Next]_vars PROVE SlipsInv'
  OBVIOUS
<1> USE DEF Loading, Selected, HasRead
<1>1. CASE UNCHANGED vars
  BY <1>1 DEF vars, loadVars, SlipsInv, PlacesInv, WholeSource, WholeBundle, WholeWorkbook, IsBare,
              BareIsShipped, Bare, Units, Zone, Shape, DataCells, Cells, KnownFormats
<1>2. CASE Change
  <2>1. /\ changes \in Nat /\ changes' = changes + 1 /\ DOMAIN disk = FileNames
        /\ UNCHANGED <<argv, document, path, stage, exit, loadVars>>
        /\ PlacesInv' /\ stage \notin {"parsed", "reported"}
    BY <1>2 DEF Change, SlipsInv, PlacesInv
  <2>2. changes' # 0
    BY <2>1
  <2> QED
    BY <2>1, <2>2 DEF SlipsInv, loadVars, KnownFormats
<1>3. CASE Main
  <2>1. Same
    BY <1>3 DEF Main, Inspect, Dispatch, LoadCatalogue, RaiseUnreadable, SelectFormat, ConstructReader,
      RaiseMissingTable, RaiseDamaged, ReadTables, RaiseNoSuchGroup, RaiseUnreadTables, Refuse,
      ParseTables, Render, Proceed, End
  <2>2. PlacesInv /\ PlacesInv' /\ WholeSource' = WholeSource /\ Container' = Container
    BY <2>1 DEF SlipsInv, Same, PlacesInv, WholeSource, WholeBundle, WholeWorkbook, Container
  <2>3. CASE Dispatch \/ RaiseUnreadable \/ RaiseMissingTable \/ RaiseDamaged \/ RaiseNoSuchGroup
             \/ RaiseUnreadTables
    <3>1. UNCHANGED loadVars /\ Same /\ stage' \notin Loading
      BY <2>3 DEF Dispatch, RaiseUnreadable, RaiseMissingTable, RaiseDamaged, RaiseNoSuchGroup,
                  RaiseUnreadTables, Refuse, Proceed, End
    <3> QED
      BY <3>1, SlipsInvEnd
  <2>4. CASE LoadCatalogue
    <3>1. CASE AcceptsDocument(document) /\ Proceed("asked") /\ catalogue' = SourceCatalogue(document)
      BY <2>2, <3>1 DEF SlipsInv, Proceed, Same
    <3>2. CASE UNCHANGED loadVars /\ Same /\ stage' \notin Loading
      BY <3>2, SlipsInvEnd
    <3> QED
      BY <2>4, <3>1, <3>2 DEF LoadCatalogue, End, loadVars
  <2>5. CASE SelectFormat
    <3>1. /\ stage = "asked" /\ stage' = "selected" /\ Same /\ KnownFormats
          /\ UNCHANGED <<catalogue, read, report>>
      BY <2>5 DEF SelectFormat, Proceed
    <3>2. PICK i \in Matching : (\A j \in Matching : TriedNoLater(i, j)) /\ format' = READERS[i]
      BY <2>5 DEF SelectFormat
    <3>3. format' \in Formats
      BY <3>2 DEF Matching, Candidates, Formats
    <3>4. AcceptsDocument(document) /\ catalogue = SourceCatalogue(document)
      BY <3>1 DEF SlipsInv
    <3>5. Recognisable(catalogue, Shipped)
      BY <3>1, <3>4 DEF SlipsInv, SlipsAreApart, KnownFormats, Shipped
    <3>6. changes' = 0 /\ WholeSource' /\ IsBare' => BareIsShipped'
      BY <2>2, <3>1, <3>2, <3>5, BareIsTriedLast DEF IsBare, BareIsShipped, Bare
    <3> QED
      BY <2>2, <3>1, <3>3, <3>4, <3>6 DEF SlipsInv, Same, KnownFormats
  <2>6. CASE ConstructReader
    <3>1. stage = "selected" /\ UNCHANGED loadVars /\ stage' \in {"constructed", "bad_shape"}
      BY <2>6 DEF ConstructReader, Proceed, End
    <3> QED
      BY <2>1, <2>2, <3>1 DEF SlipsInv, Same, loadVars, KnownFormats, IsBare, BareIsShipped, Bare
  <2>7. CASE ReadTables
    <3>1. /\ stage = "constructed" /\ stage' = "loaded"
          /\ read' = [t \in Declared |-> Content(t)] /\ UNCHANGED <<catalogue, format, report>>
      BY <2>7 DEF ReadTables, Proceed
    <3>2. changes' = 0 /\ WholeSource' /\ IsBare' => read'["data"] = "vendor"
      <4> SUFFICES ASSUME changes' = 0, WholeSource', IsBare' PROVE read'["data"] = "vendor"
        OBVIOUS
      <4>1. changes = 0 /\ WholeSource /\ IsBare
        BY <2>1, <2>2, <3>1 DEF Same, IsBare
      <4>2. BareIsShipped /\ Shape.container = Container
        BY <3>1, <4>1 DEF SlipsInv, SelectionInv
      <4> QED
        BY <2>2, <3>1, <4>1, <4>2, BareReadsTheVendorsData
    <3> QED
      BY <2>1, <2>2, <3>1, <3>2 DEF SlipsInv, Same, KnownFormats, IsBare, BareIsShipped, Bare
  <2>8. CASE ParseTables
    <3>1. stage = "loaded" /\ stage' = "parsed" /\ UNCHANGED <<catalogue, format, read>>
      BY <2>8 DEF ParseTables, Proceed
    <3>2. PICK dates \in Dates \ {"unreadable"} :
            report' = [dates |-> dates, numbered |-> Numbering # "",
                       units |-> IF IsBare THEN None ELSE Units,
                       zone |-> IF IsBare THEN None ELSE Zone,
                       log |-> ~IsBare /\ Shape.events # None,
                       statistics |-> IF IsBare THEN "none" ELSE Statistics]
      BY <2>8, Zenon DEF ParseTables
    <3>3. IsBare' = IsBare /\ Units' = Units /\ Zone' = Zone
      BY <3>1 DEF IsBare, Units, Zone, Shape, DataCells, Cells
    <3>4. ~IsBare' => report'.units = Units' /\ report'.zone = Zone'
      BY <3>2, <3>3
    <3> QED
      BY <2>1, <2>2, <3>1, <3>3, <3>4 DEF SlipsInv, Same, KnownFormats, BareIsShipped, Bare
  <2>9. CASE Render
    <3>1. /\ stage = "parsed" /\ UNCHANGED loadVars /\ stage' \in {"reported", "refused"}
          /\ stage' = "reported" => report.zone \in LOCAL_OFFSETS \cup {None}
      <4>1. CASE report.zone # None /\ report.zone \notin LOCAL_OFFSETS
        BY <2>9, <4>1 DEF Render, End
      <4>2. CASE report.zone \in LOCAL_OFFSETS \cup {None}
        BY <2>9, <4>2 DEF Render, End
      <4> QED
        BY <4>1, <4>2
    <3>2. IsBare' = IsBare /\ Units' = Units /\ Zone' = Zone
      BY <3>1 DEF loadVars, IsBare, Units, Zone, Shape, DataCells, Cells
    <3> QED
      BY <2>1, <2>2, <3>1, <3>2 DEF SlipsInv, Same, loadVars, KnownFormats, BareIsShipped, Bare
  <2> QED
    BY <1>3, <2>3, <2>4, <2>5, <2>6, <2>7, <2>8, <2>9 DEF Main, Inspect
<1> QED
  BY <1>1, <1>2, <1>3 DEF Next

(* What a pattern captures where it finds one cell is a text of its table. *)
LEMMA CapturedIsAText ==
  ASSUME NEW pattern \in DOMAIN Regexes, NEW cells, NEW group,
         FoundOnce(pattern, cells), group \in Regexes[pattern].groups
  PROVE  \E cell \in DOMAIN Regexes[pattern].captures :
           Captured(pattern, cells, group) = Regexes[pattern].captures[cell][group]
<1>1. Found(pattern, cells) # {}
  BY FS_EmptySet DEF FoundOnce
<1>2. (CHOOSE c \in Found(pattern, cells) : TRUE) \in Found(pattern, cells)
  BY <1>1
<1>3. (CHOOSE c \in Found(pattern, cells) : TRUE) \in DOMAIN Regexes[pattern].captures
  BY <1>2 DEF Found
<1> QED
  BY <1>3 DEF Captured

(* The patterns of an accepted format compile, and a declared zone is one  *)
(* they capture.                                                           *)
LEMMA AcceptedPatternsCompile ==
  ASSUME NEW doc, AcceptsDocument(doc), NEW id \in DOMAIN SourceCatalogue(doc)
  PROVE  LET data == SourceCatalogue(doc)[id].data
         IN  /\ data.value_column \in DOMAIN Regexes /\ data.timestamp_column \in DOMAIN Regexes
             /\ "timezone" \in data.header_declares =>
                  "timezone" \in Regexes[data.timestamp_column].groups
<1> DEFINE raw == Entries(doc)[id]
           source == Get(raw, "data")
<1>1. id \in DOMAIN Entries(doc) /\ SourceCatalogue(doc)[id] = SourceFormat(raw)
  BY DEF SourceCatalogue
<1>2. FormatAccepted(raw)
  BY <1>1 DEF AcceptsDocument, RefusesDocument, CrashesOnDocument, HasRefusedEntry, HasNoEntry
<1>3. DataAccepted(source)
  BY <1>2 DEF FormatAccepted
<1>4. SourceCatalogue(doc)[id].data = DataSpec(source)
  BY <1>1 DEF SourceFormat
<1> HIDE DEF raw, source
<1>5. /\ Pattern(Get(source, "value_column")) \in DOMAIN Regexes
      /\ Pattern(Get(source, "timestamp_column")) \in DOMAIN Regexes
  BY <1>3 DEF DataAccepted, Compiles
<1>6. "timezone" \in DeclaredFacts(source) => "timezone" \in Groups(Get(source, "timestamp_column"))
  <2>1. "timezone" \in DOMAIN DECLARABLE_FACTS /\ DECLARABLE_FACTS["timezone"] = "timestamp_column"
    BY DEF DECLARABLE_FACTS
  <2> QED
    BY <1>3, <2>1 DEF DataAccepted, DeclaresWhatItCaptures
<1> QED
  BY <1>4, <1>5, <1>6 DEF DataSpec, Groups

(* Slips of the hand in the catalogue cost a complete source no more than  *)
(* its log and the check of its numbering (parse_source_catalogue, the     *)
(* readers, the gate): for any slips that do not hide the vendor's files   *)
(* and let the bare entry pass for theirs at the same time, and leave the  *)
(* zone declared, in a directory whose headers state one unit and zone.    *)
THEOREM SlipsCostNoMore ==
  ASSUME SlipsAreApart, OneUnitAndZone
  PROVE  Spec => []SlipsCostOnlyLogAndNumbering
<1>1. ASSUME SelectionInv, SlipsInv PROVE SlipsCostOnlyLogAndNumbering
  <2> SUFFICES ASSUME stage = "reported", exit = EXIT_PRODUCED, changes = 0, WholeSource
               PROVE  /\ format # "generic_csv"
                      /\ report.units = Kinds["vendor"].units /\ report.zone = Kinds["vendor"].zone
                      /\ report.statistics = Kinds[read["details"]].statistics
                      /\ Kinds[read["details"]].statistics # "none" => report.dates = "written"
    BY DEF SlipsCostOnlyLogAndNumbering
  <2> USE DEF Loading, Selected, HasRead
  <2>1. /\ AcceptsDocument(document) /\ catalogue = SourceCatalogue(document)
        /\ KnownFormats /\ format \in Formats /\ format \in DOMAIN catalogue
        /\ IF IsBare THEN DataLocated ELSE VendorReads
        /\ ~GateRefused
    BY <1>1 DEF SlipsInv, SelectionInv
  <2>2. ~IsBare
    <3> SUFFICES ASSUME IsBare PROVE FALSE
      OBVIOUS
    <3>1. BareIsShipped /\ read["data"] = "vendor" /\ DataLocated
      BY <1>1, <2>1 DEF SlipsInv
    <3>2. Shape = Shipped["generic_csv"]
      BY <3>1 DEF Shape, IsBare, BareIsShipped, Bare
    <3>3. DataCells = Kinds["vendor"].header
      BY <3>1, HeaderIsFirst DEF DataLocated, DataCells
    <3> QED
      BY <3>1, <3>2, <3>3, PackagedAssumption DEF DataLocated, Shipped
  <2>3. /\ report.units = Units /\ report.zone = Zone /\ report.statistics = Statistics
        /\ VendorReads /\ report.zone \in LOCAL_OFFSETS \cup {None}
    BY <1>1, <2>1, <2>2 DEF SlipsInv, SelectionInv
  <2>4. /\ FoundOnce(Shape.data.timestamp_column, DataCells)
        /\ FoundOnce(Shape.data.value_column, DataCells)
        /\ Units \in KnownUnits
    BY <2>3 DEF VendorReads, DataLocated, StatementsAgree
  <2>5. /\ Shape.data.value_column \in DOMAIN Regexes /\ Shape.data.timestamp_column \in DOMAIN Regexes
        /\ "timezone" \in Regexes[Shape.data.timestamp_column].groups
    <3>1. Recognisable(catalogue, Shipped)
      BY <1>1, <2>1 DEF SlipsInv, SlipsAreApart, KnownFormats, Shipped
    <3>2. "timezone" \in Shape.data.header_declares
      BY <2>1, <2>2, <3>1 DEF Recognisable, Shape, IsBare
    <3> QED
      BY <2>1, <3>2, AcceptedPatternsCompile DEF Shape
  <2>6. Units = Kinds["vendor"].units
    <3>1. "unit" \in Regexes[Shape.data.value_column].groups
      BY <2>4, ContentsAssumption DEF Units, Captured
    <3>2. PICK cell \in DOMAIN Regexes[Shape.data.value_column].captures :
            Units = Regexes[Shape.data.value_column].captures[cell]["unit"]
      BY <2>4, <2>5, <3>1, CapturedIsAText DEF Units
    <3> QED
      BY <2>4, <2>5, <3>1, <3>2 DEF OneUnitAndZone
  <2>7. Zone = Kinds["vendor"].zone
    <3>1. PICK cell \in DOMAIN Regexes[Shape.data.timestamp_column].captures :
            Zone = Regexes[Shape.data.timestamp_column].captures[cell]["timezone"]
      BY <2>4, <2>5, CapturedIsAText DEF Zone
    <3>2. Zone # None
      BY <2>5, <3>1 DEF OneUnitAndZone
    <3> QED
      BY <2>3, <2>5, <3>1, <3>2 DEF OneUnitAndZone
  <2> QED
    BY <2>1, <2>2, <2>3, <2>6, <2>7 DEF IsBare, Statistics, GateRefused
<1>2. SelectionInv /\ SlipsInv /\ [Next]_vars => SlipsInv'
  BY SlipsInvStep
<1>3. Spec => []SlipsInv
  BY <1>2, SlipsInvInit, SelectionInvAlways, PTL DEF Spec
<1> QED
  BY <1>1, <1>3, SelectionInvAlways, PTL
=============================================================================
