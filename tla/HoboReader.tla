----------------------------- MODULE HoboReader -----------------------------
(***************************************************************************)
(* Reading a HOBOconnect export (instruments/onset/hoboconnect.py): the    *)
(* details and the event table (Details, EventLog), then what the reader   *)
(* makes of them next to what the data table's header declares.  The data  *)
(* table's rows are in DataTable.                                          *)
(*                                                                         *)
(* An export states its unit twice and its zone up to four times.  It may  *)
(* have passed through other hands: one statement may say something else   *)
(* than the others, and rows of either table may have been edited.  A      *)
(* value the vendor wrote is modelled by the key it was written for and    *)
(* the zone it names.                                                      *)
(***************************************************************************)
EXTENDS Details, EventLog, FiniteSets

CONSTANTS
  Exports,          \* what a file may state and hold before its rows are edited
  TrueUnit, TrueZone,
  UNIT_SYMBOLS,     \* the units the reader knows, and the symbol of each
  EventTypes,       \* an event column's label -> the type it is normalised to
  MaxEdits          \* model bound

DEVICE_INFO == "Device Info"
DEPLOYMENT_INFO == "Deployment Info"
SERIES_STATISTICS == "Series Statistics"
StatisticKeys ==
  {"Samples", "Max", "Min", "Avg", "Std Dev", "First Sample Time", "Last Sample Time"}
SampleTimes == {"First Sample Time", "Last Sample Time"}

(* The entries the metadata is taken from, and those of them that are      *)
(* converted: a number, an interval or a mode is never empty text.         *)
RequiredEntries ==
  [product |-> <<DEVICE_INFO, "Product">>,
   serial |-> <<DEVICE_INFO, "Serial Number">>,
   deployment_number |-> <<DEPLOYMENT_INFO, "Deployment Number">>,
   interval_s |-> <<DEPLOYMENT_INFO, "Logging Interval">>,
   logging_mode |-> <<DEPLOYMENT_INFO, "Logging Mode">>]
Converted == {"deployment_number", "interval_s", "logging_mode"}
Firmware == <<DEVICE_INFO, "Firmware Version">>

ASSUME MaxEditsAssumption == MaxEdits \in Nat

(* The vendor states a unit the reader knows. *)
ASSUME UnitsAssumption ==
  TrueUnit \in DOMAIN UNIT_SYMBOLS /\ None \notin DOMAIN UNIT_SYMBOLS

-----------------------------------------------------------------------------
(* What stands in a file, read off its rows alone.  A file is a record of  *)
(* its two tables and of what its headers declare.                         *)
ValuesOf(file, e) ==
  {ValueOf(file.details[i]) : i \in {j \in DOMAIN file.details : IsFiled(file.details, e, j)}}

DetailsWellFormed(rows) ==
  /\ \A i \in DOMAIN rows : HoldsKey(rows[i]) => FiledFrom(rows, i) # {}
  /\ \A i, j \in DOMAIN rows : i < j /\ HoldsKey(rows[i]) /\ HoldsKey(rows[j]) =>
       ~\E g \in FiledFrom(rows, i), h \in FiledFrom(rows, j) :
           <<rows[g].heading, rows[i].key>> = <<rows[h].heading, rows[j].key>>
  /\ \A i, j \in DOMAIN rows : DeclaresSeries(rows[i]) /\ DeclaresSeries(rows[j]) =>
       rows[i].unit = rows[j].unit

UnitsWellFormed(file) ==
  \E i \in DOMAIN file.details :
    /\ DeclaresSeries(file.details[i])
    /\ {file.details[i].unit, file.dataUnit} \subseteq DOMAIN UNIT_SYMBOLS
    /\ UNIT_SYMBOLS[file.details[i].unit] = UNIT_SYMBOLS[file.dataUnit]

StatisticsWellFormed(file) ==
  LET Of(key) == ValuesOf(file, <<SERIES_STATISTICS, key>>)
  IN  \/ \A i \in DOMAIN file.details : Of(file.details[i].key) = {}
      \/ /\ \A key \in StatisticKeys : Of(key) # {} /\ EmptyText \notin Of(key)
         /\ \A key \in SampleTimes : \A value \in Of(key) : value.zone = file.dataZone

(* A mark stands under a column that the header names.                     *)
MarksOf(file) ==
  {m \in (DOMAIN file.log) \X (DOMAIN file.columns) :
     /\ file.columns[m[2]] # Empty /\ file.columns[m[2]] # SampleNumber
     /\ file.log[m[1]].cells[m[2]] # Empty}

LogWellFormed(file) ==
  /\ \A i \in DOMAIN file.log :
       IsEmptyRow(file.columns, file.log[i]) \/ IsEvent(file.columns, file.log[i])
  /\ file.logZone = file.dataZone
  /\ \A m \in MarksOf(file) : file.columns[m[2]] \in DOMAIN EventTypes

WellFormed(file) ==
  /\ DetailsWellFormed(file.details) /\ LogWellFormed(file)
  /\ UnitsWellFormed(file) /\ StatisticsWellFormed(file)
  /\ \A field \in DOMAIN RequiredEntries : ValuesOf(file, RequiredEntries[field]) # {}
  /\ \A field \in Converted : EmptyText \notin ValuesOf(file, RequiredEntries[field])

(* The events of a log: one for each mark, row by row and from the left.   *)
MarksUpTo(file, m) ==
  {x \in MarksOf(file) : x[1] < m[1] \/ (x[1] = m[1] /\ x[2] <= m[2])}

AreTheEventsOf(evs, file) ==
  /\ Len(evs) = Cardinality(MarksOf(file))
  /\ \A m \in MarksOf(file) :
       /\ file.columns[m[2]] \in DOMAIN EventTypes
       /\ evs[Cardinality(MarksUpTo(file, m))] =
            [at |-> file.log[m[1]].stamp, event_type |-> EventTypes[file.columns[m[2]]]]

-----------------------------------------------------------------------------
(* The vendor writes each value next to the key it is for, and a cell      *)
(* under every cell of the event header.                                   *)
IsSequence(s) == s \in Seq({s[i] : i \in DOMAIN s})
ASSUME ExportsAssumption ==
  \A x \in Exports :
    /\ IsSequence(x.details) /\ IsSequence(x.columns) /\ IsSequence(x.log) /\ IsSequence(x.logged)
    /\ x.edits \in Nat
    /\ \A i \in DOMAIN x.details :
         /\ DOMAIN x.details[i] = {"unit", "heading", "key", "value"}
         /\ x.details[i].key # None => x.details[i].value.of = x.details[i].key
    /\ \A i \in DOMAIN x.log : /\ DOMAIN x.log[i] = {"stamp", "cells"}
                               /\ DOMAIN x.log[i].cells = DOMAIN x.columns

(* It writes a sample time once.                                           *)
ASSUME SampleTimesAssumption ==
  /\ None \notin SampleTimes
  /\ \A x \in Exports : \A i, j \in DOMAIN x.details :
       (x.details[i].key \in SampleTimes /\ x.details[j].key = x.details[i].key) => i = j

(* A file nobody touched is well formed, and its log is what was logged.   *)
ASSUME VendorAssumption ==
  \A x \in Exports : x.edits = 0 => WellFormed(x) /\ AreTheEventsOf(x.logged, x)

VARIABLES
  dataUnit, dataZone,    \* what the data header declares
  logZone,               \* what the event header declares
  logged,                \* what the logger logged, in order
  edits,                 \* how many edits were made; restating facts is one
  stage,                 \* where the read is, or how it ended
  units,                 \* the symbol of the unit
  published,             \* PublishedStatistics: key -> value, or None
  sourceEvents,          \* the events of the extraction
  metadata               \* ExtractedMetadata: field -> value

fileVars == <<detailRows, columns, logRows, dataUnit, dataZone, logZone, logged, edits>>
readVars == <<stage, units, published, sourceEvents, metadata>>
vars == <<fileVars, detailsVars, logVars, readVars>>

File == [details |-> detailRows, columns |-> columns, log |-> logRows,
         dataUnit |-> dataUnit, dataZone |-> dataZone, logZone |-> logZone]

NoMetadata == [f \in {} |-> None]

Init ==
  /\ \E x \in Exports :
       /\ dataUnit = x.dataUnit /\ dataZone = x.dataZone /\ logZone = x.logZone
       /\ detailRows = x.details /\ columns = x.columns /\ logRows = x.log
       /\ logged = x.logged /\ edits = x.edits
  /\ NothingFiled /\ NothingLogged
  /\ stage = "file" /\ units = None /\ published = None
  /\ sourceEvents = << >> /\ metadata = NoMetadata

-----------------------------------------------------------------------------
(* Other hands. *)
Edited ==
  /\ stage = "file" /\ edits < MaxEdits
  /\ edits' = edits + 1
  /\ UNCHANGED <<dataUnit, dataZone, logZone, logged, detailsVars, logVars, readVars>>

Without(rows, i) == [j \in 1..(Len(rows) - 1) |-> IF j < i THEN rows[j] ELSE rows[j + 1]]
Repeated(rows, i) == [j \in 1..(Len(rows) + 1) |-> IF j <= i THEN rows[j] ELSE rows[j - 1]]
Swapped(rows, i) == [rows EXCEPT ![i] = rows[i + 1], ![i + 1] = rows[i]]

EditDetails ==
  /\ Edited /\ UNCHANGED <<columns, logRows>>
  /\ \E i \in DOMAIN detailRows :
       \/ detailRows' = Without(detailRows, i)
       \/ detailRows' = Repeated(detailRows, i)
       \/ i < Len(detailRows) /\ detailRows' = Swapped(detailRows, i)
       \/ detailRows[i].key # None /\ \E cell \in {"key", "value"} :
            detailRows' = [detailRows EXCEPT ![i] = [detailRows[i] EXCEPT ![cell] = None]]

EditLog ==
  /\ Edited /\ UNCHANGED detailRows
  /\ \/ UNCHANGED columns /\ \E i \in DOMAIN logRows :
          \/ \E text \in {Empty, OtherText} :
               logRows' = [logRows EXCEPT ![i] = [logRows[i] EXCEPT !.stamp = text]]
          \/ logRows' = [logRows EXCEPT ![i] = [stamp |-> Empty, cells |-> [c \in DOMAIN columns |-> Empty]]]
          \/ \E c \in DOMAIN columns, text \in {Empty, Marker, OtherText} :
               logRows' = [logRows EXCEPT ![i] = [logRows[i] EXCEPT !.cells[c] = text]]
     \/ UNCHANGED logRows /\ \E c \in DOMAIN columns, text \in {Empty, OtherText} :
          columns' = [columns EXCEPT ![c] = text]

OtherHands == EditDetails \/ EditLog

-----------------------------------------------------------------------------
(* HOBOconnectReader.read.  Every refusal ends it.                         *)
SameFile == UNCHANGED fileVars
SameTables == UNCHANGED <<detailsVars, logVars>>
Then(next, holds) == stage' = IF holds THEN next ELSE "refused"

Open ==
  /\ stage = "file" /\ stage' = "details"
  /\ SameFile /\ SameTables /\ UNCHANGED <<units, published, sourceEvents, metadata>>

ParseDetails ==
  /\ stage = "details"
  /\ \/ ReadDetails /\ UNCHANGED stage
     \/ detailsParse # "reading" /\ Then("log", detailsParse = "parsed")
          /\ UNCHANGED <<detailRows, detailsVars>>
  /\ UNCHANGED <<columns, logRows, dataUnit, dataZone, logZone, logged, edits, logVars>>
  /\ UNCHANGED <<units, published, sourceEvents, metadata>>

ParseLog ==
  /\ stage = "log"
  /\ \/ ReadLog /\ UNCHANGED stage
     \/ logParse # "reading" /\ Then("units", logParse = "parsed")
          /\ UNCHANGED <<columns, logRows, logVars>>
  /\ UNCHANGED <<detailRows, dataUnit, dataZone, logZone, logged, edits, detailsVars>>
  /\ UNCHANGED <<units, published, sourceEvents, metadata>>

(* _units and _check_declared_unit: the details must declare a series, and *)
(* both statements must stand for the same symbol.                         *)
SlipSymbolAgainstText ==
  /\ dataUnit \in DOMAIN UNIT_SYMBOLS
  /\ series = UNIT_SYMBOLS[dataUnit]

UnitsAgree ==
  /\ dataUnit \in DOMAIN UNIT_SYMBOLS
  /\ series # None /\ series \in DOMAIN UNIT_SYMBOLS
  /\ UNIT_SYMBOLS[series] = UNIT_SYMBOLS[dataUnit]

CheckUnits ==
  /\ stage = "units" /\ Then("statistics", UnitsAgree)
  /\ units' = IF UnitsAgree THEN UNIT_SYMBOLS[dataUnit] ELSE None
  /\ SameFile /\ SameTables /\ UNCHANGED <<published, sourceEvents, metadata>>

(* _statistics: none at all is a note, some of them a KeyError.  The text  *)
(* of each is converted, and a sample time has to name the header's zone.  *)
PublishedKeys == {e[2] : e \in {x \in DOMAIN entries : x[1] = SERIES_STATISTICS}}
Statistic(key) == entries[<<SERIES_STATISTICS, key>>]

SlipSomeStatistics == \A key \in PublishedKeys \cap StatisticKeys : Statistic(key) # EmptyText

StatisticsReadable ==
  /\ StatisticKeys \subseteq PublishedKeys
  /\ \A key \in StatisticKeys : Statistic(key) # EmptyText
  /\ \A key \in SampleTimes : Statistic(key).zone = dataZone

ReadStatistics ==
  /\ stage = "statistics"
  /\ Then("events", PublishedKeys # {} => StatisticsReadable)
  /\ published' = IF PublishedKeys # {} /\ StatisticsReadable
                  THEN [key \in PublishedKeys \cap StatisticKeys |-> Statistic(key)] ELSE None
  /\ SameFile /\ SameTables /\ UNCHANGED <<units, sourceEvents, metadata>>

(* _events: a label outside the vocabulary is refused, never dropped.      *)
SlipLogZoneUnchecked == \A i \in DOMAIN events : events[i].label \in DOMAIN EventTypes

LogUnderstood ==
  /\ logZone = dataZone
  /\ \A i \in DOMAIN events : events[i].label \in DOMAIN EventTypes

Typed(event) == [at |-> event.at, event_type |-> EventTypes[event.label]]

ReadEvents ==
  /\ stage = "events" /\ Then("metadata", LogUnderstood)
  /\ sourceEvents' = IF LogUnderstood THEN [i \in DOMAIN events |-> Typed(events[i])] ELSE << >>
  /\ SameFile /\ SameTables /\ UNCHANGED <<units, published, metadata>>

(* _metadata *)
LookedUp(entry) == IF entry \in DOMAIN entries THEN entries[entry] ELSE None
Stated(field) == LookedUp(RequiredEntries[field])

SlipLookupsOptional == \A field \in Converted : Stated(field) \notin {None, EmptyText}

MetadataReadable ==
  /\ \A field \in DOMAIN RequiredEntries : Stated(field) # None
  /\ \A field \in Converted : Stated(field) # EmptyText

ReadMetadata ==
  /\ stage = "metadata" /\ Then("read", MetadataReadable)
  /\ metadata' =
       IF MetadataReadable
       THEN [field \in DOMAIN RequiredEntries \cup {"units", "source_timezone_label", "firmware"} |->
               CASE field = "units" -> units
                 [] field = "source_timezone_label" -> dataZone
                 [] field = "firmware" -> LookedUp(Firmware)
                 [] OTHER -> Stated(field)]
       ELSE NoMetadata
  /\ SameFile /\ SameTables /\ UNCHANGED <<units, published, sourceEvents>>

ReadStep ==
  \/ Open \/ ParseDetails \/ ParseLog \/ CheckUnits
  \/ ReadStatistics \/ ReadEvents \/ ReadMetadata

Next == OtherHands \/ ReadStep
Spec == Init /\ [][Next]_vars

-----------------------------------------------------------------------------
(* A wrong unit gets through only where both statements of it are wrong, a *)
(* wrong zone only where the data header, the event header and both sample *)
(* times are, the last unless the statistics are gone as well; whatever    *)
(* happened to the rows (the four cross-checks of the reader).             *)
WrongUnitIsRefused ==
  stage = "read" /\ metadata["units"] # UNIT_SYMBOLS[TrueUnit] =>
    dataUnit # TrueUnit /\ \A i \in DOMAIN detailRows : detailRows[i].unit # TrueUnit

SampleTimeRows(rows) == {i \in DOMAIN rows : rows[i].key \in SampleTimes /\ rows[i].value # None}

WrongZoneIsRefused ==
  stage = "read" /\ metadata["source_timezone_label"] # TrueZone =>
    /\ logZone # TrueZone
    /\ \/ published = None
       \/ \A i \in SampleTimeRows(detailRows) : detailRows[i].value.zone # TrueZone

OneWrongStatementIsRefused == WrongUnitIsRefused /\ WrongZoneIsRefused

(* The gate gets everything the vendor published or is told there is       *)
(* nothing: a row lost from the statistics never leaves a smaller set to   *)
(* reproduce, and each value is the one written for its key.               *)
StatisticsAreWhole ==
  stage = "read" /\ published # None =>
    /\ DOMAIN published = StatisticKeys
    /\ \A key \in StatisticKeys : published[key].of = key

(* No edit makes the source state what the vendor wrote for another field, *)
(* and none makes it silent on a required one; the worst an accepted file  *)
(* does is to state a blank.                                               *)
FieldsAreWhatWasWritten ==
  stage = "read" =>
    /\ \A field \in DOMAIN RequiredEntries :
         /\ metadata[field] # None
         /\ metadata[field] = EmptyText \/ metadata[field].of = RequiredEntries[field][2]
    /\ metadata["firmware"] \in {None, EmptyText} \/ metadata["firmware"].of = Firmware[2]

(* The log is read whole and in order, as far as its header names it: an  *)
(* accepted read has an event for every mark under a named column, at the  *)
(* mark's rank, and no other event, and of a file nobody touched these are *)
(* the logger's.  What stands under a header cell that was emptied is not  *)
(* read, and nothing says so: that is the one way to lose a mark, for a    *)
(* text or a label the parser does not know is refused (parse_events).     *)
NamedMarksAreRead ==
  stage = "read" => AreTheEventsOf(sourceEvents, File) /\ (edits = 0 => sourceEvents = logged)

(* Whether a file is read is decided by what stands in it: none that is    *)
(* well formed is refused, so none that nobody touched, and no other is    *)
(* read.  To be well formed takes a stamp that can be read and a known     *)
(* label wherever something is marked under a name; what stands under no   *)
(* name may be anything.                                                   *)
WellFormedIsRead ==
  /\ stage = "read" => WellFormed(File)
  /\ stage = "refused" => ~WellFormed(File) /\ edits # 0
=============================================================================
