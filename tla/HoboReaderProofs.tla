-------------------------- MODULE HoboReaderProofs --------------------------
(***************************************************************************)
(* What holds of every read of an export that passed through other hands,  *)
(* for any export, any number of edits and any vocabulary.                 *)
(*                                                                         *)
(* The details parser files an entry under the heading in force, so the    *)
(* invariant has to say what is in force: the nearest heading above the    *)
(* row to read.  What the vendor wrote for a key stays beside it, because  *)
(* an edit moves or empties cells; hence an entry is empty or holds what   *)
(* was written for its own key.                                            *)
(*                                                                         *)
(* The events read so far are the marks of the rows above, each at its     *)
(* rank among them.  And once a table is read, what the reader checks of   *)
(* its parse is what being well formed says of its rows, so the reader's   *)
(* verdict is a predicate of the file.                                     *)
(***************************************************************************)
EXTENDS HoboReader, SequenceTheorems, FiniteSetTheorems, TLAPS

SectionInv ==
  \/ section = None /\ \A j \in Above : ~HeadsSection(detailRows[j])
  \/ \E h \in Above : Governs(detailRows, h, detailAt) /\ detailRows[h].heading = section

Written(row) ==
  /\ DOMAIN row = {"unit", "heading", "key", "value"}
  /\ row.key # None => row.value = None \/ row.value.of = row.key

WrittenInv ==
  /\ IsSequence(detailRows)
  /\ \A i \in DOMAIN detailRows : Written(detailRows[i])
  /\ \A e \in DOMAIN entries :
       e = <<e[1], e[2]>> /\ (entries[e] = EmptyText \/ entries[e].of = e[2])

FiledInv == detailAt \in Nat \ {0} /\ SectionInv /\ EntriesAreUnderTheirHeading

Whole(statistics) ==
  /\ DOMAIN statistics = StatisticKeys
  /\ \A key \in StatisticKeys : statistics[key].of = key

ReaderInv ==
  /\ stage = "file" => NothingFiled
  /\ FiledInv /\ WrittenInv
  /\ published = None \/ Whole(published)
  /\ FieldsAreWhatWasWritten

-----------------------------------------------------------------------------
(* The parser. *)

LEMMA NothingFiledYet == ASSUME NothingFiled PROVE FiledInv
BY DEF NothingFiled, FiledInv, SectionInv, EntriesAreUnderTheirHeading, IsFiled, Above

(* Only the rows above matter, so a step that moves on keeps what was said *)
(* of them.                                                                *)
LEMMA DetailsKept ==
  ASSUME FiledInv, UNCHANGED <<detailRows, detailAt, entries, series, section>> PROVE FiledInv'
<1>1. /\ detailRows' = detailRows /\ detailAt' = detailAt /\ entries' = entries
      /\ series' = series /\ section' = section
  OBVIOUS
<1>2. (\A h, i : Governs(detailRows, h, i)' = Governs(detailRows, h, i)) /\ (\A i : FiledFrom(detailRows, i)' = FiledFrom(detailRows, i))
  BY <1>1 DEF Governs, FiledFrom
<1>3. SectionInv'
  BY <1>1, <1>2 DEF FiledInv, SectionInv, Above, Governs
<1>4. EntriesAreUnderTheirHeading'
  BY <1>1 DEF FiledInv, EntriesAreUnderTheirHeading, Above, ValueOf, HoldsKey, HeadsSection, DeclaresSeries
<1> QED
  BY <1>1, <1>3, <1>4 DEF FiledInv

LEMMA NextAbove ==
  ASSUME detailAt \in Nat \ {0}, NextDetail
  PROVE  Above' = Above \cup {detailAt} /\ detailAt \notin Above
BY DEF NextDetail, Above

LEMMA HeadingStays ==
  ASSUME FiledInv, NextDetail, section' = section, ~HeadsSection(Detail)
  PROVE  SectionInv'
<1>1. detailRows' = detailRows /\ detailAt' = detailAt + 1 /\ detailAt \in Nat \ {0}
  BY DEF NextDetail, FiledInv
<1>2. CASE section = None /\ \A j \in Above : ~HeadsSection(detailRows[j])
  BY <1>1, <1>2, NextAbove DEF SectionInv, Detail
<1>3. CASE \E h \in Above : Governs(detailRows, h, detailAt) /\ detailRows[h].heading = section
  <2>1. PICK h \in Above : Governs(detailRows, h, detailAt) /\ detailRows[h].heading = section
    BY <1>3
  <2>2. Governs(detailRows, h, detailAt)'
    BY <1>1, <2>1 DEF Governs, Detail, Above
  <2> QED
    BY <1>1, <2>1, <2>2, NextAbove DEF SectionInv
<1> QED
  BY <1>2, <1>3 DEF FiledInv, SectionInv

LEMMA FiledStep == ASSUME FiledInv, ReadDetails PROVE FiledInv'
<1> DEFINE Filed(i, filed) == \E h \in FiledFrom(detailRows, i) :
             LET e == <<detailRows[h].heading, detailRows[i].key>>
             IN  e \in DOMAIN filed /\ filed[e] = ValueOf(detailRows[i])
           Backed(e, i) == IsFiled(detailRows, e, i)
<1>0. /\ detailAt \in Nat \ {0}
      /\ \A i \in Above : HoldsKey(detailRows[i]) => Filed(i, entries)
      /\ \A e \in DOMAIN entries : \E i \in Above : Backed(e, i)
      /\ \A i \in Above : DeclaresSeries(detailRows[i]) => series = detailRows[i].unit
  BY DEF FiledInv, EntriesAreUnderTheirHeading, IsFiled
<1>1. CASE DeclareSeries
  <2>1. NextDetail /\ UNCHANGED <<entries, section>> /\ series' = Detail.unit
        /\ DeclaresSeries(Detail) /\ series \in {None, Detail.unit}
    BY <1>1 DEF DeclareSeries
  <2>2. SectionInv'
    BY <2>1, HeadingStays DEF HeadsSection
  <2>3. detailRows' = detailRows /\ detailAt' \in Nat \ {0}
    BY <1>0, <2>1 DEF NextDetail
  <2>4. \A i \in Above' : DeclaresSeries(detailRows[i]) => series' = detailRows[i].unit
    BY <1>0, <2>1, NextAbove DEF Detail, DeclaresSeries
  <2>5. EntriesAreUnderTheirHeading'
    BY <1>0, <2>1, <2>3, <2>4, NextAbove
    DEF EntriesAreUnderTheirHeading, IsFiled, FiledFrom, Governs, HoldsKey, Detail
  <2> QED
    BY <2>2, <2>3, <2>5 DEF FiledInv
<1>2. CASE EnterSection
  <2>1. NextDetail /\ UNCHANGED <<entries, series>> /\ section' = Detail.heading
        /\ HeadsSection(Detail)
    BY <1>2 DEF EnterSection
  <2>2. detailRows' = detailRows /\ detailAt' = detailAt + 1 /\ detailAt' \in Nat \ {0}
    BY <1>0, <2>1 DEF NextDetail
  <2>3. Governs(detailRows, detailAt, detailAt + 1)
    BY <1>0, <2>1 DEF Governs, Detail
  <2>4. SectionInv'
    BY <1>0, <2>1, <2>2, <2>3, NextAbove DEF SectionInv, Governs, Detail
  <2>5. EntriesAreUnderTheirHeading'
    BY <1>0, <2>1, <2>2, NextAbove
    DEF EntriesAreUnderTheirHeading, IsFiled, FiledFrom, Governs, HoldsKey, HeadsSection, Detail
  <2> QED
    BY <2>2, <2>4, <2>5 DEF FiledInv
<1>3. CASE SkipKeyless
  <2>1. NextDetail /\ UNCHANGED <<entries, series, section>>
        /\ ~DeclaresSeries(Detail) /\ ~HeadsSection(Detail) /\ ~HoldsKey(Detail)
    BY <1>3 DEF SkipKeyless
  <2>2. SectionInv'
    BY <2>1, HeadingStays
  <2>3. detailRows' = detailRows /\ detailAt' \in Nat \ {0}
    BY <1>0, <2>1 DEF NextDetail
  <2>4. EntriesAreUnderTheirHeading'
    BY <1>0, <2>1, <2>3, NextAbove DEF EntriesAreUnderTheirHeading, IsFiled, FiledFrom, Governs, Detail
  <2> QED
    BY <2>2, <2>3, <2>4 DEF FiledInv
<1>4. CASE FileEntry
  <2> DEFINE new == Entry(Detail)
  <2>1. /\ NextDetail /\ UNCHANGED <<series, section>>
        /\ HoldsKey(Detail) /\ section # None /\ new \notin DOMAIN entries
        /\ DOMAIN entries' = DOMAIN entries \cup {new}
        /\ entries'[new] = ValueOf(Detail)
        /\ \A e \in DOMAIN entries : entries'[e] = entries[e]
    BY <1>4 DEF FileEntry, CanBeFiled
  <2>2. SectionInv'
    BY <2>1, HeadingStays DEF HoldsKey
  <2>3. detailRows' = detailRows /\ detailAt' \in Nat \ {0}
    BY <1>0, <2>1 DEF NextDetail
  <2>4. PICK h \in Above : Governs(detailRows, h, detailAt) /\ detailRows[h].heading = section
    BY <2>1 DEF FiledInv, SectionInv
  <2>5. h \in FiledFrom(detailRows, detailAt) /\ new = <<detailRows[h].heading, detailRows[detailAt].key>>
    BY <2>4 DEF FiledFrom, Above, Entry, Detail
  <2>6. Filed(detailAt, entries')
    BY <2>1, <2>3, <2>5 DEF FiledFrom, Governs, Detail, ValueOf
  <2>7. \A i \in Above : HoldsKey(detailRows[i]) => Filed(i, entries')
    BY <1>0, <2>1, <2>3 DEF FiledFrom, Governs, ValueOf
  <2>8. Backed(new, detailAt)
    BY <2>1, <2>5 DEF Detail, IsFiled
  <2>9. \A e \in DOMAIN entries' : \E i \in Above' : Backed(e, i)
    BY <1>0, <2>1, <2>8, NextAbove
  <2>10. \A i \in Above' : DeclaresSeries(detailRows[i]) => series' = detailRows[i].unit
    BY <1>0, <2>1, NextAbove DEF HoldsKey, Detail
  <2>11. \A i \in Above' : HoldsKey(detailRows[i]) => Filed(i, entries')
    <3> SUFFICES ASSUME NEW i \in Above', HoldsKey(detailRows[i]) PROVE Filed(i, entries')
      OBVIOUS
    <3>1. CASE i = detailAt
      BY <2>6, <3>1
    <3>2. CASE i \in Above
      BY <2>7, <3>2
    <3> QED
      BY <1>0, <2>1, <3>1, <3>2, NextAbove
  <2>12. EntriesAreUnderTheirHeading'
    BY <2>3, <2>9, <2>10, <2>11 DEF EntriesAreUnderTheirHeading, IsFiled, FiledFrom, Governs
  <2> QED
    BY <2>2, <2>3, <2>12 DEF FiledInv
<1>5. CASE RefuseDetail \/ EndOfDetails
  BY <1>5, DetailsKept DEF RefuseDetail, EndOfDetails
<1> QED
  BY <1>1, <1>2, <1>3, <1>4, <1>5 DEF ReadDetails

-----------------------------------------------------------------------------
(* The edits. *)

LEMMA SequenceHas ==
  ASSUME NEW s, IsSequence(s)
  PROVE  Len(s) \in Nat /\ DOMAIN s = 1..Len(s)
BY LenProperties DEF IsSequence

LEMMA FunctionIsSequence ==
  ASSUME NEW n \in Nat, NEW s, s = [j \in 1..n |-> s[j]]
  PROVE  IsSequence(s)
BY SeqDef DEF IsSequence

LEMMA DetailsEdited ==
  ASSUME WrittenInv, EditDetails
  PROVE  IsSequence(detailRows') /\ \A i \in DOMAIN detailRows' : Written(detailRows'[i])
<1>1. PICK i \in DOMAIN detailRows :
        \/ detailRows' = Without(detailRows, i)
        \/ detailRows' = Repeated(detailRows, i)
        \/ i < Len(detailRows) /\ detailRows' = Swapped(detailRows, i)
        \/ detailRows[i].key # None /\ \E cell \in {"key", "value"} :
             detailRows' = [detailRows EXCEPT ![i] = [detailRows[i] EXCEPT ![cell] = None]]
  BY DEF EditDetails
<1>2. /\ Len(detailRows) \in Nat /\ DOMAIN detailRows = 1..Len(detailRows)
      /\ detailRows = [j \in 1..Len(detailRows) |-> detailRows[j]]
      /\ \A j \in DOMAIN detailRows : Written(detailRows[j])
  <2>1. IsSequence(detailRows)
    BY DEF WrittenInv
  <2> QED
    BY <2>1, SequenceHas, SeqDef DEF WrittenInv, IsSequence
<1>3. CASE detailRows' = Without(detailRows, i)
  <2>1. Len(detailRows) - 1 \in Nat /\ detailRows' = [j \in 1..(Len(detailRows) - 1) |-> detailRows'[j]]
    BY <1>2, <1>3 DEF Without
  <2>2. \A j \in DOMAIN detailRows' : \E k \in DOMAIN detailRows : detailRows'[j] = detailRows[k]
    BY <1>2, <1>3 DEF Without
  <2> QED
    BY <1>2, <2>1, <2>2, FunctionIsSequence
<1>4. CASE detailRows' = Repeated(detailRows, i)
  <2>1. Len(detailRows) + 1 \in Nat /\ detailRows' = [j \in 1..(Len(detailRows) + 1) |-> detailRows'[j]]
    BY <1>2, <1>4 DEF Repeated
  <2>2. \A j \in DOMAIN detailRows' : \E k \in DOMAIN detailRows : detailRows'[j] = detailRows[k]
    BY <1>2, <1>4 DEF Repeated
  <2> QED
    BY <1>2, <2>1, <2>2, FunctionIsSequence
<1>5. CASE i < Len(detailRows) /\ detailRows' = Swapped(detailRows, i)
  <2>1. detailRows' = [j \in 1..Len(detailRows) |-> detailRows'[j]]
    BY <1>2, <1>5 DEF Swapped
  <2>2. \A j \in DOMAIN detailRows' : \E k \in DOMAIN detailRows : detailRows'[j] = detailRows[k]
    BY <1>2, <1>5 DEF Swapped
  <2> QED
    BY <1>2, <2>1, <2>2, FunctionIsSequence
<1>6. ASSUME NEW cell \in {"key", "value"},
             detailRows' = [detailRows EXCEPT ![i] = [detailRows[i] EXCEPT ![cell] = None]]
      PROVE  IsSequence(detailRows') /\ \A j \in DOMAIN detailRows' : Written(detailRows'[j])
  <2>1. detailRows' = [j \in 1..Len(detailRows) |-> detailRows'[j]]
    BY <1>2, <1>6
  <2>2. Written([detailRows[i] EXCEPT ![cell] = None])
    BY <1>2 DEF Written
  <2>3. \A j \in DOMAIN detailRows' : Written(detailRows'[j])
    BY <1>2, <1>6, <2>2
  <2> QED
    BY <1>2, <2>1, <2>3, FunctionIsSequence
<1> QED
  BY <1>1, <1>3, <1>4, <1>5, <1>6

-----------------------------------------------------------------------------
(* The reader. *)

LEMMA WrittenStep == ASSUME FiledInv, WrittenInv, ReadDetails PROVE WrittenInv'
<1>1. detailRows' = detailRows
  BY DEF ReadDetails, DeclareSeries, EnterSection, SkipKeyless, FileEntry, RefuseDetail,
         EndOfDetails, NextDetail
<1>2. CASE FileEntry
  <2>1. /\ HoldsKey(Detail) /\ detailAt <= Len(detailRows)
        /\ DOMAIN entries' = DOMAIN entries \cup {Entry(Detail)}
        /\ entries'[Entry(Detail)] = ValueOf(Detail)
        /\ \A e \in DOMAIN entries : e # Entry(Detail) => entries'[e] = entries[e]
    BY <1>2 DEF FileEntry, AtDetail
  <2>2. Written(Detail)
    BY <2>1, SequenceHas DEF Detail, WrittenInv, FiledInv
  <2>3. ValueOf(Detail) = EmptyText \/ ValueOf(Detail).of = Entry(Detail)[2]
    BY <2>1, <2>2 DEF ValueOf, Written, HoldsKey, Entry
  <2> QED
    BY <1>1, <2>1, <2>3 DEF WrittenInv, Entry
<1>3. CASE entries' = entries
  BY <1>1, <1>3 DEF WrittenInv
<1> QED
  BY <1>2, <1>3 DEF ReadDetails, DeclareSeries, EnterSection, SkipKeyless, RefuseDetail, EndOfDetails

LEMMA ReaderInvInit == Init => ReaderInv
<1> SUFFICES ASSUME Init PROVE ReaderInv
  OBVIOUS
<1>1. WrittenInv
  <2>1. IsSequence(detailRows) /\ \A i \in DOMAIN detailRows : Written(detailRows[i])
    BY ExportsAssumption DEF Init, Written
  <2> QED
    BY <2>1 DEF WrittenInv, Init, NothingFiled
<1> QED
  BY <1>1, NothingFiledYet DEF ReaderInv, Init, FieldsAreWhatWasWritten

LEMMA StatisticsOfTheirKeys ==
  ASSUME WrittenInv, StatisticsReadable
  PROVE  Whole([key \in PublishedKeys \cap StatisticKeys |-> Statistic(key)])
<1>1. PublishedKeys \cap StatisticKeys = StatisticKeys
  BY DEF StatisticsReadable
<1>2. ASSUME NEW key \in StatisticKeys PROVE Statistic(key).of = key
  <2>1. PICK e \in DOMAIN entries : e[1] = SERIES_STATISTICS /\ e[2] = key
    BY <1>2 DEF StatisticsReadable, PublishedKeys
  <2> QED
    BY <1>2, <2>1 DEF WrittenInv, StatisticsReadable, Statistic
<1> QED
  BY <1>1, <1>2 DEF Whole

LEMMA MetadataOfItsKeys ==
  ASSUME ReaderInv, ReadMetadata PROVE FieldsAreWhatWasWritten'
<1> SUFFICES ASSUME stage' = "read" PROVE FieldsAreWhatWasWritten'
  BY DEF FieldsAreWhatWasWritten
<1>1. MetadataReadable
  BY DEF ReadMetadata, Then
<1>2. DOMAIN RequiredEntries \cap {"units", "source_timezone_label", "firmware"} = {}
  BY DEF RequiredEntries
<1>3. /\ \A field \in DOMAIN RequiredEntries : metadata'[field] = Stated(field)
      /\ metadata'["firmware"] = LookedUp(Firmware)
  BY <1>1, <1>2 DEF ReadMetadata
<1>4. ASSUME NEW entry, LookedUp(entry) # None
      PROVE  LookedUp(entry) = EmptyText \/ LookedUp(entry).of = entry[2]
  BY <1>4 DEF LookedUp, ReaderInv, WrittenInv
<1>5. \A field \in DOMAIN RequiredEntries : Stated(field) # None
  BY <1>1 DEF MetadataReadable
<1> QED
  BY <1>3, <1>4, <1>5 DEF FieldsAreWhatWasWritten, Stated

LEMMA ReaderInvStep == ReaderInv /\ [Next]_vars => ReaderInv'
<1> SUFFICES ASSUME ReaderInv, [Next]_vars PROVE ReaderInv'
  OBVIOUS
<1>1. CASE OtherHands
  <2>1. /\ stage = "file"
        /\ UNCHANGED <<stage, detailAt, entries, series, section, detailsParse, published, metadata>>
    BY <1>1 DEF OtherHands, EditDetails, EditLog, Edited, detailsVars, readVars
  <2>2. NothingFiled /\ NothingFiled'
    BY <2>1 DEF ReaderInv, NothingFiled
  <2>3. FiledInv'
    BY <2>2 DEF NothingFiled, FiledInv, SectionInv, EntriesAreUnderTheirHeading, IsFiled, Above
  <2>4. IsSequence(detailRows') /\ \A i \in DOMAIN detailRows' : Written(detailRows'[i])
    BY <1>1, DetailsEdited DEF OtherHands, EditLog, ReaderInv, WrittenInv
  <2> QED
    BY <2>1, <2>2, <2>3, <2>4 DEF ReaderInv, WrittenInv, FieldsAreWhatWasWritten
<1>2. CASE ParseDetails
  <2>1. /\ stage = "details" /\ stage' \in {"details", "log", "refused"}
        /\ UNCHANGED published
        /\ ReadDetails \/ UNCHANGED <<detailRows, detailsVars>>
    BY <1>2 DEF ParseDetails, Then
  <2>2. FiledInv' /\ WrittenInv'
    BY <2>1, FiledStep, WrittenStep, DetailsKept DEF ReaderInv, WrittenInv, detailsVars
  <2> QED
    BY <2>1, <2>2 DEF ReaderInv, FieldsAreWhatWasWritten
<1>3. ASSUME UNCHANGED <<detailRows, detailsVars>>, stage' # "file" PROVE (FiledInv /\ WrittenInv)'
  BY <1>3, DetailsKept DEF ReaderInv, WrittenInv, detailsVars
<1>4. CASE Open \/ ParseLog \/ CheckUnits \/ ReadEvents
  <2>1. /\ UNCHANGED <<detailRows, detailsVars, published>>
        /\ stage' \in {"details", "log", "units", "statistics", "metadata", "refused"}
    BY <1>4 DEF Open, ParseLog, CheckUnits, ReadEvents, SameFile, SameTables, Then, fileVars
  <2> QED
    BY <1>3, <2>1 DEF ReaderInv, FieldsAreWhatWasWritten
<1>5. CASE ReadStatistics
  <2>1. UNCHANGED <<detailRows, detailsVars>> /\ stage' \in {"events", "refused"}
    BY <1>5 DEF ReadStatistics, SameFile, SameTables, Then, fileVars
  <2>2. published' = None \/ Whole(published')
    BY <1>5, StatisticsOfTheirKeys DEF ReadStatistics, ReaderInv
  <2> QED
    BY <1>3, <2>1, <2>2 DEF ReaderInv, FieldsAreWhatWasWritten
<1>6. CASE ReadMetadata
  <2>1. UNCHANGED <<detailRows, detailsVars, published>> /\ stage' \in {"read", "refused"}
    BY <1>6 DEF ReadMetadata, SameFile, SameTables, Then, fileVars
  <2> QED
    BY <1>3, <1>6, <2>1, MetadataOfItsKeys DEF ReaderInv
<1>7. CASE UNCHANGED vars
  BY <1>7, DetailsKept
  DEF vars, fileVars, detailsVars, readVars, ReaderInv, WrittenInv, NothingFiled, FieldsAreWhatWasWritten
<1> QED
  BY <1>1, <1>2, <1>4, <1>5, <1>6, <1>7 DEF Next, ReadStep

LEMMA ReaderInvAlways == Spec => []ReaderInv
BY ReaderInvInit, ReaderInvStep, PTL DEF Spec

-----------------------------------------------------------------------------
(* Whatever was done to the rows of a details table, each entry is one row *)
(* under its own heading and each row of an accepted part is an entry:     *)
(* parse_details overwrites nothing and files nothing under a neighbour.   *)
THEOREM EntriesAlwaysUnderTheirHeading == Spec => []EntriesAreUnderTheirHeading
<1>1. ReaderInv => EntriesAreUnderTheirHeading
  BY DEF ReaderInv, FiledInv
<1> QED
  BY <1>1, ReaderInvAlways, PTL

(* The statistics handed to the gate are all seven, each the one that the  *)
(* vendor wrote for its key, or there are none (_statistics).              *)
THEOREM StatisticsAreAlwaysWhole == Spec => []StatisticsAreWhole
<1>1. ReaderInv => StatisticsAreWhole
  BY DEF ReaderInv, StatisticsAreWhole, Whole
<1> QED
  BY <1>1, ReaderInvAlways, PTL

(* A field of the metadata of an accepted read is never silent where it is *)
(* required and never holds what was written for another key (_metadata).  *)
THEOREM FieldsAlwaysAsWritten == Spec => []FieldsAreWhatWasWritten
<1>1. ReaderInv => FieldsAreWhatWasWritten
  BY DEF ReaderInv
<1> QED
  BY <1>1, ReaderInvAlways, PTL

-----------------------------------------------------------------------------
(* The two statements of the unit. *)

Checked == {"statistics", "events", "metadata", "read"}

UnitInv ==
  /\ detailsParse = "parsed" => detailAt > Len(detailRows)
  /\ stage \in {"log", "units"} \cup Checked => detailsParse = "parsed"
  /\ stage \in Checked => UnitsAgree /\ units = UNIT_SYMBOLS[dataUnit]
  /\ stage = "read" => metadata["units"] = units

LEMMA UnitInvStep == UnitInv /\ ReaderInv /\ [Next]_vars => UnitInv'
<1> SUFFICES ASSUME UnitInv, ReaderInv, [Next]_vars PROVE UnitInv'
  OBVIOUS
<1>1. CASE OtherHands
  <2>1. stage = "file" /\ stage' = stage /\ detailsParse' = detailsParse
    BY <1>1 DEF OtherHands, EditDetails, EditLog, Edited, detailsVars, readVars
  <2>2. detailsParse = "reading"
    BY <2>1 DEF ReaderInv, NothingFiled
  <2> QED
    BY <2>1, <2>2 DEF UnitInv, Checked
<1>2. ASSUME SameFile, SameTables,
             stage \in {"log", "units"} \cup Checked \/ stage' \notin {"log", "units"} \cup Checked,
             stage' \in Checked => \/ stage \in Checked /\ units' = units
                                   \/ UnitsAgree /\ units' = UNIT_SYMBOLS[dataUnit],
             stage' = "read" => metadata'["units"] = units'
      PROVE  UnitInv'
  <2>1. /\ detailsParse' = detailsParse /\ detailAt' = detailAt /\ detailRows' = detailRows
        /\ series' = series /\ dataUnit' = dataUnit
    BY <1>2 DEF SameFile, SameTables, fileVars, detailsVars
  <2>2. UnitsAgree' = UnitsAgree
    BY <2>1 DEF UnitsAgree
  <2> QED
    BY <1>2, <2>1, <2>2 DEF UnitInv, Checked
<1>3. CASE Open
  BY <1>2, <1>3 DEF Open, Checked
<1>4. CASE ParseDetails
  <2>1. /\ stage = "details" /\ stage' \in {"details", "log", "refused"} /\ detailRows' = detailRows
        /\ stage' = "log" => detailsParse = "parsed" /\ UNCHANGED <<detailRows, detailsVars>>
        /\ ReadDetails \/ UNCHANGED <<detailRows, detailsVars>>
    BY <1>4 DEF ParseDetails, Then, ReadDetails, DeclareSeries, EnterSection, SkipKeyless, FileEntry,
                RefuseDetail, EndOfDetails, NextDetail
  <2>2. detailsParse' = "parsed" => detailAt' > Len(detailRows')
    <3>1. CASE ReadDetails
      <4>1. detailsParse' = "parsed" => EndOfDetails
        BY <3>1 DEF ReadDetails, DeclareSeries, EnterSection, SkipKeyless, FileEntry, RefuseDetail,
                    NextDetail, AtDetail
      <4> QED
        BY <2>1, <4>1 DEF EndOfDetails
    <3>2. CASE UNCHANGED <<detailRows, detailsVars>>
      BY <3>2 DEF UnitInv, detailsVars
    <3> QED
      BY <2>1, <3>1, <3>2
  <2>3. stage' = "log" => detailsParse' = "parsed"
    BY <2>1 DEF detailsVars
  <2> QED
    BY <2>1, <2>2, <2>3 DEF UnitInv, Checked
<1>5. CASE ParseLog
  <2>1. /\ stage = "log" /\ stage' \in {"log", "units", "refused"}
        /\ UNCHANGED <<detailRows, detailsVars>>
    BY <1>5 DEF ParseLog, Then
  <2> QED
    BY <2>1 DEF UnitInv, Checked, detailsVars
<1>6. CASE CheckUnits
  <2>1. /\ SameFile /\ SameTables /\ stage = "units" /\ stage' \in {"statistics", "refused"}
        /\ stage' = "statistics" => UnitsAgree /\ units' = UNIT_SYMBOLS[dataUnit]
    BY <1>6 DEF CheckUnits, Then
  <2> QED
    BY <1>2, <2>1 DEF Checked
<1>7. CASE ReadStatistics \/ ReadEvents
  <2>1. /\ SameFile /\ SameTables /\ stage \in Checked /\ stage' \in {"events", "metadata", "refused"}
        /\ units' = units
    BY <1>7 DEF ReadStatistics, ReadEvents, Then, Checked
  <2> QED
    BY <1>2, <2>1 DEF Checked
<1>8. CASE ReadMetadata
  <2>1. /\ SameFile /\ SameTables /\ stage \in Checked /\ stage' \in {"read", "refused"}
        /\ units' = units /\ (stage' = "read" => MetadataReadable)
    BY <1>8 DEF ReadMetadata, Then, Checked
  <2>2. stage' = "read" => metadata'["units"] = units
    BY <1>8, <2>1 DEF ReadMetadata
  <2> QED
    BY <1>2, <2>1, <2>2 DEF Checked
<1>9. CASE UNCHANGED vars
  <2>1. SameFile /\ SameTables /\ stage' = stage /\ units' = units /\ metadata' = metadata
    BY <1>9 DEF vars, SameFile, SameTables, readVars
  <2> QED
    BY <1>2, <2>1 DEF UnitInv
<1> QED
  BY <1>1, <1>3, <1>4, <1>5, <1>6, <1>7, <1>8, <1>9 DEF Next, ReadStep

(* An accepted read whose unit is wrong read a file in which no statement  *)
(* of the unit was right: the data header's and every series row's, moved, *)
(* repeated or not (_units and _check_declared_unit).                      *)
THEOREM WrongUnitIsAlwaysRefused == Spec => []WrongUnitIsRefused
<1>1. Init => UnitInv
  BY DEF Init, UnitInv, Checked, NothingFiled
<1>2. ASSUME UnitInv, ReaderInv, stage = "read", metadata["units"] # UNIT_SYMBOLS[TrueUnit]
      PROVE  dataUnit # TrueUnit /\ \A i \in DOMAIN detailRows : detailRows[i].unit # TrueUnit
  <2>1. /\ UnitsAgree /\ metadata["units"] = UNIT_SYMBOLS[dataUnit]
        /\ detailAt > Len(detailRows) /\ detailAt \in Nat
    BY <1>2 DEF UnitInv, Checked, ReaderInv, FiledInv
  <2>2. ASSUME NEW i \in DOMAIN detailRows, detailRows[i].unit = TrueUnit PROVE FALSE
    <3>1. i \in Above
      BY <1>2, <2>1, SequenceHas DEF ReaderInv, WrittenInv, Above
    <3>2. DeclaresSeries(detailRows[i])
      BY <2>2, UnitsAssumption DEF DeclaresSeries
    <3>3. series = TrueUnit
      BY <1>2, <2>2, <3>1, <3>2 DEF ReaderInv, FiledInv, EntriesAreUnderTheirHeading, IsFiled
    <3> QED
      BY <1>2, <2>1, <3>3 DEF UnitsAgree
  <2> QED
    BY <1>2, <2>1, <2>2
<1>3. UnitInv /\ ReaderInv => WrongUnitIsRefused
  BY <1>2 DEF WrongUnitIsRefused
<1> QED
  BY <1>1, <1>3, UnitInvStep, ReaderInvAlways, PTL DEF Spec

-----------------------------------------------------------------------------
(* The four statements of the zone.  The vendor states a sample time once, *)
(* and edits move it, repeat it or empty it: all rows that still hold it   *)
(* agree, and so does the entry made of one of them.                       *)

Holds(row, key) == row.key = key /\ row.value # None

RowsAgree(rows) ==
  \A key \in SampleTimes : \A i, j \in DOMAIN rows :
    (Holds(rows[i], key) /\ Holds(rows[j], key)) => rows[i].value = rows[j].value

AllState(value, key) == \A i \in DOMAIN detailRows : Holds(detailRows[i], key) => detailRows[i].value = value

SampleTimesInv ==
  /\ RowsAgree(detailRows)
  /\ \A e \in DOMAIN entries : e[2] \in SampleTimes => entries[e] = EmptyText \/ AllState(entries[e], e[2])

ZoneInv ==
  /\ stage = "file" => published = None
  /\ stage \in {"metadata", "read"} => logZone = dataZone
  /\ published # None =>
       \A key \in SampleTimes : published[key].zone = dataZone /\ AllState(published[key], key)
  /\ stage = "read" => metadata["source_timezone_label"] = dataZone

LEMMA SampleTimesInit == Init => SampleTimesInv /\ ZoneInv
<1> SUFFICES ASSUME Init PROVE SampleTimesInv /\ ZoneInv
  OBVIOUS
<1>1. PICK x \in Exports : detailRows = x.details
  BY DEF Init
<1>2. RowsAgree(detailRows)
  BY <1>1, SampleTimesAssumption DEF RowsAgree, Holds
<1> QED
  BY <1>2 DEF Init, NothingFiled, SampleTimesInv, ZoneInv

LEMMA RowsStillAgree ==
  ASSUME WrittenInv, RowsAgree(detailRows), EditDetails
  PROVE  RowsAgree(detailRows')
<1>1. PICK i \in DOMAIN detailRows :
        \/ detailRows' = Without(detailRows, i)
        \/ detailRows' = Repeated(detailRows, i)
        \/ i < Len(detailRows) /\ detailRows' = Swapped(detailRows, i)
        \/ detailRows[i].key # None /\ \E cell \in {"key", "value"} :
             detailRows' = [detailRows EXCEPT ![i] = [detailRows[i] EXCEPT ![cell] = None]]
  BY DEF EditDetails
<1>2. /\ Len(detailRows) \in Nat /\ DOMAIN detailRows = 1..Len(detailRows)
      /\ \A j \in DOMAIN detailRows : DOMAIN detailRows[j] = {"unit", "heading", "key", "value"}
  BY SequenceHas DEF WrittenInv, Written
<1>3. ASSUME \A j \in DOMAIN detailRows' : \E k \in DOMAIN detailRows : detailRows'[j] = detailRows[k]
      PROVE  RowsAgree(detailRows')
  BY <1>3 DEF RowsAgree
<1>4. CASE detailRows' = Without(detailRows, i)
  BY <1>2, <1>3, <1>4 DEF Without
<1>5. CASE detailRows' = Repeated(detailRows, i)
  BY <1>2, <1>3, <1>5 DEF Repeated
<1>6. CASE i < Len(detailRows) /\ detailRows' = Swapped(detailRows, i)
  BY <1>2, <1>3, <1>6 DEF Swapped
<1>7. ASSUME NEW cell \in {"key", "value"},
             detailRows' = [detailRows EXCEPT ![i] = [detailRows[i] EXCEPT ![cell] = None]]
      PROVE  RowsAgree(detailRows')
  <2>1. /\ DOMAIN detailRows' = DOMAIN detailRows
        /\ \A j \in DOMAIN detailRows : j # i => detailRows'[j] = detailRows[j]
        /\ detailRows'[i].key = None \/ detailRows'[i].value = None
    BY <1>2, <1>7
  <2>2. \A key \in SampleTimes : ~Holds(detailRows'[i], key)
    BY <2>1, SampleTimesAssumption DEF Holds
  <2> QED
    BY <2>1, <2>2 DEF RowsAgree
<1> QED
  BY <1>1, <1>4, <1>5, <1>6, <1>7

LEMMA SampleTimesStep ==
  ASSUME WrittenInv, FiledInv, SampleTimesInv, ReadDetails
  PROVE  SampleTimesInv'
<1>1. detailRows' = detailRows
  BY DEF ReadDetails, DeclareSeries, EnterSection, SkipKeyless, FileEntry, RefuseDetail,
         EndOfDetails, NextDetail
<1>2. CASE FileEntry
  <2>1. /\ HoldsKey(Detail) /\ detailAt \in DOMAIN detailRows
        /\ DOMAIN entries' = DOMAIN entries \cup {Entry(Detail)}
        /\ entries'[Entry(Detail)] = ValueOf(Detail)
        /\ \A e \in DOMAIN entries : e # Entry(Detail) => entries'[e] = entries[e]
        /\ Entry(Detail)[2] = Detail.key
    BY <1>2, SequenceHas DEF FileEntry, AtDetail, WrittenInv, FiledInv, Entry
  <2>2. ASSUME Detail.key \in SampleTimes, ValueOf(Detail) # EmptyText
        PROVE  AllState(ValueOf(Detail), Detail.key)
    <3>1. Holds(Detail, Detail.key) /\ ValueOf(Detail) = Detail.value
      BY <2>2 DEF ValueOf, Holds
    <3> QED
      BY <2>1, <2>2, <3>1 DEF SampleTimesInv, RowsAgree, AllState, Detail
  <2> QED
    BY <1>1, <2>1, <2>2 DEF SampleTimesInv, AllState
<1>3. CASE entries' = entries
  BY <1>1, <1>3 DEF SampleTimesInv, AllState
<1> QED
  BY <1>2, <1>3 DEF ReadDetails, DeclareSeries, EnterSection, SkipKeyless, RefuseDetail, EndOfDetails

LEMMA ReadableSampleTimes ==
  ASSUME SampleTimesInv, WrittenInv, StatisticsReadable, NEW key \in SampleTimes
  PROVE  /\ key \in PublishedKeys \cap StatisticKeys
         /\ Statistic(key).zone = dataZone /\ AllState(Statistic(key), key)
<1>1. key \in StatisticKeys /\ key \in PublishedKeys
  BY DEF StatisticsReadable, SampleTimes, StatisticKeys
<1>2. PICK e \in DOMAIN entries : e[1] = SERIES_STATISTICS /\ e[2] = key
  BY <1>1 DEF PublishedKeys
<1>3. Statistic(key) = entries[e]
  BY <1>2 DEF WrittenInv, Statistic
<1> QED
  BY <1>1, <1>2, <1>3 DEF StatisticsReadable, SampleTimesInv

LEMMA ZoneInvStep == ReaderInv /\ SampleTimesInv /\ ZoneInv /\ [Next]_vars => SampleTimesInv' /\ ZoneInv'
<1> SUFFICES ASSUME ReaderInv, SampleTimesInv, ZoneInv, [Next]_vars PROVE SampleTimesInv' /\ ZoneInv'
  OBVIOUS
<1>1. CASE OtherHands
  <2>1. /\ stage = "file" /\ stage' = stage /\ entries' = entries /\ published' = published
        /\ EditDetails \/ detailRows' = detailRows
    BY <1>1 DEF OtherHands, EditDetails, EditLog, Edited, detailsVars, readVars
  <2>2. RowsAgree(detailRows')
    BY <2>1, RowsStillAgree DEF ReaderInv, SampleTimesInv
  <2>3. DOMAIN entries' = {} /\ published' = None
    BY <2>1 DEF ReaderInv, NothingFiled, ZoneInv
  <2> QED
    BY <2>1, <2>2, <2>3 DEF SampleTimesInv, ZoneInv
<1>2. ASSUME UNCHANGED <<detailRows, detailsVars>> PROVE SampleTimesInv'
  BY <1>2 DEF SampleTimesInv, AllState, detailsVars
<1>3. ASSUME UNCHANGED <<detailRows, dataZone, logZone, published>>, stage' # "file",
             stage' \in {"metadata", "read"} => logZone = dataZone,
             stage' = "read" => metadata'["source_timezone_label"] = dataZone
      PROVE  ZoneInv'
  BY <1>3 DEF ZoneInv, AllState
<1>4. CASE ParseDetails
  <2>1. /\ UNCHANGED <<dataZone, logZone, published>>
        /\ stage' \in {"details", "log", "refused"}
        /\ ReadDetails \/ UNCHANGED <<detailRows, detailsVars>>
    BY <1>4 DEF ParseDetails, Then
  <2>2. detailRows' = detailRows
    BY <2>1 DEF ReadDetails, DeclareSeries, EnterSection, SkipKeyless, FileEntry, RefuseDetail,
                EndOfDetails, NextDetail
  <2> QED
    BY <1>2, <1>3, <2>1, <2>2, SampleTimesStep DEF ReaderInv
<1>5. CASE Open \/ ParseLog \/ CheckUnits
  <2>1. /\ UNCHANGED <<detailRows, detailsVars, dataZone, logZone, published>>
        /\ stage' \in {"details", "log", "units", "statistics", "refused"}
    BY <1>5 DEF Open, ParseLog, CheckUnits, SameFile, SameTables, Then, fileVars
  <2> QED
    BY <1>2, <1>3, <2>1
<1>6. CASE ReadStatistics
  <2>1. /\ UNCHANGED <<detailRows, detailsVars, dataZone, logZone>>
        /\ stage' \in {"events", "refused"}
    BY <1>6 DEF ReadStatistics, SameFile, SameTables, Then, fileVars
  <2>2. ASSUME published' # None, NEW key \in SampleTimes
        PROVE  published'[key].zone = dataZone /\ AllState(published'[key], key)
    <3>1. /\ StatisticsReadable
          /\ published' = [k \in PublishedKeys \cap StatisticKeys |-> Statistic(k)]
      BY <1>6, <2>2 DEF ReadStatistics
    <3>2. key \in PublishedKeys \cap StatisticKeys
          /\ Statistic(key).zone = dataZone /\ AllState(Statistic(key), key)
      BY <3>1, ReadableSampleTimes DEF ReaderInv
    <3> QED
      BY <3>1, <3>2
  <2> QED
    BY <1>2, <2>1, <2>2 DEF ZoneInv, AllState
<1>7. CASE ReadEvents
  <2>1. /\ UNCHANGED <<detailRows, detailsVars, dataZone, logZone, published>>
        /\ stage' \in {"metadata", "refused"} /\ (stage' = "metadata" => logZone = dataZone)
    BY <1>7 DEF ReadEvents, SameFile, SameTables, Then, fileVars, LogUnderstood
  <2> QED
    BY <1>2, <1>3, <2>1
<1>8. CASE ReadMetadata
  <2>1. /\ UNCHANGED <<detailRows, detailsVars, dataZone, logZone, published>>
        /\ stage = "metadata" /\ stage' \in {"read", "refused"}
        /\ stage' = "read" => MetadataReadable
    BY <1>8 DEF ReadMetadata, SameFile, SameTables, Then, fileVars
  <2>2. "source_timezone_label" # "units" /\ "source_timezone_label" # "firmware"
    OBVIOUS
  <2>3. stage' = "read" => metadata'["source_timezone_label"] = dataZone
    BY <1>8, <2>1, <2>2 DEF ReadMetadata
  <2> QED
    BY <1>2, <1>3, <2>1, <2>3 DEF ZoneInv
<1>9. CASE UNCHANGED vars
  BY <1>2, <1>9 DEF vars, fileVars, readVars, ZoneInv, AllState
<1> QED
  BY <1>1, <1>4, <1>5, <1>6, <1>7, <1>8, <1>9 DEF Next, ReadStep

LEMMA ZoneInvAlways == Spec => [](SampleTimesInv /\ ZoneInv)
<1>1. ReaderInv /\ (SampleTimesInv /\ ZoneInv) /\ [Next]_vars => (SampleTimesInv /\ ZoneInv)'
  BY ZoneInvStep
<1> QED
  BY <1>1, SampleTimesInit, ReaderInvAlways, PTL DEF Spec

(* An accepted read that states a wrong unit or zone read a file in which  *)
(* every statement of it was wrong: the data header's, each series row's;  *)
(* the data header's, the event header's and each sample time's, unless    *)
(* the statistics are gone (the four cross-checks of the reader).          *)
THEOREM WrongStatementsAreAlwaysRefused == Spec => []OneWrongStatementIsRefused
<1>1. ASSUME ZoneInv PROVE WrongZoneIsRefused
  <2>1. SUFFICES ASSUME stage = "read", metadata["source_timezone_label"] # TrueZone
                 PROVE  /\ logZone # TrueZone
                        /\ \/ published = None
                           \/ \A i \in SampleTimeRows(detailRows) : detailRows[i].value.zone # TrueZone
    BY DEF WrongZoneIsRefused
  <2>2. dataZone # TrueZone /\ logZone = dataZone
    BY <1>1, <2>1 DEF ZoneInv
  <2>3. ASSUME published # None, NEW i \in SampleTimeRows(detailRows)
        PROVE  detailRows[i].value.zone # TrueZone
    <3>1. detailRows[i].key \in SampleTimes /\ Holds(detailRows[i], detailRows[i].key)
      BY <2>3 DEF SampleTimeRows, Holds
    <3>2. /\ published[detailRows[i].key].zone = dataZone
          /\ detailRows[i].value = published[detailRows[i].key]
      BY <1>1, <2>3, <3>1 DEF ZoneInv, AllState, SampleTimeRows
    <3> QED
      BY <2>2, <3>2
  <2> QED
    BY <2>2, <2>3
<1> QED
  BY <1>1, ZoneInvAlways, WrongUnitIsAlwaysRefused, PTL DEF OneWrongStatementIsRefused

-----------------------------------------------------------------------------
(* The log.  A mark of the table has a rank among the marks above it and   *)
(* on its left: distinct marks differ in rank, so every rank is one mark's.*)

LEMMA RanksAreDistinct ==
  ASSUME NEW S, IsFiniteSet(S), NEW upTo \in [S -> SUBSET S],
         \A x \in S : x \in upTo[x],
         \A x, y \in S : x # y => \/ upTo[x] \subseteq upTo[y] /\ y \notin upTo[x]
                                  \/ upTo[y] \subseteq upTo[x] /\ x \notin upTo[y]
  PROVE  /\ \A x \in S : Cardinality(upTo[x]) \in 1..Cardinality(S)
         /\ \A x, y \in S : Cardinality(upTo[x]) = Cardinality(upTo[y]) => x = y
         /\ \A n \in 1..Cardinality(S) : \E x \in S : Cardinality(upTo[x]) = n
<1>1. \A x \in S : IsFiniteSet(upTo[x]) /\ Cardinality(upTo[x]) \in 1..Cardinality(S)
  <2> SUFFICES ASSUME NEW x \in S
               PROVE  IsFiniteSet(upTo[x]) /\ Cardinality(upTo[x]) \in 1..Cardinality(S)
    OBVIOUS
  <2>1. upTo[x] \in SUBSET S
    OBVIOUS
  <2>2. IsFiniteSet(upTo[x]) /\ Cardinality(upTo[x]) <= Cardinality(S)
    BY <2>1, FS_Subset
  <2>3. Cardinality(upTo[x]) # 0
    BY <2>2, FS_EmptySet
  <2> QED
    BY <2>2, <2>3, FS_CardinalityType
<1>2. ASSUME NEW x \in S, NEW y \in S, x # y, upTo[x] \subseteq upTo[y] /\ y \notin upTo[x]
      PROVE  Cardinality(upTo[x]) # Cardinality(upTo[y])
  <2>1. upTo[x] \in SUBSET upTo[y] /\ upTo[x] # upTo[y] /\ IsFiniteSet(upTo[y])
    BY <1>1, <1>2
  <2> QED
    BY <2>1, FS_Subset
<1>3. \A x, y \in S : Cardinality(upTo[x]) = Cardinality(upTo[y]) => x = y
  BY <1>2
<1> DEFINE N == Cardinality(S)
           rank == [x \in S |-> Cardinality(upTo[x])]
<1>4. N \in Nat
  BY FS_CardinalityType
<1>5. rank \in Injection(S, 1..N)
  BY <1>1, <1>3 DEF Injection, IsInjective
<1>6. IsFiniteSet(1..N) /\ Cardinality(1..N) = N
  BY <1>4, FS_Interval
<1>7. rank \in Surjection(S, 1..N)
  BY <1>5, <1>6, FS_Injection
<1>8. \A n \in 1..N : \E x \in S : Cardinality(upTo[x]) = n
  BY <1>7 DEF Surjection
<1> QED
  BY <1>1, <1>3, <1>8

LEMMA MarksHaveRanks ==
  ASSUME NEW file, IsSequence(file.log), IsSequence(file.columns)
  PROVE  /\ IsFiniteSet(MarksOf(file)) /\ Cardinality(MarksOf(file)) \in Nat
         /\ \A m \in MarksOf(file) :
              /\ IsFiniteSet(MarksUpTo(file, m))
              /\ Cardinality(MarksUpTo(file, m)) \in 1..Cardinality(MarksOf(file))
         /\ \A n \in 1..Cardinality(MarksOf(file)) :
              \E m \in MarksOf(file) : Cardinality(MarksUpTo(file, m)) = n
<1> DEFINE M == MarksOf(file)
           upTo == [m \in M |-> MarksUpTo(file, m)]
<1>1. /\ DOMAIN file.log = 1..Len(file.log) /\ Len(file.log) \in Nat
      /\ DOMAIN file.columns = 1..Len(file.columns) /\ Len(file.columns) \in Nat
  BY SequenceHas
<1>2. M \in SUBSET ((1..Len(file.log)) \X (1..Len(file.columns)))
  BY <1>1 DEF MarksOf
<1>3. IsFiniteSet((1..Len(file.log)) \X (1..Len(file.columns)))
  <2>1. IsFiniteSet(1..Len(file.log)) /\ IsFiniteSet(1..Len(file.columns))
    BY <1>1, FS_Interval
  <2> QED
    BY <2>1, FS_Product
<1>4. IsFiniteSet(M)
  BY <1>2, <1>3, FS_Subset
<1>5. upTo \in [M -> SUBSET M] /\ \A m \in M : upTo[m] = MarksUpTo(file, m)
  BY DEF MarksUpTo
<1>6. \A m \in M : m = <<m[1], m[2]>> /\ m[1] \in Nat /\ m[2] \in Nat
  BY <1>1, <1>2
<1>7. \A m \in M : m \in upTo[m]
  BY <1>6 DEF MarksUpTo
<1>8. ASSUME NEW x \in M, NEW y \in M, x # y
      PROVE  \/ upTo[x] \subseteq upTo[y] /\ y \notin upTo[x]
             \/ upTo[y] \subseteq upTo[x] /\ x \notin upTo[y]
  <2>1. \A u, v \in M : (u[1] < v[1] \/ (u[1] = v[1] /\ u[2] < v[2])) =>
          upTo[u] \subseteq upTo[v] /\ v \notin upTo[u]
    BY <1>6 DEF MarksUpTo
  <2>2. x[1] < y[1] \/ y[1] < x[1] \/ (x[1] = y[1] /\ (x[2] < y[2] \/ y[2] < x[2]))
    BY <1>6, <1>8
  <2> QED
    BY <2>1, <2>2
<1> HIDE DEF M, upTo
<1>9. /\ \A m \in M : Cardinality(upTo[m]) \in 1..Cardinality(M)
      /\ \A n \in 1..Cardinality(M) : \E m \in M : Cardinality(upTo[m]) = n
  BY <1>4, <1>5, <1>7, <1>8, RanksAreDistinct
<1>10. \A m \in M : upTo[m] \in SUBSET M /\ IsFiniteSet(upTo[m])
  BY <1>4, <1>5, FS_Subset
<1>11. Cardinality(M) \in Nat
  BY <1>4, FS_CardinalityType
<1>12. \A m \in M : IsFiniteSet(MarksUpTo(file, m)) /\ Cardinality(MarksUpTo(file, m)) \in 1..Cardinality(M)
  BY <1>5, <1>9, <1>10
<1>13. \A n \in 1..Cardinality(M) : \E m \in M : Cardinality(MarksUpTo(file, m)) = n
  BY <1>5, <1>9
<1> QED
  BY <1>4, <1>11, <1>12, <1>13 DEF M

(* In one row: the mark found for a rank is the mark that has it.          *)
LEMMA MarksOfARow ==
  ASSUME NEW header, NEW row, NEW n \in Nat, DOMAIN header = 1..n
  PROVE  /\ IsFiniteSet(Marked(header, row)) /\ Cardinality(Marked(header, row)) \in Nat
         /\ \A c \in Marked(header, row) :
              LET left == {d \in Marked(header, row) : d <= c}
              IN  /\ Cardinality(left) \in 1..Cardinality(Marked(header, row))
                  /\ IsFiniteSet(left)
                  /\ NthMarked(header, row, Cardinality(left)) = c
<1> DEFINE M == Marked(header, row)
           upTo == [c \in M |-> {d \in M : d <= c}]
<1>1. M \in SUBSET (1..n) /\ M \subseteq Nat
  BY DEF Marked, EventColumns
<1>2. IsFiniteSet(M)
  BY <1>1, FS_Interval, FS_Subset
<1>3. upTo \in [M -> SUBSET M] /\ \A c \in M : upTo[c] = {d \in M : d <= c}
  OBVIOUS
<1> HIDE DEF M
<1> HIDE DEF upTo
<1>4. /\ \A c \in M : c \in upTo[c]
      /\ \A x, y \in M : x # y => \/ upTo[x] \subseteq upTo[y] /\ y \notin upTo[x]
                                  \/ upTo[y] \subseteq upTo[x] /\ x \notin upTo[y]
  <2>1. \A c \in M : c \in Nat
    BY <1>1
  <2>2. \A c \in M : c \in upTo[c]
    BY <1>3, <2>1
  <2>3. ASSUME NEW x \in M, NEW y \in M, x < y
        PROVE  upTo[x] \subseteq upTo[y] /\ y \notin upTo[x]
    BY <1>3, <2>1, <2>3
  <2>4. \A x, y \in M : x # y => x < y \/ y < x
    BY <2>1
  <2> QED
    BY <2>2, <2>3, <2>4
<1>5. /\ \A c \in M : Cardinality(upTo[c]) \in 1..Cardinality(M)
      /\ \A x, y \in M : Cardinality(upTo[x]) = Cardinality(upTo[y]) => x = y
  BY <1>2, <1>3, <1>4, RanksAreDistinct
<1>6. ASSUME NEW c \in M
      PROVE  /\ Cardinality({d \in M : d <= c}) \in 1..Cardinality(M)
             /\ IsFiniteSet({d \in M : d <= c})
             /\ NthMarked(header, row, Cardinality({d \in M : d <= c})) = c
  <2>1. /\ Cardinality({d \in M : d <= c}) \in 1..Cardinality(M)
        /\ \A e \in M : Cardinality({d \in M : d <= e}) = Cardinality({d \in M : d <= c}) => e = c
    BY <1>3, <1>5
  <2>2. {d \in M : d <= c} \in SUBSET M
    OBVIOUS
  <2>3. IsFiniteSet({d \in M : d <= c})
    BY <1>2, <2>2, FS_Subset
  <2>4. (CHOOSE e \in M : Cardinality({d \in M : d <= e}) = Cardinality({d \in M : d <= c})) = c
    BY <2>1
  <2> QED
    BY <2>1, <2>3, <2>4 DEF NthMarked, M
<1>7. Cardinality(M) \in Nat
  BY <1>2, FS_CardinalityType
<1> QED
  BY <1>2, <1>6, <1>7 DEF M

LogShape ==
  /\ IsSequence(columns) /\ IsSequence(logRows) /\ IsSequence(logged)
  /\ \A i \in DOMAIN logRows : /\ DOMAIN logRows[i] = {"stamp", "cells"}
                               /\ DOMAIN logRows[i].cells = DOMAIN columns

MarksAbove == {m \in MarksOf(File) : m[1] < logAt}

EventsInv ==
  /\ logAt \in Nat \ {0} /\ logParse \in {"reading", "parsed", "refused"}
  /\ \A i \in DOMAIN logRows : i < logAt => IsEmptyRow(columns, logRows[i]) \/ IsEvent(columns, logRows[i])
  /\ IsSequence(events) /\ Len(events) = Cardinality(MarksAbove)
  /\ \A m \in MarksAbove : events[Cardinality(MarksUpTo(File, m))] =
       [at |-> logRows[m[1]].stamp, label |-> columns[m[2]]]
  /\ logParse = "parsed" => logAt > Len(logRows)

LogInv ==
  /\ LogShape
  /\ stage = "file" => NothingLogged
  /\ EventsInv

LEMMA MarksOfFile ==
  /\ MarksOf(File) =
       {m \in (DOMAIN logRows) \X (DOMAIN columns) :
          /\ columns[m[2]] # Empty /\ columns[m[2]] # SampleNumber
          /\ logRows[m[1]].cells[m[2]] # Empty}
  /\ \A m : MarksUpTo(File, m) =
       {x \in MarksOf(File) : x[1] < m[1] \/ (x[1] = m[1] /\ x[2] <= m[2])}
BY DEF File, MarksOf, MarksUpTo

LEMMA NothingLoggedYet == LogShape /\ NothingLogged => EventsInv
<1> SUFFICES ASSUME LogShape, NothingLogged PROVE EventsInv
  OBVIOUS
<1>1. MarksAbove = {}
  BY MarksOfFile, SequenceHas DEF LogShape, NothingLogged, MarksAbove
<1>2. IsSequence(events) /\ Len(events) = Cardinality(MarksAbove)
  BY <1>1, FS_EmptySet DEF NothingLogged, IsSequence
<1>3. \A i \in DOMAIN logRows : i < logAt => IsEmptyRow(columns, logRows[i]) \/ IsEvent(columns, logRows[i])
  BY SequenceHas DEF LogShape, NothingLogged
<1> QED
  BY <1>1, <1>2, <1>3 DEF EventsInv, NothingLogged

LEMMA NothingLoggedStill == LogShape' /\ NothingLogged' => EventsInv'
BY NothingLoggedYet, PTL

LEMMA DisjointUnion ==
  ASSUME NEW S, NEW T, IsFiniteSet(S), IsFiniteSet(T), S \cap T = {}
  PROVE  Cardinality(S \cup T) = Cardinality(S) + Cardinality(T)
<1>1. Cardinality(S \cup T) = Cardinality(S) + Cardinality(T) - 0
  BY FS_Union, FS_EmptySet
<1> QED
  BY <1>1, FS_CardinalityType

LEMMA InOneRow ==
  ASSUME NEW X, IsFiniteSet(X), NEW k
  PROVE  IsFiniteSet({<<k, c>> : c \in X}) /\ Cardinality({<<k, c>> : c \in X}) = Cardinality(X)
<1> DEFINE f == [c \in X |-> <<k, c>>]
<1>1. f \in Bijection(X, {<<k, c>> : c \in X})
  BY DEF Bijection, Injection, Surjection, IsInjective
<1> QED
  BY <1>1, FS_Bijection DEF ExistsBijection

LEMMA EventsKept ==
  ASSUME EventsInv, File' = File, UNCHANGED <<columns, logRows, logAt, events>>,
         logParse' \in {"reading", "parsed", "refused"}, logParse' = "parsed" => logAt > Len(logRows)
  PROVE  EventsInv'
<1>1. MarksOf(File)' = MarksOf(File) /\ \A m : MarksUpTo(File, m)' = MarksUpTo(File, m)
  BY DEF MarksOf, MarksUpTo
<1>2. MarksAbove' = MarksAbove
  BY <1>1 DEF MarksAbove
<1>3. \A i \in DOMAIN logRows : (IsEmptyRow(columns, logRows[i]) \/ IsEvent(columns, logRows[i]))' = (IsEmptyRow(columns, logRows[i]) \/ IsEvent(columns, logRows[i]))
  BY DEF IsEmptyRow, IsEvent, Marked, EventColumns
<1> QED
  BY <1>1, <1>2, <1>3 DEF EventsInv

LEMMA RowHasItsEvents ==
  ASSUME LogShape, EventsInv, File' = File, ReadEvent
  PROVE  EventsInv'
<1> DEFINE A == MarksAbove
           R == Marked(columns, EventRow)
           InRow(X) == {<<logAt, c>> : c \in X}
           UpTo(c) == {d \in R : d <= c}
<1>1. /\ logAt \in DOMAIN logRows /\ logAt \in Nat \ {0}
      /\ DOMAIN logRows = 1..Len(logRows) /\ Len(logRows) \in Nat
      /\ DOMAIN columns = 1..Len(columns) /\ Len(columns) \in Nat
      /\ DOMAIN EventRow.cells = DOMAIN columns
      /\ IsEvent(columns, EventRow)
      /\ events' = events \o EventsOf(columns, EventRow) /\ logAt' = logAt + 1
      /\ logRows' = logRows /\ columns' = columns /\ logParse' = logParse /\ logParse = "reading"
  BY SequenceHas DEF ReadEvent, AtEvent, EventsInv, LogShape, EventRow
<1>2. /\ IsFiniteSet(R) /\ Cardinality(R) \in Nat
      /\ \A c \in R : /\ Cardinality(UpTo(c)) \in 1..Cardinality(R)
                      /\ IsFiniteSet(UpTo(c))
                      /\ NthMarked(columns, EventRow, Cardinality(UpTo(c))) = c
  BY <1>1, MarksOfARow
<1>3. /\ IsFiniteSet(MarksOf(File))
      /\ \A m \in MarksOf(File) : /\ IsFiniteSet(MarksUpTo(File, m))
                                  /\ Cardinality(MarksUpTo(File, m)) \in Nat \ {0}
  <2>1. IsSequence(File.log) /\ IsSequence(File.columns)
    BY DEF File, LogShape
  <2> QED
    BY <2>1, MarksHaveRanks
<1>4. A \in SUBSET MarksOf(File) /\ IsFiniteSet(A) /\ Cardinality(A) = Len(events) /\ Len(events) \in Nat
  BY <1>3, FS_Subset, FS_CardinalityType DEF MarksAbove, EventsInv
<1>5. MarksOf(File)' = MarksOf(File) /\ \A m : MarksUpTo(File, m)' = MarksUpTo(File, m)
  BY DEF MarksOf, MarksUpTo
<1>6. \A m \in MarksOf(File) : /\ m = <<m[1], m[2]>> /\ m[1] \in Nat /\ m[2] \in DOMAIN columns
                               /\ m[1] = logAt => m[2] \in R
  BY <1>1, MarksOfFile DEF Marked, EventColumns, EventRow
<1>7. \A c \in R : c \in Nat /\ <<logAt, c>> \in MarksOf(File)
  BY <1>1, MarksOfFile DEF Marked, EventColumns, EventRow
<1>8. MarksAbove' = A \cup InRow(R) /\ A \cap InRow(R) = {}
  BY <1>1, <1>5, <1>6, <1>7 DEF MarksAbove
<1>9. \A c \in R : MarksUpTo(File, <<logAt, c>>) = A \cup InRow(UpTo(c)) /\ A \cap InRow(UpTo(c)) = {}
  <2> SUFFICES ASSUME NEW c \in R
               PROVE  MarksUpTo(File, <<logAt, c>>) = A \cup InRow(UpTo(c)) /\ A \cap InRow(UpTo(c)) = {}
    OBVIOUS
  <2>1. MarksUpTo(File, <<logAt, c>>) =
          {x \in MarksOf(File) : x[1] < logAt \/ (x[1] = logAt /\ x[2] <= c)}
    BY MarksOfFile
  <2>2. \A x \in InRow(UpTo(c)) : x \in MarksOf(File) /\ x[1] = logAt /\ x[2] <= c
    BY <1>7
  <2>3. \A x \in MarksOf(File) : x[1] = logAt /\ x[2] <= c => x \in InRow(UpTo(c))
    BY <1>6
  <2>4. \A x \in InRow(UpTo(c)) : x \notin A
    BY <1>1, <2>2 DEF MarksAbove
  <2> QED
    BY <2>1, <2>2, <2>3, <2>4 DEF MarksAbove
<1>10. \A m \in A : MarksUpTo(File, m) \in SUBSET A
  BY <1>1, <1>6, MarksOfFile DEF MarksAbove
<1> HIDE DEF A, R
<1>11. Cardinality(A \cup InRow(R)) = Len(events) + Cardinality(R)
  <2>1. IsFiniteSet(InRow(R)) /\ Cardinality(InRow(R)) = Cardinality(R)
    BY <1>2, InOneRow
  <2> QED
    BY <1>4, <1>8, <2>1, DisjointUnion
<1>12. ASSUME NEW c \in R
       PROVE  Cardinality(MarksUpTo(File, <<logAt, c>>)) = Len(events) + Cardinality(UpTo(c))
  <2>1. IsFiniteSet(InRow(UpTo(c))) /\ Cardinality(InRow(UpTo(c))) = Cardinality(UpTo(c))
    BY <1>2, InOneRow
  <2>2. Cardinality(UpTo(c)) \in Nat
    BY <1>2
  <2> QED
    BY <1>4, <1>9, <2>1, <2>2, DisjointUnion
<1>13. \A m \in A : Cardinality(MarksUpTo(File, m)) \in 1..Len(events)
  BY <1>3, <1>4, <1>10, FS_Subset
<1> DEFINE new == EventsOf(columns, EventRow)
<1>14. /\ IsSequence(new) /\ Len(new) = Cardinality(R)
       /\ \A c \in R : new[Cardinality(UpTo(c))] = [at |-> EventRow.stamp, label |-> columns[c]]
  <2>1. new = [n \in 1..Cardinality(R) |->
                 [at |-> EventRow.stamp, label |-> columns[NthMarked(columns, EventRow, n)]]]
    BY DEF EventsOf, R
  <2> HIDE DEF new
  <2>2. DOMAIN new = 1..Cardinality(R) /\ new = [n \in 1..Cardinality(R) |-> new[n]]
    BY <2>1
  <2>3. IsSequence(new)
    BY <1>2, <2>2, FunctionIsSequence
  <2>4. Len(new) = Cardinality(R)
    BY <1>2, <2>2, <2>3, SequenceHas
  <2> QED
    BY <1>2, <2>1, <2>3, <2>4
<1> HIDE DEF new
<1>15. /\ IsSequence(events') /\ Len(events') = Len(events) + Cardinality(R)
       /\ \A n \in 1..Len(events) : events'[n] = events[n]
       /\ \A n \in 1..Cardinality(R) : events'[Len(events) + n] = new[n]
  <2> DEFINE S == {events[i] : i \in DOMAIN events} \cup {new[i] : i \in DOMAIN new}
  <2>1. events \in Seq(S) /\ new \in Seq(S)
    BY <1>14 DEF EventsInv, IsSequence
  <2> HIDE DEF S
  <2>2. /\ events \o new \in Seq(S) /\ Len(events \o new) = Len(events) + Len(new)
        /\ \A i \in 1..(Len(events) + Len(new)) :
             (events \o new)[i] = IF i <= Len(events) THEN events[i] ELSE new[i - Len(events)]
    BY <2>1, ConcatProperties
  <2>3. events' = events \o new
    BY <1>1 DEF new
  <2>4. Len(events') \in Nat /\ events' = [j \in 1..Len(events') |-> events'[j]]
    BY <2>2, <2>3, SeqDef, LenProperties
  <2>5. IsSequence(events')
    BY <2>4, FunctionIsSequence
  <2> QED
    BY <1>2, <1>4, <1>14, <2>2, <2>3, <2>5
<1>16. \A m \in MarksAbove' : events'[Cardinality(MarksUpTo(File, m))] =
         [at |-> logRows[m[1]].stamp, label |-> columns[m[2]]]
  <2>1. \A m \in A : events'[Cardinality(MarksUpTo(File, m))] =
          [at |-> logRows[m[1]].stamp, label |-> columns[m[2]]]
    BY <1>13, <1>15 DEF EventsInv, A
  <2>2. ASSUME NEW c \in R
        PROVE  events'[Cardinality(MarksUpTo(File, <<logAt, c>>))] =
                 [at |-> logRows[logAt].stamp, label |-> columns[c]]
    BY <1>2, <1>12, <1>14, <1>15 DEF EventRow
  <2> QED
    BY <1>8, <2>1, <2>2
<1>17. \A i \in DOMAIN logRows : i < logAt + 1 => IsEmptyRow(columns, logRows[i]) \/ IsEvent(columns, logRows[i])
  BY <1>1 DEF EventsInv, EventRow
<1>18. \A i \in DOMAIN logRows : (IsEmptyRow(columns, logRows[i]) \/ IsEvent(columns, logRows[i]))' = (IsEmptyRow(columns, logRows[i]) \/ IsEvent(columns, logRows[i]))
  BY <1>1 DEF IsEmptyRow, IsEvent, Marked, EventColumns
<1>19. /\ logAt' \in Nat \ {0} /\ logParse' = "reading"
       /\ \A i \in DOMAIN logRows' : i < logAt' => (IsEmptyRow(columns, logRows[i]) \/ IsEvent(columns, logRows[i]))'
  BY <1>1, <1>17, <1>18
<1>20. IsSequence(events)' /\ Len(events') = Cardinality(MarksAbove)'
  BY <1>8, <1>11, <1>15
<1>21. \A m \in MarksAbove' : events'[Cardinality(MarksUpTo(File, m)')] =
         [at |-> logRows'[m[1]].stamp, label |-> columns'[m[2]]]
  BY <1>1, <1>5, <1>16
<1> QED
  BY <1>19, <1>20, <1>21 DEF EventsInv

LEMMA LogStep ==
  ASSUME LogShape, EventsInv, File' = File, ReadLog
  PROVE  EventsInv'
<1>1. CASE SkipEmptyRow
  <2>1. /\ logAt \in DOMAIN logRows /\ logAt \in Nat \ {0}
        /\ IsEmptyRow(columns, logRows[logAt]) /\ logParse' = "reading"
        /\ logAt' = logAt + 1 /\ events' = events /\ logRows' = logRows /\ columns' = columns
        /\ DOMAIN logRows[logAt].cells = DOMAIN columns /\ DOMAIN logRows = 1..Len(logRows)
    BY <1>1, SequenceHas DEF SkipEmptyRow, AtEvent, EventRow, EventsInv, LogShape
  <2>2. MarksOf(File)' = MarksOf(File) /\ \A m : MarksUpTo(File, m)' = MarksUpTo(File, m)
    BY DEF MarksOf, MarksUpTo
  <2>3. \A m \in MarksOf(File) : m[1] # logAt /\ m[1] \in DOMAIN logRows
    BY <2>1, MarksOfFile DEF IsEmptyRow, Marked, EventColumns
  <2>4. MarksAbove' = MarksAbove
    BY <2>1, <2>2, <2>3 DEF MarksAbove
  <2>5. \A i \in DOMAIN logRows : (IsEmptyRow(columns, logRows[i]) \/ IsEvent(columns, logRows[i]))' = (IsEmptyRow(columns, logRows[i]) \/ IsEvent(columns, logRows[i]))
    BY <2>1 DEF IsEmptyRow, IsEvent, Marked, EventColumns
  <2>6. \A i \in DOMAIN logRows : i < logAt + 1 => IsEmptyRow(columns, logRows[i]) \/ IsEvent(columns, logRows[i])
    BY <2>1 DEF EventsInv
  <2> QED
    BY <2>1, <2>2, <2>4, <2>5, <2>6 DEF EventsInv
<1>2. CASE ReadEvent
  BY <1>2, RowHasItsEvents
<1>3. CASE RefuseEvent \/ EndOfLog
  BY <1>3, EventsKept DEF RefuseEvent, EndOfLog, EventsInv
<1> QED
  BY <1>1, <1>2, <1>3 DEF ReadLog

LEMMA LogEdited == ASSUME LogShape, EditLog PROVE LogShape'
<1>1. /\ Len(logRows) \in Nat /\ DOMAIN logRows = 1..Len(logRows)
      /\ logRows = [j \in 1..Len(logRows) |-> logRows[j]]
      /\ Len(columns) \in Nat /\ DOMAIN columns = 1..Len(columns)
      /\ columns = [j \in 1..Len(columns) |-> columns[j]]
      /\ logged' = logged /\ IsSequence(logged)
  BY SequenceHas, SeqDef DEF LogShape, IsSequence, EditLog, Edited
<1>2. ASSUME columns' = columns, NEW i \in DOMAIN logRows, NEW row, logRows' = [logRows EXCEPT ![i] = row],
             DOMAIN row = {"stamp", "cells"}, DOMAIN row.cells = DOMAIN columns
      PROVE  LogShape'
  <2>1. logRows' = [j \in 1..Len(logRows) |-> logRows'[j]]
    BY <1>1, <1>2
  <2>2. IsSequence(logRows')
    BY <1>1, <2>1, FunctionIsSequence
  <2>3. \A j \in DOMAIN logRows' : /\ DOMAIN logRows'[j] = {"stamp", "cells"}
                                   /\ DOMAIN logRows'[j].cells = DOMAIN columns
    BY <1>2 DEF LogShape
  <2> QED
    BY <1>1, <1>2, <2>2, <2>3 DEF LogShape
<1>3. ASSUME logRows' = logRows, NEW c \in DOMAIN columns, NEW text, columns' = [columns EXCEPT ![c] = text]
      PROVE  LogShape'
  <2>1. columns' = [j \in 1..Len(columns) |-> columns'[j]] /\ DOMAIN columns' = DOMAIN columns
    BY <1>1, <1>3
  <2>2. IsSequence(columns')
    BY <1>1, <2>1, FunctionIsSequence
  <2> QED
    BY <1>1, <1>3, <2>1, <2>2 DEF LogShape
<1>4. CASE columns' = columns /\ \E i \in DOMAIN logRows :
          \/ \E text \in {Empty, OtherText} :
               logRows' = [logRows EXCEPT ![i] = [logRows[i] EXCEPT !.stamp = text]]
          \/ logRows' = [logRows EXCEPT ![i] = [stamp |-> Empty, cells |-> [c \in DOMAIN columns |-> Empty]]]
          \/ \E c \in DOMAIN columns, text \in {Empty, Marker, OtherText} :
               logRows' = [logRows EXCEPT ![i] = [logRows[i] EXCEPT !.cells[c] = text]]
  <2>1. PICK i \in DOMAIN logRows :
          \/ \E text \in {Empty, OtherText} :
               logRows' = [logRows EXCEPT ![i] = [logRows[i] EXCEPT !.stamp = text]]
          \/ logRows' = [logRows EXCEPT ![i] = [stamp |-> Empty, cells |-> [c \in DOMAIN columns |-> Empty]]]
          \/ \E c \in DOMAIN columns, text \in {Empty, Marker, OtherText} :
               logRows' = [logRows EXCEPT ![i] = [logRows[i] EXCEPT !.cells[c] = text]]
    BY <1>4
  <2>2. DOMAIN logRows[i] = {"stamp", "cells"} /\ DOMAIN logRows[i].cells = DOMAIN columns
    BY DEF LogShape
  <2> DEFINE stamped(text) == [logRows[i] EXCEPT !.stamp = text]
             emptied == [stamp |-> Empty, cells |-> [c \in DOMAIN columns |-> Empty]]
             typed(c, text) == [logRows[i] EXCEPT !.cells[c] = text]
  <2>3. ASSUME NEW text
        PROVE  DOMAIN stamped(text) = {"stamp", "cells"} /\ DOMAIN stamped(text).cells = DOMAIN columns
    BY <2>2
  <2>4. DOMAIN emptied = {"stamp", "cells"} /\ DOMAIN emptied.cells = DOMAIN columns
    OBVIOUS
  <2>5. ASSUME NEW c, NEW text
        PROVE  DOMAIN typed(c, text) = {"stamp", "cells"} /\ DOMAIN typed(c, text).cells = DOMAIN columns
    BY <2>2
  <2>6. ASSUME NEW text, logRows' = [logRows EXCEPT ![i] = stamped(text)]
        PROVE  LogShape'
    <3> HIDE DEF stamped
    <3> QED
      BY <1>2, <1>4, <2>3, <2>6
  <2>7. CASE logRows' = [logRows EXCEPT ![i] = emptied]
    <3> HIDE DEF emptied
    <3> QED
      BY <1>2, <1>4, <2>4, <2>7
  <2>8. ASSUME NEW c \in DOMAIN columns, NEW text, logRows' = [logRows EXCEPT ![i] = typed(c, text)]
        PROVE  LogShape'
    <3> HIDE DEF typed
    <3> QED
      BY <1>2, <1>4, <2>5, <2>8
  <2> QED
    BY <2>1, <2>6, <2>7, <2>8
<1> QED
  BY <1>3, <1>4 DEF EditLog

LEMMA LogInvStep == LogInv /\ [Next]_vars => LogInv'
<1> SUFFICES ASSUME LogInv, [Next]_vars PROVE LogInv'
  OBVIOUS
<1>1. CASE OtherHands
  <2>1. /\ stage = "file" /\ stage' = stage /\ UNCHANGED logVars
        /\ EditLog \/ UNCHANGED <<columns, logRows, logged>>
    BY <1>1 DEF OtherHands, EditDetails, EditLog, Edited, readVars
  <2>2. NothingLogged /\ NothingLogged'
    BY <2>1 DEF LogInv, NothingLogged, logVars
  <2>3. LogShape'
    BY <2>1, LogEdited DEF LogInv, LogShape, IsSequence
  <2>4. EventsInv'
    BY <2>2, <2>3, NothingLoggedStill
  <2> QED
    BY <2>2, <2>3, <2>4 DEF LogInv
<1>2. ASSUME SameFile PROVE File' = File /\ LogShape'
  BY <1>2 DEF SameFile, fileVars, File, LogInv, LogShape, IsSequence
<1>3. CASE ParseLog
  <2>1. SameFile /\ stage' # "file" /\ (ReadLog \/ UNCHANGED logVars)
    BY <1>3 DEF ParseLog, Then, SameFile, fileVars, ReadLog, SkipEmptyRow, ReadEvent, RefuseEvent, EndOfLog
  <2>2. EventsInv'
    BY <1>2, <2>1, LogStep, EventsKept DEF LogInv, SameFile, fileVars, logVars, EventsInv
  <2> QED
    BY <1>2, <2>1, <2>2 DEF LogInv
<1>4. CASE Open \/ ParseDetails \/ CheckUnits \/ ReadStatistics \/ ReadEvents \/ ReadMetadata
  <2>1. SameFile /\ stage' # "file" /\ UNCHANGED logVars
    BY <1>4 DEF Open, ParseDetails, CheckUnits, ReadStatistics, ReadEvents, ReadMetadata, SameTables,
                SameFile, fileVars, Then, ReadDetails, DeclareSeries, EnterSection, SkipKeyless,
                FileEntry, RefuseDetail, EndOfDetails, NextDetail
  <2>2. EventsInv'
    BY <1>2, <2>1, EventsKept DEF LogInv, SameFile, fileVars, logVars, EventsInv
  <2> QED
    BY <1>2, <2>1, <2>2 DEF LogInv
<1>5. CASE UNCHANGED vars
  <2>1. SameFile /\ stage' = stage /\ UNCHANGED logVars
    BY <1>5 DEF vars, SameFile, readVars
  <2>2. EventsInv'
    BY <1>2, <2>1, EventsKept DEF LogInv, SameFile, fileVars, logVars, EventsInv
  <2> QED
    BY <1>2, <2>1, <2>2 DEF LogInv, NothingLogged, logVars
<1> QED
  BY <1>1, <1>3, <1>4, <1>5 DEF Next, ReadStep

-----------------------------------------------------------------------------
(* What stands in a file depends on its tables and headers alone.          *)

SameContents(f, g) ==
  /\ f.details = g.details /\ f.columns = g.columns /\ f.log = g.log
  /\ f.dataUnit = g.dataUnit /\ f.dataZone = g.dataZone /\ f.logZone = g.logZone

LEMMA SameContentsSameFile ==
  ASSUME NEW f, NEW g, SameContents(f, g), WellFormed(f)
  PROVE  WellFormed(g) /\ \A evs : AreTheEventsOf(evs, f) => AreTheEventsOf(evs, g)
<1>1. \A e : ValuesOf(f, e) = ValuesOf(g, e)
  BY DEF ValuesOf, SameContents
<1>2. MarksOf(f) = MarksOf(g) /\ \A m : MarksUpTo(f, m) = MarksUpTo(g, m)
  BY DEF MarksOf, MarksUpTo, SameContents
<1>3. UnitsWellFormed(g)
  BY DEF WellFormed, UnitsWellFormed, SameContents
<1>4. StatisticsWellFormed(g)
  BY <1>1 DEF WellFormed, StatisticsWellFormed, SameContents
<1>5. DetailsWellFormed(g.details) /\ LogWellFormed(g)
  BY <1>2 DEF WellFormed, LogWellFormed, SameContents
<1>6. \A evs : AreTheEventsOf(evs, f) => AreTheEventsOf(evs, g)
  BY <1>2 DEF AreTheEventsOf, SameContents
<1> QED
  BY <1>1, <1>3, <1>4, <1>5, <1>6 DEF WellFormed

UntouchedInv ==
  /\ edits \in Nat
  /\ edits = 0 => WellFormed(File) /\ AreTheEventsOf(logged, File)

LEMMA UntouchedInit == Init => UntouchedInv
<1> SUFFICES ASSUME Init PROVE UntouchedInv
  OBVIOUS
<1>1. PICK x \in Exports :
        /\ dataUnit = x.dataUnit /\ dataZone = x.dataZone /\ logZone = x.logZone
        /\ detailRows = x.details /\ columns = x.columns /\ logRows = x.log
        /\ logged = x.logged /\ edits = x.edits
  BY DEF Init
<1>2. SameContents(x, File)
  BY <1>1 DEF SameContents, File
<1>3. edits = 0 => WellFormed(x) /\ AreTheEventsOf(logged, x)
  BY <1>1, VendorAssumption
<1> QED
  BY <1>1, <1>2, <1>3, SameContentsSameFile, ExportsAssumption DEF UntouchedInv

LEMMA UntouchedStep == UntouchedInv /\ [Next]_vars => UntouchedInv'
<1> SUFFICES ASSUME UntouchedInv, [Next]_vars PROVE UntouchedInv'
  OBVIOUS
<1>1. CASE OtherHands
  BY <1>1 DEF OtherHands, EditDetails, EditLog, Edited, UntouchedInv
<1>2. CASE SameFile
  <2>1. File' = File /\ edits' = edits /\ logged' = logged
    BY <1>2 DEF SameFile, fileVars, File
  <2>2. WellFormed(File)' = WellFormed(File) /\ AreTheEventsOf(logged, File)' = AreTheEventsOf(logged, File)
    BY <2>1
  <2> QED
    BY <2>1, <2>2 DEF UntouchedInv
<1>3. ReadStep \/ UNCHANGED vars => SameFile
  BY DEF ReadStep, Open, ParseDetails, ParseLog, CheckUnits, ReadStatistics, ReadEvents, ReadMetadata,
         SameFile, fileVars, vars, ReadDetails, DeclareSeries, EnterSection, SkipKeyless, FileEntry,
         RefuseDetail, EndOfDetails, NextDetail, ReadLog, SkipEmptyRow, ReadEvent, RefuseEvent, EndOfLog
<1> QED
  BY <1>1, <1>2, <1>3 DEF Next

(* The events of the extraction are made of the parser's, all of them. *)
EventsReadInv ==
  /\ stage \in {"units"} \cup Checked => logParse = "parsed"
  /\ stage \in {"metadata", "read"} =>
       LogUnderstood /\ sourceEvents = [i \in DOMAIN events |-> Typed(events[i])]

LEMMA EventsReadStep == EventsReadInv /\ [Next]_vars => EventsReadInv'
<1> SUFFICES ASSUME EventsReadInv, [Next]_vars PROVE EventsReadInv'
  OBVIOUS
<1>1. ASSUME UNCHANGED <<logVars, dataZone, logZone, sourceEvents, stage>> PROVE EventsReadInv'
  BY <1>1 DEF EventsReadInv, LogUnderstood, logVars, Typed
<1>2. CASE OtherHands \/ UNCHANGED vars
  BY <1>1, <1>2 DEF OtherHands, EditDetails, EditLog, Edited, vars, fileVars, readVars
<1>3. CASE Open \/ ParseDetails
  BY <1>3 DEF Open, ParseDetails, Then, EventsReadInv, Checked
<1>4. CASE ParseLog
  <2>1. stage' \in {"log", "units", "refused"} /\ (stage' = "units" => logParse' = "parsed")
    BY <1>4 DEF ParseLog, Then, logVars
  <2> QED
    BY <2>1 DEF EventsReadInv, Checked
<1>5. CASE CheckUnits \/ ReadStatistics
  <2>1. /\ stage \in {"units"} \cup Checked /\ stage' \in {"statistics", "events", "refused"}
        /\ logParse' = logParse
    BY <1>5 DEF CheckUnits, ReadStatistics, Then, SameTables, logVars, Checked
  <2> QED
    BY <2>1 DEF EventsReadInv, Checked
<1>6. CASE ReadEvents
  <2>1. /\ stage = "events" /\ stage' \in {"metadata", "refused"}
        /\ UNCHANGED <<logParse, events, dataZone, logZone>>
        /\ stage' = "metadata" =>
             LogUnderstood /\ sourceEvents' = [i \in DOMAIN events |-> Typed(events[i])]
    BY <1>6 DEF ReadEvents, Then, SameTables, SameFile, logVars, fileVars
  <2> QED
    BY <2>1 DEF EventsReadInv, Checked, LogUnderstood, Typed
<1>7. CASE ReadMetadata
  <2>1. /\ stage = "metadata" /\ stage' \in {"read", "refused"}
        /\ UNCHANGED <<logParse, events, dataZone, logZone, sourceEvents>>
    BY <1>7 DEF ReadMetadata, Then, SameTables, SameFile, logVars, fileVars
  <2> QED
    BY <2>1 DEF EventsReadInv, Checked, LogUnderstood, Typed
<1> QED
  BY <1>2, <1>3, <1>4, <1>5, <1>6, <1>7 DEF Next, ReadStep

LEMMA LogInvAlways == Spec => [](LogInv /\ UntouchedInv /\ EventsReadInv)
<1>1. Init => LogInv /\ UntouchedInv /\ EventsReadInv
  <2> SUFFICES ASSUME Init PROVE LogInv /\ EventsReadInv
    BY UntouchedInit
  <2>1. LogShape
    BY ExportsAssumption DEF Init, LogShape
  <2> QED
    BY <2>1, NothingLoggedYet DEF Init, LogInv, EventsReadInv, Checked
<1> QED
  BY <1>1, LogInvStep, UntouchedStep, EventsReadStep, PTL DEF Spec

LEMMA EventsAreAll ==
  ASSUME LogInv, EventsReadInv, stage = "read" PROVE AreTheEventsOf(sourceEvents, File)
<1>1. /\ logParse = "parsed" /\ LogUnderstood
      /\ sourceEvents = [i \in DOMAIN events |-> Typed(events[i])]
  BY DEF EventsReadInv, Checked
<1>2. MarksAbove = MarksOf(File)
  BY <1>1, SequenceHas, MarksOfFile DEF LogInv, LogShape, EventsInv, MarksAbove
<1>3. /\ \A m \in MarksOf(File) :
           /\ IsFiniteSet(MarksUpTo(File, m))
           /\ Cardinality(MarksUpTo(File, m)) \in 1..Cardinality(MarksOf(File))
  <2>1. IsSequence(File.log) /\ IsSequence(File.columns)
    BY DEF File, LogInv, LogShape
  <2> QED
    BY <2>1, MarksHaveRanks
<1>4. DOMAIN events = 1..Cardinality(MarksOf(File)) /\ Len(events) \in Nat
      /\ Len(events) = Cardinality(MarksOf(File))
  BY <1>2, SequenceHas DEF LogInv, EventsInv
<1>5. Len(sourceEvents) = Cardinality(MarksOf(File))
  <2>1. sourceEvents = [j \in 1..Len(events) |-> sourceEvents[j]]
    BY <1>1, <1>4
  <2>2. IsSequence(sourceEvents)
    BY <1>4, <2>1, FunctionIsSequence
  <2> QED
    BY <1>4, <2>1, <2>2, SequenceHas
<1>6. ASSUME NEW m \in MarksOf(File)
      PROVE  /\ columns[m[2]] \in DOMAIN EventTypes
             /\ sourceEvents[Cardinality(MarksUpTo(File, m))] =
                  [at |-> logRows[m[1]].stamp, event_type |-> EventTypes[columns[m[2]]]]
  <2>1. events[Cardinality(MarksUpTo(File, m))] =
          [at |-> logRows[m[1]].stamp, label |-> columns[m[2]]]
    BY <1>2 DEF LogInv, EventsInv
  <2>2. Cardinality(MarksUpTo(File, m)) \in DOMAIN events
    BY <1>3, <1>4
  <2> QED
    BY <1>1, <2>1, <2>2 DEF LogUnderstood, Typed
<1> QED
  BY <1>5, <1>6 DEF AreTheEventsOf, File

LEMMA EventsOfAFileAreUnique ==
  ASSUME NEW file, IsSequence(file.log), IsSequence(file.columns),
         NEW s, NEW t, IsSequence(s), IsSequence(t), AreTheEventsOf(s, file), AreTheEventsOf(t, file)
  PROVE  s = t
<1> DEFINE N == Cardinality(MarksOf(file))
<1>1. /\ Len(s) = N /\ Len(t) = N
      /\ s = [j \in 1..N |-> s[j]] /\ t = [j \in 1..N |-> t[j]]
  <2>1. Len(s) = N /\ Len(t) = N
    BY DEF AreTheEventsOf
  <2>2. s = [j \in 1..Len(s) |-> s[j]] /\ t = [j \in 1..Len(t) |-> t[j]]
    BY SeqDef, SequenceHas DEF IsSequence
  <2> QED
    BY <2>1, <2>2
<1>2. ASSUME NEW n \in 1..N PROVE s[n] = t[n]
  <2>1. PICK m \in MarksOf(file) : Cardinality(MarksUpTo(file, m)) = n
    BY MarksHaveRanks
  <2> QED
    BY <2>1 DEF AreTheEventsOf
<1> HIDE DEF N
<1> QED
  BY <1>1, <1>2

(* An accepted read has one event for each mark that stands under a named  *)
(* column, in the order of the rows and of the columns, with the stamp of  *)
(* its row and the type of its column, and no other; of a file nobody      *)
(* touched those are the events the logger logged (parse_events, _events). *)
(* Edits may empty a cell of the header too: its marks are none of these.  *)
THEOREM NamedMarksAreAlwaysRead == Spec => []NamedMarksAreRead
<1>1. ASSUME LogInv, UntouchedInv, EventsReadInv, stage = "read"
      PROVE  AreTheEventsOf(sourceEvents, File) /\ (edits = 0 => sourceEvents = logged)
  <2>1. AreTheEventsOf(sourceEvents, File)
    BY <1>1, EventsAreAll
  <2>2. IsSequence(File.log) /\ IsSequence(File.columns) /\ IsSequence(logged) /\ IsSequence(events)
    BY <1>1 DEF File, LogInv, LogShape, EventsInv
  <2>3. IsSequence(sourceEvents)
    <3>1. sourceEvents = [i \in DOMAIN events |-> Typed(events[i])]
      BY <1>1 DEF EventsReadInv
    <3>2. Len(events) \in Nat /\ DOMAIN events = 1..Len(events)
      BY <2>2, SequenceHas
    <3>3. sourceEvents = [j \in 1..Len(events) |-> sourceEvents[j]]
      BY <3>1, <3>2
    <3> QED
      BY <3>2, <3>3, FunctionIsSequence
  <2>4. edits = 0 => AreTheEventsOf(logged, File)
    BY <1>1 DEF UntouchedInv
  <2> QED
    BY <2>1, <2>2, <2>3, <2>4, EventsOfAFileAreUnique
<1>2. LogInv /\ UntouchedInv /\ EventsReadInv => NamedMarksAreRead
  BY <1>1 DEF NamedMarksAreRead
<1> QED
  BY <1>2, LogInvAlways, PTL

-----------------------------------------------------------------------------
(* What is accepted.  The parser's entries are what stands in the rows, so *)
(* that each check of the reader is a clause of being well formed.         *)

ClauseOfDetails(i, j) ==
  HoldsKey(detailRows[i]) /\ HoldsKey(detailRows[j]) =>
    ~\E g \in FiledFrom(detailRows, i), h \in FiledFrom(detailRows, j) :
        <<detailRows[g].heading, detailRows[i].key>> = <<detailRows[h].heading, detailRows[j].key>>

AboveInv ==
  /\ detailAt <= Len(detailRows) + 1 /\ detailsParse \in {"reading", "parsed", "refused"}
  /\ \A i, j \in Above : i < j => ClauseOfDetails(i, j)
  /\ series # None => \E i \in Above : DeclaresSeries(detailRows[i]) /\ detailRows[i].unit = series
  /\ detailsParse = "refused" => ~DetailsWellFormed(detailRows)

LEMMA OneHeading ==
  ASSUME NEW rows, NEW i \in Int, NEW g \in FiledFrom(rows, i), NEW h \in FiledFrom(rows, i)
  PROVE  g = h
<1>1. ~(g < h) /\ ~(h < g) /\ g \in Int /\ h \in Int
  BY DEF FiledFrom, Governs
<1> QED
  BY <1>1

(* A key row read so far, its heading and its entry. *)
LEMMA FiledAbove ==
  ASSUME FiledInv, NEW i \in Above, HoldsKey(detailRows[i]), NEW g \in FiledFrom(detailRows, i)
  PROVE  /\ <<detailRows[g].heading, detailRows[i].key>> \in DOMAIN entries
         /\ entries[<<detailRows[g].heading, detailRows[i].key>>] = ValueOf(detailRows[i])
<1>1. PICK h \in FiledFrom(detailRows, i) :
        /\ <<detailRows[h].heading, detailRows[i].key>> \in DOMAIN entries
        /\ entries[<<detailRows[h].heading, detailRows[i].key>>] = ValueOf(detailRows[i])
  BY DEF FiledInv, EntriesAreUnderTheirHeading
<1>2. i \in Int
  BY DEF Above, FiledInv
<1> QED
  BY <1>1, <1>2, OneHeading

LEMMA HeadingInForce ==
  ASSUME FiledInv, section # None
  PROVE  \E h \in FiledFrom(detailRows, detailAt) : detailRows[h].heading = section
BY DEF FiledInv, SectionInv, FiledFrom, Above

LEMMA NoHeadingInForce ==
  ASSUME FiledInv, section = None PROVE FiledFrom(detailRows, detailAt) = {}
BY DEF FiledInv, SectionInv, FiledFrom, Above, Governs, HeadsSection

LEMMA RefusedRowIsWrong ==
  ASSUME FiledInv, WrittenInv, AboveInv, RefuseDetail PROVE ~DetailsWellFormed(detailRows)
<1>1. /\ detailAt \in DOMAIN detailRows /\ detailAt \in Nat \ {0} /\ DOMAIN detailRows \subseteq Nat
      /\ \A i \in Above : i \in DOMAIN detailRows /\ i < detailAt
  BY SequenceHas DEF RefuseDetail, AtDetail, FiledInv, WrittenInv, Above
<1>2. CASE DeclaresSeries(Detail) /\ series \notin {None, Detail.unit}
  <2>1. PICK i \in Above : DeclaresSeries(detailRows[i]) /\ detailRows[i].unit = series
    BY <1>2 DEF AboveInv
  <2> QED
    BY <1>1, <1>2, <2>1 DEF DetailsWellFormed, Detail
<1>3. CASE HoldsKey(Detail) /\ section = None
  BY <1>1, <1>3, NoHeadingInForce DEF DetailsWellFormed, Detail
<1>4. CASE HoldsKey(Detail) /\ section # None /\ Entry(Detail) \in DOMAIN entries
  <2>1. PICK h \in FiledFrom(detailRows, detailAt) : detailRows[h].heading = section
    BY <1>4, HeadingInForce
  <2>2. PICK i \in Above : IsFiled(detailRows, Entry(Detail), i)
    BY <1>4 DEF FiledInv, EntriesAreUnderTheirHeading
  <2>3. HoldsKey(detailRows[i]) /\ \E g \in FiledFrom(detailRows, i) :
          <<detailRows[g].heading, detailRows[i].key>> = <<detailRows[h].heading, detailRows[detailAt].key>>
    BY <2>1, <2>2 DEF IsFiled, Entry, Detail
  <2> QED
    BY <1>1, <1>4, <2>3 DEF DetailsWellFormed, Detail
<1> QED
  BY <1>2, <1>3, <1>4 DEF RefuseDetail, CanBeFiled

LEMMA AboveStep ==
  ASSUME FiledInv, WrittenInv, AboveInv, ReadDetails PROVE AboveInv'
<1>1. /\ detailRows' = detailRows /\ detailAt \in Nat \ {0} /\ Len(detailRows) \in Nat
      /\ \A i, j : ClauseOfDetails(i, j)' = ClauseOfDetails(i, j)
  <2>1. detailRows' = detailRows
    BY DEF ReadDetails, DeclareSeries, EnterSection, SkipKeyless, FileEntry, RefuseDetail,
           EndOfDetails, NextDetail
  <2> QED
    BY <2>1, SequenceHas DEF ClauseOfDetails, FiledInv, WrittenInv
<1>2. CASE RefuseDetail \/ EndOfDetails
  <2>1. /\ detailAt' = detailAt /\ series' = series /\ Above' = Above
        /\ detailsParse' \in {"parsed", "refused"}
    BY <1>2 DEF RefuseDetail, EndOfDetails, Above
  <2>2. detailsParse' = "refused" => RefuseDetail
    BY <1>2 DEF EndOfDetails
  <2> QED
    BY <1>1, <2>1, <2>2, RefusedRowIsWrong DEF AboveInv
<1>3. ASSUME AtDetail, NextDetail, series' = series \/ (DeclaresSeries(Detail) /\ series' = Detail.unit),
             \A i \in Above : ClauseOfDetails(i, detailAt)
      PROVE  AboveInv'
  <2>1. /\ Above' = Above \cup {detailAt} /\ detailAt' = detailAt + 1 /\ detailsParse' = "reading"
        /\ detailAt <= Len(detailRows)
    BY <1>1, <1>3, NextAbove DEF NextDetail, AtDetail
  <2>2. \A i, j \in Above' : i < j => ClauseOfDetails(i, j)
    BY <1>1, <1>3, <2>1 DEF AboveInv, Above
  <2>3. series' # None => \E i \in Above' : DeclaresSeries(detailRows[i]) /\ detailRows[i].unit = series'
    BY <1>3, <2>1 DEF AboveInv, Detail
  <2> QED
    BY <1>1, <2>1, <2>2, <2>3 DEF AboveInv
<1>4. CASE DeclareSeries \/ EnterSection \/ SkipKeyless
  <2>1. /\ AtDetail /\ NextDetail /\ ~HoldsKey(detailRows[detailAt])
        /\ series' = series \/ (DeclaresSeries(Detail) /\ series' = Detail.unit)
    BY <1>4 DEF DeclareSeries, EnterSection, SkipKeyless, HoldsKey, HeadsSection, Detail
  <2> QED
    BY <1>3, <2>1 DEF ClauseOfDetails
<1>5. CASE FileEntry
  <2>1. AtDetail /\ NextDetail /\ series' = series /\ section # None /\ Entry(Detail) \notin DOMAIN entries
    BY <1>5 DEF FileEntry, CanBeFiled
  <2>2. ASSUME NEW i \in Above, HoldsKey(detailRows[i]),
               NEW g \in FiledFrom(detailRows, i), NEW h \in FiledFrom(detailRows, detailAt),
               <<detailRows[g].heading, detailRows[i].key>> = <<detailRows[h].heading, detailRows[detailAt].key>>
        PROVE  FALSE
    <3>1. PICK k \in FiledFrom(detailRows, detailAt) : detailRows[k].heading = section
      BY <2>1, HeadingInForce
    <3>2. detailRows[h].heading = section
      BY <1>1, <3>1, OneHeading
    <3>3. Entry(Detail) = <<detailRows[g].heading, detailRows[i].key>>
      BY <2>2, <3>2 DEF Entry, Detail
    <3> QED
      BY <2>1, <2>2, <3>3, FiledAbove
  <2>3. \A i \in Above : ClauseOfDetails(i, detailAt)
    BY <2>2 DEF ClauseOfDetails
  <2> QED
    BY <1>3, <2>1, <2>3
<1> QED
  BY <1>2, <1>4, <1>5 DEF ReadDetails

LEMMA AboveInvStep == AboveInv /\ ReaderInv /\ [Next]_vars => AboveInv'
<1> SUFFICES ASSUME AboveInv, ReaderInv, [Next]_vars PROVE AboveInv'
  OBVIOUS
<1>1. CASE OtherHands
  <2>1. NothingFiled'
    BY <1>1 DEF OtherHands, EditDetails, EditLog, Edited, detailsVars, readVars, ReaderInv, NothingFiled
  <2>2. Len(detailRows') \in Nat
    BY ReaderInvStep, SequenceHas DEF ReaderInv, WrittenInv
  <2> QED
    BY <2>1, <2>2 DEF NothingFiled, AboveInv, Above
<1>2. CASE UNCHANGED <<detailRows, detailsVars>>
  <2>1. detailRows' = detailRows /\ detailAt' = detailAt /\ series' = series /\ detailsParse' = detailsParse
    BY <1>2 DEF detailsVars
  <2>2. \A i, j : ClauseOfDetails(i, j)' = ClauseOfDetails(i, j)
    BY <2>1 DEF ClauseOfDetails
  <2>3. Above' = Above
    BY <2>1 DEF Above
  <2> QED
    BY <2>1, <2>2, <2>3 DEF AboveInv
<1>3. ReadDetails => AboveInv'
  BY AboveStep DEF ReaderInv
<1>4. OtherHands \/ ReadDetails \/ UNCHANGED <<detailRows, detailsVars>>
  BY DEF Next, ReadStep, Open, ParseDetails, ParseLog, CheckUnits, ReadStatistics, ReadEvents,
         ReadMetadata, SameFile, SameTables, fileVars, vars
<1> QED
  BY <1>1, <1>2, <1>3, <1>4

(* Of a details table read to its end: its entries are what its rows hold. *)
LEMMA ReadDetailsAreWellFormed ==
  ASSUME FiledInv, WrittenInv, AboveInv, detailAt > Len(detailRows)
  PROVE  /\ Above = DOMAIN detailRows
         /\ DetailsWellFormed(detailRows)
<1>1. Above = DOMAIN detailRows /\ DOMAIN detailRows \subseteq Int
  BY SequenceHas DEF FiledInv, WrittenInv, AboveInv, Above
<1>2. \A i \in DOMAIN detailRows : HoldsKey(detailRows[i]) => FiledFrom(detailRows, i) # {}
  BY <1>1 DEF FiledInv, EntriesAreUnderTheirHeading
<1>3. \A i, j \in DOMAIN detailRows : i < j => ClauseOfDetails(i, j)
  BY <1>1 DEF AboveInv
<1>4. \A i, j \in DOMAIN detailRows : DeclaresSeries(detailRows[i]) /\ DeclaresSeries(detailRows[j]) =>
        detailRows[i].unit = detailRows[j].unit
  BY <1>1 DEF FiledInv, EntriesAreUnderTheirHeading
<1> QED
  BY <1>1, <1>2, <1>3, <1>4 DEF DetailsWellFormed, ClauseOfDetails

LEMMA EntriesAreTheValues ==
  ASSUME FiledInv, WrittenInv, Above = DOMAIN detailRows, NEW e
  PROVE  /\ e \in DOMAIN entries => ValuesOf(File, e) = {entries[e]} /\ entries[e] # None
         /\ e \notin DOMAIN entries => ValuesOf(File, e) = {}
<1>1. ValuesOf(File, e) =
        {ValueOf(detailRows[i]) : i \in {j \in DOMAIN detailRows : IsFiled(detailRows, e, j)}}
  BY DEF ValuesOf, File
<1>2. ASSUME NEW i \in DOMAIN detailRows, IsFiled(detailRows, e, i)
      PROVE  e \in DOMAIN entries /\ entries[e] = ValueOf(detailRows[i])
  BY <1>2, FiledAbove DEF IsFiled
<1>3. e \in DOMAIN entries => \E i \in DOMAIN detailRows : IsFiled(detailRows, e, i)
  BY DEF FiledInv, EntriesAreUnderTheirHeading
<1>4. \A i : ValueOf(detailRows[i]) # None
  BY EmptyTextAssumption DEF ValueOf
<1> QED
  BY <1>1, <1>2, <1>3, <1>4

LEMMA UnitsCheckIsExact ==
  ASSUME FiledInv, AboveInv, Above = DOMAIN detailRows
  PROVE  UnitsAgree <=> UnitsWellFormed(File)
<1>1. UnitsWellFormed(File) <=>
        \E i \in DOMAIN detailRows :
          /\ DeclaresSeries(detailRows[i])
          /\ {detailRows[i].unit, dataUnit} \subseteq DOMAIN UNIT_SYMBOLS
          /\ UNIT_SYMBOLS[detailRows[i].unit] = UNIT_SYMBOLS[dataUnit]
  BY DEF UnitsWellFormed, File
<1>2. \A i \in DOMAIN detailRows : DeclaresSeries(detailRows[i]) =>
        series = detailRows[i].unit /\ series # None
  BY DEF FiledInv, EntriesAreUnderTheirHeading, DeclaresSeries
<1>3. series # None => \E i \in DOMAIN detailRows : DeclaresSeries(detailRows[i]) /\ detailRows[i].unit = series
  BY DEF AboveInv
<1> QED
  BY <1>1, <1>2, <1>3 DEF UnitsAgree

LEMMA StatisticsCheckIsExact ==
  ASSUME FiledInv, WrittenInv, Above = DOMAIN detailRows
  PROVE  (PublishedKeys # {} => StatisticsReadable) <=> StatisticsWellFormed(File)
<1> DEFINE Of(key) == ValuesOf(File, <<SERIES_STATISTICS, key>>)
<1>1. \A key : key \in PublishedKeys <=> <<SERIES_STATISTICS, key>> \in DOMAIN entries
  BY DEF PublishedKeys, WrittenInv
<1>2. \A key : /\ key \in PublishedKeys => Of(key) = {Statistic(key)}
               /\ key \notin PublishedKeys => Of(key) = {}
  BY <1>1, EntriesAreTheValues DEF Statistic
<1>3. PublishedKeys = {} <=> \A i \in DOMAIN detailRows : Of(detailRows[i].key) = {}
  <2>1. ASSUME NEW key \in PublishedKeys PROVE \E i \in DOMAIN detailRows : detailRows[i].key = key
    <3>1. <<SERIES_STATISTICS, key>> \in DOMAIN entries
      BY <1>1
    <3>2. PICK i \in DOMAIN detailRows : IsFiled(detailRows, <<SERIES_STATISTICS, key>>, i)
      BY <3>1 DEF FiledInv, EntriesAreUnderTheirHeading
    <3> QED
      BY <3>2 DEF IsFiled
  <2> HIDE DEF Of
  <2>2. PublishedKeys # {} => \E i \in DOMAIN detailRows : Of(detailRows[i].key) # {}
    BY <1>2, <2>1
  <2> QED
    BY <1>2, <2>2
<1> HIDE DEF Of
<1>4. StatisticsReadable <=>
        /\ \A key \in StatisticKeys : Of(key) # {} /\ EmptyText \notin Of(key)
        /\ \A key \in SampleTimes : \A value \in Of(key) : value.zone = dataZone
  <2>1. SampleTimes \subseteq StatisticKeys
    BY DEF SampleTimes, StatisticKeys
  <2>2. StatisticsReadable =>
          /\ \A key \in StatisticKeys : Of(key) # {} /\ EmptyText \notin Of(key)
          /\ \A key \in SampleTimes : \A value \in Of(key) : value.zone = dataZone
    BY <1>2, <2>1 DEF StatisticsReadable
  <2>3. ASSUME \A key \in StatisticKeys : Of(key) # {} /\ EmptyText \notin Of(key),
               \A key \in SampleTimes : \A value \in Of(key) : value.zone = dataZone
        PROVE  StatisticsReadable
    <3>1. \A key \in StatisticKeys : key \in PublishedKeys /\ Of(key) = {Statistic(key)}
      BY <1>2, <2>3
    <3> QED
      BY <2>1, <2>3, <3>1 DEF StatisticsReadable
  <2> QED
    BY <2>2, <2>3
<1>5. StatisticsWellFormed(File) <=>
        \/ \A i \in DOMAIN detailRows : Of(detailRows[i].key) = {}
        \/ /\ \A key \in StatisticKeys : Of(key) # {} /\ EmptyText \notin Of(key)
           /\ \A key \in SampleTimes : \A value \in Of(key) : value.zone = dataZone
  <2>1. File.details = detailRows /\ File.dataZone = dataZone
    BY DEF File
  <2> QED
    BY <2>1 DEF StatisticsWellFormed, Of
<1> QED
  BY <1>3, <1>4, <1>5

MetadataWellFormed ==
  /\ \A field \in DOMAIN RequiredEntries : ValuesOf(File, RequiredEntries[field]) # {}
  /\ \A field \in Converted : EmptyText \notin ValuesOf(File, RequiredEntries[field])

LEMMA MetadataCheckIsExact ==
  ASSUME FiledInv, WrittenInv, Above = DOMAIN detailRows
  PROVE  MetadataReadable <=> MetadataWellFormed
<1>1. Converted \subseteq DOMAIN RequiredEntries
  BY DEF Converted, RequiredEntries
<1>2. ASSUME NEW field \in DOMAIN RequiredEntries
      PROVE  \/ Stated(field) # None /\ ValuesOf(File, RequiredEntries[field]) = {Stated(field)}
             \/ Stated(field) = None /\ ValuesOf(File, RequiredEntries[field]) = {}
  <2> DEFINE e == RequiredEntries[field]
  <2> HIDE DEF e
  <2>1. /\ e \in DOMAIN entries => ValuesOf(File, e) = {entries[e]} /\ entries[e] # None
        /\ e \notin DOMAIN entries => ValuesOf(File, e) = {}
    BY EntriesAreTheValues
  <2> QED
    BY <2>1 DEF Stated, LookedUp, e
<1> QED
  BY <1>1, <1>2 DEF MetadataReadable, MetadataWellFormed

LEMMA LogCheckIsExact ==
  ASSUME LogInv, logParse = "parsed"
  PROVE  LogUnderstood <=> LogWellFormed(File)
<1>1. \A i \in DOMAIN logRows : IsEmptyRow(columns, logRows[i]) \/ IsEvent(columns, logRows[i])
  BY SequenceHas DEF LogInv, LogShape, EventsInv
<1>2. MarksAbove = MarksOf(File)
  BY SequenceHas, MarksOfFile DEF LogInv, LogShape, EventsInv, MarksAbove
<1>3. /\ \A m \in MarksOf(File) : Cardinality(MarksUpTo(File, m)) \in 1..Cardinality(MarksOf(File))
      /\ \A n \in 1..Cardinality(MarksOf(File)) :
           \E m \in MarksOf(File) : Cardinality(MarksUpTo(File, m)) = n
  <2>1. IsSequence(File.log) /\ IsSequence(File.columns)
    BY DEF File, LogInv, LogShape
  <2> QED
    BY <2>1, MarksHaveRanks
<1>4. DOMAIN events = 1..Cardinality(MarksOf(File))
  BY <1>2, SequenceHas DEF LogInv, EventsInv
<1>5. \A m \in MarksOf(File) : events[Cardinality(MarksUpTo(File, m))].label = columns[m[2]]
  <2> TAKE m \in MarksOf(File)
  <2> DEFINE event == events[Cardinality(MarksUpTo(File, m))]
  <2>1. event = [at |-> logRows[m[1]].stamp, label |-> columns[m[2]]]
    BY <1>2 DEF LogInv, EventsInv
  <2> HIDE DEF event
  <2>2. event.label = columns[m[2]]
    BY <2>1
  <2> QED
    BY <2>2 DEF event
<1>6. (\A i \in DOMAIN events : events[i].label \in DOMAIN EventTypes) <=>
        (\A m \in MarksOf(File) : columns[m[2]] \in DOMAIN EventTypes)
  BY <1>3, <1>4, <1>5
<1>7. LogWellFormed(File) <=> logZone = dataZone /\ \A m \in MarksOf(File) : columns[m[2]] \in DOMAIN EventTypes
  BY <1>1 DEF LogWellFormed, File
<1> QED
  BY <1>6, <1>7 DEF LogUnderstood

VerdictInv ==
  /\ logParse = "refused" => ~LogWellFormed(File)
  /\ stage \in {"events", "metadata", "read"} => (PublishedKeys # {} => StatisticsReadable)
  /\ stage = "read" => MetadataReadable
  /\ stage = "refused" => ~WellFormed(File)

LEMMA VerdictStep ==
  VerdictInv /\ ReaderInv /\ UnitInv /\ AboveInv /\ LogInv /\ EventsReadInv /\ [Next]_vars => VerdictInv'
<1> SUFFICES ASSUME VerdictInv, ReaderInv, UnitInv, AboveInv, LogInv, EventsReadInv, [Next]_vars
             PROVE  VerdictInv'
  OBVIOUS
<1> USE DEF MetadataWellFormed
<1>1. CASE OtherHands
  BY <1>1 DEF OtherHands, EditDetails, EditLog, Edited, readVars, logVars, VerdictInv, LogInv, NothingLogged
<1>2. ASSUME SameFile
      PROVE  /\ File' = File /\ WellFormed(File)' = WellFormed(File)
             /\ LogWellFormed(File)' = LogWellFormed(File)
  <2>1. File' = File
    BY <1>2 DEF SameFile, fileVars, File
  <2> QED
    BY <2>1
<1>3. ASSUME entries' = entries, dataZone' = dataZone
      PROVE  /\ PublishedKeys' = PublishedKeys /\ StatisticsReadable' = StatisticsReadable
             /\ MetadataReadable' = MetadataReadable
  BY <1>3 DEF PublishedKeys, StatisticsReadable, Statistic, MetadataReadable, Stated, LookedUp
<1>4. detailsParse = "parsed" =>
        /\ Above = DOMAIN detailRows /\ DetailsWellFormed(detailRows)
        /\ UnitsAgree <=> UnitsWellFormed(File)
        /\ (PublishedKeys # {} => StatisticsReadable) <=> StatisticsWellFormed(File)
        /\ MetadataReadable <=> MetadataWellFormed
  BY ReadDetailsAreWellFormed, UnitsCheckIsExact, StatisticsCheckIsExact, MetadataCheckIsExact
  DEF ReaderInv, UnitInv
<1>5. CASE UNCHANGED vars
  <2>1. SameFile /\ entries' = entries /\ dataZone' = dataZone /\ stage' = stage /\ logParse' = logParse
    BY <1>5 DEF vars, SameFile, fileVars, detailsVars, logVars, readVars
  <2> QED
    BY <1>2, <1>3, <2>1 DEF VerdictInv
<1>6. CASE Open
  BY <1>2, <1>6 DEF Open, SameTables, logVars, VerdictInv
<1>7. CASE ParseDetails
  <2>1. /\ SameFile /\ logParse' = logParse /\ stage' \in {"details", "log", "refused"}
        /\ stage' = "refused" => detailsParse \notin {"parsed", "reading"}
    BY <1>7 DEF ParseDetails, Then, ReadDetails, DeclareSeries, EnterSection, SkipKeyless, FileEntry,
                RefuseDetail, EndOfDetails, NextDetail, SameFile, fileVars, logVars
  <2>2. detailsParse \notin {"parsed", "reading"} => detailsParse = "refused"
    BY DEF AboveInv
  <2>3. stage' = "refused" => ~WellFormed(File)
    BY <2>1, <2>2 DEF AboveInv, WellFormed, File
  <2> QED
    BY <1>2, <2>1, <2>3 DEF VerdictInv
<1>8. CASE ParseLog
  <2>1. /\ SameFile /\ entries' = entries /\ stage' \in {"log", "units", "refused"}
        /\ stage' = "refused" => logParse = "refused"
        /\ logParse' = "refused" => logParse = "refused" \/ RefuseEvent
    BY <1>8 DEF ParseLog, Then, ReadLog, SkipEmptyRow, ReadEvent, RefuseEvent, EndOfLog, AtEvent,
                SameFile, fileVars, detailsVars, logVars, LogInv, EventsInv
  <2>2. RefuseEvent => ~LogWellFormed(File)
    <3>1. RefuseEvent => logAt \in DOMAIN logRows
      BY SequenceHas DEF RefuseEvent, AtEvent, LogInv, LogShape, EventsInv
    <3> QED
      BY <3>1 DEF RefuseEvent, EventRow, LogWellFormed, File
  <2>3. stage' = "refused" => ~WellFormed(File)
    BY <2>1 DEF VerdictInv, WellFormed
  <2> QED
    BY <1>2, <2>1, <2>2, <2>3 DEF VerdictInv
<1>9. ASSUME SameFile, SameTables, stage \in {"units"} \cup Checked,
             stage' \in {"events", "metadata", "read"} => (PublishedKeys # {} => StatisticsReadable),
             stage' = "read" => MetadataReadable,
             stage' = "refused" =>
               \/ ~UnitsAgree \/ ~MetadataReadable \/ ~LogUnderstood
               \/ ~(PublishedKeys # {} => StatisticsReadable)
      PROVE  VerdictInv'
  <2>1. entries' = entries /\ dataZone' = dataZone /\ logParse' = logParse
    BY <1>9 DEF SameFile, SameTables, fileVars, detailsVars, logVars
  <2>2. detailsParse = "parsed" /\ logParse = "parsed"
    BY <1>9 DEF UnitInv, EventsReadInv, Checked
  <2>3. LogUnderstood <=> LogWellFormed(File)
    BY <2>2, LogCheckIsExact
  <2>4. stage' = "refused" => ~WellFormed(File)
    BY <1>4, <1>9, <2>2, <2>3 DEF WellFormed
  <2> QED
    BY <1>2, <1>3, <1>9, <2>1, <2>2, <2>4 DEF VerdictInv
<1>10. CASE CheckUnits
  BY <1>9, <1>10 DEF CheckUnits, Then
<1>11. CASE ReadStatistics
  BY <1>9, <1>11 DEF ReadStatistics, Then, Checked
<1>12. CASE ReadEvents
  BY <1>9, <1>12 DEF ReadEvents, Then, Checked, VerdictInv
<1>13. CASE ReadMetadata
  BY <1>9, <1>13 DEF ReadMetadata, Then, Checked, VerdictInv
<1> QED
  BY <1>1, <1>5, <1>6, <1>7, <1>8, <1>10, <1>11, <1>12, <1>13 DEF Next, ReadStep

(* The reader refuses exactly what is not well formed: it reads no export  *)
(* with a key row under no heading, an entry twice, two units or zones, an *)
(* unknown unit, a torn statistics block, a malformed or unknown event or  *)
(* a required field missing, and it refuses no other, so none that nobody  *)
(* touched (read and the functions it calls).                              *)
THEOREM WellFormedIsAlwaysRead == Spec => []WellFormedIsRead
<1>1. Init => AboveInv /\ VerdictInv /\ UnitInv
  <2> SUFFICES ASSUME Init PROVE AboveInv /\ VerdictInv /\ UnitInv
    OBVIOUS
  <2>1. Len(detailRows) \in Nat
    BY ReaderInvInit, SequenceHas DEF ReaderInv, WrittenInv
  <2> QED
    BY <2>1 DEF Init, AboveInv, VerdictInv, UnitInv, NothingFiled, NothingLogged, Above, Checked
<1>2. AboveInv /\ VerdictInv /\ UnitInv /\ ReaderInv /\ LogInv /\ EventsReadInv /\ [Next]_vars =>
        AboveInv' /\ VerdictInv' /\ UnitInv'
  BY AboveInvStep, VerdictStep, UnitInvStep
<1>3. ASSUME AboveInv, VerdictInv, UnitInv, ReaderInv, LogInv, EventsReadInv, stage = "read"
      PROVE  WellFormed(File)
  <2>1. /\ detailsParse = "parsed" /\ logParse = "parsed" /\ UnitsAgree /\ LogUnderstood
        /\ MetadataReadable /\ (PublishedKeys # {} => StatisticsReadable)
        /\ detailAt > Len(detailRows)
    BY <1>3 DEF UnitInv, EventsReadInv, VerdictInv, Checked
  <2>2. Above = DOMAIN detailRows /\ DetailsWellFormed(detailRows)
    BY <1>3, <2>1, ReadDetailsAreWellFormed DEF ReaderInv
  <2>3. UnitsWellFormed(File) /\ StatisticsWellFormed(File) /\ MetadataWellFormed /\ LogWellFormed(File)
    BY <1>3, <2>1, <2>2, UnitsCheckIsExact, StatisticsCheckIsExact, MetadataCheckIsExact, LogCheckIsExact
    DEF ReaderInv
  <2>4. File.details = detailRows
    BY DEF File
  <2> QED
    BY <2>2, <2>3, <2>4 DEF WellFormed, MetadataWellFormed
<1>4. AboveInv /\ VerdictInv /\ UnitInv /\ ReaderInv /\ LogInv /\ EventsReadInv /\ UntouchedInv =>
        WellFormedIsRead
  BY <1>3 DEF WellFormedIsRead, VerdictInv, UntouchedInv
<1> QED
  BY <1>1, <1>2, <1>4, ReaderInvAlways, LogInvAlways, PTL DEF Spec
=============================================================================
