------------------------------ MODULE Details ------------------------------
(***************************************************************************)
(* Reading the key/value rows of a details table (instruments/tables.py,   *)
(* parse_details): one step per row.  A row holds what its four columns    *)
(* hold: a series declaration (the unit it ends in stands for it), a       *)
(* section heading, a key and the key's value, each None where the cell is *)
(* empty.                                                                  *)
(***************************************************************************)
EXTENDS Integers, Sequences

CONSTANTS
  None,          \* an empty cell, or nothing read yet
  EmptyText      \* the empty string an empty value cell is read as

ASSUME EmptyTextAssumption == EmptyText # None

VARIABLES
  detailRows,    \* the rows of the details table
  detailAt,      \* the row to read next
  entries,       \* entries: <<section, key>> -> value
  series,        \* series: the unit of the declared series
  section,       \* section: the heading in force
  detailsParse   \* "reading", "parsed" or "refused"

detailsVars == <<detailAt, entries, series, section, detailsParse>>

NothingFiled ==
  /\ detailAt = 1 /\ entries = [e \in {} |-> None]
  /\ series = None /\ section = None /\ detailsParse = "reading"

-----------------------------------------------------------------------------
AtDetail == detailsParse = "reading" /\ detailAt <= Len(detailRows)
Detail == detailRows[detailAt]
NextDetail == detailAt' = detailAt + 1 /\ UNCHANGED <<detailRows, detailsParse>>

(* A row is read from the left: a series declaration hides what stands     *)
(* beside it, a heading the key beside it.                                 *)
DeclaresSeries(row) == row.unit # None
HeadsSection(row) == ~DeclaresSeries(row) /\ row.heading # None
HoldsKey(row) == ~DeclaresSeries(row) /\ ~HeadsSection(row) /\ row.key # None

DeclareSeries ==
  /\ AtDetail /\ DeclaresSeries(Detail)
  /\ series \in {None, Detail.unit}
  /\ series' = Detail.unit
  /\ NextDetail /\ UNCHANGED <<entries, section>>

EnterSection ==
  /\ AtDetail /\ HeadsSection(Detail)
  /\ section' = Detail.heading
  /\ NextDetail /\ UNCHANGED <<entries, series>>

SkipKeyless ==
  /\ AtDetail
  /\ ~DeclaresSeries(Detail) /\ ~HeadsSection(Detail) /\ ~HoldsKey(Detail)
  /\ NextDetail /\ UNCHANGED <<entries, series, section>>

Entry(row) == <<section, row.key>>
ValueOf(row) == IF row.value = None THEN EmptyText ELSE row.value

SlipRepeatOverwrites(row) == section # None
CanBeFiled(row) == section # None /\ Entry(row) \notin DOMAIN entries

FileEntry ==
  /\ AtDetail /\ HoldsKey(Detail) /\ CanBeFiled(Detail)
  /\ entries' = [e \in DOMAIN entries \cup {Entry(Detail)} |->
                   IF e = Entry(Detail) THEN ValueOf(Detail) ELSE entries[e]]
  /\ NextDetail /\ UNCHANGED <<series, section>>

RefuseDetail ==
  /\ AtDetail
  /\ \/ DeclaresSeries(Detail) /\ series \notin {None, Detail.unit}
     \/ HoldsKey(Detail) /\ ~CanBeFiled(Detail)
  /\ detailsParse' = "refused"
  /\ UNCHANGED <<detailRows, detailAt, entries, series, section>>

EndOfDetails ==
  /\ detailsParse = "reading" /\ detailAt > Len(detailRows)
  /\ detailsParse' = "parsed"
  /\ UNCHANGED <<detailRows, detailAt, entries, series, section>>

ReadDetails ==
  \/ DeclareSeries \/ EnterSection \/ SkipKeyless \/ FileEntry \/ RefuseDetail \/ EndOfDetails

-----------------------------------------------------------------------------
(* Every entry comes from a row read so far that stands under the entry's  *)
(* heading with no other heading between, every such row has its entry     *)
(* with its own value, and the declared series is the one of every series  *)
(* row: nothing is overwritten and nothing is filed under a neighbour.     *)
Above == 1..(detailAt - 1)
Governs(rows, h, i) ==
  /\ h < i /\ HeadsSection(rows[h])
  /\ \A j \in (h + 1)..(i - 1) : ~HeadsSection(rows[j])
FiledFrom(rows, i) == {h \in 1..(i - 1) : Governs(rows, h, i)}
IsFiled(rows, e, i) ==
  HoldsKey(rows[i]) /\ \E h \in FiledFrom(rows, i) : e = <<rows[h].heading, rows[i].key>>

EntriesAreUnderTheirHeading ==
  /\ \A i \in Above : HoldsKey(detailRows[i]) =>
       \E h \in FiledFrom(detailRows, i) :
         LET e == <<detailRows[h].heading, detailRows[i].key>>
         IN  e \in DOMAIN entries /\ entries[e] = ValueOf(detailRows[i])
  /\ \A e \in DOMAIN entries : \E i \in Above : IsFiled(detailRows, e, i)
  /\ \A i \in Above : DeclaresSeries(detailRows[i]) => series = detailRows[i].unit
=============================================================================
