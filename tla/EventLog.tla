----------------------------- MODULE EventLog -----------------------------
(***************************************************************************)
(* Reading an event table (instruments/tables.py, parse_events): one step  *)
(* per row.  `columns' is the header without the cell of the stamp: what   *)
(* each cell names, if anything.  A row holds its stamp and, under each    *)
(* cell of the header, a text.  A text that is no stamp is OtherText.      *)
(***************************************************************************)
EXTENDS Integers, Sequences, FiniteSets

CONSTANTS
  Empty,        \* an empty cell
  Marker,       \* the text that marks an event
  SampleNumber, \* the name of the column that numbers the rows
  OtherText     \* any other text

VARIABLES
  columns,      \* the cells of the header, in order
  logRows,      \* the rows below the header: their stamp and their cells
  logAt,        \* the row to read next
  events,       \* events: the marked cells read so far
  logBlank,     \* blank: how many blank rows were skipped
  logParse      \* "reading", "parsed" or "refused"

logVars == <<logAt, events, logBlank, logParse>>

NothingLogged == logAt = 1 /\ events = << >> /\ logBlank = 0 /\ logParse = "reading"

-----------------------------------------------------------------------------
AtEvent == logParse = "reading" /\ logAt <= Len(logRows)
EventRow == logRows[logAt]

(* The columns that hold events: those that the header names, but the      *)
(* numbers'.  Whatever stands under an empty cell of the header is not     *)
(* looked at.                                                              *)
EventColumns(header) == {c \in DOMAIN header : header[c] \notin {Empty, SampleNumber}}

SlipFirstMarkOnly(header, row) ==
  {c \in EventColumns(header) :
     /\ row.cells[c] # Empty
     /\ \A d \in EventColumns(header) : d < c => row.cells[d] = Empty}

Marked(header, row) == {c \in EventColumns(header) : row.cells[c] # Empty}

IsEmptyRow(header, row) == row.stamp = Empty /\ Marked(header, row) = {}

IsEvent(header, row) ==
  /\ row.stamp \notin {Empty, OtherText}
  /\ Marked(header, row) # {}
  /\ \A c \in Marked(header, row) : row.cells[c] = Marker

(* One event per marked cell, from the left. *)
NthMarked(header, row, n) ==
  CHOOSE c \in Marked(header, row) : Cardinality({d \in Marked(header, row) : d <= c}) = n

EventsOf(header, row) ==
  [n \in 1..Cardinality(Marked(header, row)) |->
     [at |-> row.stamp, label |-> header[NthMarked(header, row, n)]]]

SkipEmptyRow ==
  /\ AtEvent /\ IsEmptyRow(columns, EventRow)
  /\ logBlank' = logBlank + 1 /\ logAt' = logAt + 1
  /\ UNCHANGED <<columns, logRows, events, logParse>>

ReadEvent ==
  /\ AtEvent /\ IsEvent(columns, EventRow)
  /\ events' = events \o EventsOf(columns, EventRow)
  /\ logAt' = logAt + 1
  /\ UNCHANGED <<columns, logRows, logBlank, logParse>>

RefuseEvent ==
  /\ AtEvent /\ ~IsEmptyRow(columns, EventRow) /\ ~IsEvent(columns, EventRow)
  /\ logParse' = "refused"
  /\ UNCHANGED <<columns, logRows, logAt, events, logBlank>>

EndOfLog ==
  /\ logParse = "reading" /\ logAt > Len(logRows)
  /\ logParse' = "parsed"
  /\ UNCHANGED <<columns, logRows, logAt, events, logBlank>>

ReadLog == SkipEmptyRow \/ ReadEvent \/ RefuseEvent \/ EndOfLog
=============================================================================
