----------------------------- MODULE DataTable ------------------------------
(***************************************************************************)
(* Reading the rows of a data table (instruments/tables.py, parse_data).   *)
(*                                                                         *)
(* A cell is None, Unreadable (text where a number or a stamp belongs, a   *)
(* fraction where a sample number belongs), Infinite (the text "inf",      *)
(* which float() accepts), or a number.  A stamp is a number of ticks in   *)
(* the source's own frame.  A row is a record of its three cells; the      *)
(* format without a sample-number column never looks at the first.         *)
(***************************************************************************)
EXTENDS Integers, Sequences, FiniteSets

CONSTANTS
  None, Unreadable, Infinite,
  NaN           \* the reading of a sample that was logged without one

NotNumbers == {None, Unreadable, Infinite}
ASSUME CellsAssumption ==
  /\ NotNumbers \cap Int = {} /\ NaN \notin NotNumbers \cup Int
  /\ None # Unreadable /\ None # Infinite /\ Unreadable # Infinite

Cells == Int \cup NotNumbers
RowType == [number : Cells, stamp : Cells, value : Cells]

VARIABLES
  numbered,     \* whether the format declares a sample-number column
  rows,         \* the rows below the header
  next,         \* the row to read next
  numbers,      \* numbers: the sample numbers read
  stamps,       \* stamps: the timestamps read
  values,       \* values: the readings
  blank,        \* blank: how many blank rows were skipped
  parse         \* "unread", "reading", "parsed", or the exception raised

parseVars == <<next, numbers, stamps, values, blank, parse>>
tableVars == <<numbered, rows, next, numbers, stamps, values, blank, parse>>

ParseRefusals == {"ValueError", "OverflowError"}

NothingParsed ==
  /\ next = 1 /\ numbers = << >> /\ stamps = << >> /\ values = << >>
  /\ blank = 0 /\ parse = "unread"

-----------------------------------------------------------------------------
Row == rows[next]

IsBlank(row) ==
  /\ numbered => row.number = None
  /\ row.stamp = None
  /\ row.value = None

(* _value: an empty cell is a sample without a reading, text is refused.   *)
ReadsAs(cell) == IF cell = None THEN NaN ELSE cell

(* _number: the first number of the table is taken as it is, each later    *)
(* one has to continue the sequence.                                       *)
SlipNumberUnchecked(cell) == TRUE

ContinuesNumbering(cell) == numbers # << >> => cell = numbers[Len(numbers)] + 1

Readable(row) ==
  /\ row.stamp \notin NotNumbers
  /\ row.value # Unreadable
  /\ numbered => row.number \notin NotNumbers /\ ContinuesNumbering(row.number)

(* int(inf) is the one failure of a cell that is not a ValueError; stamp   *)
(* and reading are converted before the sample number.                     *)
Overflows(row) ==
  /\ row.stamp \notin NotNumbers
  /\ row.value # Unreadable
  /\ numbered /\ row.number = Infinite

StartReading ==
  /\ parse = "unread"
  /\ parse' = "reading"
  /\ UNCHANGED <<numbered, rows, next, numbers, stamps, values, blank>>

AtRow == parse = "reading" /\ next <= Len(rows)

SlipBlankStampKept ==
  /\ AtRow /\ IsBlank(Row)
  /\ blank' = blank + 1
  /\ next' = next + 1
  /\ values' = Append(values, NaN)
  /\ UNCHANGED <<numbered, rows, numbers, stamps, parse>>

SkipBlankRow ==
  /\ AtRow /\ IsBlank(Row)
  /\ blank' = blank + 1
  /\ next' = next + 1
  /\ UNCHANGED <<numbered, rows, numbers, stamps, values, parse>>

ReadRow ==
  /\ AtRow /\ ~IsBlank(Row) /\ Readable(Row)
  /\ stamps' = Append(stamps, Row.stamp)
  /\ values' = Append(values, ReadsAs(Row.value))
  /\ numbers' = IF numbered THEN Append(numbers, Row.number) ELSE numbers
  /\ next' = next + 1
  /\ UNCHANGED <<numbered, rows, blank, parse>>

RefuseRow ==
  /\ AtRow /\ ~IsBlank(Row) /\ ~Readable(Row)
  /\ parse' = IF Overflows(Row) THEN "OverflowError" ELSE "ValueError"
  /\ UNCHANGED <<numbered, rows, next, numbers, stamps, values, blank>>

EndOfRows ==
  /\ parse = "reading" /\ next > Len(rows)
  /\ parse' = "parsed"
  /\ UNCHANGED <<numbered, rows, next, numbers, stamps, values, blank>>

ReadTable == StartReading \/ SkipBlankRow \/ ReadRow \/ RefuseRow \/ EndOfRows

-----------------------------------------------------------------------------
TableTypeOK ==
  /\ numbered \in BOOLEAN /\ rows \in Seq(RowType)
  /\ next \in 1..(Len(rows) + 1)
  /\ numbers \in Seq(Int) /\ stamps \in Seq(Int)
  /\ values \in Seq(Int \cup {NaN, Infinite})
  /\ blank \in 0..Len(rows)
  /\ parse \in {"unread", "reading", "parsed"} \cup ParseRefusals

(* The three lists stay aligned: what was read of the table is, row by     *)
(* row, the non-blank rows above `next', in their order, and every blank   *)
(* row is counted: nothing is skipped without a note.                      *)
KeptUpTo(i) == {j \in 1..i : ~IsBlank(rows[j])}
Rank(i) == Cardinality(KeptUpTo(i))

ParseIsAligned ==
  /\ Len(stamps) = Rank(next - 1) /\ Len(values) = Len(stamps)
  /\ Len(stamps) + blank = next - 1
  /\ numbered => Len(numbers) = Len(stamps)
  /\ \A i \in KeptUpTo(next - 1) :
       /\ stamps[Rank(i)] = rows[i].stamp
       /\ values[Rank(i)] = ReadsAs(rows[i].value)
       /\ numbered => numbers[Rank(i)] = rows[i].number
=============================================================================
