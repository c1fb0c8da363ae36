------------------------------- MODULE Ingest -------------------------------
(***************************************************************************)
(* From a logger's recording to a canonical series.  A logger records      *)
(* samples at a fixed interval and its app exports them, with statistics   *)
(* of its own; the file passes through other hands (a spreadsheet, a       *)
(* script) before it is read; `inspect' parses it (DataTable), gates it    *)
(* (Checksum), renders its grid and exits with a code; `assemble' resolves *)
(* the stamps to UTC and places them on a grid (Grid).                     *)
(***************************************************************************)
EXTENDS DataTable

CONSTANTS
  Recordings,       \* what a logger may have taken: its readings, one per
                    \* sample, and the shift of the local clock meanwhile
  Interval,         \* ticks between two samples
  FirstInstant,     \* the instant of the first sample, in UTC ticks
  Offset,           \* (local - UTC) of the label the export declares
  SuppliedIntervals,\* what an operator may state where the file does not
  EditedStamps,     \* stamps an editor may type into a row
  MaxEdits          \* how many edits the file goes through (model bound)

G == INSTANCE Grid
C == INSTANCE Checksum

ASSUME IngestAssumption ==
  /\ Recordings \subseteq [readings : Seq(Int \cup {NaN}), shift : [at : Int, by : Int]]
  /\ Interval \in Nat \ {0} /\ SuppliedIntervals \subseteq Int
  /\ FirstInstant \in Int /\ Offset \in Int
  /\ EditedStamps \subseteq Int /\ MaxEdits \in Nat

VARIABLES
  recording,    \* what the logger took
  shift,        \* the local clock moves by shift.by at UTC instant shift.at
  statistics,   \* "published", "partial" or "absent" in the details table
  edits,        \* how many edits were made
  retimed,      \* whether an edit typed a stamp
  stage,        \* where the tool is
  gate,         \* GateOutcome: "not_run", "not_applicable", "agrees", "refused"
  exit,         \* the exit code of inspect, None before it
  series        \* the series of the assembled record

sourceVars == <<recording, shift, statistics, edits, retimed>>
vars == <<numbered, rows, next, numbers, stamps, values, blank, parse,
          recording, shift, statistics, edits, retimed, stage, gate, exit, series>>

NoSeries == [t \in {} |-> NaN]

-----------------------------------------------------------------------------
(* The logger and its export. *)
TrueInstant(i) == FirstInstant + (i - 1) * Interval

LocalStamp(i) ==
  TrueInstant(i) + Offset + (IF TrueInstant(i) >= shift.at THEN shift.by ELSE 0)

LoggedStamps == [i \in DOMAIN recording |-> LocalStamp(i)]

Exported(readings) ==
  [i \in DOMAIN readings |->
     [number |-> i, stamp |-> LocalStamp(i),
      value |-> IF readings[i] = NaN THEN None ELSE readings[i]]]

Init ==
  /\ numbered \in BOOLEAN
  /\ \E r \in Recordings : recording = r.readings /\ shift = r.shift
  /\ rows = Exported(recording)
  /\ statistics = (IF numbered THEN "published" ELSE "absent")
  /\ edits = 0 /\ retimed = FALSE
  /\ NothingParsed
  /\ stage = "file" /\ gate = "not_run" /\ exit = None /\ series = NoSeries

(* Other hands. *)
Edit(newRows) ==
  /\ stage = "file" /\ edits < MaxEdits
  /\ rows' = newRows
  /\ edits' = edits + 1
  /\ UNCHANGED <<numbered, parseVars, recording, shift, stage, gate, exit, series>>

DeleteRow(i) ==
  /\ Edit([j \in 1..(Len(rows) - 1) |-> IF j < i THEN rows[j] ELSE rows[j + 1]])
  /\ UNCHANGED <<statistics, retimed>>

RepeatRow(i) ==
  /\ Edit([j \in 1..(Len(rows) + 1) |-> IF j <= i THEN rows[j] ELSE rows[j - 1]])
  /\ UNCHANGED <<statistics, retimed>>

SwapWithNext(i) ==
  /\ i < Len(rows)
  /\ Edit([rows EXCEPT ![i] = rows[i + 1], ![i + 1] = rows[i]])
  /\ UNCHANGED <<statistics, retimed>>

BlankRow(i) ==
  /\ Edit([rows EXCEPT ![i] = [number |-> None, stamp |-> None, value |-> None]])
  /\ UNCHANGED <<statistics, retimed>>

ChangeCell(i, column, cell) ==
  /\ Edit([rows EXCEPT ![i] = [rows[i] EXCEPT ![column] = cell]])
  /\ UNCHANGED <<statistics, retimed>>

Retime(i, stamp) ==
  /\ Edit([rows EXCEPT ![i] = [rows[i] EXCEPT !.stamp = stamp]])
  /\ retimed' = TRUE
  /\ UNCHANGED statistics

CutStatistics(left) ==
  /\ statistics = "published"
  /\ Edit(rows)
  /\ statistics' = left
  /\ UNCHANGED retimed

OtherHands ==
  \/ \E i \in DOMAIN rows :
       \/ DeleteRow(i) \/ RepeatRow(i) \/ SwapWithNext(i) \/ BlankRow(i)
       \/ \E column \in {"number", "stamp", "value"}, cell \in {None, Unreadable} :
            ChangeCell(i, column, cell)
       \/ \E column \in {"number", "value"} : ChangeCell(i, column, Infinite)
       \/ \E stamp \in EditedStamps : Retime(i, stamp)
  \/ \E left \in {"partial", "absent"} : CutStatistics(left)

-----------------------------------------------------------------------------
(* inspect_command: read, verify, render, report. *)
Inspect ==
  /\ stage = "file"
  /\ StartReading
  /\ stage' = "reading"
  /\ UNCHANGED <<sourceVars, gate, exit, series>>

Reading ==
  /\ stage = "reading"
  /\ SkipBlankRow \/ ReadRow \/ EndOfRows \/ RefuseRow
  /\ UNCHANGED <<sourceVars, stage, gate, exit, series>>

(* A row that is refused, and statistics of which some are missing (a      *)
(* KeyError out of _statistics), end the command before the gate.          *)
SlipMissingStatisticUncaught ==
  /\ stage = "reading"
  /\ parse \in ParseRefusals
  /\ stage' = "unread" /\ exit' = 1
  /\ UNCHANGED <<tableVars, sourceVars, gate, series>>

ReadFails ==
  /\ stage = "reading"
  /\ parse \in ParseRefusals \/ (parse = "parsed" /\ statistics = "partial")
  /\ stage' = "unread" /\ exit' = 1
  /\ UNCHANGED <<tableVars, sourceVars, gate, series>>

Published == C!Publish(LoggedStamps, recording)

Verify ==
  /\ stage = "reading" /\ parse = "parsed" /\ statistics # "partial"
  /\ stage' = "verified"
  /\ \E agreeing \in SUBSET C!Compared :
       gate' = IF statistics = "absent" THEN "not_applicable"
               ELSE IF C!Refuses(Published, stamps, values, agreeing) THEN "refused"
               ELSE "agrees"
  /\ UNCHANGED <<tableVars, sourceVars, exit, series>>

(* render builds the grid where the file states the interval and the zone: *)
(* a parse that does not fit one ends the command there.                   *)
Renders == numbered => G!Griddable(G!ToUtc(stamps, Offset), values, Interval)

Report ==
  /\ stage = "verified"
  /\ stage' = "inspected"
  /\ exit' = IF Renders /\ gate # "refused" THEN 0 ELSE 1
  /\ UNCHANGED <<tableVars, sourceVars, gate, series>>

(* assemble, for an operator who saw the report: the file's interval wins  *)
(* where it states one.                                                    *)
ResolvedInterval(supplied) == IF numbered THEN Interval ELSE supplied

Assemble(supplied) ==
  LET utc == G!ToUtc(stamps, Offset)
  IN  /\ stage = "inspected"
      /\ IF G!Griddable(utc, values, ResolvedInterval(supplied))
           THEN /\ series' = G!UniformGrid(utc, values, ResolvedInterval(supplied))
                /\ stage' = "assembled"
           ELSE /\ stage' = "refused"
                /\ UNCHANGED series
      /\ UNCHANGED <<tableVars, sourceVars, gate, exit>>

InspectStep == Reading \/ ReadFails \/ Verify \/ Report

Next ==
  \/ OtherHands
  \/ Inspect
  \/ InspectStep
  \/ \E supplied \in SuppliedIntervals : Assemble(supplied)

(* The command runs to its end once it is called. *)
Spec == Init /\ [][Next]_vars
FairSpec == Spec /\ WF_vars(InspectStep)

-----------------------------------------------------------------------------
IngestTypeOK ==
  /\ TableTypeOK
  /\ [readings |-> recording, shift |-> shift] \in Recordings
  /\ edits \in 0..MaxEdits /\ retimed \in BOOLEAN
  /\ statistics \in {"published", "partial", "absent"}
  /\ stage \in {"file", "reading", "unread", "verified", "inspected", "assembled", "refused"}
  /\ gate \in {"not_run", "not_applicable", "agrees", "refused"}
  /\ exit \in {None, 0, 1}
  /\ \A t \in DOMAIN series : t \in Int /\ series[t] \in Int \cup {NaN, Infinite}

(* No sample the logger recorded is lost, repeated or moved by any edit of *)
(* an export that still publishes its statistics, if inspect exits 0: the  *)
(* numbering, the statistics and the grid together are what "a sample      *)
(* disappears between the file and the analysis" has to get past.          *)
NoSampleLost ==
  statistics = "published" /\ exit = 0 => stamps = LoggedStamps

(* With numbering alone (the statistics cut away), rows may be lost at the *)
(* ends only: what is read is a contiguous stretch of the recording.       *)
LossOnlyAtTheEnds ==
  numbered /\ parse = "parsed" /\ ~retimed /\ stamps # << >> =>
    \E from \in DOMAIN recording : \A i \in DOMAIN stamps :
      from + i - 1 \in DOMAIN recording /\ stamps[i] = LoggedStamps[from + i - 1]

(* Nothing is filled and nothing is spliced: the assembled series holds    *)
(* every parsed reading at its own instant, NaN everywhere else, and its   *)
(* points run evenly from the first sample to the last.                    *)
SeriesIsFaithful ==
  stage = "assembled" =>
    LET utc == G!ToUtc(stamps, Offset)
        Sampled == {utc[i] : i \in DOMAIN utc}
    IN  /\ \A i \in DOMAIN utc : utc[i] \in DOMAIN series /\ series[utc[i]] = values[i]
        /\ \A t \in DOMAIN series \ Sampled : series[t] = NaN
        /\ \A i, j \in DOMAIN utc : utc[i] = utc[j] => i = j
        /\ \E dt \in SuppliedIntervals \cup {Interval} :
             \A t \in DOMAIN series : t = utc[Len(utc)] \/ t + dt \in DOMAIN series

(* timezones.py: a record spanning a transition of the local clock gives   *)
(* duplicate stamps, which the grid refuses; the untouched file never      *)
(* becomes a record.                                                       *)
SpansTransition ==
  /\ shift.by # 0
  /\ \E i, j \in DOMAIN recording : TrueInstant(i) < shift.at /\ shift.at <= TrueInstant(j)

TransitionIsRefused == edits = 0 /\ SpansTransition => stage # "assembled"

(* Any other file nobody touched, with two samples and one reading at     *)
(* least and no statistic exactly half-way between two published values,   *)
(* is never refused: rounding, tolerance, kind of deviation and missing    *)
(* readings raise no false alarm.  At a tie one may be (TieIsNotRefused).  *)
Ordinary ==
  /\ ~SpansTransition
  /\ Len(recording) >= G!MinSamples
  /\ \E i \in DOMAIN recording : recording[i] # NaN
  /\ ~C!HalfWay(Published, recording)

UntouchedIsAccepted ==
  edits = 0 /\ Ordinary /\ stage \in {"unread", "inspected", "refused"} =>
    exit = 0 /\ (stage = "refused" => ~numbered)

(* Who trusts what: an exit of 0 with the statistics published vouches for *)
(* the whole, the numbering of a file without typed stamps for a stretch.  *)
Taken == [t \in {TrueInstant(i) : i \in DOMAIN recording} |->
            recording[CHOOSE i \in DOMAIN recording : TrueInstant(i) = t]]

Trust ==
  IF exit = None THEN "open"
  ELSE IF exit = 0 /\ statistics = "published" THEN "whole"
  ELSE IF numbered /\ ~retimed THEN "stretch" ELSE "none"

ClockMoves == {0} \cup {r.shift.by : r \in Recordings}

CU == INSTANCE Custody WITH Lost <- {NaN, Infinite}, taken <- Taken, trust <- Trust

(* From the logger to the series: what is assembled of a file whose        *)
(* statistics agreed is the recording, each reading at its own instant in  *)
(* UTC or seen to be missing; without the statistics it is a stretch.      *)
ImplementsCustody == CU!Spec

(* Once called, inspect ends with an exit code. *)
InspectEnds == stage = "reading" ~> exit # None

(* checksum.py: "any computed value within half of the last place is the   *)
(* same published number", and comparing by that tolerance does not        *)
(* false-fail on a .xx5 tie as round() would: the gate passes a file that  *)
(* nobody touched.                                                         *)
TieIsNotRefused == edits = 0 => gate # "refused"
=============================================================================
