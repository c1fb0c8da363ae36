---------------------------- MODULE IngestProofs ----------------------------
(***************************************************************************)
(* What holds of every file between the logger and the series, for any     *)
(* recordings, any interval and offset, and any number of edits.           *)
(*                                                                         *)
(* The invariant follows the command: until the first edit the rows are    *)
(* the recording; every edit but a typed stamp leaves a numbered row       *)
(* faithful to its sample; numbers read are consecutive; an agreeing gate  *)
(* fixes the number of stamps and both ends; an exit of 0 says that they   *)
(* fit the grid.  The rest is arithmetic: stamps on a grid are an interval *)
(* apart, so as many as fit between two ends have no choice of place.      *)
(***************************************************************************)
EXTENDS Ingest, FiniteSetTheorems, WellFoundedInduction, SequenceTheorems, TLAPS

-----------------------------------------------------------------------------
(* Arithmetic of a grid. *)

LEMMA LeastOf ==
  ASSUME NEW S \in SUBSET Nat, S # {}
  PROVE  \E m \in S : \A k \in S : m <= k
<1>1. PICK m \in S : \A k \in S : ~ (<<k, m>> \in OpToRel(<, Nat))
  BY NatLessThanWellFounded, WFMin
<1>2. \A k \in S : ~ (k < m)
  BY <1>1 DEF OpToRel
<1> QED
  BY <1>2

LEMMA Multiple ==
  ASSUME NEW a \in Int, NEW d \in Nat \ {0}, a % d = 0
  PROVE  a \div d \in Int /\ a = d * (a \div d)
OBVIOUS

LEMMA NextMultiple ==
  ASSUME NEW a \in Int, NEW b \in Int, NEW d \in Nat \ {0}, a % d = 0, b % d = 0, a < b
  PROVE  a + d <= b
<1> DEFINE p == a \div d
           q == b \div d
<1>1. p \in Int /\ q \in Int /\ a = d * p /\ b = d * q
  BY Multiple
<1> HIDE DEF p, q
<1>2. p < q
  <2>1. CASE q <= p
    <3>1. d * q <= d * p
      BY <1>1, <2>1
    <3> QED
      BY <1>1, <3>1
  <2> QED
    BY <1>1, <2>1
<1>3. d * (p + 1) <= d * q
  BY <1>1, <1>2
<1>4. d * (p + 1) = d * p + d
  BY <1>1
<1> QED
  BY <1>1, <1>3, <1>4

LEMMA NextOnGrid ==
  ASSUME NEW a \in Int, NEW b \in Int, NEW c \in Int, NEW d \in Nat \ {0},
         (a - c) % d = 0, (b - c) % d = 0, a < b
  PROVE  a + d <= b
<1>1. a - c \in Int /\ b - c \in Int /\ a - c < b - c
  OBVIOUS
<1>2. (a - c) + d <= b - c
  BY <1>1, NextMultiple
<1> QED
  BY <1>2

LEMMA OneMore ==
  ASSUME NEW n \in Int, NEW d \in Int
  PROVE  /\ n * d \in Int /\ (n - 1) * d \in Int /\ n * d = (n - 1) * d + d
         /\ 0 * d = 0
OBVIOUS

(* Stamps on a grid are at least one interval apart, so each leaves room   *)
(* for those before it and for those after it.                             *)
LEMMA Apart ==
  ASSUME NEW dt \in Nat \ {0}, NEW index \in Seq(Int), G!FitsGrid(index, dt),
         NEW i \in DOMAIN index, i + 1 \in DOMAIN index
  PROVE  index[i] + dt <= index[i + 1]
<1>1. /\ index[i] \in Int /\ index[i + 1] \in Int /\ index[1] \in Int
      /\ index[i] < index[i + 1]
      /\ (index[i] - index[1]) % dt = 0 /\ (index[i + 1] - index[1]) % dt = 0
  BY DEF G!FitsGrid, G!StrictlyIncreasing
<1> QED
  BY <1>1, NextOnGrid

LEMMA RoomBefore ==
  ASSUME NEW dt \in Nat \ {0}, NEW index \in Seq(Int), G!FitsGrid(index, dt)
  PROVE  \A i \in DOMAIN index : index[1] + (i - 1) * dt <= index[i]
<1> DEFINE Short == {i \in DOMAIN index : ~(index[1] + (i - 1) * dt <= index[i])}
<1>1. SUFFICES ASSUME Short # {} PROVE FALSE
  OBVIOUS
<1>2. Short \in SUBSET Nat
  OBVIOUS
<1>3. PICK m \in Short : \A k \in Short : m <= k
  <2> HIDE DEF Short
  <2> QED BY <1>1, <1>2, LeastOf
<1>4. m \in DOMAIN index /\ ~(index[1] + (m - 1) * dt <= index[m])
  OBVIOUS
<1>5. m # 1
  <2>1. index[1] \in Int /\ (1 - 1) * dt = 0
    BY OneMore
  <2> QED
    BY <1>4, <2>1
<1>6. PICK n \in DOMAIN index : m = n + 1
  <2>1. m - 1 \in DOMAIN index /\ m = (m - 1) + 1
    BY <1>4, <1>5
  <2> QED
    BY <2>1
<1>7. index[1] + (n - 1) * dt <= index[n]
  <2>1. n \notin Short
    <3> HIDE DEF Short
    <3> QED BY <1>3, <1>6
  <2> QED
    BY <2>1
<1>8. index[n] + dt <= index[n + 1]
  BY <1>4, <1>6, Apart
<1>9. PICK p \in Int, q \in Int : p = (n - 1) * dt /\ q = n * dt /\ q = p + dt
  BY OneMore
<1>10. index[1] \in Int /\ index[n] \in Int /\ index[n + 1] \in Int /\ m - 1 = n
  BY <1>4, <1>6
<1>11. index[1] + p <= index[n] /\ ~(index[1] + q <= index[n + 1])
  BY <1>4, <1>6, <1>7, <1>9, <1>10
<1>12. q = p + dt
  BY <1>9
<1> QED
  BY <1>8, <1>10, <1>11, <1>12

LEMMA RoomAfter ==
  ASSUME NEW dt \in Nat \ {0}, NEW index \in Seq(Int), G!FitsGrid(index, dt)
  PROVE  \A i \in DOMAIN index : index[i] + (Len(index) - i) * dt <= index[Len(index)]
<1> DEFINE Short ==
      {k \in 0..(Len(index) - 1) : ~(index[Len(index) - k] + k * dt <= index[Len(index)])}
<1>1. ASSUME NEW i \in DOMAIN index
      PROVE  Len(index) - i \in 0..(Len(index) - 1) /\ Len(index) - (Len(index) - i) = i
  OBVIOUS
<1>2. SUFFICES ASSUME Short # {} PROVE FALSE
  BY <1>1
<1>3. Short \in SUBSET Nat
  OBVIOUS
<1>4. PICK m \in Short : \A k \in Short : m <= k
  <2> HIDE DEF Short
  <2> QED BY <1>2, <1>3, LeastOf
<1>5. m \in 0..(Len(index) - 1) /\ ~(index[Len(index) - m] + m * dt <= index[Len(index)])
  OBVIOUS
<1>6. m # 0
  BY <1>5
<1>7. PICK k \in 0..(Len(index) - 1) : m = k + 1
  BY <1>5, <1>6
<1>8. index[Len(index) - k] + k * dt <= index[Len(index)]
  <2>1. k \notin Short
    <3> HIDE DEF Short
    <3> QED BY <1>4, <1>7
  <2> QED
    BY <2>1
<1>9. /\ Len(index) - m \in DOMAIN index /\ Len(index) - m + 1 \in DOMAIN index
      /\ Len(index) - m + 1 = Len(index) - k /\ Len(index) \in DOMAIN index
  BY <1>5, <1>7
<1>10. index[Len(index) - m] + dt <= index[Len(index) - k]
  BY <1>9, Apart
<1>11. PICK p \in Int, q \in Int : p = k * dt /\ q = m * dt /\ q = p + dt
  <2>1. k = m - 1 /\ m \in Int
    BY <1>5, <1>7
  <2> QED
    BY <2>1, OneMore
<1>12. index[Len(index) - m] \in Int /\ index[Len(index) - k] \in Int /\ index[Len(index)] \in Int
  BY <1>9
<1>13. /\ index[Len(index) - k] + p <= index[Len(index)]
       /\ ~(index[Len(index) - m] + q <= index[Len(index)])
  BY <1>5, <1>8, <1>11
<1> QED
  BY <1>10, <1>11, <1>12, <1>13

(* As many stamps on a grid as fit between the first and the last leave no *)
(* choice where any of them is.                                            *)
LEMMA FullGrid ==
  ASSUME NEW dt \in Nat \ {0}, NEW index \in Seq(Int), G!FitsGrid(index, dt), index # << >>,
         index[Len(index)] <= index[1] + (Len(index) - 1) * dt
  PROVE  \A i \in DOMAIN index : index[i] = index[1] + (i - 1) * dt
<1>1. SUFFICES ASSUME NEW i \in DOMAIN index PROVE index[i] = index[1] + (i - 1) * dt
  OBVIOUS
<1>2. index[1] + (i - 1) * dt <= index[i]
  BY RoomBefore
<1>3. index[i] + (Len(index) - i) * dt <= index[Len(index)]
  BY RoomAfter
<1>4. PICK p \in Int, q \in Int, r \in Int :
        p = (i - 1) * dt /\ q = (Len(index) - i) * dt /\ r = (Len(index) - 1) * dt /\ r = p + q
  <2>1. Len(index) \in Int /\ i \in Int
    OBVIOUS
  <2> QED
    BY <2>1
<1>5. index[1] \in Int /\ index[i] \in Int /\ index[Len(index)] \in Int
  OBVIOUS
<1>6. /\ index[1] + p <= index[i] /\ index[i] + q <= index[Len(index)]
      /\ index[Len(index)] <= index[1] + r
  BY <1>2, <1>3, <1>4
<1>7. r = p + q
  BY <1>4
<1>8. index[i] = index[1] + p
  BY <1>5, <1>6, <1>7
<1> QED
  BY <1>4, <1>8

-----------------------------------------------------------------------------
(* What uniform_grid makes of stamps that fit. *)

LEMMA Quotients ==
  ASSUME NEW a \in Nat, NEW b \in Nat, NEW d \in Nat \ {0}, a % d = 0, b % d = 0, a <= b
  PROVE  a \div d \in 0..(b \div d) /\ a = (a \div d) * d /\ b = (b \div d) * d
<1>1. /\ a \div d \in Int /\ a = d * (a \div d) /\ b \div d \in Int /\ b = d * (b \div d)
      /\ 0 <= a \div d
  BY Multiple
<1> DEFINE p == a \div d
           q == b \div d
<1>2. p \in Int /\ q \in Int /\ a = d * p /\ b = d * q /\ 0 <= p
  BY <1>1
<1>3. p <= q
  <2> HIDE DEF p, q
  <2>1. CASE q < p
    <3>1. d * (q + 1) <= d * p /\ d * (q + 1) = d * q + d
      BY <1>2, <2>1
    <3> QED
      BY <1>2, <3>1
  <2> QED
    BY <1>2, <2>1
<1> QED
  BY <1>2, <1>3

(* Every sample is a point of the grid, and the grid runs evenly from the  *)
(* first sample to the last.                                               *)
LEMMA GridIsEven ==
  ASSUME NEW dt \in Nat \ {0}, NEW index \in Seq(Int), G!FitsGrid(index, dt), index # << >>
  PROVE  /\ \A i \in DOMAIN index : index[i] \in G!GridPoints(index, dt)
         /\ \A t \in G!GridPoints(index, dt) :
              t \in Int /\ (t = index[Len(index)] \/ t + dt \in G!GridPoints(index, dt))
<1> DEFINE last == index[Len(index)]
           span == (last - index[1]) \div dt
<1>1. 1 \in DOMAIN index /\ Len(index) \in DOMAIN index
  OBVIOUS
<1>2. \A i \in DOMAIN index : /\ index[i] \in Int /\ index[1] <= index[i] /\ index[i] <= last
                              /\ (index[i] - index[1]) % dt = 0
  <2>1. SUFFICES ASSUME NEW i \in DOMAIN index
                 PROVE  /\ index[i] \in Int /\ index[1] <= index[i] /\ index[i] <= last
                        /\ (index[i] - index[1]) % dt = 0
    OBVIOUS
  <2>2. index[i] \in Int /\ index[1] \in Int /\ index[Len(index)] \in Int
    BY <1>1
  <2>3. (i = 1 \/ 1 < i) /\ (i = Len(index) \/ i < Len(index))
    OBVIOUS
  <2>4. index[1] <= index[i]
    BY <1>1, <2>2, <2>3 DEF G!FitsGrid, G!StrictlyIncreasing
  <2>5. index[i] <= index[Len(index)]
    BY <1>1, <2>2, <2>3 DEF G!FitsGrid, G!StrictlyIncreasing
  <2> QED
    BY <2>2, <2>4, <2>5 DEF G!FitsGrid
<1>3. index[1] \in Int /\ last \in Int /\ last - index[1] \in Nat /\ (last - index[1]) % dt = 0
  BY <1>1, <1>2
<1> HIDE DEF last
<1>4. ASSUME NEW i \in DOMAIN index PROVE index[i] \in G!GridPoints(index, dt)
  <2>1. index[i] - index[1] \in Nat /\ index[i] - index[1] <= last - index[1]
    BY <1>2, <1>3
  <2>2. /\ (index[i] - index[1]) \div dt \in 0..span
        /\ index[i] - index[1] = ((index[i] - index[1]) \div dt) * dt
    BY <2>1, <1>2, <1>3, Quotients
  <2>3. PICK k \in 0..span : index[i] - index[1] = k * dt
    BY <2>2
  <2>4. index[i] = index[1] + k * dt
    BY <2>3, <1>2, <1>3
  <2> QED
    BY <2>4 DEF G!GridPoints, last
<1>5. span \in Nat /\ last = index[1] + span * dt
  <2>1. span \in 0..span /\ last - index[1] = span * dt
    <3>1. last - index[1] <= last - index[1]
      BY <1>3
    <3> QED
      BY <1>3, <3>1, Quotients
  <2> HIDE DEF span
  <2> QED
    BY <2>1, <1>3
<1>6. ASSUME NEW t \in G!GridPoints(index, dt)
      PROVE  t \in Int /\ (t = last \/ t + dt \in G!GridPoints(index, dt))
  <2>1. PICK k \in 0..span : t = index[1] + k * dt
    BY DEF G!GridPoints, last
  <2> HIDE DEF span
  <2>2. PICK p \in Int, q \in Int : p = k * dt /\ q = (k + 1) * dt /\ q = p + dt
    BY <1>5, <2>1
  <2>3. t = index[1] + p /\ q = p + dt
    BY <2>1, <2>2
  <2>4. t \in Int /\ t + dt = index[1] + q
    BY <2>3, <1>3
  <2>5. CASE k = span
    BY <2>4, <2>5, <2>1, <1>5
  <2>6. CASE k # span
    <3>1. k + 1 \in 0..span
      BY <2>6, <1>5
    <3>2. t + dt = index[1] + (k + 1) * dt
      BY <2>2, <2>4
    <3> QED
      BY <2>4, <3>1, <3>2 DEF G!GridPoints, last, span
  <2> QED
    BY <2>5, <2>6
<1> QED
  BY <1>4, <1>6 DEF last

(* Each reading is at its own instant and every other point is NaN.        *)
LEMMA GridIsFaithful ==
  ASSUME NEW dt \in Int, NEW index \in Seq(Int), NEW readings, G!Griddable(index, readings, dt)
  PROVE  LET grid == G!UniformGrid(index, readings, dt)
         IN  /\ \A i \in DOMAIN index : index[i] \in DOMAIN grid /\ grid[index[i]] = readings[i]
             /\ \A t \in DOMAIN grid \ {index[i] : i \in DOMAIN index} : grid[t] = NaN
             /\ \A i, j \in DOMAIN index : index[i] = index[j] => i = j
             /\ \A t \in DOMAIN grid :
                  t \in Int /\ (t = index[Len(index)] \/ t + dt \in DOMAIN grid)
<1> DEFINE grid == G!UniformGrid(index, readings, dt)
<1>1. dt \in Nat \ {0} /\ G!FitsGrid(index, dt) /\ index # << >>
  BY DEF G!Griddable, G!MinSamples
<1>2. \A i, j \in DOMAIN index : index[i] = index[j] => i = j
  BY <1>1 DEF G!FitsGrid, G!StrictlyIncreasing
<1>3. DOMAIN grid = G!GridPoints(index, dt)
  BY DEF G!UniformGrid
<1>4. ASSUME NEW i \in DOMAIN index
      PROVE  index[i] \in DOMAIN grid /\ grid[index[i]] = readings[i]
  <2>1. index[i] \in G!GridPoints(index, dt)
    BY <1>1, GridIsEven
  <2>2. (CHOOSE j \in DOMAIN index : index[j] = index[i]) = i
    BY <1>2
  <2> QED
    BY <2>1, <2>2 DEF G!UniformGrid
<1>5. ASSUME NEW t \in DOMAIN grid \ {index[i] : i \in DOMAIN index} PROVE grid[t] = NaN
  BY <1>3 DEF G!UniformGrid
<1>6. ASSUME NEW t \in DOMAIN grid
      PROVE  t \in Int /\ (t = index[Len(index)] \/ t + dt \in DOMAIN grid)
  BY <1>1, <1>3, GridIsEven
<1> QED
  BY <1>2, <1>4, <1>5, <1>6

-----------------------------------------------------------------------------
(* The invariant: where the command is, and what is known there. *)

TypesInv ==
  /\ TableTypeOK
  /\ [readings |-> recording, shift |-> shift] \in Recordings
  /\ edits \in 0..MaxEdits /\ retimed \in BOOLEAN
  /\ statistics \in {"published", "partial", "absent"}
  /\ stage \in {"file", "reading", "unread", "verified", "inspected", "assembled", "refused"}
  /\ gate \in {"not_run", "not_applicable", "agrees", "refused"}
  /\ exit \in {None, 0, 1}

PlaceInv ==
  /\ stage = "file" => NothingParsed
  /\ stage \in {"verified", "inspected", "assembled", "refused"} => parse = "parsed"
  /\ parse = "parsed" => next = Len(rows) + 1
  /\ blank < next
  /\ statistics # "absent" => numbered

FaithfulRow(row) ==
  row.number \in Int =>
    /\ row.number \in DOMAIN recording
    /\ row.stamp \in Int => row.stamp = LocalStamp(row.number)

RowsInv == ~retimed => \A i \in DOMAIN rows : FaithfulRow(rows[i])

ReadInv ==
  numbered =>
    /\ Len(numbers) = Len(stamps)
    /\ \A i \in DOMAIN numbers : numbers[i] = numbers[1] + (i - 1)
    /\ ~retimed => \A i \in DOMAIN stamps :
                     numbers[i] \in DOMAIN recording /\ stamps[i] = LocalStamp(numbers[i])

(* What an agreeing gate leaves to say of the stamps. *)
EndsAgree ==
  /\ Len(stamps) = Len(LoggedStamps)
  /\ stamps[1] = LoggedStamps[1]
  /\ stamps[Len(stamps)] = LoggedStamps[Len(LoggedStamps)]

GateInv ==
  /\ stage \in {"file", "reading", "unread"} => gate = "not_run" /\ exit # 0
  /\ stage = "verified" => exit # 0
  /\ stage \in {"verified", "inspected", "assembled", "refused"} => gate # "not_run"
  /\ gate = "not_applicable" => statistics = "absent"
  /\ gate = "agrees" => EndsAgree
  /\ exit = 0 => gate \in {"agrees", "not_applicable"} /\ Renders

SeriesInv ==
  /\ stage = "assembled" =>
       \E dt \in SuppliedIntervals \cup {Interval} :
         /\ G!Griddable(G!ToUtc(stamps, Offset), values, dt)
         /\ series = G!UniformGrid(G!ToUtc(stamps, Offset), values, dt)
  /\ stage # "assembled" => series = NoSeries

UneditedInv ==
  edits = 0 =>
    /\ rows = Exported(recording)
    /\ blank = 0 /\ Len(stamps) = next - 1
    /\ \A i \in DOMAIN stamps : stamps[i] = LocalStamp(i)

IngestInv == TypesInv /\ PlaceInv /\ RowsInv /\ ReadInv /\ GateInv /\ SeriesInv /\ UneditedInv

LEMMA RecordingIsTyped ==
  ASSUME TypesInv
  PROVE  /\ recording \in Seq(Int \cup {NaN})
         /\ shift \in [at : Int, by : Int]
         /\ \A i \in DOMAIN recording : LocalStamp(i) \in Int
<1>1. recording \in Seq(Int \cup {NaN}) /\ shift \in [at : Int, by : Int]
  BY IngestAssumption DEF TypesInv
<1>2. ASSUME NEW i \in DOMAIN recording PROVE LocalStamp(i) \in Int
  <2>1. i \in Int
    BY <1>1
  <2>2. TrueInstant(i) \in Int
    BY <2>1, IngestAssumption DEF TrueInstant
  <2> HIDE DEF TrueInstant
  <2> QED
    BY <1>1, <2>2, IngestAssumption DEF LocalStamp
<1> QED
  BY <1>1, <1>2

LEMMA InitKeepsInv == ASSUME Init PROVE IngestInv
<1>1. PICK r \in Recordings : recording = r.readings /\ shift = r.shift
  BY DEF Init
<1>2. /\ [readings |-> recording, shift |-> shift] \in Recordings
      /\ recording \in Seq(Int \cup {NaN}) /\ shift \in [at : Int, by : Int]
  <2>1. r \in [readings : Seq(Int \cup {NaN}), shift : [at : Int, by : Int]]
    BY IngestAssumption
  <2>2. r = [readings |-> r.readings, shift |-> r.shift]
    BY <2>1
  <2> QED
    BY <1>1, <2>1, <2>2
<1>3. \A i \in DOMAIN recording : LocalStamp(i) \in Int
  <2>1. \A i \in DOMAIN recording : TrueInstant(i) \in Int
    BY <1>2, IngestAssumption DEF TrueInstant
  <2> QED
    BY <1>2, <2>1, IngestAssumption DEF LocalStamp
<1>4. rows = Exported(recording)
  BY DEF Init
<1>5. /\ Exported(recording) \in Seq(RowType)
      /\ \A i \in DOMAIN rows : /\ i \in DOMAIN recording
                                /\ rows[i].number = i /\ rows[i].stamp = LocalStamp(i)
  <2>1. \A i \in DOMAIN recording :
          [number |-> i, stamp |-> LocalStamp(i),
           value |-> IF recording[i] = NaN THEN None ELSE recording[i]] \in RowType
    BY <1>2, <1>3 DEF RowType, Cells, NotNumbers
  <2>2. /\ DOMAIN recording = 1..Len(recording) /\ Len(recording) \in Nat
        /\ DOMAIN Exported(recording) = DOMAIN recording
    BY <1>2 DEF Exported
  <2>3. Exported(recording) \in [1..Len(recording) -> RowType]
    BY <2>1, <2>2 DEF Exported
  <2>4. Exported(recording) \in Seq(RowType)
    BY <2>2, <2>3, SeqDef
  <2> QED
    BY <1>4, <2>2, <2>4 DEF Exported
<1>6. None # 0 /\ None # 1
  BY CellsAssumption DEF NotNumbers
<1>7. /\ next = 1 /\ numbers = << >> /\ stamps = << >> /\ values = << >> /\ blank = 0
      /\ parse = "unread" /\ stage = "file" /\ gate = "not_run" /\ exit = None
      /\ edits = 0 /\ series = NoSeries
  BY DEF Init, NothingParsed
<1>8. Len(stamps) = 0 /\ Len(numbers) = 0 /\ DOMAIN stamps = {} /\ DOMAIN numbers = {}
  BY <1>7
<1>9. /\ numbered \in BOOLEAN /\ retimed \in BOOLEAN
      /\ statistics \in {"published", "absent"} /\ (statistics # "absent" => numbered)
  BY DEF Init
<1>10. TypesInv
  <2>1. rows \in Seq(RowType) /\ Len(rows) \in Nat
    BY <1>4, <1>5
  <2>2. TableTypeOK
    <3>1. next \in 1..(Len(rows) + 1) /\ blank \in 0..Len(rows)
      BY <1>7, <2>1
    <3> QED
      BY <1>7, <1>9, <2>1, <3>1 DEF TableTypeOK
  <2>3. edits \in 0..MaxEdits
    BY <1>7, IngestAssumption
  <2> QED
    BY <1>2, <1>7, <1>9, <2>2, <2>3 DEF TypesInv
<1>11. PlaceInv
  <2>1. stage = "file" /\ parse = "unread" /\ blank < next /\ NothingParsed
    BY <1>7 DEF NothingParsed
  <2> QED
    BY <1>9, <2>1 DEF PlaceInv
<1>12. RowsInv
  BY <1>5 DEF RowsInv, FaithfulRow
<1>13. ReadInv
  BY <1>7, <1>8 DEF ReadInv
<1>14. GateInv /\ SeriesInv
  BY <1>6, <1>7 DEF GateInv, SeriesInv
<1>15. UneditedInv
  <2>1. Len(stamps) = next - 1
    BY <1>7, <1>8
  <2> QED
    BY <1>4, <1>7, <1>8, <2>1 DEF UneditedInv
<1> QED
  BY <1>10, <1>11, <1>12, <1>13, <1>14, <1>15 DEF IngestInv

-----------------------------------------------------------------------------
(* Other hands.  Every edit but a typed stamp damages rows at most: a cell *)
(* keeps its content or stops being a number.                              *)

Damaged(row, was) ==
  row.number \in {was.number} \cup NotNumbers /\ row.stamp \in {was.stamp} \cup NotNumbers

LEMMA EditKeepsInv ==
  ASSUME IngestInv, NEW newRows \in Seq(RowType), Edit(newRows),
         statistics' \in {"published", "partial", "absent"},
         statistics' = statistics \/ statistics # "absent",
         retimed' \in BOOLEAN,
         ~retimed' => /\ ~retimed
                      /\ \A i \in DOMAIN newRows : \E j \in DOMAIN rows : Damaged(newRows[i], rows[j])
  PROVE  IngestInv'
<1>1. /\ stage = "file" /\ NothingParsed /\ gate = "not_run" /\ exit # 0
      /\ statistics # "absent" => numbered
  BY DEF IngestInv, PlaceInv, GateInv, Edit
<1>2. /\ rows' = newRows /\ edits' = edits + 1 /\ stage' = stage /\ gate' = gate /\ exit' = exit
      /\ series' = series /\ recording' = recording /\ shift' = shift
      /\ next' = next /\ numbers' = numbers /\ stamps' = stamps /\ values' = values
      /\ blank' = blank /\ parse' = parse
  BY DEF Edit, parseVars
<1>3. numbered' = numbered
  BY DEF Edit
<1>4. /\ next = 1 /\ blank = 0 /\ parse = "unread"
      /\ Len(stamps) = 0 /\ Len(numbers) = 0 /\ DOMAIN stamps = {} /\ DOMAIN numbers = {}
  BY <1>1 DEF NothingParsed
<1>5. edits' \in 0..MaxEdits /\ edits' # 0
  BY <1>2, IngestAssumption DEF IngestInv, TypesInv, Edit
<1>6. TypesInv'
  <2>1. next' \in 1..(Len(rows') + 1) /\ blank' \in 0..Len(rows')
    BY <1>2, <1>4
  <2>2. TableTypeOK'
    BY <1>2, <1>3, <2>1 DEF IngestInv, TypesInv, TableTypeOK
  <2> QED
    BY <1>2, <1>5, <2>2 DEF IngestInv, TypesInv
<1>7. PlaceInv'
  <2>1. NothingParsed'
    BY <1>1, <1>2 DEF NothingParsed
  <2>2. blank' < next' /\ parse' = "unread" /\ stage' = "file"
    BY <1>1, <1>2, <1>4
  <2>3. statistics' # "absent" => numbered'
    BY <1>1, <1>3
  <2> QED
    BY <2>1, <2>2, <2>3 DEF PlaceInv
<1>8. RowsInv'
  <2>1. SUFFICES ASSUME ~retimed', NEW i \in DOMAIN newRows PROVE FaithfulRow(newRows[i])'
    BY <1>2 DEF RowsInv
  <2>2. PICK j \in DOMAIN rows : Damaged(newRows[i], rows[j])
    BY <2>1
  <2>3. FaithfulRow(rows[j])
    BY <2>1 DEF IngestInv, RowsInv
  <2>4. FaithfulRow(newRows[i])
    BY <2>2, <2>3, CellsAssumption DEF Damaged, FaithfulRow
  <2> QED
    BY <2>4, <1>2 DEF FaithfulRow, LocalStamp
<1>9. ReadInv'
  BY <1>2, <1>4 DEF ReadInv
<1>10. GateInv'
  BY <1>1, <1>2 DEF GateInv
<1>11. SeriesInv'
  BY <1>1, <1>2 DEF IngestInv, SeriesInv, NoSeries
<1>12. UneditedInv'
  BY <1>5 DEF UneditedInv
<1> QED
  BY <1>6, <1>7, <1>8, <1>9, <1>10, <1>11, <1>12 DEF IngestInv

LEMMA SamePlaceIsDamaged == \A row : Damaged(row, row)
BY DEF Damaged

LEMMA OtherHandsKeepInv == ASSUME IngestInv, OtherHands PROVE IngestInv'
<1>1. /\ rows \in Seq(RowType) /\ Len(rows) \in Nat /\ DOMAIN rows = 1..Len(rows)
      /\ \A i \in DOMAIN rows : rows[i] \in RowType
      /\ statistics \in {"published", "partial", "absent"} /\ retimed \in BOOLEAN
  BY DEF IngestInv, TypesInv, TableTypeOK
<1>2. ASSUME NEW i \in DOMAIN rows, DeleteRow(i) PROVE IngestInv'
  <2> DEFINE newRows == [j \in 1..(Len(rows) - 1) |-> IF j < i THEN rows[j] ELSE rows[j + 1]]
  <2>1. /\ Len(rows) - 1 \in Nat
        /\ \A j \in 1..(Len(rows) - 1) : j \in DOMAIN rows /\ j + 1 \in DOMAIN rows
    BY <1>1
  <2>2. newRows \in [1..(Len(rows) - 1) -> RowType]
    BY <1>1, <2>1
  <2>3. newRows \in Seq(RowType)
    BY <2>1, <2>2, SeqDef
  <2>4. \A k \in DOMAIN newRows : \E j \in DOMAIN rows : newRows[k] = rows[j]
    BY <2>1
  <2>5. Edit(newRows) /\ statistics' = statistics /\ retimed' = retimed
    BY <1>2 DEF DeleteRow
  <2> HIDE DEF newRows
  <2>6. \A k \in DOMAIN newRows : \E j \in DOMAIN rows : Damaged(newRows[k], rows[j])
    BY <2>4, SamePlaceIsDamaged
  <2> QED
    BY <1>1, <2>3, <2>5, <2>6, EditKeepsInv
<1>3. ASSUME NEW i \in DOMAIN rows, RepeatRow(i) PROVE IngestInv'
  <2> DEFINE newRows == [j \in 1..(Len(rows) + 1) |-> IF j <= i THEN rows[j] ELSE rows[j - 1]]
  <2>1. /\ Len(rows) + 1 \in Nat /\ i \in 1..Len(rows)
        /\ \A j \in 1..(Len(rows) + 1) : IF j <= i THEN j \in DOMAIN rows ELSE j - 1 \in DOMAIN rows
    BY <1>1
  <2>2. newRows \in [1..(Len(rows) + 1) -> RowType]
    BY <1>1, <2>1
  <2>3. newRows \in Seq(RowType)
    BY <2>1, <2>2, SeqDef
  <2>4. \A k \in DOMAIN newRows : \E j \in DOMAIN rows : newRows[k] = rows[j]
    BY <2>1
  <2>5. Edit(newRows) /\ statistics' = statistics /\ retimed' = retimed
    BY <1>3 DEF RepeatRow
  <2> HIDE DEF newRows
  <2>6. \A k \in DOMAIN newRows : \E j \in DOMAIN rows : Damaged(newRows[k], rows[j])
    BY <2>4, SamePlaceIsDamaged
  <2> QED
    BY <1>1, <2>3, <2>5, <2>6, EditKeepsInv
<1>4. ASSUME NEW i \in DOMAIN rows, SwapWithNext(i) PROVE IngestInv'
  <2> DEFINE newRows == [rows EXCEPT ![i] = rows[i + 1], ![i + 1] = rows[i]]
  <2>1. i + 1 \in DOMAIN rows
    BY <1>1, <1>4 DEF SwapWithNext
  <2>2. newRows \in [1..Len(rows) -> RowType] /\ DOMAIN newRows = DOMAIN rows
    BY <1>1, <2>1
  <2>3. newRows \in Seq(RowType)
    BY <1>1, <2>2, SeqDef
  <2>4. \A k \in DOMAIN newRows : \E j \in DOMAIN rows : newRows[k] = rows[j]
    BY <1>1, <2>1
  <2>5. Edit(newRows) /\ statistics' = statistics /\ retimed' = retimed
    BY <1>4 DEF SwapWithNext
  <2> HIDE DEF newRows
  <2>6. \A k \in DOMAIN newRows : \E j \in DOMAIN rows : Damaged(newRows[k], rows[j])
    BY <2>4, SamePlaceIsDamaged
  <2> QED
    BY <1>1, <2>3, <2>5, <2>6, EditKeepsInv
<1>5. ASSUME NEW i \in DOMAIN rows, NEW row \in RowType, Edit([rows EXCEPT ![i] = row]),
             statistics' = statistics, retimed' = TRUE \/ (retimed' = retimed /\ Damaged(row, rows[i]))
      PROVE  IngestInv'
  <2> DEFINE newRows == [rows EXCEPT ![i] = row]
  <2>1. newRows \in [1..Len(rows) -> RowType] /\ DOMAIN newRows = DOMAIN rows
    BY <1>1
  <2>2. newRows \in Seq(RowType)
    BY <1>1, <2>1, SeqDef
  <2>3. \A k \in DOMAIN newRows : newRows[k] = rows[k] \/ (k = i /\ newRows[k] = row)
    BY <1>1
  <2>4. Edit(newRows)
    BY <1>5
  <2> HIDE DEF newRows
  <2>5. ~retimed' => /\ ~retimed
                     /\ \A k \in DOMAIN newRows : \E j \in DOMAIN rows : Damaged(newRows[k], rows[j])
    BY <1>5, <2>1, <2>3, SamePlaceIsDamaged, Zenon
  <2>6. retimed' \in BOOLEAN
    BY <1>1, <1>5
  <2> QED
    BY <1>1, <1>5, <2>2, <2>4, <2>5, <2>6, EditKeepsInv
<1>6. ASSUME NEW i \in DOMAIN rows, BlankRow(i) PROVE IngestInv'
  <2>1. [number |-> None, stamp |-> None, value |-> None] \in RowType
    BY DEF RowType, Cells, NotNumbers
  <2>2. Damaged([number |-> None, stamp |-> None, value |-> None], rows[i])
    BY DEF Damaged, NotNumbers
  <2> QED
    BY <1>5, <1>6, <2>1, <2>2 DEF BlankRow
<1>7. ASSUME NEW i \in DOMAIN rows, NEW column \in {"number", "stamp", "value"}, NEW cell \in NotNumbers,
             ChangeCell(i, column, cell)
      PROVE  IngestInv'
  <2> DEFINE row == [rows[i] EXCEPT ![column] = cell]
  <2>1. rows[i] \in RowType /\ cell \in Cells
    BY <1>1 DEF Cells
  <2>2. row \in RowType
    BY <2>1 DEF RowType
  <2>3. Damaged(row, rows[i])
    BY <2>1 DEF Damaged, RowType
  <2>4. Edit([rows EXCEPT ![i] = row]) /\ statistics' = statistics /\ retimed' = retimed
    BY <1>7 DEF ChangeCell
  <2> HIDE DEF row
  <2> QED
    BY <1>5, <2>2, <2>3, <2>4
<1>8. ASSUME NEW i \in DOMAIN rows, NEW stamp \in EditedStamps, Retime(i, stamp) PROVE IngestInv'
  <2> DEFINE row == [rows[i] EXCEPT !.stamp = stamp]
  <2>1. rows[i] \in RowType /\ stamp \in Cells
    BY <1>1, IngestAssumption DEF Cells
  <2>2. row \in RowType
    BY <2>1 DEF RowType
  <2>3. Edit([rows EXCEPT ![i] = row]) /\ statistics' = statistics /\ retimed' = TRUE
    BY <1>8 DEF Retime
  <2> HIDE DEF row
  <2> QED
    BY <1>5, <2>2, <2>3
<1>9. ASSUME NEW left \in {"partial", "absent"}, CutStatistics(left) PROVE IngestInv'
  <2>1. /\ Edit(rows) /\ statistics = "published" /\ statistics' = left /\ retimed' = retimed
    BY <1>9 DEF CutStatistics
  <2>2. \A k \in DOMAIN rows : \E j \in DOMAIN rows : Damaged(rows[k], rows[j])
    BY SamePlaceIsDamaged
  <2> QED
    BY <1>1, <2>1, <2>2, EditKeepsInv
<1> QED
  BY <1>2, <1>3, <1>4, <1>6, <1>7, <1>8, <1>9 DEF OtherHands, NotNumbers

-----------------------------------------------------------------------------
(* inspect_command. *)

(* What a step that touches neither the file nor the result keeps. *)
SameFile == UNCHANGED <<numbered, rows, recording, shift, statistics, edits, retimed>>

LEMMA FileKept ==
  ASSUME SameFile
  PROVE  /\ LoggedStamps' = LoggedStamps /\ Exported(recording)' = Exported(recording)
         /\ \A i : LocalStamp(i)' = LocalStamp(i)
         /\ RowsInv => RowsInv'
BY DEF SameFile, LoggedStamps, Exported, LocalStamp, RowsInv, FaithfulRow

LEMMA InspectKeepsInv == ASSUME IngestInv, Inspect PROVE IngestInv'
<1>1. /\ SameFile /\ stage = "file" /\ stage' = "reading" /\ parse' = "reading"
      /\ gate' = gate /\ exit' = exit /\ series' = series
      /\ next' = next /\ numbers' = numbers /\ stamps' = stamps /\ values' = values /\ blank' = blank
  BY DEF Inspect, StartReading, sourceVars, SameFile
<1>2. RowsInv'
  BY <1>1, FileKept DEF IngestInv
<1>3. TypesInv'
  BY <1>1 DEF IngestInv, TypesInv, TableTypeOK, SameFile
<1>4. PlaceInv'
  BY <1>1 DEF IngestInv, PlaceInv, SameFile
<1>5. ReadInv'
  BY <1>1, FileKept DEF IngestInv, ReadInv, SameFile
<1>6. GateInv'
  BY <1>1 DEF IngestInv, GateInv
<1>7. SeriesInv'
  BY <1>1 DEF IngestInv, SeriesInv, NoSeries
<1>8. UneditedInv'
  BY <1>1, FileKept DEF IngestInv, UneditedInv, SameFile
<1> QED
  BY <1>2, <1>3, <1>4, <1>5, <1>6, <1>7, <1>8 DEF IngestInv

(* A row of a file nobody edited is read as the logger wrote it. *)
LEMMA UneditedRows ==
  ASSUME IngestInv, edits = 0, AtRow
  PROVE  Row.stamp = LocalStamp(next) /\ Row.stamp \notin NotNumbers /\ ~IsBlank(Row)
<1>1. /\ rows = Exported(recording) /\ next \in 1..(Len(rows) + 1) /\ next <= Len(rows)
      /\ rows \in Seq(RowType)
  BY DEF IngestInv, TypesInv, TableTypeOK, UneditedInv, AtRow
<1>2. next \in DOMAIN rows /\ DOMAIN rows = DOMAIN recording
  BY <1>1 DEF Exported
<1>3. Row.stamp = LocalStamp(next)
  BY <1>1, <1>2 DEF Row, Exported
<1>4. LocalStamp(next) \in Int
  BY <1>2, RecordingIsTyped DEF IngestInv
<1> QED
  BY <1>3, <1>4, CellsAssumption DEF IsBlank, NotNumbers

LEMMA RowRead ==
  ASSUME IngestInv, AtRow
  PROVE  /\ next \in Nat \ {0} /\ next \in DOMAIN rows /\ Row \in RowType /\ Len(rows) \in Nat
         /\ blank \in Nat /\ next + 1 \in 1..(Len(rows) + 1) /\ blank + 1 \in 0..Len(rows)
BY DEF IngestInv, TypesInv, TableTypeOK, PlaceInv, AtRow, Row

LEMMA ReadRowKeepsInv ==
  ASSUME IngestInv, stage = "reading", ReadRow, UNCHANGED <<sourceVars, stage, gate, exit, series>>
  PROVE  IngestInv'
<1>1. /\ SameFile /\ AtRow /\ ~IsBlank(Row) /\ Readable(Row) /\ parse = "reading" /\ parse' = parse
      /\ next' = next + 1 /\ blank' = blank
      /\ stamps' = Append(stamps, Row.stamp) /\ values' = Append(values, ReadsAs(Row.value))
      /\ numbers' = IF numbered THEN Append(numbers, Row.number) ELSE numbers
      /\ stage' = stage /\ gate' = gate /\ exit' = exit /\ series' = series
  BY DEF ReadRow, AtRow, sourceVars, SameFile
<1>2. /\ Row \in RowType /\ next \in Nat \ {0} /\ next \in DOMAIN rows
      /\ next + 1 \in 1..(Len(rows) + 1) /\ blank \in Nat
  BY <1>1, RowRead
<1>3. /\ Row.stamp \in Int /\ ReadsAs(Row.value) \in Int \cup {NaN, Infinite}
      /\ numbered => Row.number \in Int /\ ContinuesNumbering(Row.number)
  BY <1>1, <1>2 DEF RowType, Cells, NotNumbers, Readable, ReadsAs
<1>4. /\ numbers \in Seq(Int) /\ stamps \in Seq(Int) /\ values \in Seq(Int \cup {NaN, Infinite})
      /\ Len(numbers) \in Nat /\ Len(stamps) \in Nat
  BY DEF IngestInv, TypesInv, TableTypeOK
<1>5. /\ numbers' \in Seq(Int) /\ stamps' \in Seq(Int) /\ values' \in Seq(Int \cup {NaN, Infinite})
      /\ Len(stamps') = Len(stamps) + 1 /\ DOMAIN stamps' = 1..(Len(stamps) + 1)
      /\ stamps'[Len(stamps) + 1] = Row.stamp
      /\ \A i \in DOMAIN stamps : i \in 1..Len(stamps) /\ stamps'[i] = stamps[i]
      /\ \A i \in DOMAIN stamps' : i \in DOMAIN stamps \/ i = Len(stamps) + 1
  BY <1>1, <1>3, <1>4
<1>6. TypesInv'
  <2>1. next' \in 1..(Len(rows') + 1)
    BY <1>1, <1>2 DEF SameFile
  <2>2. TableTypeOK'
    BY <1>1, <1>5, <2>1 DEF IngestInv, TypesInv, TableTypeOK, SameFile
  <2> QED
    BY <1>1, <2>2 DEF IngestInv, TypesInv, SameFile
<1>7. PlaceInv'
  <2>1. blank' < next'
    BY <1>1, <1>2 DEF IngestInv, PlaceInv
  <2>2. stage' = "reading" /\ parse' = "reading"
    BY <1>1
  <2> QED
    BY <1>1, <2>1, <2>2 DEF IngestInv, PlaceInv, SameFile
<1>8. RowsInv'
  BY <1>1, FileKept DEF IngestInv
<1>9. ReadInv'
  <2>1. SUFFICES ASSUME numbered
        PROVE  /\ Len(numbers') = Len(stamps')
               /\ \A i \in DOMAIN numbers' : numbers'[i] = numbers'[1] + (i - 1)
               /\ ~retimed => \A i \in DOMAIN stamps' :
                    numbers'[i] \in DOMAIN recording /\ stamps'[i] = LocalStamp(numbers'[i])
    BY <1>1, FileKept DEF ReadInv, SameFile
  <2>2. /\ numbers' = Append(numbers, Row.number) /\ Row.number \in Int
        /\ ContinuesNumbering(Row.number)
        /\ Len(numbers) = Len(stamps)
        /\ \A i \in DOMAIN numbers : numbers[i] = numbers[1] + (i - 1)
        /\ ~retimed => \A i \in DOMAIN stamps :
             numbers[i] \in DOMAIN recording /\ stamps[i] = LocalStamp(numbers[i])
    BY <1>1, <1>3, <2>1 DEF IngestInv, ReadInv
  <2>3. /\ Len(numbers') = Len(numbers) + 1 /\ DOMAIN numbers' = 1..(Len(numbers) + 1)
        /\ numbers'[Len(numbers) + 1] = Row.number
        /\ \A i \in DOMAIN numbers : numbers'[i] = numbers[i] /\ i \in 1..Len(numbers)
        /\ \A i \in DOMAIN numbers' : i \in DOMAIN numbers \/ i = Len(numbers) + 1
    BY <1>4, <2>2
  <2>4. \A i \in DOMAIN numbers' : numbers'[i] = numbers'[1] + (i - 1)
    <3>1. CASE numbers = << >>
      <4>1. Len(numbers) = 0 /\ DOMAIN numbers = {} /\ numbers'[1] \in Int
        BY <3>1, <2>2, <2>3
      <4> QED
        BY <2>3, <4>1
    <3>2. CASE numbers # << >>
      <4>1. /\ Len(numbers) \in DOMAIN numbers /\ 1 \in DOMAIN numbers
            /\ Row.number = numbers[Len(numbers)] + 1
        BY <3>2, <1>4, <2>2 DEF ContinuesNumbering
      <4>2. /\ numbers[1] \in Int /\ numbers[Len(numbers)] \in Int /\ numbers'[1] = numbers[1]
            /\ numbers[Len(numbers)] = numbers[1] + (Len(numbers) - 1)
        BY <4>1, <1>4, <2>2, <2>3
      <4>3. Row.number = numbers'[1] + (Len(numbers) + 1 - 1)
        BY <1>4, <4>1, <4>2
      <4>4. ASSUME NEW i \in DOMAIN numbers PROVE numbers'[i] = numbers'[1] + (i - 1)
        BY <2>2, <2>3, <4>2
      <4> QED
        BY <2>3, <4>3, <4>4
    <3> QED
      BY <3>1, <3>2
  <2>5. ASSUME ~retimed
        PROVE  Row.number \in DOMAIN recording /\ Row.stamp = LocalStamp(Row.number)
    BY <1>2, <1>3, <2>1, <2>2, <2>5 DEF IngestInv, RowsInv, FaithfulRow, Row
  <2>6. ASSUME ~retimed, NEW i \in DOMAIN stamps'
        PROVE  numbers'[i] \in DOMAIN recording /\ stamps'[i] = LocalStamp(numbers'[i])
    <3>1. CASE i \in DOMAIN stamps
      <4>1. i \in DOMAIN numbers
        BY <3>1, <1>4, <2>2
      <4> QED
        BY <3>1, <4>1, <1>5, <2>2, <2>3, <2>6
    <3>2. CASE i = Len(stamps) + 1
      BY <3>2, <1>5, <2>2, <2>3, <2>5, <2>6
    <3> QED
      BY <3>1, <3>2, <1>5
  <2> QED
    BY <2>2, <2>3, <2>4, <2>6, <1>5
<1>10. GateInv'
  BY <1>1 DEF IngestInv, GateInv
<1>11. SeriesInv'
  BY <1>1 DEF IngestInv, SeriesInv, NoSeries
<1>12. UneditedInv'
  <2>1. SUFFICES ASSUME edits = 0
        PROVE  /\ rows = Exported(recording) /\ blank = 0 /\ Len(stamps') = next'- 1
               /\ \A i \in DOMAIN stamps' : stamps'[i] = LocalStamp(i)
    BY <1>1, FileKept DEF UneditedInv, SameFile
  <2>2. /\ rows = Exported(recording) /\ blank = 0 /\ Len(stamps) = next - 1
        /\ \A i \in DOMAIN stamps : stamps[i] = LocalStamp(i)
    BY <2>1 DEF IngestInv, UneditedInv
  <2>3. Row.stamp = LocalStamp(next) /\ next = Len(stamps) + 1
    BY <1>1, <1>2, <1>4, <2>1, <2>2, UneditedRows
  <2> QED
    BY <1>1, <1>2, <1>5, <2>2, <2>3
<1> QED
  BY <1>6, <1>7, <1>8, <1>9, <1>10, <1>11, <1>12 DEF IngestInv

(* A step of the parser that reads nothing into its lists. *)
LEMMA UnreadStepKeepsInv ==
  ASSUME IngestInv, SameFile, stage = "reading", stage' \in {"reading", "unread"},
         UNCHANGED <<numbers, stamps, values, gate, series>>,
         exit' = exit \/ exit' = 1,
         parse' \in {"reading", "parsed"} \cup ParseRefusals,
         next' \in 1..(Len(rows) + 1), blank' \in 0..Len(rows), blank' < next',
         parse' = "parsed" => next' = Len(rows) + 1,
         edits = 0 => blank' = 0 /\ next' = next
  PROVE  IngestInv'
<1>1. /\ numbers' = numbers /\ stamps' = stamps /\ values' = values
      /\ gate' = gate /\ series' = series /\ gate = "not_run" /\ exit' # 0
  BY DEF IngestInv, GateInv
<1>2. TypesInv'
  <2>1. TableTypeOK'
    BY <1>1 DEF IngestInv, TypesInv, TableTypeOK, SameFile
  <2> QED
    BY <1>1, <2>1 DEF IngestInv, TypesInv, SameFile
<1>3. PlaceInv'
  BY DEF IngestInv, PlaceInv, SameFile
<1>4. RowsInv'
  BY FileKept DEF IngestInv
<1>5. ReadInv'
  BY <1>1, FileKept DEF IngestInv, ReadInv, SameFile
<1>6. GateInv'
  BY <1>1 DEF GateInv
<1>7. SeriesInv'
  BY <1>1 DEF IngestInv, SeriesInv, NoSeries
<1>8. UneditedInv'
  BY <1>1, FileKept DEF IngestInv, UneditedInv, SameFile
<1> QED
  BY <1>2, <1>3, <1>4, <1>5, <1>6, <1>7, <1>8 DEF IngestInv

LEMMA ReadingKeepsInv == ASSUME IngestInv, Reading \/ ReadFails PROVE IngestInv'
<1>1. /\ next \in 1..(Len(rows) + 1) /\ blank \in 0..Len(rows) /\ blank < next /\ Len(rows) \in Nat
      /\ next \in Nat /\ blank \in Nat
  BY DEF IngestInv, TypesInv, TableTypeOK, PlaceInv
<1>2. ASSUME stage = "reading", SkipBlankRow, UNCHANGED <<sourceVars, stage, gate, exit, series>>
      PROVE  IngestInv'
  <2>1. /\ SameFile /\ AtRow /\ IsBlank(Row) /\ parse' = parse /\ parse = "reading"
        /\ next' = next + 1 /\ blank' = blank + 1
        /\ UNCHANGED <<numbers, stamps, values, gate, series>> /\ exit' = exit /\ stage' = stage
    BY <1>2 DEF SkipBlankRow, AtRow, sourceVars, SameFile
  <2>2. next' \in 1..(Len(rows) + 1) /\ blank' \in 0..Len(rows) /\ blank' < next'
    BY <1>1, <2>1, RowRead
  <2>3. edits # 0
    BY <2>1, UneditedRows
  <2> QED
    BY <1>2, <2>1, <2>2, <2>3, UnreadStepKeepsInv
<1>3. ASSUME stage = "reading", EndOfRows, UNCHANGED <<sourceVars, stage, gate, exit, series>>
      PROVE  IngestInv'
  <2>1. /\ SameFile /\ parse' = "parsed" /\ next > Len(rows) /\ next' = next /\ blank' = blank
        /\ UNCHANGED <<numbers, stamps, values, gate, series>> /\ exit' = exit /\ stage' = stage
    BY <1>3 DEF EndOfRows, sourceVars, SameFile
  <2>2. next' = Len(rows) + 1
    BY <1>1, <2>1
  <2> QED
    BY <1>1, <1>3, <2>1, <2>2, UnreadStepKeepsInv DEF IngestInv, UneditedInv
<1>4. ASSUME stage = "reading", RefuseRow, UNCHANGED <<sourceVars, stage, gate, exit, series>>
      PROVE  IngestInv'
  <2>1. /\ SameFile /\ parse' \in ParseRefusals /\ parse' # "parsed" /\ next' = next /\ blank' = blank
        /\ UNCHANGED <<numbers, stamps, values, gate, series>> /\ exit' = exit /\ stage' = stage
    BY <1>4 DEF RefuseRow, ParseRefusals, sourceVars, SameFile
  <2> QED
    BY <1>1, <1>4, <2>1, UnreadStepKeepsInv DEF IngestInv, UneditedInv
<1>5. ASSUME ReadFails PROVE IngestInv'
  <2>1. /\ SameFile /\ stage = "reading" /\ stage' = "unread" /\ exit' = 1
        /\ parse' = parse /\ next' = next /\ blank' = blank
        /\ UNCHANGED <<numbers, stamps, values, gate, series>>
        /\ parse \in {"reading", "parsed"} \cup ParseRefusals
    BY <1>5 DEF ReadFails, tableVars, sourceVars, SameFile
  <2> QED
    BY <1>1, <2>1, UnreadStepKeepsInv DEF IngestInv, PlaceInv, UneditedInv
<1> QED
  BY <1>2, <1>3, <1>4, <1>5, ReadRowKeepsInv DEF Reading

(* A step of the command after the parser. *)
SameParse == SameFile /\ UNCHANGED <<next, numbers, stamps, values, blank, parse>>

LEMMA ParseKept ==
  ASSUME IngestInv, SameParse,
         stage \in {"reading", "verified", "inspected"}, parse = "parsed",
         stage' \in {"verified", "inspected", "assembled", "refused"},
         gate' \in {"not_applicable", "agrees", "refused"}, exit' \in {None, 0, 1}
  PROVE  /\ TypesInv' /\ PlaceInv' /\ RowsInv' /\ ReadInv' /\ UneditedInv'
         /\ stamps' = stamps /\ values' = values /\ LoggedStamps' = LoggedStamps
         /\ EndsAgree' = EndsAgree /\ Renders' = Renders
<1>1. /\ next' = next /\ numbers' = numbers /\ stamps' = stamps /\ values' = values
      /\ blank' = blank /\ parse' = parse /\ SameFile
  BY DEF SameParse
<1>2. TypesInv'
  BY <1>1 DEF IngestInv, TypesInv, TableTypeOK, SameFile
<1>3. PlaceInv'
  BY <1>1 DEF IngestInv, PlaceInv, SameFile
<1>4. ReadInv'
  BY <1>1, FileKept DEF IngestInv, ReadInv, SameFile
<1>5. UneditedInv'
  BY <1>1, FileKept DEF IngestInv, UneditedInv, SameFile
<1>6. EndsAgree' = EndsAgree
  BY <1>1, FileKept DEF EndsAgree
<1>7. Renders' = Renders
  BY <1>1 DEF Renders, SameFile
<1> QED
  BY <1>1, <1>2, <1>3, <1>4, <1>5, <1>6, <1>7, FileKept DEF IngestInv

LEMMA AgreementOfTheGate ==
  ASSUME NEW agreeing, ~C!Refuses(Published, stamps, values, agreeing)
  PROVE  EndsAgree
BY DEF C!Refuses, C!AllReproduced, C!Publish, Published, EndsAgree

LEMMA VerifyKeepsInv == ASSUME IngestInv, Verify PROVE IngestInv'
<1>1. /\ SameParse /\ stage = "reading" /\ parse = "parsed" /\ stage' = "verified"
      /\ exit' = exit /\ series' = series
  BY DEF Verify, tableVars, sourceVars, SameParse, SameFile
<1>2. /\ gate' \in {"not_applicable", "agrees", "refused"}
      /\ gate' = "not_applicable" => statistics = "absent"
      /\ gate' = "agrees" => EndsAgree
  BY AgreementOfTheGate DEF Verify
<1>3. exit' \in {None, 0, 1} /\ exit' # 0
  BY <1>1 DEF IngestInv, TypesInv, GateInv
<1>4. GateInv'
  BY <1>1, <1>2, <1>3, ParseKept DEF GateInv, SameParse, SameFile
<1>5. SeriesInv'
  BY <1>1 DEF IngestInv, SeriesInv, NoSeries
<1> QED
  BY <1>1, <1>2, <1>3, <1>4, <1>5, ParseKept DEF IngestInv

LEMMA ReportKeepsInv == ASSUME IngestInv, Report PROVE IngestInv'
<1>1. /\ SameParse /\ stage = "verified" /\ stage' = "inspected"
      /\ exit' = (IF Renders /\ gate # "refused" THEN 0 ELSE 1)
      /\ gate' = gate /\ series' = series
  BY DEF Report, tableVars, sourceVars, SameParse, SameFile
<1>2. /\ gate \in {"not_applicable", "agrees", "refused"} /\ parse = "parsed"
      /\ gate = "not_applicable" => statistics = "absent"
      /\ gate = "agrees" => EndsAgree
  BY <1>1 DEF IngestInv, TypesInv, GateInv, PlaceInv
<1>3. exit' \in {None, 0, 1} /\ (exit' = 0 => Renders /\ gate # "refused")
  BY <1>1
<1>4. GateInv'
  BY <1>1, <1>2, <1>3, ParseKept DEF GateInv, SameParse, SameFile
<1>5. SeriesInv'
  BY <1>1 DEF IngestInv, SeriesInv, NoSeries
<1> QED
  BY <1>1, <1>2, <1>3, <1>4, <1>5, ParseKept DEF IngestInv

LEMMA AssembleKeepsInv ==
  ASSUME IngestInv, NEW supplied \in SuppliedIntervals, Assemble(supplied) PROVE IngestInv'
<1> DEFINE utc == G!ToUtc(stamps, Offset)
           dt == ResolvedInterval(supplied)
<1>1. /\ SameParse /\ stage = "inspected" /\ stage' \in {"assembled", "refused"}
      /\ exit' = exit /\ gate' = gate
      /\ stage' = "assembled" => /\ G!Griddable(utc, values, dt)
                                 /\ series' = G!UniformGrid(utc, values, dt)
      /\ stage' = "refused" => series' = series
  BY DEF Assemble, tableVars, sourceVars, SameParse, SameFile
<1>2. dt \in SuppliedIntervals \cup {Interval}
  BY DEF ResolvedInterval
<1>3. /\ parse = "parsed" /\ exit \in {None, 0, 1} /\ series = NoSeries
      /\ gate \in {"not_run", "not_applicable", "agrees", "refused"}
      /\ gate = "not_applicable" => statistics = "absent"
      /\ gate = "agrees" => EndsAgree
      /\ exit = 0 => gate \in {"agrees", "not_applicable"} /\ Renders
  BY <1>1 DEF IngestInv, TypesInv, PlaceInv, GateInv, SeriesInv
<1>4. gate # "not_run"
  BY <1>1 DEF IngestInv, GateInv
<1>5. GateInv'
  BY <1>1, <1>3, <1>4, ParseKept DEF GateInv, SameParse, SameFile
<1>6. SeriesInv'
  <2>1. stamps' = stamps /\ values' = values
    BY <1>1 DEF SameParse
  <2> HIDE DEF dt
  <2> QED
    BY <1>1, <1>2, <1>3, <2>1 DEF SeriesInv, NoSeries
<1> QED
  BY <1>1, <1>3, <1>4, <1>5, <1>6, ParseKept DEF IngestInv

LEMMA UtcIsTyped ==
  ASSUME IngestInv
  PROVE  G!ToUtc(stamps, Offset) \in Seq(Int) /\ Len(G!ToUtc(stamps, Offset)) = Len(stamps)
<1> DEFINE utc == G!ToUtc(stamps, Offset)
<1>1. /\ stamps \in Seq(Int) /\ Len(stamps) \in Nat /\ DOMAIN stamps = 1..Len(stamps)
      /\ \A i \in DOMAIN stamps : stamps[i] \in Int
  BY DEF IngestInv, TypesInv, TableTypeOK
<1>2. \A i \in DOMAIN stamps : stamps[i] - Offset \in Int
  BY <1>1, IngestAssumption
<1>3. utc \in [1..Len(stamps) -> Int]
  BY <1>1, <1>2 DEF G!ToUtc
<1> HIDE DEF utc
<1>4. utc \in Seq(Int)
  BY <1>1, <1>3, SeqDef
<1>5. Len(utc) = Len(stamps)
  BY <1>1, <1>3, <1>4
<1> QED
  BY <1>4, <1>5 DEF utc

LEMMA StutterKeepsInv == ASSUME IngestInv, UNCHANGED vars PROVE IngestInv'
<1>1. /\ SameFile /\ next' = next /\ numbers' = numbers /\ stamps' = stamps /\ values' = values
      /\ blank' = blank /\ parse' = parse /\ stage' = stage /\ gate' = gate /\ exit' = exit
      /\ series' = series
  BY DEF vars, SameFile
<1>2. TypesInv'
  BY <1>1 DEF IngestInv, TypesInv, TableTypeOK, SameFile
<1>3. PlaceInv'
  BY <1>1 DEF IngestInv, PlaceInv, NothingParsed, SameFile
<1>4. ReadInv'
  BY <1>1, FileKept DEF IngestInv, ReadInv, SameFile
<1>5. UneditedInv'
  BY <1>1, FileKept DEF IngestInv, UneditedInv, SameFile
<1>6. EndsAgree' = EndsAgree /\ Renders' = Renders
  BY <1>1, FileKept DEF EndsAgree, Renders, SameFile
<1>7. GateInv'
  BY <1>1, <1>6 DEF IngestInv, GateInv, SameFile
<1>8. SeriesInv'
  BY <1>1 DEF IngestInv, SeriesInv, NoSeries
<1> QED
  BY <1>1, <1>2, <1>3, <1>4, <1>5, <1>7, <1>8, FileKept DEF IngestInv

LEMMA IngestInvStep == IngestInv /\ [Next]_vars => IngestInv'
<1>1. ASSUME IngestInv, Next PROVE IngestInv'
  BY <1>1, OtherHandsKeepInv, InspectKeepsInv, ReadingKeepsInv, VerifyKeepsInv, ReportKeepsInv,
     AssembleKeepsInv DEF Next, InspectStep
<1> QED
  BY <1>1, StutterKeepsInv

LEMMA IngestInvAlways == Spec => []IngestInv
<1>1. Init => IngestInv
  BY InitKeepsInv
<1> QED
  BY <1>1, IngestInvStep, PTL DEF Spec

-----------------------------------------------------------------------------
(* Every variable keeps its type, and an assembled series maps instants to *)
(* readings, whatever a logger recorded and other hands did to the file    *)
(* (parse_data, verify_published_statistics, to_uniform_grid).             *)
THEOREM IngestIsTyped == Spec => []IngestTypeOK
<1>1. ASSUME IngestInv PROVE IngestTypeOK
  <2>1. ASSUME NEW t \in DOMAIN series PROVE t \in Int /\ series[t] \in Int \cup {NaN, Infinite}
    <3>1. CASE stage # "assembled"
      BY <1>1, <2>1, <3>1 DEF IngestInv, SeriesInv, NoSeries
    <3>2. CASE stage = "assembled"
      <4> DEFINE utc == G!ToUtc(stamps, Offset)
      <4>1. PICK dt \in SuppliedIntervals \cup {Interval} :
              G!Griddable(utc, values, dt) /\ series = G!UniformGrid(utc, values, dt)
        BY <1>1, <3>2 DEF IngestInv, SeriesInv
      <4>2. dt \in Int /\ utc \in Seq(Int)
        BY <1>1, UtcIsTyped, IngestAssumption
      <4> HIDE DEF utc
      <4>3. values \in Seq(Int \cup {NaN, Infinite}) /\ Len(utc) = Len(values)
        BY <1>1, <4>1 DEF IngestInv, TypesInv, TableTypeOK, G!Griddable
      <4>4. /\ \A i \in DOMAIN utc : series[utc[i]] = values[i]
            /\ \A u \in DOMAIN series \ {utc[i] : i \in DOMAIN utc} : series[u] = NaN
            /\ \A u \in DOMAIN series : u \in Int
        BY <4>1, <4>2, GridIsFaithful
      <4>5. \A i \in DOMAIN utc : values[i] \in Int \cup {NaN, Infinite}
        BY <4>2, <4>3
      <4> QED
        BY <2>1, <4>4, <4>5
    <3> QED
      BY <3>1, <3>2
  <2> QED
    BY <1>1, <2>1 DEF IngestInv, TypesInv, IngestTypeOK
<1> QED
  BY <1>1, IngestInvAlways, PTL

-----------------------------------------------------------------------------
(* Alignment.  A row is kept at the rank it has among the rows that are    *)
(* not blank; reading a row adds one rank and leaves the earlier ones.     *)

LEMMA KeptCount ==
  ASSUME NEW i \in Nat
  PROVE  /\ IsFiniteSet(KeptUpTo(i)) /\ Rank(i) \in Nat
         /\ KeptUpTo(0) = {} /\ Rank(0) = 0
         /\ KeptUpTo(i + 1) = KeptUpTo(i) \cup (IF IsBlank(rows[i + 1]) THEN {} ELSE {i + 1})
         /\ Rank(i + 1) = Rank(i) + (IF IsBlank(rows[i + 1]) THEN 0 ELSE 1)
<1>1. IsFiniteSet(1..i) /\ KeptUpTo(i) \in SUBSET (1..i)
  BY FS_Interval DEF KeptUpTo
<1>2. IsFiniteSet(KeptUpTo(i)) /\ Cardinality(KeptUpTo(i)) \in Nat
  BY <1>1, FS_Subset, FS_CardinalityType
<1>3. KeptUpTo(0) = {} /\ Rank(0) = 0
  BY FS_EmptySet DEF KeptUpTo, Rank
<1>4. KeptUpTo(i + 1) = KeptUpTo(i) \cup (IF IsBlank(rows[i + 1]) THEN {} ELSE {i + 1})
  BY DEF KeptUpTo
<1>5. i + 1 \notin KeptUpTo(i)
  BY DEF KeptUpTo
<1>6. Rank(i + 1) = Rank(i) + (IF IsBlank(rows[i + 1]) THEN 0 ELSE 1)
  <2>1. CASE IsBlank(rows[i + 1])
    <3>1. KeptUpTo(i + 1) = KeptUpTo(i)
      BY <1>4, <2>1
    <3> QED
      BY <1>2, <2>1, <3>1 DEF Rank
  <2>2. CASE ~IsBlank(rows[i + 1])
    <3>1. KeptUpTo(i + 1) = KeptUpTo(i) \cup {i + 1}
      BY <1>4, <2>2
    <3>2. Cardinality(KeptUpTo(i) \cup {i + 1}) = Cardinality(KeptUpTo(i)) + 1
      BY <1>2, <1>5, FS_AddElement
    <3> QED
      BY <2>2, <3>1, <3>2 DEF Rank
  <2> QED
    BY <2>1, <2>2
<1> QED
  BY <1>2, <1>3, <1>4, <1>6 DEF Rank

LEMMA RanksAreBounded ==
  ASSUME NEW n \in Nat, NEW i \in KeptUpTo(n)
  PROVE  Rank(i) \in 1..Rank(n)
<1>1. i \in Nat \ {0} /\ i <= n /\ ~IsBlank(rows[i])
  BY DEF KeptUpTo
<1>2. KeptUpTo(i) \in SUBSET KeptUpTo(n) /\ i \in KeptUpTo(i)
  BY <1>1 DEF KeptUpTo
<1>3. IsFiniteSet(KeptUpTo(n)) /\ IsFiniteSet(KeptUpTo(i))
  BY <1>1, KeptCount
<1>4. Rank(i) <= Rank(n) /\ Rank(i) \in Nat /\ Rank(n) \in Nat
  BY <1>1, <1>2, <1>3, FS_Subset, KeptCount DEF Rank
<1>5. Rank(i) # 0
  BY <1>2, <1>3, FS_EmptySet DEF Rank
<1> QED
  BY <1>4, <1>5

LEMMA AlignedAtTheStart == ASSUME NothingParsed PROVE ParseIsAligned
<1>1. next - 1 = 0 /\ Len(stamps) = 0 /\ Len(values) = 0 /\ Len(numbers) = 0 /\ blank = 0
  BY DEF NothingParsed
<1> QED
  BY <1>1, KeptCount DEF ParseIsAligned

(* A step that leaves the table and its lists alone. *)
LEMMA AlignedParseKept ==
  ASSUME ParseIsAligned,
         UNCHANGED <<numbered, rows, next, numbers, stamps, values, blank>>
  PROVE  ParseIsAligned'
<1>1. \A i : KeptUpTo(i)' = KeptUpTo(i)
  BY DEF KeptUpTo, IsBlank
<1>2. \A i : Rank(i)' = Rank(i)
  BY <1>1 DEF Rank
<1> QED
  BY <1>1, <1>2 DEF ParseIsAligned

LEMMA SkipKeepsAlignment ==
  ASSUME TableTypeOK, ParseIsAligned, SkipBlankRow PROVE ParseIsAligned'
<1>1. /\ next \in Nat \ {0} /\ next' = next + 1 /\ blank' = blank + 1 /\ IsBlank(rows[next])
      /\ UNCHANGED <<numbered, rows, numbers, stamps, values>>
      /\ Len(stamps) \in Nat /\ blank \in Nat
  BY DEF TableTypeOK, SkipBlankRow, AtRow, Row
<1>2. \A i : KeptUpTo(i)' = KeptUpTo(i)
  BY <1>1 DEF KeptUpTo, IsBlank
<1>3. \A i : Rank(i)' = Rank(i)
  BY <1>2 DEF Rank
<1>4. PICK n \in Nat : next = n + 1
  <2>1. next - 1 \in Nat /\ next = (next - 1) + 1
    BY <1>1
  <2> QED
    BY <2>1
<1>5. KeptUpTo(n + 1) = KeptUpTo(n) /\ Rank(n + 1) = Rank(n)
  <2>1. /\ IsBlank(rows[n + 1]) /\ Rank(n) \in Nat
        /\ KeptUpTo(n + 1) = KeptUpTo(n) \cup (IF IsBlank(rows[n + 1]) THEN {} ELSE {n + 1})
        /\ Rank(n + 1) = Rank(n) + (IF IsBlank(rows[n + 1]) THEN 0 ELSE 1)
    BY <1>1, <1>4, KeptCount
  <2> QED
    BY <2>1
<1>6. next - 1 = n /\ next' - 1 = n + 1
  BY <1>1, <1>4
<1> QED
  BY <1>1, <1>2, <1>3, <1>5, <1>6 DEF ParseIsAligned

LEMMA ReadKeepsAlignment ==
  ASSUME TableTypeOK, ParseIsAligned, ReadRow PROVE ParseIsAligned'
<1> DEFINE n == next - 1
<1>1. /\ next \in Nat \ {0} /\ next' = next + 1 /\ blank' = blank /\ ~IsBlank(rows[next])
      /\ UNCHANGED <<numbered, rows>>
      /\ stamps' = Append(stamps, rows[next].stamp)
      /\ values' = Append(values, ReadsAs(rows[next].value))
      /\ numbers' = IF numbered THEN Append(numbers, rows[next].number) ELSE numbers
      /\ blank \in Nat
  BY DEF TableTypeOK, ReadRow, AtRow, Row
<1>2. \A i : KeptUpTo(i)' = KeptUpTo(i)
  BY <1>1 DEF KeptUpTo, IsBlank
<1>3. \A i : Rank(i)' = Rank(i)
  BY <1>2 DEF Rank
<1>4. n \in Nat /\ next' - 1 = n + 1 /\ n + 1 = next
  BY <1>1
<1>5. /\ KeptUpTo(n + 1) = KeptUpTo(n) \cup {next} /\ Rank(n + 1) = Rank(n) + 1
      /\ Rank(n) \in Nat /\ \A i \in KeptUpTo(n) : Rank(i) \in 1..Rank(n)
  BY <1>1, <1>4, KeptCount, RanksAreBounded
<1>6. /\ Len(stamps) = Rank(n) /\ Len(values) = Rank(n) /\ (numbered => Len(numbers) = Rank(n))
      /\ Len(stamps) + blank = n
      /\ \A i \in KeptUpTo(n) : /\ stamps[Rank(i)] = rows[i].stamp
                                /\ values[Rank(i)] = ReadsAs(rows[i].value)
                                /\ numbered => numbers[Rank(i)] = rows[i].number
  BY DEF ParseIsAligned
<1>7. /\ stamps \in Seq(Int) /\ values \in Seq(Int \cup {NaN, Infinite}) /\ numbers \in Seq(Int)
  BY DEF TableTypeOK
<1> HIDE DEF n
<1>8. /\ Len(stamps') = Rank(n) + 1 /\ stamps'[Rank(n) + 1] = rows[next].stamp
      /\ \A k \in 1..Rank(n) : stamps'[k] = stamps[k]
  BY <1>1, <1>5, <1>6, <1>7
<1>9. /\ Len(values') = Rank(n) + 1 /\ values'[Rank(n) + 1] = ReadsAs(rows[next].value)
      /\ \A k \in 1..Rank(n) : values'[k] = values[k]
  BY <1>1, <1>5, <1>6, <1>7
<1>10. ASSUME numbered
       PROVE  /\ Len(numbers') = Rank(n) + 1 /\ numbers'[Rank(n) + 1] = rows[next].number
              /\ \A k \in 1..Rank(n) : numbers'[k] = numbers[k]
  BY <1>1, <1>5, <1>6, <1>7, <1>10
<1>11. \A row : ReadsAs(row)' = ReadsAs(row)
  BY DEF ReadsAs
<1>12. Rank(next) = Rank(n) + 1
  BY <1>4, <1>5
<1>13. ASSUME NEW i \in KeptUpTo(n + 1)
       PROVE  /\ stamps'[Rank(i)] = rows[i].stamp
              /\ values'[Rank(i)] = ReadsAs(rows[i].value)
              /\ numbered => numbers'[Rank(i)] = rows[i].number
  <2>1. CASE i \in KeptUpTo(n)
    BY <2>1, <1>5, <1>6, <1>8, <1>9, <1>10
  <2>2. CASE i = next
    BY <2>2, <1>8, <1>9, <1>10, <1>12
  <2> QED
    BY <1>5, <2>1, <2>2
<1>14. Len(stamps') + blank' = n + 1
  <2>1. /\ Len(stamps') = Rank(n) + 1 /\ blank' = blank /\ Rank(n) + blank = n
        /\ Rank(n) \in Nat /\ blank \in Nat /\ n \in Nat
    BY <1>1, <1>4, <1>5, <1>6, <1>8
  <2> QED
    BY <2>1
<1> QED
  BY <1>1, <1>2, <1>3, <1>4, <1>5, <1>8, <1>9, <1>10, <1>13, <1>14 DEF ParseIsAligned

LEMMA AlignedStep == ASSUME IngestInv, ParseIsAligned, [Next]_vars PROVE ParseIsAligned'
<1>1. TableTypeOK
  BY DEF IngestInv, TypesInv
<1>2. ASSUME NothingParsed, UNCHANGED <<next, numbers, stamps, values, blank, parse>>
      PROVE  ParseIsAligned'
  <2>1. NothingParsed'
    BY <1>2 DEF NothingParsed
  <2>2. next' - 1 = 0 /\ Len(stamps') = 0 /\ Len(values') = 0 /\ Len(numbers') = 0 /\ blank' = 0
    BY <2>1 DEF NothingParsed
  <2>3. KeptUpTo(0)' = {}
    BY DEF KeptUpTo
  <2>4. Rank(0)' = 0
    BY <2>3, FS_EmptySet DEF Rank
  <2> QED
    BY <2>2, <2>3, <2>4 DEF ParseIsAligned
<1>3. ASSUME OtherHands PROVE ParseIsAligned'
  <2>1. stage = "file" /\ UNCHANGED parseVars
    BY <1>3 DEF OtherHands, DeleteRow, RepeatRow, SwapWithNext, BlankRow, ChangeCell, Retime,
       CutStatistics, Edit
  <2> QED
    BY <1>2, <2>1 DEF IngestInv, PlaceInv, parseVars
<1>4. CASE Reading
  BY <1>1, <1>4, SkipKeepsAlignment, ReadKeepsAlignment, AlignedParseKept
     DEF Reading, EndOfRows, RefuseRow
<1>5. CASE Inspect \/ ReadFails \/ Verify \/ Report \/ UNCHANGED vars
           \/ \E supplied \in SuppliedIntervals : Assemble(supplied)
  <2>1. UNCHANGED <<numbered, rows, next, numbers, stamps, values, blank>>
    BY <1>5 DEF Inspect, StartReading, ReadFails, Verify, Report, Assemble, tableVars, vars
  <2> QED
    BY <2>1, AlignedParseKept
<1> QED
  BY <1>3, <1>4, <1>5 DEF Next, InspectStep

(* What was read of a table is, row by row, what its non-blank rows hold,  *)
(* each at its rank, and every blank row is counted (parse_data).          *)
THEOREM ParseIsAlwaysAligned == Spec => []ParseIsAligned
<1>1. Init => ParseIsAligned
  BY AlignedAtTheStart DEF Init
<1>2. IngestInv /\ ParseIsAligned /\ [Next]_vars => ParseIsAligned'
  BY AlignedStep
<1> QED
  BY <1>1, <1>2, IngestInvAlways, PTL DEF Spec

-----------------------------------------------------------------------------
(* Nothing is filled and nothing is spliced in any assembled series: each  *)
(* parsed reading is at its own instant, NaN is everywhere else, and the   *)
(* points run evenly from the first sample to the last (to_uniform_grid).  *)
THEOREM SeriesIsAlwaysFaithful == Spec => []SeriesIsFaithful
<1>1. ASSUME IngestInv, stage = "assembled" PROVE SeriesIsFaithful
  <2> DEFINE utc == G!ToUtc(stamps, Offset)
  <2>1. PICK dt \in SuppliedIntervals \cup {Interval} :
          G!Griddable(utc, values, dt) /\ series = G!UniformGrid(utc, values, dt)
    BY <1>1 DEF IngestInv, SeriesInv
  <2>2. dt \in Int /\ utc \in Seq(Int)
    BY <1>1, UtcIsTyped, IngestAssumption
  <2> HIDE DEF utc
  <2>3. /\ \A i \in DOMAIN utc : utc[i] \in DOMAIN series /\ series[utc[i]] = values[i]
        /\ \A t \in DOMAIN series \ {utc[i] : i \in DOMAIN utc} : series[t] = NaN
        /\ \A i, j \in DOMAIN utc : utc[i] = utc[j] => i = j
        /\ \A t \in DOMAIN series : t = utc[Len(utc)] \/ t + dt \in DOMAIN series
    BY <2>1, <2>2, GridIsFaithful
  <2> QED
    BY <2>3 DEF SeriesIsFaithful, utc
<1>2. IngestInv => SeriesIsFaithful
  BY <1>1 DEF SeriesIsFaithful
<1> QED
  BY <1>2, IngestInvAlways, PTL

(* Of an export with sample numbers, rows can be lost at the ends only:    *)
(* what the parser accepted is a contiguous stretch of the recording       *)
(* (the sequence check of _number in parse_data).                          *)
THEOREM LossIsOnlyAtTheEnds == Spec => []LossOnlyAtTheEnds
<1>1. ASSUME IngestInv, numbered, ~retimed, stamps # << >>
      PROVE  \E from \in DOMAIN recording : \A i \in DOMAIN stamps :
               from + i - 1 \in DOMAIN recording /\ stamps[i] = LoggedStamps[from + i - 1]
  <2>1. /\ numbers \in Seq(Int) /\ stamps \in Seq(Int) /\ Len(numbers) = Len(stamps)
        /\ \A i \in DOMAIN numbers : numbers[i] = numbers[1] + (i - 1)
        /\ \A i \in DOMAIN stamps :
             numbers[i] \in DOMAIN recording /\ stamps[i] = LocalStamp(numbers[i])
    BY <1>1 DEF IngestInv, TypesInv, TableTypeOK, ReadInv
  <2>2. DOMAIN numbers = DOMAIN stamps /\ 1 \in DOMAIN stamps /\ numbers[1] \in Int
    BY <1>1, <2>1
  <2>3. ASSUME NEW i \in DOMAIN stamps
        PROVE  /\ numbers[1] + i - 1 \in DOMAIN recording
               /\ stamps[i] = LoggedStamps[numbers[1] + i - 1]
    <3>1. numbers[1] + i - 1 = numbers[i]
      BY <2>1, <2>2
    <3> QED
      BY <2>1, <3>1 DEF LoggedStamps
  <2> QED
    BY <2>1, <2>2, <2>3
<1>2. IngestInv => LossOnlyAtTheEnds
  BY <1>1 DEF LossOnlyAtTheEnds
<1> QED
  BY <1>2, IngestInvAlways, PTL

-----------------------------------------------------------------------------
(* The clock of the logger. *)

Moved(i) == IF TrueInstant(i) >= shift.at THEN shift.by ELSE 0

LEMMA SamplesAreEven ==
  /\ TrueInstant(1) = FirstInstant
  /\ \A i \in Nat : /\ TrueInstant(i) \in Int
                    /\ TrueInstant(i + 1) = TrueInstant(i) + Interval
  /\ \A i, j \in Nat : i <= j => TrueInstant(i) <= TrueInstant(j)
<1>1. FirstInstant \in Int /\ Interval \in Nat \ {0}
  BY IngestAssumption
<1>2. TrueInstant(1) = FirstInstant
  BY <1>1 DEF TrueInstant
<1>3. ASSUME NEW i \in Nat
      PROVE  TrueInstant(i) \in Int /\ TrueInstant(i + 1) = TrueInstant(i) + Interval
  <2>1. PICK p \in Int, q \in Int : p = (i - 1) * Interval /\ q = i * Interval /\ q = p + Interval
    BY <1>1, OneMore
  <2>2. q = p + Interval /\ TrueInstant(i) = FirstInstant + p
    BY <2>1 DEF TrueInstant
  <2>3. TrueInstant(i + 1) = FirstInstant + q
    <3>1. i + 1 - 1 = i
      OBVIOUS
    <3> QED
      BY <2>1, <3>1 DEF TrueInstant
  <2> QED
    BY <1>1, <2>2, <2>3
<1>4. ASSUME NEW i \in Nat, NEW j \in Nat, i <= j PROVE TrueInstant(i) <= TrueInstant(j)
  <2>1. PICK p \in Int, q \in Int : p = (i - 1) * Interval /\ q = (j - 1) * Interval /\ p <= q
    <3>1. (i - 1) * Interval <= (j - 1) * Interval
      BY <1>1, <1>4
    <3> QED
      BY <1>1, <3>1
  <2>2. p <= q /\ TrueInstant(i) = FirstInstant + p /\ TrueInstant(j) = FirstInstant + q
    BY <2>1 DEF TrueInstant
  <2> QED
    BY <1>1, <2>2
<1> QED
  BY <1>2, <1>3, <1>4

LEMMA StampsOfSamples ==
  ASSUME IngestInv
  PROVE  /\ shift.by \in Int /\ shift.at \in Int /\ Offset \in Int
         /\ Len(recording) \in Nat /\ DOMAIN recording = 1..Len(recording)
         /\ \A i \in Nat : LocalStamp(i) = TrueInstant(i) + Offset + Moved(i) /\ Moved(i) \in Int
<1>1. shift \in [at : Int, by : Int] /\ recording \in Seq(Int \cup {NaN})
  BY RecordingIsTyped DEF IngestInv
<1> QED
  BY <1>1, IngestAssumption DEF LocalStamp, Moved

(* Where the clock never moved forwards, stamps that agree with both ends  *)
(* of the recording, in number and on the grid, are the stamps of the      *)
(* recording: a moved clock would leave too little room between the ends.  *)
LEMMA EndsAndGridFix ==
  ASSUME IngestInv, shift.by <= 0, EndsAgree,
         G!Griddable(G!ToUtc(stamps, Offset), values, Interval)
  PROVE  stamps = LoggedStamps
<1> DEFINE utc == G!ToUtc(stamps, Offset)
           N == Len(stamps)
<1>1. /\ utc \in Seq(Int) /\ Len(utc) = N /\ G!FitsGrid(utc, Interval) /\ N >= 2
      /\ Interval \in Nat \ {0}
  BY UtcIsTyped, IngestAssumption DEF G!Griddable, G!MinSamples
<1>2. /\ stamps \in Seq(Int) /\ N \in Nat /\ DOMAIN stamps = 1..N
      /\ \A i \in 1..N : stamps[i] \in Int /\ utc[i] = stamps[i] - Offset
  BY DEF IngestInv, TypesInv, TableTypeOK, G!ToUtc
<1>3. /\ shift.by \in Int /\ shift.at \in Int /\ Offset \in Int
      /\ \A i \in Nat : LocalStamp(i) = TrueInstant(i) + Offset + Moved(i) /\ Moved(i) \in Int
      /\ Len(recording) \in Nat /\ DOMAIN recording = 1..Len(recording)
  BY StampsOfSamples
<1>4. /\ N = Len(recording) /\ DOMAIN LoggedStamps = 1..N
      /\ \A i \in 1..N : LoggedStamps[i] = LocalStamp(i)
      /\ stamps[1] = LocalStamp(1) /\ stamps[N] = LocalStamp(N)
  <2>1. /\ DOMAIN LoggedStamps = 1..Len(recording)
        /\ \A i \in 1..Len(recording) : LoggedStamps[i] = LocalStamp(i)
    BY <1>3 DEF LoggedStamps
  <2>2. Len(LoggedStamps) = Len(recording)
    BY <1>3, <2>1
  <2> QED
    BY <1>1, <2>1, <2>2 DEF EndsAgree
<1> HIDE DEF utc, N
<1>5. 1 \in 1..N /\ N \in 1..N /\ 1 \in Nat /\ N \in Nat /\ 1..N \subseteq Nat
  BY <1>1, <1>2
<1>6. /\ \A i \in Nat : TrueInstant(i) \in Int
      /\ \A i, j \in Nat : i <= j => TrueInstant(i) <= TrueInstant(j)
  BY SamplesAreEven
<1>7. utc[1] = TrueInstant(1) + Moved(1) /\ utc[N] = TrueInstant(N) + Moved(N)
  <2>1. /\ utc[1] = stamps[1] - Offset /\ stamps[1] = TrueInstant(1) + Offset + Moved(1)
        /\ utc[N] = stamps[N] - Offset /\ stamps[N] = TrueInstant(N) + Offset + Moved(N)
    BY <1>2, <1>3, <1>4, <1>5
  <2>2. /\ TrueInstant(1) \in Int /\ Moved(1) \in Int /\ TrueInstant(N) \in Int /\ Moved(N) \in Int
        /\ Offset \in Int
    BY <1>3, <1>5, <1>6
  <2> QED
    BY <2>1, <2>2
<1>8. TrueInstant(1) <= TrueInstant(N) /\ Moved(N) <= Moved(1)
  <2>1. TrueInstant(1) <= TrueInstant(N)
    <3>1. 1 <= N
      BY <1>1, <1>5
    <3> QED
      BY <1>5, <1>6, <3>1
  <2>2. TrueInstant(1) \in Int /\ TrueInstant(N) \in Int
    BY <1>5, <1>6
  <2> QED
    BY <1>3, <2>1, <2>2 DEF Moved
<1>9. ASSUME NEW i \in 1..N
      PROVE  \E p \in Int : p = (i - 1) * Interval /\ TrueInstant(i) = TrueInstant(1) + p
  <2>1. (i - 1) * Interval \in Int
    BY <1>1, OneMore
  <2>2. TrueInstant(1) = FirstInstant /\ TrueInstant(i) = FirstInstant + (i - 1) * Interval
    BY SamplesAreEven DEF TrueInstant
  <2> QED
    BY <2>1, <2>2
<1>10. utc[Len(utc)] <= utc[1] + (Len(utc) - 1) * Interval
  <2>1. PICK p \in Int : p = (N - 1) * Interval /\ TrueInstant(N) = TrueInstant(1) + p
    BY <1>5, <1>9
  <2>2. TrueInstant(N) = TrueInstant(1) + p
    BY <2>1
  <2>3. utc[N] <= utc[1] + p
    BY <1>3, <1>5, <1>6, <1>7, <1>8, <2>2
  <2> QED
    BY <1>1, <2>1, <2>3
<1>11. ASSUME NEW i \in 1..N PROVE utc[i] = TrueInstant(i) + Moved(1)
  <2>1. PICK p \in Int : p = (i - 1) * Interval /\ TrueInstant(i) = TrueInstant(1) + p
    BY <1>9
  <2>2. utc[i] = utc[1] + (i - 1) * Interval
    <3>1. i \in DOMAIN utc /\ utc # << >>
      BY <1>1, <1>5
    <3> QED
      BY <1>1, <1>10, <3>1, FullGrid
  <2>3. utc[i] = utc[1] + p /\ TrueInstant(i) = TrueInstant(1) + p
    BY <2>1, <2>2
  <2> QED
    BY <1>3, <1>5, <1>6, <1>7, <2>3
<1>12. Moved(N) = Moved(1)
  BY <1>3, <1>5, <1>6, <1>7, <1>11
<1>13. ASSUME NEW i \in 1..N PROVE Moved(i) = Moved(1)
  <2>1. TrueInstant(1) <= TrueInstant(i) /\ TrueInstant(i) <= TrueInstant(N) /\ i \in Nat
    BY <1>5, <1>6
  <2> QED
    BY <1>3, <1>5, <1>6, <1>12, <2>1 DEF Moved
<1>14. ASSUME NEW i \in 1..N PROVE stamps[i] = LoggedStamps[i]
  <2>1. /\ stamps[i] \in Int /\ utc[i] = stamps[i] - Offset /\ i \in Nat
        /\ utc[i] = TrueInstant(i) + Moved(1) /\ Moved(i) = Moved(1)
        /\ LoggedStamps[i] = TrueInstant(i) + Offset + Moved(i)
        /\ TrueInstant(i) \in Int /\ Moved(i) \in Int /\ Offset \in Int
    BY <1>2, <1>3, <1>4, <1>5, <1>6, <1>11, <1>13
  <2>2. stamps[i] - Offset = TrueInstant(i) + Moved(i)
    BY <2>1
  <2> QED
    BY <2>1, <2>2
<1>15. stamps = [i \in 1..N |-> stamps[i]] /\ LoggedStamps = [i \in 1..N |-> LoggedStamps[i]]
  BY <1>2, <1>4 DEF LoggedStamps
<1> QED
  BY <1>14, <1>15

(* Where the local clock never moved forwards, no edit of an export that   *)
(* still publishes its statistics loses, repeats or moves a sample and     *)
(* leaves inspect an exit of 0 (verify_published_statistics with render's  *)
(* grid; the numbering is not needed for it).                              *)
THEOREM NoSampleIsEverLost ==
  ASSUME \A r \in Recordings : r.shift.by <= 0
  PROVE  Spec => []NoSampleLost
<1>1. ASSUME IngestInv, statistics = "published", exit = 0 PROVE stamps = LoggedStamps
  <2>1. numbered /\ Renders /\ EndsAgree
    BY <1>1 DEF IngestInv, PlaceInv, GateInv
  <2>2. G!Griddable(G!ToUtc(stamps, Offset), values, Interval)
    BY <2>1 DEF Renders
  <2>3. shift.by <= 0
    BY <1>1 DEF IngestInv, TypesInv
  <2> QED
    BY <1>1, <2>1, <2>2, <2>3, EndsAndGridFix
<1>2. IngestInv => NoSampleLost
  BY <1>1 DEF NoSampleLost
<1> QED
  BY <1>2, IngestInvAlways, PTL

(* A recording over a transition that puts the clock back by at least one  *)
(* interval never becomes a record, whatever interval the operator states: *)
(* two stamps of the untouched file are out of order (to_uniform_grid).    *)
THEOREM TransitionIsAlwaysRefused ==
  ASSUME \A r \in Recordings : r.shift.by = 0 \/ r.shift.by + Interval <= 0
  PROVE  Spec => []TransitionIsRefused
<1>1. ASSUME IngestInv, edits = 0, SpansTransition, stage = "assembled" PROVE FALSE
  <2>1. /\ shift.by \in Int /\ shift.at \in Int /\ Offset \in Int
        /\ \A i \in Nat : LocalStamp(i) = TrueInstant(i) + Offset + Moved(i) /\ Moved(i) \in Int
        /\ Len(recording) \in Nat /\ DOMAIN recording = 1..Len(recording)
    BY <1>1, StampsOfSamples
  <2>2. shift.by # 0 /\ shift.by + Interval <= 0
    BY <1>1 DEF SpansTransition, IngestInv, TypesInv
  <2>3. /\ \A i \in Nat : TrueInstant(i) \in Int /\ TrueInstant(i + 1) = TrueInstant(i) + Interval
        /\ \A i, j \in Nat : i <= j => TrueInstant(i) <= TrueInstant(j)
    BY SamplesAreEven
  <2> DEFINE After == {j \in DOMAIN recording : shift.at <= TrueInstant(j)}
  <2>4. PICK first \in DOMAIN recording, last \in DOMAIN recording :
          TrueInstant(first) < shift.at /\ shift.at <= TrueInstant(last)
    BY <1>1 DEF SpansTransition
  <2>5. After \in SUBSET Nat /\ After # {}
    BY <2>1, <2>4
  <2>6. PICK j \in After : \A k \in After : j <= k
    <3> HIDE DEF After
    <3> QED
      BY <2>5, LeastOf
  <2>7. j \in 1..Len(recording) /\ shift.at <= TrueInstant(j) /\ j # 1
    <3>1. j \in 1..Len(recording) /\ shift.at <= TrueInstant(j) /\ first \in Nat /\ 1 <= first /\ j \in Nat
      BY <2>1, <2>4, <2>6
    <3>2. ~(j <= first)
      <4>1. /\ TrueInstant(j) \in Int /\ TrueInstant(first) \in Int
            /\ j <= first => TrueInstant(j) <= TrueInstant(first)
        BY <2>3, <3>1
      <4> QED
        BY <2>1, <2>4, <3>1, <4>1
    <3> QED
      BY <3>1, <3>2
  <2>8. PICK i \in 1..Len(recording) : j = i + 1
    <3>1. j - 1 \in 1..Len(recording) /\ j = (j - 1) + 1
      BY <2>1, <2>7
    <3> QED
      BY <3>1
  <2>9. i \in Nat /\ j \in Nat /\ TrueInstant(i) < shift.at
    <3>1. i \notin After
      <4> HIDE DEF After
      <4> QED
        BY <2>5, <2>6, <2>8
    <3> QED
      <4>1. i \in Nat /\ j \in Nat /\ i \in DOMAIN recording
        BY <2>1, <2>7, <2>8
      <4>2. ~(shift.at <= TrueInstant(i)) /\ TrueInstant(i) \in Int
        BY <3>1, <4>1, <2>3
      <4> QED
        BY <2>1, <4>1, <4>2
  <2>10. LocalStamp(j) <= LocalStamp(i)
    <3>1. Moved(i) = 0 /\ Moved(j) = shift.by
      <4>1. TrueInstant(i) \in Int /\ TrueInstant(j) \in Int
        BY <2>3, <2>9
      <4>2. shift.at \in Int /\ TrueInstant(i) < shift.at /\ shift.at <= TrueInstant(j)
        BY <2>1, <2>7, <2>9
      <4>3. ~(TrueInstant(i) >= shift.at) /\ TrueInstant(j) >= shift.at
        BY <4>1, <4>2
      <4> QED
        BY <4>3 DEF Moved
    <3>2. TrueInstant(j) = TrueInstant(i) + Interval /\ Interval \in Int /\ TrueInstant(i) \in Int
      BY <2>3, <2>8, <2>9, IngestAssumption
    <3>3. /\ LocalStamp(j) = TrueInstant(i) + Interval + Offset + shift.by
          /\ LocalStamp(i) = TrueInstant(i) + Offset
      <4>1. /\ LocalStamp(i) = TrueInstant(i) + Offset + Moved(i)
            /\ LocalStamp(j) = TrueInstant(j) + Offset + Moved(j)
        BY <2>1, <2>9
      <4> QED
        BY <2>1, <3>1, <3>2, <4>1
    <3>4. shift.by \in Int /\ Offset \in Int
      BY <2>1
    <3> QED
      BY <2>2, <3>2, <3>3, <3>4
  <2>11. stamps[i] = LocalStamp(i) /\ stamps[j] = LocalStamp(j) /\ i \in DOMAIN stamps /\ j \in DOMAIN stamps
    <3>1. /\ parse = "parsed" /\ next = Len(rows) + 1 /\ rows = Exported(recording)
          /\ Len(stamps) = next - 1 /\ \A k \in DOMAIN stamps : stamps[k] = LocalStamp(k)
          /\ stamps \in Seq(Int) /\ rows \in Seq(RowType)
      BY <1>1 DEF IngestInv, PlaceInv, UneditedInv, TypesInv, TableTypeOK
    <3>2. Len(rows) = Len(recording)
      <4>1. DOMAIN rows = 1..Len(recording)
        BY <2>1, <3>1 DEF Exported
      <4> QED
        BY <2>1, <3>1, <4>1
    <3>3. Len(stamps) = Len(recording)
      BY <2>1, <3>1, <3>2
    <3>4. i \in DOMAIN stamps /\ j \in DOMAIN stamps
      BY <2>7, <2>8, <3>1, <3>3
    <3> QED
      BY <3>1, <3>4
  <2>12. \A k, l \in DOMAIN stamps : k < l => stamps[k] - Offset < stamps[l] - Offset
    <3>1. PICK dt \in SuppliedIntervals \cup {Interval} : G!Griddable(G!ToUtc(stamps, Offset), values, dt)
      BY <1>1 DEF IngestInv, SeriesInv
    <3> QED
      BY <3>1 DEF G!Griddable, G!FitsGrid, G!StrictlyIncreasing, G!ToUtc
  <2>13. stamps[i] - Offset < stamps[j] - Offset
    BY <2>8, <2>9, <2>11, <2>12
  <2>14. stamps[i] \in Int /\ stamps[j] \in Int
    BY <1>1, <2>11 DEF IngestInv, TypesInv, TableTypeOK
  <2> QED
    BY <2>1, <2>10, <2>11, <2>13, <2>14
<1>2. IngestInv => TransitionIsRefused
  BY <1>1 DEF TransitionIsRefused
<1> QED
  BY <1>2, IngestInvAlways, PTL
-----------------------------------------------------------------------------
(* The arithmetic of the gate.  Sums are recursive functions: that they    *)
(* exist, and what they add up to, is shown by the least index where it    *)
(* would fail.                                                             *)

LEMMA HoldsUpTo ==
  ASSUME NEW n \in Nat, NEW S, 0 \in S, \A i \in 1..n : i - 1 \in S => i \in S
  PROVE  \A i \in 0..n : i \in S
<1> DEFINE Outside == (0..n) \ S
<1>1. SUFFICES ASSUME Outside # {} PROVE FALSE
  OBVIOUS
<1>2. Outside \in SUBSET Nat
  OBVIOUS
<1> HIDE DEF Outside
<1>3. PICK i \in Outside : \A k \in Outside : i <= k
  BY <1>1, <1>2, LeastOf
<1> USE DEF Outside
<1>4. i \in 1..n /\ i - 1 \in 0..n
  BY <1>3
<1>5. i - 1 \notin Outside
  BY <1>3, <1>4
<1> QED
  BY <1>3, <1>4, <1>5

LEMMA PartialSumsAreDefined ==
  ASSUME NEW n \in Nat, NEW terms \in [1..n -> Int]
  PROVE  /\ C!PartialSums(terms) \in [0..n -> Int]
         /\ C!PartialSums(terms)[0] = 0
         /\ \A i \in 1..n : C!PartialSums(terms)[i] = C!PartialSums(terms)[i - 1] + terms[i]
<1> DEFINE Sums(f, m) == /\ f \in [0..m -> Int] /\ f[0] = 0
                         /\ \A i \in 1..m : f[i] = f[i - 1] + terms[i]
           Defined == {m \in 0..n : \E f : Sums(f, m)}
           P == C!PartialSums(terms)
<1>1. Len(terms) = n
  OBVIOUS
<1>2. 0 \in Defined
  <2>1. Sums([i \in 0..0 |-> 0], 0)
    OBVIOUS
  <2> HIDE DEF Sums
  <2> QED
    BY <2>1
<1>3. ASSUME NEW m \in 1..n, m - 1 \in Defined PROVE m \in Defined
  <2>1. PICK f : Sums(f, m - 1)
    BY <1>3
  <2>2. Sums([i \in 0..m |-> IF i = m THEN f[m - 1] + terms[m] ELSE f[i]], m)
    <3> DEFINE g == [i \in 0..m |-> IF i = m THEN f[m - 1] + terms[m] ELSE f[i]]
    <3>1. m - 1 \in 0..(m - 1) /\ f[m - 1] \in Int /\ terms[m] \in Int
      BY <2>1
    <3>2. g \in [0..m -> Int] /\ g[0] = 0
      BY <2>1, <3>1
    <3>3. ASSUME NEW i \in 1..m PROVE g[i] = g[i - 1] + terms[i]
      BY <2>1, <3>1
    <3> QED
      BY <3>2, <3>3
  <2> HIDE DEF Sums
  <2> QED
    BY <2>2
<1>4. \E f : Sums(f, n)
  <2> HIDE DEF Sums
  <2>1. n \in 0..n
    OBVIOUS
  <2>2. \A i \in 0..n : i \in Defined
    <3> HIDE DEF Defined
    <3> QED
      BY <1>2, <1>3, HoldsUpTo
  <2> QED
    BY <2>1, <2>2
<1>5. PICK f : Sums(f, n)
  BY <1>4
<1>6. f = [i \in 0..n |-> IF i = 0 THEN 0 ELSE f[i - 1] + terms[i]]
  BY <1>5
<1>7. P = [i \in 0..n |-> IF i = 0 THEN 0 ELSE P[i - 1] + terms[i]]
  BY <1>1, <1>6 DEF C!PartialSums
<1> HIDE DEF P
<1>8. P[0] = 0 /\ \A i \in 1..n : P[i] = P[i - 1] + terms[i]
  BY <1>7
<1>9. \A i \in 0..n : P[i] = f[i]
  <2> DEFINE Same == {i \in 0..n : P[i] = f[i]}
  <2>1. 0 \in Same
    BY <1>5, <1>8
  <2>2. ASSUME NEW i \in 1..n, i - 1 \in Same PROVE i \in Same
    BY <1>5, <1>8, <2>2
  <2> HIDE DEF Same
  <2>3. \A i \in 0..n : i \in Same
    BY <2>1, <2>2, HoldsUpTo
  <2> QED
    BY <2>3 DEF Same
<1>10. P \in [0..n -> Int]
  <2>1. \A i \in 0..n : P[i] \in Int
    BY <1>5, <1>9
  <2>2. DOMAIN P = 0..n /\ P = [i \in 0..n |-> P[i]]
    BY <1>7
  <2> QED
    BY <2>1, <2>2
<1> QED
  BY <1>8, <1>10 DEF P

(* A recording as the gate sees it: the readings among its first i samples *)
FiniteUpTo(values_, i) == {j \in C!Finite(values_) : j <= i}

LEMMA TermsAreTyped ==
  ASSUME NEW n \in Nat, NEW v \in [1..n -> Int \cup {NaN}]
  PROVE  /\ Len(v) = n /\ C!Finite(v) \subseteq 1..n
         /\ C!Addends(v) \in [1..n -> Int] /\ C!Squares(v) \in [1..n -> Int]
         /\ \A i \in 1..n : C!Squares(v)[i] = C!Addends(v)[i] * C!Addends(v)[i]
         /\ \A i \in 1..n : i \notin C!Finite(v) => C!Addends(v)[i] = 0
<1>1. C!Addends(v) \in [1..n -> Int]
  BY DEF C!Addends, C!Finite
<1>2. \A i \in 1..n : C!Addends(v)[i] * C!Addends(v)[i] \in Int
  BY <1>1
<1>3. C!Squares(v) = [i \in 1..n |-> C!Addends(v)[i] * C!Addends(v)[i]]
  BY DEF C!Squares
<1>4. C!Squares(v) \in [1..n -> Int]
  BY <1>2, <1>3
<1>5. \A i \in 1..n : i \notin C!Finite(v) => C!Addends(v)[i] = 0
  BY DEF C!Addends
<1> QED
  BY <1>1, <1>3, <1>4, <1>5 DEF C!Finite

LEMMA SquareIsNonNegative == ASSUME NEW a \in Int PROVE a * a >= 0
OBVIOUS

(* One more reading keeps n times the sum of squares above the square of   *)
(* the sum.                                                                *)
LEMMA OneMoreReading ==
  ASSUME NEW k \in Nat, NEW s \in Int, NEW q \in Int, NEW x \in Int,
         k * q >= s * s, k = 0 => s = 0 /\ q = 0
  PROVE  (k + 1) * (q + x * x) >= (s + x) * (s + x)
<1>1. CASE k = 0
  BY <1>1
<1>2. CASE k # 0
  <2> DEFINE d == q + k * (x * x) - 2 * (s * x)
  <2>1. d \in Int
    OBVIOUS
  <2>2. k * d = k * q + (k * x) * (k * x) - 2 * (s * (k * x))
    OBVIOUS
  <2>3. (s - k * x) * (s - k * x) = s * s - 2 * (s * (k * x)) + (k * x) * (k * x)
    OBVIOUS
  <2>4. (s - k * x) * (s - k * x) >= 0
    BY SquareIsNonNegative
  <2>5. k * d >= 0
    BY <2>2, <2>3, <2>4
  <2>6. d >= 0
    <3> HIDE DEF d
    <3> QED
      BY <1>2, <2>1, <2>5
  <2>7. (k + 1) * (q + x * x) = k * q + d + 2 * (s * x) + x * x
    OBVIOUS
  <2>8. (s + x) * (s + x) = s * s + 2 * (s * x) + x * x
    OBVIOUS
  <2> QED
    BY <2>6, <2>7, <2>8
<1> QED
  BY <1>1, <1>2

LEMMA SpreadIsNonNegative ==
  ASSUME NEW n \in Nat, NEW v \in [1..n -> Int \cup {NaN}]
  PROVE  /\ C!Count(v) \in Nat /\ C!Total(v) \in Int /\ C!Spread(v) \in Nat
         /\ C!Count(v) = 0 <=> C!Finite(v) = {}
<1> DEFINE S == C!PartialSums(C!Addends(v))
           Q == C!PartialSums(C!Squares(v))
           K(i) == Cardinality(FiniteUpTo(v, i))
           Low(i) == K(i) * Q[i] >= S[i] * S[i] /\ (K(i) = 0 => S[i] = 0 /\ Q[i] = 0)
           Good == {i \in 0..n : Low(i)}
<1>1. /\ Len(v) = n /\ C!Finite(v) \subseteq 1..n
      /\ C!Addends(v) \in [1..n -> Int] /\ C!Squares(v) \in [1..n -> Int]
      /\ \A i \in 1..n : C!Squares(v)[i] = C!Addends(v)[i] * C!Addends(v)[i]
      /\ \A i \in 1..n : i \notin C!Finite(v) => C!Addends(v)[i] = 0
  BY TermsAreTyped
<1>2. /\ S \in [0..n -> Int] /\ S[0] = 0
      /\ \A i \in 1..n : S[i] = S[i - 1] + C!Addends(v)[i]
  BY <1>1, PartialSumsAreDefined
<1>3. /\ Q \in [0..n -> Int] /\ Q[0] = 0
      /\ \A i \in 1..n : Q[i] = Q[i - 1] + C!Squares(v)[i]
  BY <1>1, PartialSumsAreDefined
<1> HIDE DEF S, Q
<1>4. \A i \in 0..n : IsFiniteSet(FiniteUpTo(v, i)) /\ K(i) \in Nat
  <2>1. IsFiniteSet(1..n) /\ IsFiniteSet(C!Finite(v))
    BY <1>1, FS_Interval, FS_Subset
  <2> QED
    BY <2>1, FS_Subset, FS_CardinalityType DEF FiniteUpTo
<1>5. ASSUME NEW i \in 1..n
      PROVE  K(i) = K(i - 1) + (IF i \in C!Finite(v) THEN 1 ELSE 0)
  <2>1. i - 1 \in 0..n /\ IsFiniteSet(FiniteUpTo(v, i - 1)) /\ K(i - 1) \in Nat
    BY <1>4
  <2>2. CASE i \in C!Finite(v)
    <3>1. FiniteUpTo(v, i) = FiniteUpTo(v, i - 1) \cup {i} /\ i \notin FiniteUpTo(v, i - 1)
      BY <1>1, <2>2 DEF FiniteUpTo
    <3> QED
      BY <2>1, <2>2, <3>1, FS_AddElement
  <2>3. CASE i \notin C!Finite(v)
    <3>1. ASSUME NEW j \in C!Finite(v) PROVE j <= i <=> j <= i - 1
      <4>1. j \in Int /\ j # i
        BY <1>1, <2>3
      <4> QED
        BY <4>1
    <3>2. FiniteUpTo(v, i) = FiniteUpTo(v, i - 1)
      BY <3>1 DEF FiniteUpTo
    <3> QED
      BY <2>1, <2>3, <3>2
  <2> QED
    BY <2>2, <2>3
<1>6. K(0) = 0
  <2>1. FiniteUpTo(v, 0) = {}
    BY <1>1 DEF FiniteUpTo
  <2> QED
    BY <2>1, FS_EmptySet
<1> HIDE DEF K
<1>7. ASSUME NEW i \in 1..n, i - 1 \in Good PROVE i \in Good
  <2>5. i \in 1..n /\ i - 1 \in 0..n /\ i \in 0..n
    OBVIOUS
  <2>6. /\ K(i - 1) * Q[i - 1] >= S[i - 1] * S[i - 1]
        /\ K(i - 1) = 0 => S[i - 1] = 0 /\ Q[i - 1] = 0
    BY <1>7
  <2>7. /\ S[i - 1] \in Int /\ Q[i - 1] \in Int /\ K(i - 1) \in Nat /\ C!Addends(v)[i] \in Int
        /\ S[i] = S[i - 1] + C!Addends(v)[i]
        /\ Q[i] = Q[i - 1] + C!Addends(v)[i] * C!Addends(v)[i]
    BY <1>1, <1>2, <1>3, <1>4, <2>5
  <2>8. CASE i \in C!Finite(v)
    <3>1. K(i) = K(i - 1) + 1 /\ K(i) # 0
      BY <1>5, <2>5, <2>7, <2>8
    <3>2. (K(i - 1) + 1) * (Q[i - 1] + C!Addends(v)[i] * C!Addends(v)[i])
            >= (S[i - 1] + C!Addends(v)[i]) * (S[i - 1] + C!Addends(v)[i])
      BY <2>6, <2>7, OneMoreReading
    <3> QED
      BY <2>5, <2>7, <3>1, <3>2
  <2>9. CASE i \notin C!Finite(v)
    <3>1. C!Addends(v)[i] = 0 /\ K(i) = K(i - 1)
      BY <1>1, <1>5, <2>5, <2>7, <2>9
    <3>2. S[i] = S[i - 1] /\ Q[i] = Q[i - 1]
      BY <2>7, <3>1
    <3> QED
      BY <2>5, <2>6, <3>1, <3>2
  <2> QED
    BY <2>8, <2>9
<1>8. Low(n)
  <2>1. 0 \in Good
    <3>1. K(0) * Q[0] = 0 /\ S[0] * S[0] = 0
      BY <1>2, <1>3, <1>6
    <3> QED
      BY <1>2, <1>3, <1>6, <3>1
  <2>2. \A i \in 0..n : i \in Good
    <3> HIDE DEF Good
    <3> QED
      BY <1>7, <2>1, HoldsUpTo
  <2> QED
    BY <2>2
<1>9. FiniteUpTo(v, n) = C!Finite(v)
  <2>1. \A j \in C!Finite(v) : j <= n
    BY <1>1
  <2> QED
    BY <2>1 DEF FiniteUpTo
<1>10. C!Count(v) = K(n) /\ C!Total(v) = S[n] /\ C!Sum(C!Squares(v)) = Q[n]
  <2>1. Len(C!Addends(v)) = n /\ Len(C!Squares(v)) = n
    BY <1>1
  <2>2. C!Total(v) = S[n] /\ C!Sum(C!Squares(v)) = Q[n]
    BY <2>1 DEF C!Total, C!Sum, S, Q
  <2>3. C!Count(v) = K(n)
    BY <1>9 DEF C!Count, C!Cardinality, Cardinality, K
  <2> QED
    BY <2>2, <2>3
<1>11. K(n) \in Nat /\ S[n] \in Int /\ Q[n] \in Int /\ n \in 0..n
  BY <1>2, <1>3, <1>4
<1>12. K(n) * Q[n] \in Int /\ S[n] * S[n] \in Int
  BY <1>11
<1>13. C!Spread(v) \in Nat
  BY <1>8, <1>10, <1>12 DEF C!Spread
<1>14. C!Count(v) = 0 <=> C!Finite(v) = {}
  <2>1. IsFiniteSet(C!Finite(v))
    BY <1>4, <1>9, <1>11
  <2>2. Cardinality(C!Finite(v)) = 0 <=> C!Finite(v) = {}
    BY <2>1, FS_EmptySet
  <2> QED
    BY <2>2 DEF C!Count, C!Cardinality, Cardinality
<1> QED
  BY <1>10, <1>11, <1>13, <1>14

(* Every recording with a reading has a greatest and a least one. *)
LEMMA ExtremesExist ==
  ASSUME NEW n \in Nat, NEW v \in [1..n -> Int \cup {NaN}], C!Finite(v) # {}
  PROVE  C!Max(C!Readings(v)) \in Int /\ C!Min(C!Readings(v)) \in Int
<1> DEFINE Extreme(i) == FiniteUpTo(v, i) # {} =>
                           \E a, b \in FiniteUpTo(v, i) :
                             \A j \in FiniteUpTo(v, i) : v[a] <= v[j] /\ v[j] <= v[b]
           Good == {i \in 0..n : Extreme(i)}
<1>1. C!Finite(v) \subseteq 1..n /\ \A j \in C!Finite(v) : v[j] \in Int
  BY TermsAreTyped DEF C!Finite
<1>2. ASSUME NEW i \in 1..n, i - 1 \in Good PROVE i \in Good
  <2>1. i \in 0..n /\ \A j \in FiniteUpTo(v, i) : v[j] \in Int
    BY <1>1 DEF FiniteUpTo
  <2>2. Extreme(i - 1)
    BY <1>2
  <2>3. CASE i \notin C!Finite(v)
    <3>1. \A j \in C!Finite(v) : j <= i <=> j <= i - 1
      BY <1>1, <2>3
    <3>2. FiniteUpTo(v, i) = FiniteUpTo(v, i - 1)
      BY <3>1 DEF FiniteUpTo
    <3> QED
      BY <2>1, <2>2, <3>2
  <2>4. CASE i \in C!Finite(v)
    <3>1. /\ i \in FiniteUpTo(v, i) /\ FiniteUpTo(v, i - 1) \subseteq FiniteUpTo(v, i)
          /\ \A j \in FiniteUpTo(v, i) : j \in FiniteUpTo(v, i - 1) \/ j = i
      BY <1>1, <2>4 DEF FiniteUpTo
    <3>2. CASE FiniteUpTo(v, i - 1) = {}
      <4>1. \A j \in FiniteUpTo(v, i) : v[i] <= v[j] /\ v[j] <= v[i]
        BY <2>1, <3>1, <3>2
      <4> QED
        BY <2>1, <3>1, <4>1
    <3>3. CASE FiniteUpTo(v, i - 1) # {}
      <4>1. PICK a \in FiniteUpTo(v, i - 1), b \in FiniteUpTo(v, i - 1) :
              \A j \in FiniteUpTo(v, i - 1) : v[a] <= v[j] /\ v[j] <= v[b]
        BY <2>2, <3>3
      <4>2. v[a] \in Int /\ v[b] \in Int /\ v[i] \in Int
        BY <2>1, <3>1
      <4>3. PICK low \in {a, i} : v[low] <= v[a] /\ v[low] <= v[i]
        <5>1. v[a] <= v[a] /\ v[i] <= v[i] /\ (v[a] <= v[i] \/ v[i] <= v[a])
          BY <4>2
        <5> QED
          BY <5>1
      <4>4. PICK high \in {b, i} : v[b] <= v[high] /\ v[i] <= v[high]
        <5>1. v[b] <= v[b] /\ v[i] <= v[i] /\ (v[b] <= v[i] \/ v[i] <= v[b])
          BY <4>2
        <5> QED
          BY <5>1
      <4>5. low \in FiniteUpTo(v, i) /\ high \in FiniteUpTo(v, i)
        BY <3>1
      <4>6. v[low] \in Int /\ v[high] \in Int
        BY <2>1, <4>5
      <4>7. ASSUME NEW j \in FiniteUpTo(v, i) PROVE v[low] <= v[j] /\ v[j] <= v[high]
        <5>1. CASE j = i
          BY <5>1, <4>3, <4>4
        <5>2. CASE j \in FiniteUpTo(v, i - 1)
          <6>1. v[j] \in Int /\ v[a] <= v[j] /\ v[j] <= v[b]
            BY <2>1, <4>1, <5>2
          <6> QED
            BY <4>2, <4>3, <4>4, <4>6, <6>1
        <5> QED
          BY <3>1, <5>1, <5>2
      <4> QED
        BY <2>1, <4>5, <4>7
    <3> QED
      BY <3>2, <3>3
  <2> QED
    BY <2>3, <2>4
<1>3. Extreme(n)
  <2>1. 0 \in Good
    BY <1>1 DEF FiniteUpTo
  <2>2. \A i \in 0..n : i \in Good
    <3> HIDE DEF Good
    <3> QED
      BY <1>2, <2>1, HoldsUpTo
  <2>3. n \in Good
    <3> HIDE DEF Good
    <3> QED
      BY <2>2
  <2> QED
    BY <2>3
<1>4. PICK a \in C!Finite(v), b \in C!Finite(v) :
        \A j \in C!Finite(v) : v[a] <= v[j] /\ v[j] <= v[b]
  <2>1. \A j \in C!Finite(v) : j <= n
    BY <1>1
  <2>2. FiniteUpTo(v, n) = C!Finite(v)
    BY <2>1 DEF FiniteUpTo
  <2> QED
    BY <1>3, <2>2
<1>5. /\ v[a] \in C!Readings(v) /\ v[b] \in C!Readings(v)
      /\ \A r \in C!Readings(v) : r \in Int /\ v[a] <= r /\ r <= v[b]
  BY <1>1, <1>4 DEF C!Readings
<1>6. C!Max(C!Readings(v)) \in C!Readings(v)
  BY <1>5 DEF C!Max
<1>7. C!Min(C!Readings(v)) \in C!Readings(v)
  BY <1>5 DEF C!Min
<1> QED
  BY <1>5, <1>6, <1>7

(* What the vendor rounds is within half of the last place, and nearer     *)
(* unless it is half-way.                                                  *)
LEMMA RoundedIsWithin ==
  ASSUME NEW sum \in Int, NEW n \in Nat \ {0}, ~C!Tied(C!Rounded(sum, n), sum, n), NEW tie
  PROVE  C!Within(C!Rounded(sum, n), sum, n, tie)
<1> DEFINE d == 2 * C!Place * n
           a == 2 * sum + C!Place * n
           q == a \div d
<1>1. d = 20 * n /\ a = 2 * sum + 10 * n /\ d \in Nat \ {0} /\ a \in Int
  BY DEF C!Place
<1>2. q \in Int /\ d * q <= a /\ a < d * q + d
  <2> HIDE DEF d, a
  <2> QED
    BY <1>1
<1>3. C!Rounded(sum, n) = 10 * q
  BY DEF C!Rounded, C!Place
<1> HIDE DEF q
<1>4. PICK p \in Int : p = n * q
  BY <1>2
<1>5. d * q = 20 * p /\ (10 * q) * n = 10 * p
  BY <1>1, <1>2, <1>4
<1>6. 10 * p <= sum + 5 * n /\ sum <= 10 * p + 5 * n
  BY <1>1, <1>2, <1>5
<1>7. C!Distance(sum, 10 * p) <= 5 * n /\ C!Distance(sum, 10 * p) \in Int /\ 5 * n \in Int
  BY <1>6 DEF C!Distance
<1>8. C!Distance(sum, 10 * p) # 5 * n
  BY <1>3, <1>5 DEF C!Tied, C!Tolerance, C!Place
<1> QED
  BY <1>3, <1>5, <1>7, <1>8 DEF C!Within, C!Tolerance, C!Place

LEMMA RoundedDeviationIsWithin ==
  ASSUME NEW spread \in Nat, NEW n \in Nat \ {0},
         ~C!DeviationTied(C!RoundedDeviation(spread, n), spread, n), NEW tie
  PROVE  C!DeviationWithin(C!RoundedDeviation(spread, n), spread, n, tie)
<1> DEFINE Enough == {k \in Nat : spread <= (10 * k + 5) * (10 * k + 5) * n * n}
<1>1. spread \in Enough
  <2>1. (10 * spread + 5) * (10 * spread + 5) >= spread
    <3>1. (10 * spread + 5) * (10 * spread + 5) = 100 * (spread * spread) + 100 * spread + 25
      OBVIOUS
    <3>2. spread * spread >= 0
      BY SquareIsNonNegative
    <3> QED
      BY <3>1, <3>2
  <2>2. \A x \in Nat : x * n * n >= x
    OBVIOUS
  <2>3. PICK x \in Nat : x = (10 * spread + 5) * (10 * spread + 5)
    BY <2>1
  <2>4. x * n * n >= x /\ x >= spread /\ x * n * n \in Nat
    BY <2>1, <2>2, <2>3
  <2> QED
    BY <2>3, <2>4
<1>2. PICK k \in Enough : \A j \in Enough : k <= j
  <2> HIDE DEF Enough
  <2>1. Enough \in SUBSET Nat
    BY DEF Enough
  <2> QED
    BY <1>1, <2>1, LeastOf
<1>3. k \in 0..spread /\ spread <= (10 * k + 5) * (10 * k + 5) * n * n
  BY <1>1, <1>2
<1>4. k = 0 \/ (10 * k - 5) * (10 * k - 5) * n * n <= spread
  <2>1. SUFFICES ASSUME k # 0 PROVE (10 * k - 5) * (10 * k - 5) * n * n <= spread
    OBVIOUS
  <2>2. k - 1 \in Nat /\ k - 1 \notin Enough
    BY <1>2, <1>3, <2>1
  <2>3. ~(spread <= (10 * (k - 1) + 5) * (10 * (k - 1) + 5) * n * n)
    BY <2>2
  <2>4. 10 * (k - 1) + 5 = 10 * k - 5
    BY <1>3
  <2>5. (10 * k - 5) * (10 * k - 5) * n * n \in Int
    BY <1>3
  <2> QED
    BY <2>3, <2>4, <2>5
<1>5. C!DeviationWithin(C!Place * k, spread, n, TRUE)
  <2>1. C!Place * k = 10 * k /\ C!Tolerance = 5 /\ (10 * k < 5 <=> k = 0) /\ (10 * k >= 5 <=> k # 0)
    BY <1>3 DEF C!Place, C!Tolerance
  <2>2. /\ (10 * k - 5) * (10 * k - 5) * n * n \in Int
        /\ (10 * k + 5) * (10 * k + 5) * n * n \in Int
    BY <1>3
  <2> QED
    BY <1>3, <1>4, <2>1, <2>2 DEF C!DeviationWithin, C!DeviationTied, C!SquareOf
<1>6. C!DeviationWithin(C!RoundedDeviation(spread, n), spread, n, TRUE)
  BY <1>3, <1>5 DEF C!RoundedDeviation
<1> QED
  BY <1>6 DEF C!DeviationWithin

(* The gate accepts what the vendor published of the same recording, if no *)
(* statistic is half-way.                                                  *)
LEMMA GateAcceptsItsRecording ==
  ASSUME NEW n \in Nat, NEW v \in [1..n -> Int \cup {NaN}], C!Finite(v) # {}, NEW times,
         ~C!HalfWay(C!Publish(times, v), v), NEW agreeing
  PROVE  ~C!Refuses(C!Publish(times, v), times, v, agreeing)
<1>1. C!Total(v) \in Int /\ C!Count(v) \in Nat \ {0} /\ C!Spread(v) \in Nat
  BY SpreadIsNonNegative
<1>2. C!Max(C!Readings(v)) \in Int /\ C!Min(C!Readings(v)) \in Int
  BY ExtremesExist
<1>3. /\ ~C!Tied(C!Rounded(C!Max(C!Readings(v)), 1), C!Max(C!Readings(v)), 1)
      /\ ~C!Tied(C!Rounded(C!Min(C!Readings(v)), 1), C!Min(C!Readings(v)), 1)
      /\ ~C!Tied(C!Rounded(C!Total(v), C!Count(v)), C!Total(v), C!Count(v))
      /\ ~C!DeviationTied(C!RoundedDeviation(C!Spread(v), C!Count(v)), C!Spread(v), C!Count(v))
  BY DEF C!HalfWay, C!Publish
<1>4. \A tie : C!Within(C!Rounded(C!Max(C!Readings(v)), 1), C!Max(C!Readings(v)), 1, tie)
  BY <1>2, <1>3, RoundedIsWithin
<1>5. \A tie : C!Within(C!Rounded(C!Min(C!Readings(v)), 1), C!Min(C!Readings(v)), 1, tie)
  BY <1>2, <1>3, RoundedIsWithin
<1>6. \A tie : C!Within(C!Rounded(C!Total(v), C!Count(v)), C!Total(v), C!Count(v), tie)
  BY <1>1, <1>3, RoundedIsWithin
<1>7. \A tie :
        C!DeviationWithin(C!RoundedDeviation(C!Spread(v), C!Count(v)), C!Spread(v), C!Count(v), tie)
  BY <1>1, <1>3, RoundedDeviationIsWithin
<1> QED
  BY <1>4, <1>5, <1>6, <1>7 DEF C!Refuses, C!AllReproduced, C!Publish

-----------------------------------------------------------------------------
(* A file nobody touched.  Its rows are read back as the recording, so the *)
(* gate recomputes the vendor's own sums and the grid is the logger's.     *)

UntouchedInv ==
  edits = 0 =>
    /\ statistics = (IF numbered THEN "published" ELSE "absent")
    /\ parse \notin ParseRefusals /\ stage # "unread"
    /\ Ordinary => /\ gate # "refused"
                   /\ stage \in {"inspected", "assembled", "refused"} => exit = 0
                   /\ stage = "refused" => ~numbered

LEMMA UntouchedRow ==
  ASSUME IngestInv, edits = 0, NEW i \in 1..Len(rows)
  PROVE  /\ i \in DOMAIN recording /\ recording[i] \in Int \cup {NaN}
         /\ rows[i].number = i /\ rows[i].stamp = LocalStamp(i) /\ LocalStamp(i) \in Int
         /\ rows[i].value = (IF recording[i] = NaN THEN None ELSE recording[i])
         /\ ReadsAs(rows[i].value) = recording[i] /\ ~IsBlank(rows[i])
<1>1. rows = Exported(recording) /\ rows \in Seq(RowType)
  BY DEF IngestInv, TypesInv, TableTypeOK, UneditedInv
<1>2. i \in DOMAIN rows /\ i \in DOMAIN recording
  BY <1>1 DEF Exported
<1>3. recording[i] \in Int \cup {NaN} /\ LocalStamp(i) \in Int
  BY <1>2, RecordingIsTyped DEF IngestInv
<1>4. /\ rows[i].number = i /\ rows[i].stamp = LocalStamp(i)
      /\ rows[i].value = (IF recording[i] = NaN THEN None ELSE recording[i])
  BY <1>1, <1>2 DEF Exported
<1>5. ReadsAs(rows[i].value) = recording[i]
  BY <1>3, <1>4, CellsAssumption DEF ReadsAs, NotNumbers
<1>6. ~IsBlank(rows[i])
  BY <1>3, <1>4, CellsAssumption DEF IsBlank, NotNumbers
<1> QED
  BY <1>2, <1>3, <1>4, <1>5, <1>6

LEMMA UntouchedParse ==
  ASSUME IngestInv, ParseIsAligned, edits = 0
  PROVE  /\ Len(stamps) = next - 1 /\ Len(values) = next - 1
         /\ numbered => Len(numbers) = next - 1
         /\ \A i \in 1..(next - 1) : /\ stamps[i] = LocalStamp(i) /\ values[i] = recording[i]
                                     /\ numbered => numbers[i] = i
<1>1. next \in 1..(Len(rows) + 1) /\ Len(rows) \in Nat
  BY DEF IngestInv, TypesInv, TableTypeOK
<1>2. ASSUME NEW i \in 0..(next - 1) PROVE Rank(i) = i /\ KeptUpTo(i) = 1..i
  <2>1. \A j \in 1..i : ~IsBlank(rows[j])
    BY <1>1, UntouchedRow
  <2>2. KeptUpTo(i) = 1..i
    BY <2>1 DEF KeptUpTo
  <2>3. Cardinality(1..i) = i
    BY <1>1, FS_Interval
  <2> QED
    BY <2>2, <2>3 DEF Rank
<1>3. next - 1 \in 0..(next - 1) /\ KeptUpTo(next - 1) = 1..(next - 1) /\ Rank(next - 1) = next - 1
  BY <1>1, <1>2
<1>4. ASSUME NEW i \in 1..(next - 1)
      PROVE  /\ stamps[i] = LocalStamp(i) /\ values[i] = recording[i]
             /\ numbered => numbers[i] = i
  <2>1. Rank(i) = i /\ i \in KeptUpTo(next - 1) /\ i \in 1..Len(rows)
    BY <1>1, <1>2, <1>3
  <2> QED
    BY <2>1, UntouchedRow DEF ParseIsAligned
<1> QED
  BY <1>3, <1>4 DEF ParseIsAligned

LEMMA UntouchedRowIsReadable ==
  ASSUME IngestInv, ParseIsAligned, edits = 0, AtRow
  PROVE  Readable(Row)
<1>1. /\ next \in 1..Len(rows) /\ Len(rows) \in Nat /\ numbers \in Seq(Int)
  BY DEF IngestInv, TypesInv, TableTypeOK, AtRow
<1>2. /\ Row.number = next /\ Row.stamp \in Int
      /\ Row.value \in Int \cup {None}
  BY <1>1, UntouchedRow DEF Row
<1>3. Row.value # Unreadable /\ Row.number \notin NotNumbers /\ Row.stamp \notin NotNumbers
  <2>1. NotNumbers \cap Int = {} /\ Unreadable \in NotNumbers /\ None # Unreadable
    BY CellsAssumption DEF NotNumbers
  <2>2. next \in Int
    BY <1>1
  <2> QED
    BY <1>2, <2>1, <2>2
<1>4. ASSUME numbered, numbers # << >> PROVE Row.number = numbers[Len(numbers)] + 1
  <2>1. Len(numbers) = next - 1 /\ Len(numbers) \in 1..(next - 1)
    BY <1>1, <1>4, UntouchedParse
  <2>2. numbers[Len(numbers)] = Len(numbers)
    BY <1>4, <2>1, UntouchedParse
  <2> QED
    BY <1>1, <1>2, <2>1, <2>2
<1> QED
  BY <1>3, <1>4 DEF Readable, ContinuesNumbering

LEMMA UntouchedFile ==
  ASSUME IngestInv, ParseIsAligned, edits = 0, parse = "parsed"
  PROVE  stamps = LoggedStamps /\ values = recording
<1>1. /\ next = Len(rows) + 1 /\ rows = Exported(recording) /\ rows \in Seq(RowType)
      /\ stamps \in Seq(Int) /\ values \in Seq(Int \cup {NaN, Infinite})
  BY DEF IngestInv, TypesInv, TableTypeOK, PlaceInv, UneditedInv
<1>2. recording \in Seq(Int \cup {NaN}) /\ DOMAIN rows = DOMAIN recording
  BY <1>1, RecordingIsTyped DEF IngestInv, Exported
<1>3. Len(rows) = Len(recording) /\ Len(rows) \in Nat /\ DOMAIN recording = 1..Len(rows)
  BY <1>1, <1>2
<1>4. /\ Len(stamps) = Len(rows) /\ Len(values) = Len(rows)
      /\ \A i \in 1..Len(rows) : stamps[i] = LocalStamp(i) /\ values[i] = recording[i]
  <2>1. next - 1 = Len(rows)
    BY <1>1, <1>3
  <2> QED
    BY <2>1, UntouchedParse
<1>5. stamps = [i \in 1..Len(rows) |-> LocalStamp(i)]
  <2>1. DOMAIN stamps = 1..Len(rows) /\ stamps = [i \in DOMAIN stamps |-> stamps[i]]
    BY <1>1, <1>4
  <2> QED
    BY <1>4, <2>1
<1>6. values = recording
  <2>1. /\ DOMAIN values = 1..Len(rows) /\ values = [i \in DOMAIN values |-> values[i]]
        /\ recording = [i \in DOMAIN recording |-> recording[i]]
    BY <1>1, <1>2, <1>4
  <2> QED
    BY <1>3, <1>4, <2>1
<1> QED
  BY <1>3, <1>5, <1>6 DEF LoggedStamps

(* The gate and the grid of such a file.                                   *)
LEMMA UntouchedGate ==
  ASSUME IngestInv, ParseIsAligned, edits = 0, parse = "parsed", Ordinary
  PROVE  \A agreeing : ~C!Refuses(Published, stamps, values, agreeing)
<1>1. stamps = LoggedStamps /\ values = recording
  BY UntouchedFile
<1>2. PICK n \in Nat : recording \in [1..n -> Int \cup {NaN}]
  BY RecordingIsTyped DEF IngestInv
<1>3. C!Finite(recording) # {}
  BY <1>2 DEF Ordinary, C!Finite
<1>4. ~C!HalfWay(C!Publish(LoggedStamps, recording), recording)
  BY DEF Ordinary, Published
<1> QED
  BY <1>1, <1>2, <1>3, <1>4, GateAcceptsItsRecording DEF Published

LEMMA UntouchedGrid ==
  ASSUME IngestInv, ParseIsAligned, edits = 0, parse = "parsed", Ordinary
  PROVE  G!Griddable(G!ToUtc(stamps, Offset), values, Interval)
<1> DEFINE utc == G!ToUtc(stamps, Offset)
           N == Len(recording)
<1>1. stamps = LoggedStamps /\ values = recording
  BY UntouchedFile
<1>2. /\ shift.by \in Int /\ shift.at \in Int /\ Offset \in Int
      /\ N \in Nat /\ DOMAIN recording = 1..N
      /\ \A i \in Nat : LocalStamp(i) = TrueInstant(i) + Offset + Moved(i) /\ Moved(i) \in Int
  BY StampsOfSamples
<1>3. \A i \in Nat : TrueInstant(i) \in Int
  BY SamplesAreEven
<1>4. N >= 2 /\ Interval \in Nat \ {0} /\ FirstInstant \in Int
  BY IngestAssumption DEF Ordinary, G!MinSamples
<1>5. DOMAIN utc = 1..N /\ \A i \in 1..N : utc[i] = TrueInstant(i) + Moved(i)
  <2>1. DOMAIN utc = 1..N /\ \A i \in 1..N : utc[i] = LocalStamp(i) - Offset
    BY <1>1, <1>2 DEF G!ToUtc, LoggedStamps
  <2>2. ASSUME NEW i \in 1..N PROVE LocalStamp(i) - Offset = TrueInstant(i) + Moved(i)
    <3>1. /\ i \in Nat /\ LocalStamp(i) = TrueInstant(i) + Offset + Moved(i)
          /\ TrueInstant(i) \in Int /\ Moved(i) \in Int /\ Offset \in Int
      BY <1>2, <1>3
    <3> QED
      BY <3>1
  <2> QED
    BY <2>1, <2>2
<1>6. \A i \in 1..N : Moved(i) = Moved(1)
  <2>1. SUFFICES ASSUME NEW i \in 1..N, Moved(i) # Moved(1) PROVE FALSE
    OBVIOUS
  <2>2. /\ shift.by # 0 /\ 1 \in DOMAIN recording /\ i \in DOMAIN recording
        /\ TrueInstant(i) \in Int /\ TrueInstant(1) \in Int
    BY <1>2, <1>3, <1>4, <2>1 DEF Moved
  <2>3. \/ TrueInstant(1) < shift.at /\ shift.at <= TrueInstant(i)
        \/ TrueInstant(i) < shift.at /\ shift.at <= TrueInstant(1)
    BY <1>2, <2>1, <2>2 DEF Moved
  <2> QED
    BY <2>2, <2>3 DEF Ordinary, SpansTransition
<1> HIDE DEF utc
<1>7. \A i \in 1..N : utc[i] \in Int /\ utc[i] = utc[1] + (i - 1) * Interval
  <2>1. SUFFICES ASSUME NEW i \in 1..N
                 PROVE  utc[i] \in Int /\ utc[i] = utc[1] + (i - 1) * Interval
    OBVIOUS
  <2>2. PICK p \in Int : p = (i - 1) * Interval
    BY <1>2, <1>4
  <2>3. TrueInstant(i) = FirstInstant + p /\ TrueInstant(1) = FirstInstant
    BY <2>2, SamplesAreEven DEF TrueInstant
  <2>4. utc[i] = FirstInstant + p + Moved(1) /\ utc[1] = FirstInstant + Moved(1) /\ Moved(1) \in Int
    BY <1>2, <1>4, <1>5, <1>6, <2>3
  <2> QED
    BY <1>4, <2>2, <2>4
<1>8. ASSUME NEW i \in 1..N, NEW j \in 1..N, i < j PROVE utc[i] < utc[j]
  <2>1. PICK d \in Nat \ {0} : j = i + d
    BY <1>2, <1>8
  <2>2. (j - 1) * Interval = (i - 1) * Interval + d * Interval
    BY <1>2, <1>4, <2>1
  <2>3. d * Interval > 0 /\ (i - 1) * Interval \in Int /\ d * Interval \in Int
    BY <1>2, <1>4, <2>1
  <2>4. PICK p \in Int, q \in Int : p = (i - 1) * Interval /\ q = d * Interval
    BY <2>3
  <2>5. PICK r \in Int : r = (j - 1) * Interval
    BY <2>2, <2>3
  <2>6. utc[i] = utc[1] + p /\ utc[j] = utc[1] + r /\ utc[1] \in Int
    BY <1>4, <1>7, <2>4, <2>5
  <2>7. r = p + q /\ q > 0
    BY <2>2, <2>3, <2>4, <2>5
  <2> QED
    BY <2>4, <2>5, <2>6, <2>7
<1>9. \A i \in 1..N : (utc[i] - utc[1]) % Interval = 0
  <2>1. SUFFICES ASSUME NEW i \in 1..N PROVE (utc[i] - utc[1]) % Interval = 0
    OBVIOUS
  <2>2. utc[i] - utc[1] = (i - 1) * Interval /\ i - 1 \in Nat
    <3>1. PICK p \in Int : p = (i - 1) * Interval
      BY <1>2, <1>4
    <3>2. utc[i] = utc[1] + p /\ utc[1] \in Int
      BY <1>2, <1>4, <1>7, <3>1
    <3> QED
      BY <3>1, <3>2
  <2>3. \A k \in Nat : (k * Interval) % Interval = 0
    BY <1>4
  <2> QED
    BY <2>2, <2>3
<1>10. Len(utc) = N /\ Len(values) = N
  <2>1. stamps \in Seq(Int) /\ Len(utc) = Len(stamps)
    BY UtcIsTyped DEF IngestInv, TypesInv, TableTypeOK, utc
  <2>2. DOMAIN stamps = 1..N
    BY <1>1, <1>2 DEF LoggedStamps
  <2>3. Len(stamps) = N
    BY <1>2, <2>1, <2>2
  <2> QED
    BY <1>1, <2>1, <2>3
<1>11. G!FitsGrid(utc, Interval)
  BY <1>5, <1>8, <1>9 DEF G!FitsGrid, G!StrictlyIncreasing
<1> QED
  BY <1>4, <1>10, <1>11 DEF G!Griddable, G!MinSamples, utc

(* Whether a recording is ordinary is a matter of the recording and the    *)
(* clock.                                                                  *)
LEMMA OrdinaryKept == ASSUME SameFile PROVE Ordinary' = Ordinary
<1>1. LoggedStamps' = LoggedStamps
  BY DEF SameFile, LoggedStamps, LocalStamp, TrueInstant
<1>2. Published' = Published
  BY <1>1 DEF SameFile, Published
<1>3. SpansTransition' = SpansTransition
  BY DEF SameFile, SpansTransition, TrueInstant
<1> QED
  BY <1>2, <1>3 DEF SameFile, Ordinary

LEMMA UntouchedKept ==
  ASSUME UntouchedInv, SameFile, UNCHANGED <<parse, stage, gate, exit>>
  PROVE  UntouchedInv'
<1>1. Ordinary' = Ordinary
  BY OrdinaryKept
<1> QED
  BY <1>1 DEF UntouchedInv, SameFile

LEMMA UntouchedStep ==
  ASSUME IngestInv, ParseIsAligned, UntouchedInv, [Next]_vars
  PROVE  UntouchedInv'
<1>1. ASSUME OtherHands PROVE UntouchedInv'
  <2>1. edits \in Nat /\ edits' = edits + 1
    BY <1>1 DEF OtherHands, DeleteRow, RepeatRow, SwapWithNext, BlankRow, ChangeCell, Retime,
       CutStatistics, Edit, IngestInv, TypesInv
  <2> QED
    BY <2>1 DEF UntouchedInv
<1>2. ASSUME Inspect \/ InspectStep \/ \E supplied \in SuppliedIntervals : Assemble(supplied)
      PROVE  SameFile /\ (edits = 0 => parse \notin ParseRefusals /\ statistics # "partial")
  <2>1. SameFile
    BY <1>2 DEF Inspect, StartReading, InspectStep, Reading, SkipBlankRow, ReadRow, EndOfRows,
       RefuseRow, ReadFails, Verify, Report, Assemble, tableVars, sourceVars, SameFile
  <2> QED
    BY <2>1 DEF UntouchedInv
<1>3. ASSUME SameFile PROVE Ordinary' = Ordinary
  BY <1>3, OrdinaryKept
<1>4. ASSUME Inspect PROVE UntouchedInv'
  <2>1. /\ SameFile /\ stage' = "reading" /\ parse' = "reading" /\ gate' = gate /\ exit' = exit
    BY <1>2, <1>4 DEF Inspect, StartReading
  <2> QED
    BY <1>3, <2>1 DEF UntouchedInv, SameFile, ParseRefusals
<1>5. ASSUME Reading PROVE UntouchedInv'
  <2>1. SameFile /\ UNCHANGED <<stage, gate, exit>> /\ stage = "reading"
    BY <1>2, <1>5 DEF InspectStep, Reading
  <2>2. edits = 0 => parse' \notin ParseRefusals
    <3>1. ASSUME RefuseRow PROVE edits # 0
      BY <3>1, UntouchedRowIsReadable DEF RefuseRow
    <3>2. ASSUME EndOfRows PROVE parse' \notin ParseRefusals
      BY <3>2 DEF EndOfRows, ParseRefusals
    <3>3. ASSUME SkipBlankRow \/ ReadRow PROVE parse' = parse
      BY <3>3 DEF SkipBlankRow, ReadRow
    <3> QED
      BY <1>5, <3>1, <3>2, <3>3 DEF Reading, UntouchedInv
  <2> QED
    BY <1>3, <2>1, <2>2 DEF UntouchedInv, SameFile
<1>6. ASSUME ReadFails PROVE UntouchedInv'
  <2>1. SameFile /\ edits # 0
    BY <1>2, <1>6 DEF InspectStep, ReadFails, UntouchedInv
  <2> QED
    BY <2>1 DEF UntouchedInv, SameFile
<1>7. ASSUME Verify PROVE UntouchedInv'
  <2>1. SameFile /\ stage' = "verified" /\ parse' = parse /\ parse = "parsed"
    BY <1>2, <1>7 DEF InspectStep, Verify, tableVars
  <2>2. edits = 0 /\ Ordinary => gate' # "refused"
    BY <1>7, <2>1, UntouchedGate DEF Verify
  <2> QED
    BY <1>3, <2>1, <2>2 DEF UntouchedInv, SameFile
<1>8. ASSUME Report PROVE UntouchedInv'
  <2>1. /\ SameFile /\ stage' = "inspected" /\ parse' = parse /\ gate' = gate
        /\ stage = "verified" /\ exit' = (IF Renders /\ gate # "refused" THEN 0 ELSE 1)
    BY <1>2, <1>8 DEF InspectStep, Report, tableVars
  <2>2. parse = "parsed"
    BY <2>1 DEF IngestInv, PlaceInv
  <2>3. edits = 0 /\ Ordinary => Renders
    BY <2>2, UntouchedGrid DEF Renders
  <2> QED
    BY <1>3, <2>1, <2>3 DEF UntouchedInv, SameFile
<1>9. ASSUME NEW supplied \in SuppliedIntervals, Assemble(supplied) PROVE UntouchedInv'
  <2>1. /\ SameFile /\ parse' = parse /\ gate' = gate /\ exit' = exit /\ stage = "inspected"
    BY <1>2, <1>9 DEF Assemble, tableVars
  <2>2. parse = "parsed"
    BY <2>1 DEF IngestInv, PlaceInv
  <2>3. /\ stage' \in {"assembled", "refused"}
        /\ stage' = "refused" =>
             ~G!Griddable(G!ToUtc(stamps, Offset), values, ResolvedInterval(supplied))
    BY <1>9 DEF Assemble
  <2>4. edits = 0 /\ Ordinary /\ numbered => stage' # "refused"
    BY <2>2, <2>3, UntouchedGrid DEF ResolvedInterval
  <2> QED
    BY <1>3, <2>1, <2>3, <2>4 DEF UntouchedInv, SameFile
<1>10. ASSUME UNCHANGED vars PROVE UntouchedInv'
  BY <1>10, UntouchedKept DEF vars, SameFile
<1> QED
  BY <1>1, <1>4, <1>5, <1>6, <1>7, <1>8, <1>9, <1>10 DEF Next, InspectStep

(* A file nobody touched, of a recording with two samples and one reading  *)
(* at least that spans no transition of the clock and of which no          *)
(* statistic is exactly half-way between two published values, is never    *)
(* refused, by the parser, the gate or its own grid (parse_data,           *)
(* verify_published_statistics, to_uniform_grid).  Distances from the      *)
(* published values are taken exactly; the code may refuse at a tie.       *)
THEOREM UntouchedIsAlwaysAccepted == Spec => []UntouchedIsAccepted
<1>1. Init => UntouchedInv
  BY DEF Init, NothingParsed, UntouchedInv, ParseRefusals
<1>2. Init => ParseIsAligned
  BY AlignedAtTheStart DEF Init
<1>3. IngestInv /\ ParseIsAligned /\ UntouchedInv /\ [Next]_vars => ParseIsAligned' /\ UntouchedInv'
  BY AlignedStep, UntouchedStep
<1>4. UntouchedInv => UntouchedIsAccepted
  BY DEF UntouchedInv, UntouchedIsAccepted
<1> QED
  BY <1>1, <1>2, <1>3, <1>4, IngestInvAlways, PTL DEF Spec

-----------------------------------------------------------------------------
(* The readings.  A row with a number has the reading of that sample or    *)
(* none, whatever was done to it, typed stamps included; so has what is    *)
(* read.                                                                   *)

OwnReading(number, value) ==
  number \in Int =>
    number \in DOMAIN recording /\ (value \in Int => value = recording[number])

ReadingsInv ==
  /\ \A i \in DOMAIN rows : OwnReading(rows[i].number, rows[i].value)
  /\ Len(values) = Len(stamps)
  /\ numbered => \A i \in DOMAIN values : OwnReading(numbers[i], values[i])
  /\ stage \in {"file", "reading", "verified"} <=> exit = None

LEMMA ReadingsInit == ASSUME Init PROVE ReadingsInv
<1>1. /\ rows = Exported(recording) /\ NothingParsed /\ stage = "file" /\ exit = None
      /\ \E r \in Recordings : recording = r.readings
  BY DEF Init
<1>2. recording \in Seq(Int \cup {NaN})
  BY <1>1, IngestAssumption
<1>3. \A i \in DOMAIN rows : rows[i].number = i /\ i \in DOMAIN recording
                             /\ (rows[i].value \in Int => rows[i].value = recording[i])
  BY <1>1, CellsAssumption DEF Exported, NotNumbers
<1> QED
  BY <1>1, <1>3 DEF ReadingsInv, OwnReading, NothingParsed

SameReading(row, was) ==
  row.number \in {was.number} \cup NotNumbers /\ row.value \in {was.value} \cup NotNumbers

LEMMA EditKeepsReadings ==
  ASSUME IngestInv, ReadingsInv, NEW newRows, Edit(newRows),
         \A i \in DOMAIN newRows : \E j \in DOMAIN rows : SameReading(newRows[i], rows[j])
  PROVE  ReadingsInv'
<1>1. /\ rows' = newRows /\ recording' = recording /\ values' = values /\ stamps' = stamps
      /\ numbers' = numbers /\ numbered' = numbered /\ stage' = stage /\ exit' = exit
  BY DEF Edit, parseVars
<1>2. \A i \in DOMAIN newRows : OwnReading(newRows[i].number, newRows[i].value)
  <2>1. SUFFICES ASSUME NEW i \in DOMAIN newRows
                 PROVE  OwnReading(newRows[i].number, newRows[i].value)
    OBVIOUS
  <2>2. PICK j \in DOMAIN rows : SameReading(newRows[i], rows[j])
    OBVIOUS
  <2>3. OwnReading(rows[j].number, rows[j].value)
    BY DEF ReadingsInv
  <2> QED
    BY <2>2, <2>3, CellsAssumption DEF SameReading, OwnReading
<1> QED
  BY <1>1, <1>2 DEF ReadingsInv, OwnReading

LEMMA OtherHandsKeepReadings == ASSUME IngestInv, ReadingsInv, OtherHands PROVE ReadingsInv'
<1>1. /\ rows \in Seq(RowType) /\ Len(rows) \in Nat /\ DOMAIN rows = 1..Len(rows)
      /\ \A i \in DOMAIN rows : rows[i] \in RowType
      /\ \A row : SameReading(row, row)
  BY DEF IngestInv, TypesInv, TableTypeOK, SameReading
<1>2. ASSUME NEW i \in DOMAIN rows, DeleteRow(i) PROVE ReadingsInv'
  <2> DEFINE newRows == [j \in 1..(Len(rows) - 1) |-> IF j < i THEN rows[j] ELSE rows[j + 1]]
  <2>1. \A k \in DOMAIN newRows : \E j \in DOMAIN rows : newRows[k] = rows[j]
    <3>1. \A k \in 1..(Len(rows) - 1) : k \in DOMAIN rows /\ k + 1 \in DOMAIN rows
      BY <1>1
    <3> QED
      BY <3>1
  <2>2. Edit(newRows)
    BY <1>2 DEF DeleteRow
  <2> HIDE DEF newRows
  <2> QED
    BY <1>1, <2>1, <2>2, EditKeepsReadings
<1>3. ASSUME NEW i \in DOMAIN rows, RepeatRow(i) PROVE ReadingsInv'
  <2> DEFINE newRows == [j \in 1..(Len(rows) + 1) |-> IF j <= i THEN rows[j] ELSE rows[j - 1]]
  <2>1. \A k \in DOMAIN newRows : \E j \in DOMAIN rows : newRows[k] = rows[j]
    <3>1. i \in 1..Len(rows)
          /\ \A k \in 1..(Len(rows) + 1) : IF k <= i THEN k \in DOMAIN rows ELSE k - 1 \in DOMAIN rows
      BY <1>1
    <3> QED
      BY <3>1
  <2>2. Edit(newRows)
    BY <1>3 DEF RepeatRow
  <2> HIDE DEF newRows
  <2> QED
    BY <1>1, <2>1, <2>2, EditKeepsReadings
<1>4. ASSUME NEW i \in DOMAIN rows, SwapWithNext(i) PROVE ReadingsInv'
  <2> DEFINE newRows == [rows EXCEPT ![i] = rows[i + 1], ![i + 1] = rows[i]]
  <2>1. \A k \in DOMAIN newRows : \E j \in DOMAIN rows : newRows[k] = rows[j]
    <3>1. i + 1 \in DOMAIN rows
      BY <1>1, <1>4 DEF SwapWithNext
    <3> QED
      BY <1>1, <3>1
  <2>2. Edit(newRows)
    BY <1>4 DEF SwapWithNext
  <2> HIDE DEF newRows
  <2> QED
    BY <1>1, <2>1, <2>2, EditKeepsReadings
<1>5. ASSUME NEW i \in DOMAIN rows, NEW row, Edit([rows EXCEPT ![i] = row]), SameReading(row, rows[i])
      PROVE  ReadingsInv'
  <2> DEFINE newRows == [rows EXCEPT ![i] = row]
  <2>1. \A k \in DOMAIN newRows : k \in DOMAIN rows /\ (newRows[k] = rows[k] \/ (k = i /\ newRows[k] = row))
    BY <1>1
  <2>2. Edit(newRows)
    BY <1>5
  <2> HIDE DEF newRows
  <2>3. \A k \in DOMAIN newRows : \E j \in DOMAIN rows : SameReading(newRows[k], rows[j])
    BY <1>1, <1>5, <2>1
  <2> QED
    BY <2>2, <2>3, EditKeepsReadings
<1>6. ASSUME NEW i \in DOMAIN rows, BlankRow(i) PROVE ReadingsInv'
  <2>1. SameReading([number |-> None, stamp |-> None, value |-> None], rows[i])
    BY DEF SameReading, NotNumbers
  <2> QED
    BY <1>5, <1>6, <2>1 DEF BlankRow
<1>7. ASSUME NEW i \in DOMAIN rows, NEW column \in {"number", "stamp", "value"}, NEW cell \in NotNumbers,
             ChangeCell(i, column, cell)
      PROVE  ReadingsInv'
  <2>1. SameReading([rows[i] EXCEPT ![column] = cell], rows[i])
    BY <1>1 DEF SameReading, RowType
  <2> QED
    BY <1>5, <1>7, <2>1 DEF ChangeCell
<1>8. ASSUME NEW i \in DOMAIN rows, NEW stamp \in EditedStamps, Retime(i, stamp) PROVE ReadingsInv'
  <2>1. SameReading([rows[i] EXCEPT !.stamp = stamp], rows[i])
    BY <1>1 DEF SameReading, RowType
  <2> QED
    BY <1>5, <1>8, <2>1 DEF Retime
<1>9. ASSUME NEW left \in {"partial", "absent"}, CutStatistics(left) PROVE ReadingsInv'
  BY <1>1, <1>9, EditKeepsReadings DEF CutStatistics
<1> QED
  BY <1>2, <1>3, <1>4, <1>6, <1>7, <1>8, <1>9 DEF OtherHands, NotNumbers

LEMMA ReadRowKeepsReadings ==
  ASSUME IngestInv, ReadingsInv, ReadRow, UNCHANGED <<sourceVars, stage, gate, exit, series>>
  PROVE  ReadingsInv'
<1>1. /\ rows' = rows /\ recording' = recording /\ numbered' = numbered /\ AtRow
      /\ stage' = stage /\ exit' = exit
      /\ stamps' = Append(stamps, Row.stamp) /\ values' = Append(values, ReadsAs(Row.value))
      /\ numbers' = IF numbered THEN Append(numbers, Row.number) ELSE numbers
  BY DEF ReadRow, sourceVars
<1>2. /\ numbers \in Seq(Int) /\ stamps \in Seq(Int) /\ values \in Seq(Int \cup {NaN, Infinite})
      /\ Len(values) = Len(stamps)
      /\ numbered => Len(numbers) = Len(stamps)
  BY DEF IngestInv, TypesInv, TableTypeOK, ReadInv, ReadingsInv
<1>3. /\ Row.stamp \in Int /\ ReadsAs(Row.value) \in Int \cup {NaN, Infinite}
      /\ numbered => Row.number \in Int
  BY RowRead DEF ReadRow, AtRow, RowType, Cells, NotNumbers, Readable, ReadsAs
<1>4. /\ Len(values') = Len(values) + 1 /\ DOMAIN values' = 1..(Len(values) + 1) /\ Len(values) \in Nat
      /\ \A i \in 1..Len(values) : values'[i] = values[i] /\ i \in DOMAIN values
      /\ values'[Len(values) + 1] = ReadsAs(Row.value)
  <2> DEFINE V == Int \cup {NaN, Infinite}
             v == ReadsAs(Row.value)
  <2>1. values \in Seq(V) /\ v \in V /\ values' = Append(values, v)
    BY <1>1, <1>2, <1>3
  <2> HIDE DEF V, v
  <2>2. /\ Len(values') = Len(values) + 1 /\ Len(values) \in Nat /\ values' \in Seq(V)
        /\ \A i \in 1..Len(values) : values'[i] = values[i] /\ i \in DOMAIN values
        /\ values'[Len(values) + 1] = v
    BY <2>1, AppendProperties, LenProperties
  <2> QED
    BY <2>2 DEF v
<1>5. Len(stamps') = Len(stamps) + 1
  BY <1>1, <1>2, <1>3
<1>6. ASSUME numbered, NEW i \in DOMAIN values' PROVE OwnReading(numbers'[i], values'[i])
  <2>1. /\ numbers' = Append(numbers, Row.number) /\ Len(numbers) = Len(values)
        /\ Row.number \in Int /\ i \in 1..(Len(values) + 1)
    <3>1. numbers' = Append(numbers, Row.number)
      BY <1>1, <1>6
    <3>2. Len(numbers) = Len(values) /\ Row.number \in Int
      BY <1>2, <1>3, <1>6
    <3>3. i \in 1..(Len(values) + 1)
      BY <1>4
    <3> QED
      BY <3>1, <3>2, <3>3
  <2>2. /\ numbers'[Len(values) + 1] = Row.number
        /\ \A k \in 1..Len(values) : numbers'[k] = numbers[k]
    BY <1>2, <2>1
  <2>3. CASE i \in 1..Len(values)
    BY <1>4, <1>6, <2>2, <2>3 DEF ReadingsInv
  <2>4. CASE i = Len(values) + 1
    <3>1. OwnReading(Row.number, Row.value)
      BY <1>1, RowRead DEF ReadingsInv, Row
    <3>2. numbers'[i] = Row.number /\ values'[i] = ReadsAs(Row.value)
      BY <1>4, <2>2, <2>4
    <3> QED
      BY <3>1, <3>2, CellsAssumption DEF OwnReading, ReadsAs
  <2> QED
    BY <1>4, <2>1, <2>3, <2>4
<1> QED
  BY <1>1, <1>2, <1>4, <1>5, <1>6 DEF ReadingsInv, OwnReading

LEMMA ReadingsStep == IngestInv /\ ReadingsInv /\ [Next]_vars => ReadingsInv'
<1> SUFFICES ASSUME IngestInv, ReadingsInv, [Next]_vars PROVE ReadingsInv'
  OBVIOUS
<1>1. ASSUME UNCHANGED <<numbered, rows, numbers, stamps, values, recording>>,
             stage' \in {"file", "reading", "verified"} <=> exit' = None
      PROVE  ReadingsInv'
  BY <1>1 DEF ReadingsInv, OwnReading
<1>2. CASE OtherHands
  BY <1>2, OtherHandsKeepReadings
<1>3. CASE Inspect
  BY <1>1, <1>3 DEF Inspect, StartReading, sourceVars, ReadingsInv
<1>4. CASE Reading
  BY <1>1, <1>4, ReadRowKeepsReadings
     DEF Reading, SkipBlankRow, EndOfRows, RefuseRow, sourceVars, ReadingsInv
<1>5. None # 0 /\ None # 1
  BY CellsAssumption DEF NotNumbers
<1>6. CASE ReadFails
  BY <1>1, <1>5, <1>6 DEF ReadFails, tableVars, sourceVars, ReadingsInv
<1>7. CASE Verify
  BY <1>1, <1>7 DEF Verify, tableVars, sourceVars, ReadingsInv
<1>8. CASE Report
  BY <1>1, <1>5, <1>8 DEF Report, tableVars, sourceVars, ReadingsInv
<1>9. CASE \E supplied \in SuppliedIntervals : Assemble(supplied)
  BY <1>1, <1>9 DEF Assemble, tableVars, sourceVars, ReadingsInv
<1>10. CASE UNCHANGED vars
  BY <1>1, <1>10 DEF vars, ReadingsInv
<1> QED
  BY <1>2, <1>3, <1>4, <1>6, <1>7, <1>8, <1>9, <1>10 DEF Next, InspectStep

-----------------------------------------------------------------------------
(* The instants.  Stamps of consecutive samples that fit the grid are all  *)
(* from one side of a transition, so the points of the grid are the        *)
(* samples' instants, moved as a whole.                                    *)

LEMMA ExactQuotient == ASSUME NEW k \in Nat, NEW d \in Nat \ {0} PROVE (k * d) \div d = k
<1> DEFINE a == k * d
           q == a \div d
<1>1. a \in Int /\ a % d = 0
  OBVIOUS
<1>2. q \in Int /\ k * d = d * q
  BY <1>1, Multiple
<1> HIDE DEF a, q
<1>3. CASE k < q
  <2>1. d * (k + 1) <= d * q /\ d * (k + 1) = k * d + d
    BY <1>2, <1>3
  <2> QED
    BY <1>2, <2>1
<1>4. CASE q < k
  <2>1. d * (q + 1) <= d * k /\ d * (q + 1) = d * q + d /\ d * k = k * d
    BY <1>2, <1>4
  <2> QED
    BY <1>2, <2>1
<1> QED
  BY <1>2, <1>3, <1>4 DEF q, a

LEMMA FullGridPoints ==
  ASSUME NEW dt \in Nat \ {0}, NEW index \in Seq(Int), index # << >>,
         \A i \in DOMAIN index : index[i] = index[1] + (i - 1) * dt
  PROVE  G!GridPoints(index, dt) = {index[i] : i \in DOMAIN index}
<1> DEFINE n == Len(index)
<1>1. n \in Nat \ {0} /\ DOMAIN index = 1..n /\ index[1] \in Int
  OBVIOUS
<1>2. PICK p \in Int : p = (n - 1) * dt /\ index[n] = index[1] + p
  <2>1. (n - 1) * dt \in Int /\ n \in DOMAIN index
    BY <1>1, OneMore
  <2> QED
    BY <2>1
<1>3. (index[n] - index[1]) \div dt = n - 1
  <2>1. index[n] - index[1] = (n - 1) * dt
    BY <1>1, <1>2
  <2> QED
    BY <1>1, <2>1, ExactQuotient
<1>4. G!GridPoints(index, dt) = {index[1] + k * dt : k \in 0..(n - 1)}
  BY <1>3 DEF G!GridPoints
<1>5. ASSUME NEW k \in 0..(n - 1) PROVE \E i \in DOMAIN index : index[1] + k * dt = index[i]
  <2>1. k + 1 \in DOMAIN index /\ (k + 1) - 1 = k
    BY <1>1
  <2>2. index[k + 1] = index[1] + ((k + 1) - 1) * dt
    BY <2>1
  <2> QED
    BY <2>1, <2>2
<1>6. ASSUME NEW i \in DOMAIN index PROVE \E k \in 0..(n - 1) : index[1] + k * dt = index[i]
  <2>1. i - 1 \in 0..(n - 1)
    BY <1>1
  <2> QED
    BY <2>1
<1> HIDE DEF n
<1> QED
  BY <1>4, <1>5, <1>6

LEMMA SamplesAreDistinct ==
  \A i, j \in Nat : (TrueInstant(i) <= TrueInstant(j) => i <= j)
                    /\ (TrueInstant(i) = TrueInstant(j) => i = j)
<1>1. ASSUME NEW i \in Nat, NEW j \in Nat, TrueInstant(i) <= TrueInstant(j) PROVE i <= j
  <2>1. SUFFICES ASSUME j + 1 <= i PROVE FALSE
    OBVIOUS
  <2>2. /\ TrueInstant(j + 1) = TrueInstant(j) + Interval /\ TrueInstant(j + 1) <= TrueInstant(i)
        /\ TrueInstant(j) \in Int /\ TrueInstant(i) \in Int
    BY <2>1, SamplesAreEven
  <2> QED
    BY <1>1, <2>2, IngestAssumption
<1>2. ASSUME NEW i \in Nat, NEW j \in Nat, TrueInstant(i) = TrueInstant(j) PROVE i = j
  <2>1. TrueInstant(i) \in Int /\ TrueInstant(j) \in Int
    BY SamplesAreEven
  <2>2. i <= j /\ j <= i
    BY <1>1, <1>2, <2>1
  <2> QED
    BY <2>2
<1> QED
  BY <1>1, <1>2

(* The samples that were read, without and with their clock.               *)
Sample(i) == numbers[1] + i - 1

OwnStamps ==
  \A i \in DOMAIN stamps : numbers[i] \in DOMAIN recording /\ stamps[i] = LocalStamp(numbers[i])

LEMMA SamplesRead ==
  ASSUME IngestInv, numbered, OwnStamps, Len(stamps) >= 1
  PROVE  /\ DOMAIN stamps = 1..Len(stamps) /\ Len(stamps) \in Nat
         /\ numbers[1] \in Nat \ {0}
         /\ \A i \in 1..Len(stamps) : /\ Sample(i) \in DOMAIN recording /\ Sample(i) \in Nat
                                      /\ numbers[i] = Sample(i) /\ stamps[i] = LocalStamp(Sample(i))
<1>1. /\ numbers \in Seq(Int) /\ stamps \in Seq(Int) /\ Len(numbers) = Len(stamps)
      /\ \A i \in DOMAIN numbers : numbers[i] = numbers[1] + (i - 1)
      /\ DOMAIN recording = 1..Len(recording) /\ Len(recording) \in Nat
  BY StampsOfSamples DEF IngestInv, TypesInv, TableTypeOK, ReadInv
<1>2. DOMAIN stamps = 1..Len(stamps) /\ DOMAIN numbers = 1..Len(stamps) /\ Len(stamps) \in Nat
  BY <1>1
<1>3. 1 \in DOMAIN stamps /\ numbers[1] \in DOMAIN recording
  BY <1>2 DEF OwnStamps
<1>4. ASSUME NEW i \in 1..Len(stamps)
      PROVE  /\ Sample(i) \in DOMAIN recording /\ Sample(i) \in Nat
             /\ numbers[i] = Sample(i) /\ stamps[i] = LocalStamp(Sample(i))
  <2>1. numbers[i] = Sample(i)
    BY <1>1, <1>2, <1>3 DEF Sample
  <2>2. numbers[i] \in DOMAIN recording /\ stamps[i] = LocalStamp(numbers[i])
    BY <1>2 DEF OwnStamps
  <2>3. numbers[i] \in Nat
    BY <1>1, <2>2
  <2> QED
    BY <2>1, <2>2, <2>3
<1> QED
  BY <1>1, <1>2, <1>3, <1>4

LEMMA Distributes ==
  ASSUME NEW a \in Int, NEW b \in Int, NEW d \in Int
  PROVE  (a + b) * d = a * d + b * d /\ a * d \in Int /\ b * d \in Int
OBVIOUS

LEMMA ClockStandsStill ==
  ASSUME IngestInv, numbered, OwnStamps, shift.by <= 0,
         G!Griddable(G!ToUtc(stamps, Offset), values, Interval)
  PROVE  /\ G!GridPoints(G!ToUtc(stamps, Offset), Interval) =
              {G!ToUtc(stamps, Offset)[i] : i \in 1..Len(stamps)}
         /\ \A i \in 1..Len(stamps) :
              G!ToUtc(stamps, Offset)[i] = TrueInstant(Sample(i)) + Moved(numbers[1])
<1> DEFINE utc == G!ToUtc(stamps, Offset)
           N == Len(stamps)
<1>1. /\ utc \in Seq(Int) /\ Len(utc) = N /\ G!FitsGrid(utc, Interval) /\ N >= 2
      /\ Interval \in Nat \ {0}
  BY UtcIsTyped, IngestAssumption DEF G!Griddable, G!MinSamples
<1>2. /\ stamps \in Seq(Int) /\ N \in Nat /\ DOMAIN stamps = 1..N /\ N >= 1
      /\ \A i \in 1..N : stamps[i] \in Int /\ utc[i] = stamps[i] - Offset
  BY <1>1 DEF IngestInv, TypesInv, TableTypeOK, G!ToUtc
<1>3. /\ numbers[1] \in Nat \ {0}
      /\ \A i \in 1..N : Sample(i) \in Nat /\ stamps[i] = LocalStamp(Sample(i))
  BY <1>2, SamplesRead
<1>4. /\ shift.by \in Int /\ shift.at \in Int /\ Offset \in Int
      /\ \A i \in Nat : LocalStamp(i) = TrueInstant(i) + Offset + Moved(i) /\ Moved(i) \in Int
      /\ \A i \in Nat : TrueInstant(i) \in Int
      /\ \A i, j \in Nat : i <= j => TrueInstant(i) <= TrueInstant(j)
  BY StampsOfSamples, SamplesAreEven
<1> HIDE DEF utc, N
<1>5. ASSUME NEW i \in 1..N PROVE utc[i] = TrueInstant(Sample(i)) + Moved(Sample(i))
  <2>1. /\ Sample(i) \in Nat /\ stamps[i] = LocalStamp(Sample(i)) /\ utc[i] = stamps[i] - Offset
    BY <1>2, <1>3
  <2>2. /\ LocalStamp(Sample(i)) = TrueInstant(Sample(i)) + Offset + Moved(Sample(i))
        /\ TrueInstant(Sample(i)) \in Int /\ Moved(Sample(i)) \in Int
    BY <1>4, <2>1
  <2> QED
    BY <1>4, <2>1, <2>2
<1>6. ASSUME NEW i \in 1..N
      PROVE  \E p \in Int : p = (i - 1) * Interval
                            /\ TrueInstant(Sample(i)) = TrueInstant(numbers[1]) + p
  <2>1. (i - 1) + (numbers[1] - 1) = Sample(i) - 1 /\ i - 1 \in Int /\ numbers[1] - 1 \in Int
    BY <1>2, <1>3 DEF Sample
  <2> DEFINE a == i - 1
             b == numbers[1] - 1
             p == a * Interval
             q == b * Interval
  <2>2. p \in Int /\ q \in Int /\ (Sample(i) - 1) * Interval = p + q
    <3>1. a \in Int /\ b \in Int /\ Sample(i) - 1 = a + b /\ Interval \in Int
      BY <1>1, <2>1
    <3> HIDE DEF a, b
    <3>2. (a + b) * Interval = a * Interval + b * Interval /\ a * Interval \in Int /\ b * Interval \in Int
      BY <3>1, Distributes
    <3> QED
      BY <3>1, <3>2
  <2>3. TrueInstant(numbers[1]) = FirstInstant + q /\ TrueInstant(Sample(i)) = FirstInstant + (p + q)
    BY <2>2 DEF TrueInstant
  <2> QED
    <3>1. p = (i - 1) * Interval
      OBVIOUS
    <3> HIDE DEF p, q
    <3> QED
      BY <2>2, <2>3, <3>1, IngestAssumption
<1>7. 1 \in 1..N /\ N \in 1..N /\ Sample(1) = numbers[1] /\ numbers[1] <= Sample(N)
  BY <1>1, <1>2, <1>3 DEF Sample
<1>8. Moved(Sample(N)) <= Moved(numbers[1])
  <2>1. Sample(N) \in Nat /\ numbers[1] \in Nat
    BY <1>3, <1>7
  <2>2. /\ TrueInstant(numbers[1]) <= TrueInstant(Sample(N))
        /\ TrueInstant(numbers[1]) \in Int /\ TrueInstant(Sample(N)) \in Int
    BY <1>4, <1>7, <2>1
  <2> QED
    BY <1>4, <2>2 DEF Moved
<1>9. utc[Len(utc)] <= utc[1] + (Len(utc) - 1) * Interval
  <2>1. PICK p \in Int : p = (N - 1) * Interval /\ TrueInstant(Sample(N)) = TrueInstant(numbers[1]) + p
    BY <1>6, <1>7
  <2>2. /\ utc[N] = TrueInstant(Sample(N)) + Moved(Sample(N))
        /\ utc[1] = TrueInstant(numbers[1]) + Moved(numbers[1])
    BY <1>5, <1>7
  <2>3. /\ TrueInstant(numbers[1]) \in Int /\ Moved(numbers[1]) \in Int /\ Moved(Sample(N)) \in Int
    BY <1>3, <1>4, <1>7
  <2>4. utc[N] <= utc[1] + p
    BY <1>8, <2>1, <2>2, <2>3
  <2> QED
    BY <1>1, <2>1, <2>4
<1>10. DOMAIN utc = 1..N /\ utc # << >>
  BY <1>1, <1>2
<1>11. \A i \in DOMAIN utc : utc[i] = utc[1] + (i - 1) * Interval
  BY <1>1, <1>9, <1>10, FullGrid
<1>12. ASSUME NEW i \in 1..N PROVE utc[i] = TrueInstant(Sample(i)) + Moved(numbers[1])
  <2>1. PICK p \in Int : p = (i - 1) * Interval /\ TrueInstant(Sample(i)) = TrueInstant(numbers[1]) + p
    BY <1>6
  <2>2. utc[i] = utc[1] + p
    BY <1>10, <1>11, <2>1
  <2>3. utc[1] = TrueInstant(numbers[1]) + Moved(numbers[1])
    BY <1>5, <1>7
  <2>4. TrueInstant(numbers[1]) \in Int /\ Moved(numbers[1]) \in Int
    BY <1>3, <1>4
  <2> QED
    BY <2>1, <2>2, <2>3, <2>4
<1>13. G!GridPoints(utc, Interval) = {utc[i] : i \in 1..N}
  BY <1>1, <1>10, <1>11, FullGridPoints
<1> QED
  BY <1>12, <1>13 DEF utc, N

(* What is assembled of them.                                              *)
LEMMA AssembledIsFaithful ==
  ASSUME IngestInv, ReadingsInv, numbered, OwnStamps, shift.by <= 0,
         G!Griddable(G!ToUtc(stamps, Offset), values, Interval),
         NEW delivered, delivered = G!UniformGrid(G!ToUtc(stamps, Offset), values, Interval)
  PROVE  /\ DOMAIN delivered =
              {TrueInstant(Sample(i)) + Moved(numbers[1]) : i \in 1..Len(stamps)}
         /\ CU!Faithful(delivered, Moved(numbers[1]))
<1> DEFINE utc == G!ToUtc(stamps, Offset)
           N == Len(stamps)
           by == Moved(numbers[1])
<1>1. utc \in Seq(Int) /\ Len(utc) = N /\ N \in Nat /\ N >= 2 /\ Interval \in Int
  BY UtcIsTyped, IngestAssumption DEF G!Griddable, G!MinSamples
<1>2. /\ DOMAIN stamps = 1..N /\ numbers[1] \in Nat \ {0}
      /\ \A i \in 1..N : /\ Sample(i) \in DOMAIN recording /\ Sample(i) \in Nat
                         /\ numbers[i] = Sample(i)
  BY <1>1, SamplesRead
<1>3. /\ G!GridPoints(utc, Interval) = {utc[i] : i \in 1..N}
      /\ \A i \in 1..N : utc[i] = TrueInstant(Sample(i)) + by
  BY ClockStandsStill
<1>4. DOMAIN utc = 1..N
  BY <1>1
<1>5. DOMAIN delivered = G!GridPoints(utc, Interval)
  BY DEF G!UniformGrid
<1>6. \A i \in 1..N : delivered[utc[i]] = values[i]
  BY <1>1, <1>4, GridIsFaithful
<1>7. by \in Int /\ \A i \in Nat : TrueInstant(i) \in Int
  BY <1>2, StampsOfSamples, SamplesAreEven
<1>8. values \in Seq(Int \cup {NaN, Infinite}) /\ Len(values) = N
  BY DEF IngestInv, TypesInv, TableTypeOK, ReadingsInv
<1>9. DOMAIN values = 1..N /\ \A i \in 1..N : values[i] \in Int \cup {NaN, Infinite}
  BY <1>1, <1>8
<1> HIDE DEF utc, N, by
<1>10. ASSUME NEW i \in 1..N
       PROVE  /\ TrueInstant(Sample(i)) \in DOMAIN Taken
              /\ values[i] \in {Taken[TrueInstant(Sample(i))]} \cup {NaN, Infinite}
  <2>1. Sample(i) \in DOMAIN recording /\ Sample(i) \in Nat
    BY <1>2
  <2>2. DOMAIN recording \subseteq Nat
    BY StampsOfSamples
  <2>3. (CHOOSE j \in DOMAIN recording : TrueInstant(j) = TrueInstant(Sample(i))) = Sample(i)
    BY <2>1, <2>2, SamplesAreDistinct
  <2>4. /\ TrueInstant(Sample(i)) \in DOMAIN Taken
        /\ Taken[TrueInstant(Sample(i))] = recording[Sample(i)]
    BY <2>1, <2>3 DEF Taken
  <2>5. OwnReading(Sample(i), values[i])
    BY <1>2, <1>9 DEF ReadingsInv
  <2> QED
    BY <1>9, <2>1, <2>4, <2>5 DEF OwnReading
<1>11. ASSUME NEW t \in DOMAIN delivered
       PROVE  t - by \in DOMAIN Taken /\ delivered[t] \in {Taken[t - by]} \cup {NaN, Infinite}
  <2>1. PICK i \in 1..N : t = utc[i]
    BY <1>3, <1>5
  <2>2. t - by = TrueInstant(Sample(i))
    <3>1. t = TrueInstant(Sample(i)) + by /\ TrueInstant(Sample(i)) \in Int
      BY <1>2, <1>3, <1>7, <2>1
    <3> QED
      BY <1>7, <3>1
  <2>3. delivered[t] = values[i]
    BY <1>6, <2>1
  <2> QED
    BY <1>10, <2>2, <2>3
<1>12. DOMAIN delivered = {TrueInstant(Sample(i)) + by : i \in 1..N}
  BY <1>3, <1>5
<1> QED
  BY <1>11, <1>12 DEF CU!Faithful, N, by

LEMMA AssembledIsStretch ==
  ASSUME IngestInv, ReadingsInv, numbered, OwnStamps, shift.by <= 0,
         G!Griddable(G!ToUtc(stamps, Offset), values, Interval),
         NEW delivered, delivered = G!UniformGrid(G!ToUtc(stamps, Offset), values, Interval)
  PROVE  CU!IsStretch(delivered)
<1> DEFINE by == Moved(numbers[1])
           N == Len(stamps)
<1>1. /\ DOMAIN delivered = {TrueInstant(Sample(i)) + by : i \in 1..N}
      /\ CU!Faithful(delivered, by)
  BY AssembledIsFaithful
<1>2. by \in ClockMoves
  <2>1. [readings |-> recording, shift |-> shift] \in Recordings
    BY DEF IngestInv, TypesInv
  <2>2. shift.by \in {r.shift.by : r \in Recordings}
    BY <2>1
  <2> QED
    BY <2>2 DEF ClockMoves, Moved
<1>3. N \in Nat /\ N >= 2
  BY UtcIsTyped DEF IngestInv, TypesInv, TableTypeOK, G!Griddable, G!MinSamples
<1>4. /\ numbers[1] \in Nat \ {0}
      /\ \A i \in 1..N : Sample(i) \in Nat
  BY <1>3, SamplesRead
<1>5. by \in Int /\ \A i \in Nat : TrueInstant(i) \in Int
  BY <1>4, StampsOfSamples, SamplesAreEven
<1> HIDE DEF by, N
<1>6. ASSUME NEW a \in DOMAIN delivered, NEW b \in DOMAIN delivered, NEW t \in DOMAIN Taken,
             a <= t + by, t + by <= b
      PROVE  t + by \in DOMAIN delivered
  <2>1. PICK i \in 1..N, k \in 1..N :
          a = TrueInstant(Sample(i)) + by /\ b = TrueInstant(Sample(k)) + by
    BY <1>1
  <2>2. PICK j \in DOMAIN recording : t = TrueInstant(j)
    BY DEF Taken
  <2>3. j \in Nat /\ Sample(i) \in Nat /\ Sample(k) \in Nat
    BY <1>4, <2>2, StampsOfSamples
  <2>4. TrueInstant(Sample(i)) <= TrueInstant(j) /\ TrueInstant(j) <= TrueInstant(Sample(k))
    BY <1>5, <1>6, <2>1, <2>2, <2>3
  <2>5. Sample(i) <= j /\ j <= Sample(k)
    BY <2>3, <2>4, SamplesAreDistinct
  <2>6. j - numbers[1] + 1 \in 1..N /\ Sample(j - numbers[1] + 1) = j
    BY <1>3, <1>4, <2>3, <2>5 DEF Sample
  <2> QED
    BY <1>1, <2>2, <2>6
<1> QED
  BY <1>1, <1>2, <1>6 DEF CU!IsStretch

LEMMA AssembledIsWhole ==
  ASSUME IngestInv, ReadingsInv, numbered, stamps = LoggedStamps,
         shift.by = 0 \/ (shift.by < 0 /\ FirstInstant < shift.at),
         G!Griddable(G!ToUtc(stamps, Offset), values, Interval),
         NEW delivered, delivered = G!UniformGrid(G!ToUtc(stamps, Offset), values, Interval)
  PROVE  CU!IsWhole(delivered)
<1> DEFINE N == Len(stamps)
<1>1. N \in Nat /\ N >= 2 /\ DOMAIN stamps = 1..N
  BY UtcIsTyped DEF IngestInv, TypesInv, TableTypeOK, G!Griddable, G!MinSamples
<1>2. DOMAIN recording = 1..N
  BY <1>1 DEF LoggedStamps
<1>3. /\ numbers \in Seq(Int) /\ Len(numbers) = N /\ Len(values) = N
      /\ \A i \in DOMAIN numbers : numbers[i] = numbers[1] + (i - 1)
      /\ \A i \in DOMAIN values : numbers[i] \in Int => numbers[i] \in DOMAIN recording
  BY DEF IngestInv, TypesInv, TableTypeOK, ReadInv, ReadingsInv, OwnReading
<1>4. /\ DOMAIN numbers = 1..N /\ DOMAIN values = 1..N
      /\ \A i \in 1..N : numbers[i] \in Int
  BY <1>1, <1>3 DEF IngestInv, TypesInv, TableTypeOK
<1>5. 1 \in 1..N /\ N \in 1..N
  BY <1>1
<1>6. numbers[1] \in 1..N /\ numbers[N] \in 1..N /\ numbers[N] = numbers[1] + (N - 1)
  BY <1>2, <1>3, <1>4, <1>5
<1>7. numbers[1] = 1
  BY <1>1, <1>6
<1>8. \A i \in 1..N : numbers[i] = i /\ Sample(i) = i
  BY <1>1, <1>3, <1>4, <1>7 DEF Sample
<1>9. OwnStamps
  BY <1>1, <1>2, <1>8 DEF OwnStamps, LoggedStamps
<1>10. Moved(numbers[1]) = 0 /\ shift.by <= 0
  <2>1. TrueInstant(1) = FirstInstant /\ shift.at \in Int /\ shift.by \in Int /\ FirstInstant \in Int
    BY SamplesAreEven, StampsOfSamples, IngestAssumption
  <2> QED
    BY <1>7, <2>1 DEF Moved
<1>11. /\ DOMAIN delivered = {TrueInstant(Sample(i)) + 0 : i \in 1..N}
       /\ CU!Faithful(delivered, 0)
  BY <1>9, <1>10, AssembledIsFaithful
<1>12. \A i \in 1..N : TrueInstant(Sample(i)) + 0 = TrueInstant(i)
  BY <1>8, SamplesAreEven
<1>13. DOMAIN delivered = {TrueInstant(i) : i \in 1..N}
  BY <1>11, <1>12
<1> QED
  BY <1>2, <1>11, <1>13 DEF CU!IsWhole, Taken

-----------------------------------------------------------------------------
(* The mapping. *)

(* The local clock never moved forwards, and the label states its offset   *)
(* at the first sample.                                                    *)
ClocksAreLabelled ==
  \A r \in Recordings :
    r.shift.by = 0 \/ (r.shift.by < 0 /\ FirstInstant < r.shift.at)

LEMMA LabelledClock ==
  ASSUME IngestInv, ClocksAreLabelled
  PROVE  /\ shift.by = 0 \/ (shift.by < 0 /\ FirstInstant < shift.at)
         /\ shift.by <= 0
<1>1. [readings |-> recording, shift |-> shift] \in Recordings /\ shift.by \in Int
  BY StampsOfSamples DEF IngestInv, TypesInv
<1>2. shift.by = 0 \/ (shift.by < 0 /\ FirstInstant < shift.at)
  BY <1>1 DEF ClocksAreLabelled
<1> QED
  BY <1>1, <1>2

LEMMA CustodyInit == Init => CU!Init
<1> SUFFICES ASSUME Init PROVE CU!Init
  OBVIOUS
<1>1. exit = None /\ series = NoSeries
  BY DEF Init
<1>2. recording \in Seq(Int \cup {NaN})
  BY IngestAssumption DEF Init
<1>3. DOMAIN recording \subseteq Nat
  BY <1>2
<1>4. DOMAIN Taken \subseteq Int
  BY <1>3, SamplesAreEven DEF Taken
<1> QED
  BY <1>1, <1>4 DEF CU!Init, Trust, NoSeries

LEMMA CustodyStutters ==
  ASSUME UNCHANGED <<recording, series>>, Trust' = Trust
  PROVE  UNCHANGED CU!custodyVars
BY DEF CU!custodyVars, Taken, TrueInstant

LEMMA CustodyStep ==
  IngestInv /\ ReadingsInv /\ ClocksAreLabelled /\ [Next]_vars => [CU!Next]_CU!custodyVars
<1> SUFFICES ASSUME IngestInv, ReadingsInv, ClocksAreLabelled, [Next]_vars
             PROVE  [CU!Next]_CU!custodyVars
  OBVIOUS
<1>1. None # 0 /\ None # 1
  BY CellsAssumption DEF NotNumbers
<1>2. ASSUME UNCHANGED <<recording, series, exit>>, exit = None \/ UNCHANGED <<statistics, numbered, retimed>>
      PROVE  [CU!Next]_CU!custodyVars
  <2>1. Trust' = Trust
    BY <1>2 DEF Trust
  <2> QED
    BY <1>2, <2>1, CustodyStutters
<1>3. CASE OtherHands
  <2>1. stage = "file" /\ UNCHANGED <<recording, series, exit>>
    BY <1>3 DEF OtherHands, DeleteRow, RepeatRow, SwapWithNext, BlankRow, ChangeCell, Retime,
       CutStatistics, Edit
  <2>2. exit = None
    BY <2>1 DEF ReadingsInv
  <2> QED
    BY <1>2, <2>1, <2>2
<1>4. CASE Inspect
  BY <1>2, <1>4 DEF Inspect, StartReading, sourceVars
<1>5. CASE Reading
  BY <1>2, <1>5 DEF Reading, SkipBlankRow, ReadRow, EndOfRows, RefuseRow, sourceVars
<1>6. CASE Verify
  BY <1>2, <1>6 DEF Verify, tableVars, sourceVars
<1>7. ASSUME stage \in {"reading", "verified"}, exit' \in {0, 1},
             UNCHANGED <<recording, series, statistics, numbered, retimed>>
      PROVE  [CU!Next]_CU!custodyVars
  <2>1. exit = None
    BY <1>7 DEF ReadingsInv
  <2>2. Trust = "open" /\ Trust' \in {"whole", "stretch", "none"}
    BY <1>1, <1>7, <2>1 DEF Trust
  <2>3. Taken' = Taken
    BY <1>7 DEF Taken, TrueInstant
  <2>4. CU!Judge
    BY <1>7, <2>2, <2>3 DEF CU!Judge
  <2> QED
    BY <2>4 DEF CU!Next
<1>8. CASE ReadFails
  BY <1>7, <1>8 DEF ReadFails, tableVars, sourceVars
<1>9. CASE Report
  BY <1>7, <1>9 DEF Report, tableVars, sourceVars
<1>10. ASSUME NEW supplied \in SuppliedIntervals, Assemble(supplied)
       PROVE  [CU!Next]_CU!custodyVars
  <2> DEFINE utc == G!ToUtc(stamps, Offset)
             dt == ResolvedInterval(supplied)
  <2>1. /\ stage = "inspected" /\ UNCHANGED <<numbered, recording, statistics, retimed, exit>>
    BY <1>10 DEF Assemble, tableVars, sourceVars
  <2>2. CASE ~G!Griddable(utc, values, dt)
    <3>1. UNCHANGED series
      BY <1>10, <2>2 DEF Assemble
    <3> QED
      BY <1>2, <2>1, <3>1
  <2>3. CASE G!Griddable(utc, values, dt)
    <3>1. series' = G!UniformGrid(utc, values, dt)
      BY <1>10, <2>3 DEF Assemble
    <3>2. series = NoSeries /\ exit # None
      BY <2>1 DEF IngestInv, SeriesInv, ReadingsInv
    <3>3. DOMAIN series = {}
      BY <3>2 DEF NoSeries
    <3>4. DOMAIN series' # {}
      <4>1. utc \in Seq(Int) /\ Len(utc) >= 2 /\ dt \in Int
        BY <2>3, UtcIsTyped, IngestAssumption DEF G!Griddable, G!MinSamples, ResolvedInterval
      <4>2. 1 \in DOMAIN utc
        BY <4>1
      <4>3. utc[1] \in DOMAIN series'
        BY <2>3, <3>1, <4>1, <4>2, GridIsFaithful
      <4> QED
        BY <4>3
    <3>5. numbered => dt = Interval
      BY DEF ResolvedInterval
    <3>6. ASSUME Trust = "whole" PROVE CU!IsWhole(series')
      <4>1. statistics = "published" /\ exit = 0
        BY <3>6 DEF Trust
      <4>2. numbered /\ EndsAgree
        BY <4>1 DEF IngestInv, PlaceInv, GateInv
      <4>3. stamps = LoggedStamps
        BY <2>3, <3>5, <4>2, LabelledClock, EndsAndGridFix
      <4> QED
        BY <2>3, <3>1, <3>5, <4>2, <4>3, LabelledClock, AssembledIsWhole
    <3>7. ASSUME Trust = "stretch" PROVE CU!IsStretch(series')
      <4>1. numbered /\ ~retimed
        BY <3>7 DEF Trust
      <4>2. OwnStamps
        BY <4>1 DEF IngestInv, ReadInv, OwnStamps
      <4> QED
        BY <2>3, <3>1, <3>5, <4>1, <4>2, LabelledClock, AssembledIsStretch
    <3>8. Taken' = Taken /\ Trust' = Trust /\ Trust # "open"
      BY <1>1, <2>1, <3>2 DEF Taken, TrueInstant, Trust
    <3>9. CU!Deliver
      BY <3>3, <3>4, <3>6, <3>7, <3>8 DEF CU!Deliver
    <3> QED
      BY <3>9 DEF CU!Next
  <2> QED
    BY <2>2, <2>3
<1>11. CASE UNCHANGED vars
  BY <1>2, <1>11 DEF vars
<1> QED
  BY <1>3, <1>4, <1>5, <1>6, <1>8, <1>9, <1>10, <1>11 DEF Next, InspectStep

(* From the logger to the series: for any recordings, any number of edits  *)
(* and any interval an operator states, ingest implements Custody, if the  *)
(* local clock never moved forwards and the label states its offset at the *)
(* first sample (parse_data to to_uniform_grid).                           *)
THEOREM IngestImplementsCustody ==
  ASSUME ClocksAreLabelled
  PROVE  Spec => ImplementsCustody
<1>1. Init => ReadingsInv
  BY ReadingsInit
<1>2. IngestInv /\ ReadingsInv /\ [Next]_vars => [CU!Next]_CU!custodyVars
  BY CustodyStep
<1> QED
  BY <1>1, <1>2, CustodyInit, ReadingsStep, IngestInvAlways, PTL DEF Spec, ImplementsCustody, CU!Spec
=============================================================================
