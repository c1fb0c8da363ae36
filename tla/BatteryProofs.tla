---------------------------- MODULE BatteryProofs ----------------------------
(***************************************************************************)
(* What holds of a run of the battery for every check, every pair of       *)
(* ladders, every number of realisations and every behaviour of the check. *)
(*                                                                         *)
(* The properties speak of what was shown; HistoryInv says where a run     *)
(* stands in the order of its case classes, and that nothing it has shown  *)
(* was shown from the same place twice.  Records of different places are   *)
(* different records (PlacesDiffer), so a history without repeated places  *)
(* is one without repeated draws.                                          *)
(***************************************************************************)
EXTENDS Battery, FalseAlarmsProofs, FiniteSetTheorems, TLAPS

Rank(class) ==
  CASE class = "negatives" -> 1
    [] class = "ladder_base" -> 2
    [] class = "ladder" -> 3
    [] class = "gap_base" -> 4
    [] class = "gaps" -> 5
    [] class = "twins" -> 6
    [] class = "null" -> 7

Precedes(entry, class, index) ==
  Rank(entry.class) < Rank(class) \/ (entry.class = class /\ entry.rung < index)

HistoryInv ==
  /\ \A i \in DOMAIN shown :
       /\ shown[i].rung < Size(shown[i].class)
       /\ shown[i].record \in Presented(shown[i].class, shown[i].rung)
  /\ \A i, j \in DOMAIN shown : i < j => Precedes(shown[i], shown[j].class, shown[j].rung)
  /\ stage \in Classes => \A i \in DOMAIN shown : Precedes(shown[i], stage, rung)

-----------------------------------------------------------------------------
LEMMA ElementOfSeq ==
  ASSUME NEW S, NEW seq \in Seq(S), NEW i \in 1..Len(seq)
  PROVE  seq[i] \in S
OBVIOUS

LEMMA MadeIsARecord ==
  ASSUME NEW seed \in Seeds, NEW n \in Nat, NEW missing
  PROVE  Made(seed, n, missing) \in Records
BY DEF Made, Records, Points

LEMMA DecimateIsARecord ==
  ASSUME NEW record \in Records, NEW factor \in Nat \ {0}
  PROVE  Decimate(record, factor) \in Records
<1>1. record.dt \in Nat /\ record.n \in Nat
  BY DEF Records
<1>2. record.dt * factor \in Nat
  BY <1>1
<1>3. Strided(record.n, factor) \in Nat
  BY <1>1 DEF Strided
<1>4. {i \in Points(Strided(record.n, factor)) : i * factor \in record.held} \in SUBSET Int
  BY <1>3 DEF Points
<1> QED
  BY <1>2, <1>3, <1>4 DEF Decimate, Records

LEMMA WithGapsIsARecord ==
  ASSUME NEW record \in Records, NEW percent \in Nat, NEW positions
  PROVE  WithGaps(record, percent, positions) \in Records
BY DEF WithGaps, Records

LEMMA GappedAreMasked ==
  ASSUME NEW percent, NEW record \in Gapped(percent)
  PROVE  \E positions : record = WithGaps(PositiveControl, percent, positions)
BY DEF Gapped

LEMMA SeedsOfTheClasses ==
  /\ \A name \in STRING : Seed("negative", name) \in Seeds
  /\ \A i \in Nat : Seed("red_noise", i) \in Seeds
  /\ Seed("positive", 0) \in Seeds /\ Seed("determinism", 0) \in Seeds
BY DEF Seed, Seeds

(* Everything a class presents is a record, whatever the check.            *)
LEMMA PresentedAreRecords ==
  ASSUME BatteryTypeOK, NEW class \in Classes, NEW index \in Nat, index < Size(class),
         NEW record \in Presented(class, index)
  PROVE  record \in Records
<1> USE MadeIsARecord, SeedsOfTheClasses
<1>0. /\ check.n \in Nat \ {0, 1} /\ controls \in Seq(STRING)
      /\ Factors \in Seq(Nat \ {0, 1}) /\ Fractions \in Seq(1..99) /\ BatterySamples \in Nat
  BY ChecksAssumption, MappingsAssumption, RungsAssumption, SamplesAssumption DEF BatteryTypeOK
<1>1. CASE class = "negatives"
  <2>1. controls[index + 1] \in STRING
    BY <1>0, <1>1 DEF Size
  <2>2. record = NegativeControl(controls[index + 1])
    BY <1>1 DEF Presented
  <2> QED
    BY <1>0, <2>1, <2>2 DEF NegativeControl
<1>2. PositiveControl \in Records
  BY <1>0 DEF PositiveControl
<1>3. CASE class \in {"ladder_base", "gap_base"}
  BY <1>2, <1>3 DEF Presented
<1>4. CASE class = "ladder"
  <2>1. Factors[index + 1] \in Nat \ {0, 1}
    BY <1>0, <1>4 DEF Size
  <2>2. record = Decimate(PositiveControl, Factors[index + 1])
    BY <1>4 DEF Presented
  <2> QED
    BY <1>2, <2>1, <2>2, DecimateIsARecord
<1>5. CASE class = "gaps"
  <2>1. Fractions[index + 1] \in 1..99
    <3>1. index + 1 \in 1..Len(Fractions)
      BY <1>0, <1>5 DEF Size
    <3> QED
      BY ONLY <1>0, <3>1, ElementOfSeq, Zenon
  <2>2. record \in Gapped(Fractions[index + 1])
    BY <1>5 DEF Presented
  <2> QED
    BY <1>2, <2>1, <2>2, GappedAreMasked, WithGapsIsARecord
<1>6. CASE class = "twins"
  BY <1>0, <1>6 DEF Presented, Twin
<1>7. CASE class = "null"
  BY <1>0, <1>7 DEF Presented, RedNoise
<1> QED
  BY <1>1, <1>3, <1>4, <1>5, <1>6, <1>7 DEF Classes

(* What tells the records of the places apart.                             *)
LEMMA PlaceOfRecord ==
  ASSUME BatteryTypeOK, NEW class \in Classes, NEW index \in Nat, index < Size(class),
         NEW record \in Presented(class, index)
  PROVE  /\ class = "negatives" => record.seed = <<"negative", controls[index + 1]>>
         /\ class \in {"ladder_base", "gap_base"} => record = PositiveControl
         /\ class = "ladder" => /\ record.seed = <<"positive", 0>>
                                /\ record.gap = 0 /\ record.dt = Factors[index + 1]
         /\ class = "gaps" => /\ record.seed = <<"positive", 0>>
                              /\ record.gap = Fractions[index + 1] /\ record.dt = 1
         /\ class = "twins" => record = Twin
         /\ class = "null" => record.seed = <<"red_noise", index>>
<1>1. CASE class = "ladder"
  <2>1. Factors[index + 1] \in Nat
    BY <1>1, RungsAssumption DEF Size
  <2>2. record = Decimate(PositiveControl, Factors[index + 1])
    BY <1>1 DEF Presented
  <2> QED
    BY <1>1, <2>1, <2>2 DEF Decimate, PositiveControl, Made, Seed
<1>2. CASE class = "gaps"
  <2>1. PICK positions : record = WithGaps(PositiveControl, Fractions[index + 1], positions)
    BY <1>2, GappedAreMasked DEF Presented
  <2> QED
    BY <1>2, <2>1 DEF WithGaps, PositiveControl, Made, Seed
<1>3. CASE class = "negatives"
  BY <1>3 DEF Presented, NegativeControl, Made, Seed
<1>4. CASE class = "null"
  BY <1>4 DEF Presented, RedNoise, Made, Seed
<1>5. CASE class \in {"ladder_base", "gap_base", "twins"}
  BY <1>5 DEF Presented
<1> QED
  BY <1>1, <1>2, <1>3, <1>4, <1>5 DEF Classes

LEMMA PlacesDiffer ==
  ASSUME BatteryTypeOK,
         NEW c \in Classes, NEW k \in Nat, k < Size(c),
         NEW d \in Classes, NEW l \in Nat, l < Size(d),
         <<c, k>> # <<d, l>>,
         NEW record \in Presented(c, k), record \in Presented(d, l)
  PROVE  record \in {PositiveControl, Twin}
<1>1. /\ OneToOne(controls) /\ OneToOne(Factors) /\ OneToOne(Fractions)
      /\ controls \in Seq(STRING)
      /\ Factors \in Seq(Nat \ {0, 1}) /\ Fractions \in Seq(1..99)
  BY MappingsAssumption, RungsAssumption DEF BatteryTypeOK
<1>2. CASE c = d
  <2>1. k # l
    BY <1>2
  <2>2. CASE c = "negatives"
    <3>1. controls[k + 1] = controls[l + 1]
      BY <1>2, <2>2, PlaceOfRecord
    <3> QED
      BY <1>1, <1>2, <2>1, <2>2, <3>1 DEF OneToOne, Size
  <2>3. CASE c = "ladder"
    <3>1. Factors[k + 1] = Factors[l + 1]
      BY <1>2, <2>3, PlaceOfRecord
    <3> QED
      BY <1>1, <1>2, <2>1, <2>3, <3>1 DEF OneToOne, Size
  <2>4. CASE c = "gaps"
    <3>1. Fractions[k + 1] = Fractions[l + 1]
      BY <1>2, <2>4, PlaceOfRecord
    <3> QED
      BY <1>1, <1>2, <2>1, <2>4, <3>1 DEF OneToOne, Size
  <2>5. CASE c = "null"
    BY <1>2, <2>1, <2>5, PlaceOfRecord
  <2>6. CASE c \in {"ladder_base", "gap_base", "twins"}
    BY <2>6, PlaceOfRecord
  <2> QED
    BY <2>2, <2>3, <2>4, <2>5, <2>6 DEF Classes
<1>3. CASE c # d
  <2>1. c = "ladder" => Factors[k + 1] # 1
    BY <1>1 DEF Size
  <2>2. d = "ladder" => Factors[l + 1] # 1
    BY <1>1 DEF Size
  <2>3. PositiveControl.seed = <<"positive", 0>> /\ Twin.seed = <<"determinism", 0>>
    BY DEF PositiveControl, Twin, Made, Seed
  <2>4. c \in {"ladder_base", "gap_base", "twins"} => record \in {PositiveControl, Twin}
    BY PlaceOfRecord
  <2>5. d \in {"ladder_base", "gap_base", "twins"} => record \in {PositiveControl, Twin}
    BY PlaceOfRecord
  <2>6. CASE c \in {"negatives", "ladder", "gaps", "null"} /\ d \in {"negatives", "ladder", "gaps", "null"}
    BY <1>3, <2>1, <2>2, <2>6, PlaceOfRecord, SMTT(30)
  <2> QED
    BY <2>4, <2>5, <2>6 DEF Classes
<1> QED
  BY <1>2, <1>3

-----------------------------------------------------------------------------
(* Every step either shows the record of its place, and goes on or ends    *)
(* the run, or shows nothing and starts the next class or ends it.         *)
Ended == {"refused", "crashed", "certified"}

Appends(record, verdict, metrics) ==
  /\ stage \in Classes /\ rung < Size(stage) /\ record \in Presented(stage, rung)
  /\ shown' = Append(shown, Entry(record, verdict, metrics))
  /\ (stage' = stage /\ rung' = rung + 1) \/ (stage' = "refused" /\ rung' = 0)

ShowsAnEntry ==
  \E record : \E verdict \in Verdicts \cup {"inadmissible", "irreproducible"},
                metrics \in {"same", "other", "NaN"} : Appends(record, verdict, metrics)

Moves ==
  /\ UNCHANGED shown /\ stage \in Classes /\ rung' = 0
  /\ stage' \in Ended \/ (stage' \in Classes /\ Rank(stage') = Rank(stage) + 1)

LEMMA EvaluateAppends ==
  ASSUME NEW class \in Classes, NEW accused, NEW verdict \in Verdicts,
         Evaluate(class, accused, verdict)
  PROVE  ShowsAnEntry
<1>1. PICK record \in Presented(class, rung) : Show(record, verdict)
  BY DEF Evaluate
<1>2. Appends(record, verdict, "same")
  BY <1>1 DEF Evaluate, Appends, Show, Goto
<1> QED
  BY <1>2 DEF ShowsAnEntry

LEMMA SizesAreNatural ==
  ASSUME BatteryTypeOK, NEW class \in Classes
  PROVE  Size(class) \in Nat
<1>1. controls \in Seq(STRING) /\ Realisations[tier] \in Nat
  BY MappingsAssumption, RealisationsAssumption DEF BatteryTypeOK
<1>2. Len(Factors) \in Nat /\ Len(Fractions) \in Nat
  BY RungsAssumption
<1> QED
  BY <1>1, <1>2 DEF Size, Classes

LEMMA StepShapes ==
  ASSUME BatteryTypeOK, Next
  PROVE  SameRun /\ (ShowsAnEntry \/ Moves)
<1> USE DEF Moves, Ended, Classes, Goto, Finished, Rank
<1>1. CASE RefuseInadmissible
  <2>1. PICK record \in Presented(stage, rung) : Show(record, "inadmissible")
    BY <1>1 DEF RefuseInadmissible
  <2>2. Appends(record, "inadmissible", "same")
    BY <1>1, <2>1 DEF RefuseInadmissible, Appends, Show, Guarded
  <2> QED
    BY <1>1, <2>2 DEF RefuseInadmissible, ShowsAnEntry
<1>2. CASE ShowNegative
  BY <1>2, EvaluateAppends DEF ShowNegative, Evaluate
<1>3. CASE NegativesDone
  BY <1>3 DEF NegativesDone
<1>4. CASE ShowPositive
  BY <1>4, EvaluateAppends DEF ShowPositive, Evaluate
<1>5. CASE ShowDecimated
  BY <1>5, EvaluateAppends DEF ShowDecimated, Evaluate
<1>6. CASE RaiseTooShort
  BY <1>6 DEF RaiseTooShort
<1>7. CASE ShowGapped
  BY <1>7, EvaluateAppends DEF ShowGapped, Evaluate
<1>8. CASE LadderDone
  BY <1>8 DEF LadderDone
<1>9. CASE Irreproducible
  <2>1. Appends(Twin, "irreproducible", "same")
    BY <1>9 DEF Irreproducible, Appends, Presented, Show, Size
  <2> QED
    BY <1>9, <2>1 DEF Irreproducible, ShowsAnEntry
<1>10. CASE ShowTwin
  <2>1. PICK v \in Verdicts, metrics \in {"same", "other", "NaN"} :
          shown' = Append(shown, Entry(Twin, v, metrics))
    BY <1>10 DEF ShowTwin, Answers, Verdicts
  <2>2. Appends(Twin, v, metrics)
    BY <1>10, <2>1 DEF ShowTwin, Appends, Presented
  <2> QED
    BY <1>10, <2>2 DEF ShowTwin, ShowsAnEntry
<1>11. CASE CompareTwins
  BY <1>11 DEF CompareTwins
<1>12. CASE ShowNull
  BY <1>12, EvaluateAppends DEF ShowNull, Evaluate
<1>13. CASE AssertFar
  BY <1>13 DEF AssertFar
<1>14. CASE EvaluationRaises
  BY <1>14 DEF EvaluationRaises
<1> QED
  BY <1>1, <1>2, <1>3, <1>4, <1>5, <1>6, <1>7, <1>8, <1>9, <1>10, <1>11, <1>12, <1>13, <1>14 DEF Next

LEMMA TalliesAreTyped ==
  ASSUME BatteryTypeOK, Next
  PROVE  failures' \in Nat /\ marginals' \in Nat
BY DEF BatteryTypeOK, Next, NotMeasuring, RefuseInadmissible, ShowNegative, NegativesDone, ShowPositive,
  ShowDecimated, RaiseTooShort, ShowGapped, LadderDone, Irreproducible, ShowTwin, CompareTwins,
  ShowNull, Count, AssertFar, EvaluationRaises

LEMMA TypeStep ==
  ASSUME BatteryTypeOK, [Next]_vars
  PROVE  BatteryTypeOK'
<1>1. CASE UNCHANGED vars
  BY <1>1 DEF BatteryTypeOK, vars
<1>2. CASE Next
  <2>1. SameRun /\ (ShowsAnEntry \/ Moves) /\ failures' \in Nat /\ marginals' \in Nat
    BY <1>2, StepShapes, TalliesAreTyped
  <2>2. CASE ShowsAnEntry
    <3>1. PICK record : \E verdict \in Verdicts \cup {"inadmissible", "irreproducible"},
                           metrics \in {"same", "other", "NaN"} :
                             Appends(record, verdict, metrics)
      BY <2>2 DEF ShowsAnEntry
    <3>. PICK verdict \in Verdicts \cup {"inadmissible", "irreproducible"},
              metrics \in {"same", "other", "NaN"} : Appends(record, verdict, metrics)
      BY <3>1
    <3>2. record \in Records
      BY PresentedAreRecords DEF Appends, BatteryTypeOK
    <3>3. Entry(record, verdict, metrics) \in ShownEntries
      BY <3>2 DEF Entry, ShownEntries, Appends, BatteryTypeOK
    <3> QED
      BY <2>1, <3>3 DEF BatteryTypeOK, Appends, SameRun
  <2>3. CASE Moves
    BY <2>1, <2>3 DEF BatteryTypeOK, Moves, SameRun, Ended
  <2> QED
    BY <2>1, <2>2, <2>3
<1> QED
  BY <1>1, <1>2

(* A run of the battery keeps its type for every check and every pair of   *)
(* ladders (core/battery.py).                                              *)
THEOREM BatteryIsTyped == Spec => []BatteryTypeOK
<1>1. Init => BatteryTypeOK
  BY DEF Init, BatteryTypeOK, Classes
<1> QED
  BY <1>1, TypeStep, PTL DEF Spec

-----------------------------------------------------------------------------
LEMMA PlacesAreSteady ==
  ASSUME SameRun, NEW class, NEW index
  PROVE  Size(class)' = Size(class) /\ Presented(class, index)' = Presented(class, index)
<1> USE DEF SameRun
<1>1. /\ \A name : NegativeControl(name)' = NegativeControl(name)
      /\ \A i : RedNoise(i)' = RedNoise(i)
      /\ PositiveControl' = PositiveControl /\ Twin' = Twin
  BY DEF NegativeControl, RedNoise, PositiveControl, Twin
<1>2. \A percent : Gapped(percent)' = Gapped(percent)
  BY <1>1 DEF Gapped
<1> QED
  BY <1>1, <1>2, Zenon DEF Size, Presented

LEMMA RanksOrder ==
  /\ \A c \in Classes : Rank(c) \in 1..7
  /\ \A c, d \in Classes : Rank(c) = Rank(d) => c = d
<1>1. /\ Rank("negatives") = 1 /\ Rank("ladder_base") = 2 /\ Rank("ladder") = 3
      /\ Rank("gap_base") = 4 /\ Rank("gaps") = 5 /\ Rank("twins") = 6 /\ Rank("null") = 7
  BY DEF Rank
<1> QED
  BY <1>1 DEF Classes

LEMMA EntriesAreTyped ==
  ASSUME BatteryTypeOK, NEW i \in DOMAIN shown
  PROVE  shown[i] \in ShownEntries /\ shown[i].class \in Classes /\ shown[i].rung \in Nat
<1>1. shown \in Seq(ShownEntries)
  BY DEF BatteryTypeOK
<1>2. shown[i] \in ShownEntries
  BY <1>1
<1> QED
  BY <1>2 DEF ShownEntries

LEMMA HistoryStep ==
  ASSUME BatteryTypeOK, HistoryInv, [Next]_vars
  PROVE  HistoryInv'
<1>0. shown \in Seq(ShownEntries) /\ rung \in Nat
  BY DEF BatteryTypeOK
<1>1. CASE UNCHANGED vars
  <2>1. SameRun
    BY <1>1 DEF vars, SameRun
  <2> QED
    BY <1>1, <2>1, PlacesAreSteady DEF HistoryInv, vars
<1>2. CASE Next /\ Moves
  <2>1. SameRun
    BY <1>2, StepShapes
  <2>2. stage' \in Classes => \A i \in DOMAIN shown : Precedes(shown[i], stage', rung')
    <3> SUFFICES ASSUME stage' \in Classes, NEW i \in DOMAIN shown
                 PROVE  Precedes(shown[i], stage', rung')
      OBVIOUS
    <3>1. Precedes(shown[i], stage, rung) /\ Rank(stage') = Rank(stage) + 1
      BY <1>2 DEF HistoryInv, Moves, Ended, Classes
    <3>2. shown[i].class \in Classes
      BY EntriesAreTyped
    <3> QED
      BY <1>2, <3>1, <3>2, RanksOrder DEF Precedes, Moves
  <2> QED
    BY <1>2, <2>1, <2>2, PlacesAreSteady DEF HistoryInv, Moves
<1>3. CASE Next /\ ShowsAnEntry
  <2>1. SameRun
    BY <1>3, StepShapes
  <2>2. PICK record, verdict, metrics : Appends(record, verdict, metrics)
    BY <1>3 DEF ShowsAnEntry
  <2> DEFINE new == Entry(record, verdict, metrics)
  <2>3. /\ shown' = Append(shown, new) /\ stage \in Classes /\ rung < Size(stage)
        /\ record \in Presented(stage, rung)
        /\ \/ stage' = stage /\ rung' = rung + 1
           \/ stage' = "refused"
    BY <2>2 DEF Appends
  <2>4. new.class = stage /\ new.rung = rung /\ new.record = record
    BY DEF Entry
  <2>5. /\ DOMAIN shown' = 1..(Len(shown) + 1) /\ DOMAIN shown = 1..Len(shown)
        /\ \A i \in DOMAIN shown : shown'[i] = shown[i]
        /\ shown'[Len(shown) + 1] = new
    BY <1>0, <2>3
  <2> HIDE DEF new
  <2>6. \A i \in DOMAIN shown' : /\ shown'[i].rung < Size(shown'[i].class)
                                 /\ shown'[i].record \in Presented(shown'[i].class, shown'[i].rung)
    BY <1>0, <2>3, <2>4, <2>5 DEF HistoryInv
  <2>7. \A i, j \in DOMAIN shown' : i < j => Precedes(shown'[i], shown'[j].class, shown'[j].rung)
    BY <1>0, <2>3, <2>4, <2>5 DEF HistoryInv
  <2>8. stage' \in Classes => \A i \in DOMAIN shown' : Precedes(shown'[i], stage', rung')
    <3> SUFFICES ASSUME stage' \in Classes, NEW i \in DOMAIN shown'
                 PROVE  Precedes(shown'[i], stage', rung')
      OBVIOUS
    <3>1. stage' = stage /\ rung' = rung + 1
      BY <2>3 DEF Classes
    <3>2. CASE i \in DOMAIN shown
      <4>1. Precedes(shown[i], stage, rung) /\ shown[i].rung \in Nat
        BY <2>3, <3>2, EntriesAreTyped DEF HistoryInv
      <4> QED
        BY <1>0, <2>5, <3>1, <3>2, <4>1 DEF Precedes
    <3>3. CASE i = Len(shown) + 1
      BY <1>0, <2>4, <2>5, <3>1, <3>3 DEF Precedes
    <3> QED
      BY <1>0, <2>5, <3>2, <3>3
  <2> QED
    BY <2>1, <2>6, <2>7, <2>8, PlacesAreSteady DEF HistoryInv
<1> QED
  BY <1>1, <1>2, <1>3, StepShapes

LEMMA HistoryHolds == Spec => [](BatteryTypeOK /\ HistoryInv)
<1>1. Init => HistoryInv
  BY DEF Init, HistoryInv
<1> QED
  BY <1>1, HistoryStep, BatteryIsTyped, PTL DEF Spec

LEMMA HistoriesHoldNoDrawTwice ==
  ASSUME BatteryTypeOK, HistoryInv
  PROVE  EveryDrawIsItsOwn
<1> SUFFICES ASSUME NEW i \in DOMAIN shown, NEW j \in DOMAIN shown, i < j,
                    shown[i].record = shown[j].record
             PROVE  shown[i].record \in {PositiveControl, Twin}
  BY DEF EveryDrawIsItsOwn
<1>1. \A k \in DOMAIN shown : shown[k].class \in Classes /\ shown[k].rung \in Nat
  BY EntriesAreTyped
<1>2. Precedes(shown[i], shown[j].class, shown[j].rung)
  BY DEF HistoryInv
<1>3. <<shown[i].class, shown[i].rung>> # <<shown[j].class, shown[j].rung>>
  BY <1>1, <1>2, RanksOrder DEF Precedes
<1> QED
  BY <1>1, <1>3, PlacesDiffer DEF HistoryInv

(* No draw stands in for another, for every mapping of controls, every     *)
(* pair of ladders and every number of realisations (derive_seed and its   *)
(* callers in core/battery.py).                                            *)
THEOREM EveryDrawIsAlwaysItsOwn == Spec => []EveryDrawIsItsOwn
BY HistoryHolds, HistoriesHoldNoDrawTwice, PTL

-----------------------------------------------------------------------------
(* While a run goes on, and when it certifies, everything it showed went   *)
(* well (Good), everything before its place was shown (Covered), and the   *)
(* tally is what the history holds.                                        *)
GoodVerdicts(class) ==
  CASE class = "negatives" -> Verdicts \ {"PASS"}
    [] class \in {"ladder_base", "gap_base"} -> {"PASS"}
    [] class \in {"ladder", "gaps"} -> {"PASS", "INCONCLUSIVE"}
    [] class = "twins" -> Verdicts
    [] class = "null" -> {"PASS", "MARGINAL", "FAIL"}

Good(entry) ==
  /\ entry.class \in Guarded => Sees(entry.record)
  /\ entry.verdict \in GoodVerdicts(entry.class)

Unended == stage \in Classes \cup {"certified"}
Past(class, index) ==
  \/ stage = "certified"
  \/ stage \in Classes /\ (Rank(class) < Rank(stage) \/ (class = stage /\ index < rung))

GoodInv == Unended => \A i \in DOMAIN shown : Good(shown[i])
CoverInv ==
  \A class \in Classes, index \in Nat :
    (index < Size(class) /\ Past(class, index)) =>
      \E i \in DOMAIN shown : shown[i].class = class /\ shown[i].rung = index
ControlsInv == (Unended /\ stage # "negatives") => Iterated = PrdControls
RungInv == stage \in Classes => rung <= Size(stage)
TwinsInv ==
  /\ stage = "twins" =>
       /\ rung <= Len(shown)
       /\ \A k \in 0..(rung - 1) : /\ shown[Len(shown) - rung + 1 + k].class = "twins"
                                   /\ shown[Len(shown) - rung + 1 + k].rung = k
  /\ stage \in {"null", "certified"} =>
       \A i, j \in DOMAIN shown :
         (shown[i].class = "twins" /\ shown[j].class = "twins") => Result(shown[i]) = Result(shown[j])

-----------------------------------------------------------------------------
(* A step that goes on with the class has shown something good.            *)
GoesOn(record, verdict, metrics) ==
  /\ stage \in Classes /\ rung < Size(stage) /\ record \in Presented(stage, rung)
  /\ shown' = Append(shown, Entry(record, verdict, metrics))
  /\ stage' = stage /\ rung' = rung + 1
  /\ Good(Entry(record, verdict, metrics))

LEMMA EvaluateGoesOn ==
  ASSUME NEW class \in Classes, NEW accused, NEW verdict \in Verdicts, verdict \notin accused,
         Evaluate(class, accused, verdict), Verdicts \ accused \subseteq GoodVerdicts(class)
  PROVE  \E record : GoesOn(record, verdict, "same")
<1>1. PICK record \in Presented(class, rung) : Show(record, verdict) /\ ~Inadmissible(record)
  BY DEF Evaluate
<1>2. stage = class /\ rung < Size(class) /\ stage' = stage /\ rung' = rung + 1
  BY DEF Evaluate
<1>3. Good(Entry(record, verdict, "same"))
  BY <1>1, <1>2 DEF Good, Entry, Inadmissible, Sees
<1>4. GoesOn(record, verdict, "same")
  BY <1>1, <1>2, <1>3 DEF GoesOn, Show
<1> QED
  BY <1>4

LEMMA RefusingEvaluates ==
  ASSUME NEW class, NEW accused, NEW verdict \in accused, Evaluate(class, accused, verdict)
  PROVE  stage' = "refused"
BY DEF Evaluate, Goto

LEMMA GoodVerdictsOfClasses ==
  /\ Verdicts \ {"PASS"} \subseteq GoodVerdicts("negatives")
  /\ Verdicts \ (Verdicts \ {"PASS"}) \subseteq GoodVerdicts("ladder_base")
  /\ Verdicts \ (Verdicts \ {"PASS"}) \subseteq GoodVerdicts("gap_base")
  /\ Verdicts \ Degraded \subseteq GoodVerdicts("ladder")
  /\ Verdicts \ Degraded \subseteq GoodVerdicts("gaps")
  /\ Verdicts \ {"INCONCLUSIVE"} \subseteq GoodVerdicts("null")
  /\ GoodVerdicts("twins") = Verdicts
BY DEF GoodVerdicts, Degraded, Verdicts

(* What may happen to a run that has not ended after the step.             *)
Advances ==
  /\ UNCHANGED shown /\ rung' = 0 /\ Finished(stage) /\ stage \in Classes
  /\ \/ stage' \in Classes /\ Rank(stage') = Rank(stage) + 1
     \/ stage = "null" /\ stage' = "certified"
  /\ stage = "negatives" => Iterated = PrdControls
  /\ stage = "twins" => Last(0) = Last(1)
  /\ stage = "null" => ~TooManyAlarms

LEMMA UnendedSteps ==
  ASSUME BatteryTypeOK, Next, stage' \in Classes \cup {"certified"}
  PROVE  \/ \E record, verdict, metrics : GoesOn(record, verdict, metrics)
         \/ Advances
<1> USE GoodVerdictsOfClasses
<1> USE DEF Advances, Goto, Finished, Rank, Classes
<1>1. CASE RefuseInadmissible
  BY <1>1 DEF RefuseInadmissible
<1>2. CASE ShowNegative
  BY <1>2, EvaluateGoesOn, RefusingEvaluates DEF ShowNegative
<1>3. CASE NegativesDone
  BY <1>3 DEF NegativesDone
<1>4. CASE ShowPositive
  BY <1>4, EvaluateGoesOn, RefusingEvaluates DEF ShowPositive
<1>5. CASE ShowDecimated
  BY <1>5, EvaluateGoesOn, RefusingEvaluates DEF ShowDecimated
<1>6. CASE RaiseTooShort
  BY <1>6 DEF RaiseTooShort
<1>7. CASE ShowGapped
  BY <1>7, EvaluateGoesOn, RefusingEvaluates DEF ShowGapped
<1>8. CASE LadderDone
  BY <1>8 DEF LadderDone
<1>9. CASE Irreproducible
  BY <1>9 DEF Irreproducible
<1>10. CASE ShowTwin
  <2>1. PICK v \in Verdicts, metrics \in {"same", "other", "NaN"} :
          shown' = Append(shown, Entry(Twin, v, metrics))
    BY <1>10 DEF ShowTwin, Answers, Verdicts
  <2>2. GoesOn(Twin, v, metrics)
    BY <1>10, <2>1 DEF ShowTwin, GoesOn, Presented, Good, Entry, Guarded
  <2> QED
    BY <2>2
<1>11. CASE CompareTwins
  BY <1>11 DEF CompareTwins
<1>12. CASE ShowNull
  BY <1>12, EvaluateGoesOn, RefusingEvaluates DEF ShowNull
<1>13. CASE AssertFar
  BY <1>13 DEF AssertFar
<1>14. CASE EvaluationRaises
  BY <1>14 DEF EvaluationRaises
<1> QED
  BY <1>1, <1>2, <1>3, <1>4, <1>5, <1>6, <1>7, <1>8, <1>9, <1>10, <1>11, <1>12, <1>13, <1>14 DEF Next

CertificationInv == GoodInv /\ CoverInv /\ ControlsInv /\ RungInv /\ TwinsInv

LEMMA GoodIsSteady ==
  ASSUME SameRun, NEW entry
  PROVE  Good(entry)' <=> Good(entry)
BY DEF SameRun, Good, Sees

LEMMA IteratedIsSteady ==
  ASSUME SameRun
  PROVE  Iterated' = Iterated
BY DEF SameRun, Iterated

LEMMA GoingOnKeepsCertification ==
  ASSUME BatteryTypeOK, HistoryInv, CertificationInv, SameRun,
         NEW record, NEW verdict, NEW metrics, GoesOn(record, verdict, metrics)
  PROVE  CertificationInv'
<1> DEFINE new == Entry(record, verdict, metrics)
           last == Len(shown) + 1
<1>1. shown \in Seq(ShownEntries) /\ rung \in Nat
  BY DEF BatteryTypeOK
<1>2. /\ stage \in Classes /\ rung < Size(stage) /\ stage' = stage /\ rung' = rung + 1
      /\ Good(new) /\ shown' = Append(shown, new)
      /\ new.class = stage /\ new.rung = rung
  BY DEF GoesOn, Entry
<1>3. /\ DOMAIN shown' = 1..last /\ DOMAIN shown = 1..Len(shown) /\ Len(shown') = last
      /\ \A i \in DOMAIN shown : shown'[i] = shown[i] /\ i \in DOMAIN shown' /\ i # last
      /\ shown'[last] = new /\ last \in DOMAIN shown' /\ Len(shown) \in Nat
      /\ \A i \in DOMAIN shown' : i \in DOMAIN shown \/ i = last
  BY <1>1, <1>2
<1> HIDE DEF new, last
<1>4. GoodInv'
  <2>1. \A i \in DOMAIN shown' : Good(shown'[i])
    BY <1>2, <1>3 DEF CertificationInv, GoodInv, Unended
  <2> QED
    BY <2>1, GoodIsSteady DEF GoodInv
<1>5. CoverInv'
  <2> SUFFICES ASSUME NEW class \in Classes, NEW index \in Nat, index < Size(class)', Past(class, index)'
               PROVE  \E i \in DOMAIN shown' : shown'[i].class = class /\ shown'[i].rung = index
    BY DEF CoverInv
  <2>1. index < Size(class)
    BY PlacesAreSteady
  <2>2. Past(class, index) \/ (class = stage /\ index = rung)
    BY <1>1, <1>2 DEF Past, Classes
  <2>3. CASE Past(class, index)
    BY <1>3, <2>1, <2>3 DEF CertificationInv, CoverInv
  <2>4. CASE class = stage /\ index = rung
    BY <1>2, <1>3, <2>4
  <2> QED
    BY <2>2, <2>3, <2>4
<1>6. ControlsInv'
  BY <1>2, IteratedIsSteady DEF CertificationInv, ControlsInv, Unended
<1>7. RungInv'
  <2>1. Size(stage)' = Size(stage)
    BY <1>2, PlacesAreSteady DEF SameRun, Size
  <2>2. Size(stage) \in Nat
    BY <1>2, SizesAreNatural
  <2> QED
    BY <1>1, <1>2, <2>1, <2>2 DEF RungInv
<1>8. TwinsInv'
  <2>1. ASSUME stage' = "twins"
        PROVE  /\ rung' <= Len(shown')
               /\ \A k \in 0..(rung' - 1) : /\ shown'[Len(shown') - rung' + 1 + k].class = "twins"
                                            /\ shown'[Len(shown') - rung' + 1 + k].rung = k
    <3>1. stage = "twins" /\ rung <= Len(shown)
      BY <1>2, <2>1 DEF CertificationInv, TwinsInv
    <3>2. Len(shown') = Len(shown) + 1
      BY <1>3 DEF last
    <3>3. ASSUME NEW k \in 0..rung
          PROVE  /\ shown'[Len(shown) - rung + 1 + k].class = "twins"
                 /\ shown'[Len(shown) - rung + 1 + k].rung = k
      <4>1. CASE k < rung
        <5>1. Len(shown) - rung + 1 + k \in DOMAIN shown
          BY <1>1, <1>3, <3>1, <4>1
        <5> QED
          BY <1>1, <1>3, <3>1, <4>1, <5>1 DEF CertificationInv, TwinsInv
      <4>2. CASE k = rung
        <5>1. Len(shown) - rung + 1 + k = last
          BY <1>1, <1>3, <4>2 DEF last
        <5> QED
          BY <1>2, <1>3, <3>1, <4>2, <5>1
      <4> QED
        BY <1>1, <4>1, <4>2
    <3>4. /\ Len(shown') - rung' = Len(shown) - rung
          /\ 0..(rung' - 1) = 0..rung
      BY <1>1, <1>2, <1>3, <3>2
    <3> QED
      BY <1>1, <1>2, <1>3, <3>1, <3>2, <3>3, <3>4
  <2>2. ASSUME stage' \in {"null", "certified"}, NEW i \in DOMAIN shown', NEW j \in DOMAIN shown',
               shown'[i].class = "twins", shown'[j].class = "twins"
        PROVE  Result(shown'[i]) = Result(shown'[j])
    <3>1. i \in DOMAIN shown /\ j \in DOMAIN shown
      BY <1>2, <1>3, <2>2 DEF Classes
    <3> QED
      BY <1>2, <1>3, <2>2, <3>1 DEF CertificationInv, TwinsInv
  <2> QED
    BY <2>1, <2>2 DEF TwinsInv, Result
<1> QED
  BY <1>4, <1>5, <1>6, <1>7, <1>8 DEF CertificationInv

LEMMA AdvancingKeepsCertification ==
  ASSUME BatteryTypeOK, HistoryInv, CertificationInv, SameRun, Advances
  PROVE  CertificationInv'
<1>1. shown \in Seq(ShownEntries) /\ rung \in Nat
  BY DEF BatteryTypeOK
<1>2. /\ stage \in Classes /\ rung = Size(stage) /\ rung' = 0 /\ shown' = shown
      /\ \/ stage' \in Classes /\ Rank(stage') = Rank(stage) + 1
         \/ stage = "null" /\ stage' = "certified"
  BY DEF Advances, Finished
<1>3. Rank(stage) \in 1..7
  BY <1>2, RanksOrder
<1>4. GoodInv'
  BY <1>2, GoodIsSteady DEF CertificationInv, GoodInv, Unended
<1>5. CoverInv'
  <2> SUFFICES ASSUME NEW class \in Classes, NEW index \in Nat, index < Size(class)', Past(class, index)'
               PROVE  \E i \in DOMAIN shown' : shown'[i].class = class /\ shown'[i].rung = index
    BY DEF CoverInv
  <2>1. index < Size(class)
    BY PlacesAreSteady
  <2>2. Rank(class) < Rank(stage) \/ class = stage
    <3>1. CASE stage' \in Classes
      <4>1. Rank(class) < Rank(stage')
        BY <1>2, <3>1 DEF Past, Classes
      <4> QED
        BY <1>2, <1>3, <3>1, <4>1, RanksOrder DEF Classes
    <3>2. CASE stage = "null"
      <4>1. Rank(stage) = 7
        BY <3>2 DEF Rank
      <4> QED
        BY <1>2, <4>1, RanksOrder
    <3> QED
      BY <1>2, <3>1, <3>2
  <2> QED
    BY <1>2, <2>1, <2>2 DEF CertificationInv, CoverInv, Past
<1>6. ControlsInv'
  <2>1. Iterated = PrdControls
    BY <1>2 DEF CertificationInv, ControlsInv, Unended, Advances
  <2> QED
    BY <2>1, IteratedIsSteady DEF ControlsInv
<1>7. RungInv'
  <2>1. ASSUME stage' \in Classes
        PROVE  0 <= Size(stage)'
    <3>1. controls' \in Seq(STRING) /\ Realisations[tier'] \in Nat
      BY MappingsAssumption, RealisationsAssumption DEF BatteryTypeOK, SameRun
    <3>2. Len(Factors) \in Nat /\ Len(Fractions) \in Nat
      BY RungsAssumption
    <3> QED
      BY <2>1, <3>1, <3>2 DEF Size, Classes
  <2> QED
    BY <1>2, <2>1 DEF RungInv
<1>8. TwinsInv'
  <2>1. stage' = "twins" => rung' = 0 /\ rung' <= Len(shown')
    BY <1>1, <1>2
  <2>2. ASSUME stage' \in {"null", "certified"}, NEW i \in DOMAIN shown, NEW j \in DOMAIN shown,
               shown[i].class = "twins", shown[j].class = "twins"
        PROVE  Result(shown[i]) = Result(shown[j])
    <3>1. CASE stage = "null"
      BY <2>2, <3>1 DEF CertificationInv, TwinsInv
    <3>2. CASE stage = "twins"
      <4>1. rung = 2 /\ 2 <= Len(shown)
        BY <1>2, <3>2 DEF CertificationInv, TwinsInv, Size
      <4>2. /\ shown[Len(shown) - 1].class = "twins" /\ shown[Len(shown) - 1].rung = 0
            /\ shown[Len(shown)].class = "twins" /\ shown[Len(shown)].rung = 1
            /\ Len(shown) \in DOMAIN shown /\ Len(shown) - 1 \in DOMAIN shown
        <5>1. 0 \in 0..(rung - 1) /\ 1 \in 0..(rung - 1) /\ Len(shown) \in Nat
          BY <1>1, <4>1
        <5>2. /\ shown[Len(shown) - 2 + 1 + 0].class = "twins" /\ shown[Len(shown) - 2 + 1 + 0].rung = 0
              /\ shown[Len(shown) - 2 + 1 + 1].class = "twins" /\ shown[Len(shown) - 2 + 1 + 1].rung = 1
          BY <3>2, <4>1, <5>1 DEF CertificationInv, TwinsInv
        <5>3. Len(shown) - 2 + 1 + 0 = Len(shown) - 1 /\ Len(shown) - 2 + 1 + 1 = Len(shown)
          BY <5>1
        <5> QED
          BY <1>1, <4>1, <5>1, <5>2, <5>3
      <4>3. Result(shown[Len(shown)]) = Result(shown[Len(shown) - 1])
        <5>1. Last(0) = Last(1)
          BY <3>2 DEF Advances
        <5>2. Len(shown) - 0 = Len(shown)
          BY <1>1
        <5> QED
          BY <5>1, <5>2 DEF Last
      <4>4. ASSUME NEW k \in DOMAIN shown, shown[k].class = "twins"
            PROVE  k = Len(shown) \/ k = Len(shown) - 1
        <5>1. shown[k].rung \in 0..1
          BY <3>2, <4>1, <4>4, EntriesAreTyped DEF HistoryInv, Size
        <5>2. ASSUME NEW l \in DOMAIN shown, shown[l].class = "twins", shown[k].rung = shown[l].rung
              PROVE  k = l
          <6>1. k < l => Precedes(shown[k], "twins", shown[l].rung)
            BY <5>2 DEF HistoryInv
          <6>2. l < k => Precedes(shown[l], "twins", shown[k].rung)
            BY <4>4 DEF HistoryInv
          <6>3. k \in Int /\ l \in Int /\ Rank("twins") \in Int
            BY <1>1 DEF Rank
          <6> QED
            BY <4>4, <5>1, <5>2, <6>1, <6>2, <6>3 DEF Precedes
        <5> QED
          BY <4>2, <5>1, <5>2
      <4> QED
        BY <2>2, <4>3, <4>4
    <3>3. stage \in {"twins", "null"}
      <4>1. stage' = "null" => Rank(stage) = Rank("twins")
        BY <1>2, <1>3 DEF Rank, Classes
      <4> QED
        BY <1>2, <2>2, <4>1, RanksOrder DEF Classes
    <3> QED
      BY <3>1, <3>2, <3>3
  <2> QED
    BY <1>2, <2>1, <2>2 DEF TwinsInv, Result
<1> QED
  BY <1>4, <1>5, <1>6, <1>7, <1>8 DEF CertificationInv

-----------------------------------------------------------------------------
(* The tally.  An entry is new to the history, for its place is.           *)
NullSoFar ==
  CASE stage = "null" -> rung
    [] stage = "certified" -> Realisations[tier]
    [] OTHER -> 0

FailedNulls == {e \in NullEntries : e.verdict = "FAIL"}
TallyInv ==
  Unended =>
    /\ IsFiniteSet(NullEntries) /\ Cardinality(NullEntries) = NullSoFar
    /\ IsFiniteSet(FailedNulls) /\ Cardinality(FailedNulls) = failures
    /\ stage = "certified" => ~TooManyAlarms

LEMMA NewEntriesAreNew ==
  ASSUME BatteryTypeOK, HistoryInv, NEW record, NEW verdict, NEW metrics, Appends(record, verdict, metrics)
  PROVE  /\ Entry(record, verdict, metrics) \notin Entries
         /\ Entries' = Entries \cup {Entry(record, verdict, metrics)}
<1> DEFINE new == Entry(record, verdict, metrics)
<1>1. shown \in Seq(ShownEntries) /\ rung \in Nat
  BY DEF BatteryTypeOK
<1>2. stage \in Classes /\ shown' = Append(shown, new) /\ new.class = stage /\ new.rung = rung
  BY DEF Appends, Entry
<1> HIDE DEF new
<1>3. ASSUME NEW i \in DOMAIN shown
      PROVE  shown[i] # new
  <2>1. Precedes(shown[i], stage, rung)
    BY <1>2 DEF HistoryInv
  <2> QED
    BY <1>1, <1>2, <2>1, RanksOrder DEF Precedes
<1>4. Entries' = Entries \cup {new}
  <2>1. /\ DOMAIN shown' = 1..(Len(shown) + 1) /\ DOMAIN shown = 1..Len(shown) /\ Len(shown) \in Nat
        /\ \A i \in DOMAIN shown : shown'[i] = shown[i]
        /\ shown'[Len(shown) + 1] = new
    BY <1>1, <1>2
  <2>2. /\ DOMAIN shown' = DOMAIN shown \cup {Len(shown) + 1}
    BY <2>1
  <2> QED
    BY <2>1, <2>2 DEF Entries
<1> QED
  BY <1>3, <1>4 DEF Entries, new

LEMMA AppendsAgree ==
  ASSUME NEW S, NEW s \in Seq(S), NEW x, NEW y, Append(s, x) = Append(s, y)
  PROVE  x = y
<1>1. Append(s, x)[Len(s) + 1] = x /\ Append(s, y)[Len(s) + 1] = y
  OBVIOUS
<1> QED
  BY <1>1

(* Only the null case tallies, and a null it goes on from is counted once. *)
LEMMA TalliesFollow ==
  ASSUME Next, NEW record, NEW verdict, NEW metrics, GoesOn(record, verdict, metrics), BatteryTypeOK
  PROVE  failures' = failures + (IF stage = "null" /\ verdict = "FAIL" THEN 1 ELSE 0)
<1> USE DEF NotMeasuring, GoesOn
<1>0. failures \in Nat /\ shown \in Seq(ShownEntries)
  BY DEF BatteryTypeOK
<1>1. CASE ShowNull
  <2>1. PICK v \in Verdicts : Evaluate("null", {"INCONCLUSIVE"}, v) /\ Count(v)
    BY <1>1 DEF ShowNull
  <2>2. PICK r : Show(r, v)
    BY <2>1 DEF Evaluate
  <2>3. Entry(r, v, "same") = Entry(record, verdict, metrics)
    BY ONLY <1>0, <2>2, AppendsAgree, GoesOn(record, verdict, metrics) DEF Show, GoesOn
  <2>4. v = verdict
    BY <2>3 DEF Entry
  <2>5. stage = "null"
    BY <2>1 DEF Evaluate
  <2> QED
    BY <1>0, <2>1, <2>4, <2>5 DEF Count
<1>2. CASE ShowNegative
  BY <1>0, <1>2 DEF ShowNegative, Evaluate
<1>3. CASE ShowPositive
  BY <1>0, <1>3 DEF ShowPositive, Evaluate
<1>4. CASE ShowDecimated
  BY <1>0, <1>4 DEF ShowDecimated, Evaluate
<1>5. CASE ShowGapped
  BY <1>0, <1>5 DEF ShowGapped, Evaluate
<1>6. CASE ShowTwin
  BY <1>0, <1>6 DEF ShowTwin
<1>7. CASE RefuseInadmissible \/ Irreproducible \/ RaiseTooShort \/ EvaluationRaises
  BY <1>7 DEF RefuseInadmissible, Irreproducible, RaiseTooShort, EvaluationRaises, Goto, Guarded, Classes
<1>8. CASE NegativesDone \/ LadderDone \/ CompareTwins \/ AssertFar
  BY <1>8 DEF NegativesDone, LadderDone, CompareTwins, AssertFar, Finished
<1> QED
  BY <1>1, <1>2, <1>3, <1>4, <1>5, <1>6, <1>7, <1>8 DEF Next

LEMMA AdvancingKeepsTallies ==
  ASSUME Next, Advances, BatteryTypeOK
  PROVE  UNCHANGED failures
<1>1. \A record, verdict : shown # Append(shown, Entry(record, verdict, "same"))
  <2>1. shown \in Seq(ShownEntries)
    BY DEF BatteryTypeOK
  <2> QED
    BY <2>1
<1> USE DEF Advances, Finished
<1>2. ~ShowNull
  <2>1. rung \in Nat
    BY DEF BatteryTypeOK
  <2> QED
    BY <2>1 DEF ShowNull, Evaluate
<1> QED
  BY <1>2 DEF Next, NotMeasuring, RefuseInadmissible, ShowNegative, NegativesDone, ShowPositive,
  ShowDecimated, RaiseTooShort, ShowGapped, LadderDone, Irreproducible, ShowTwin, CompareTwins,
  AssertFar, EvaluationRaises

LEMMA TallyStep ==
  ASSUME BatteryTypeOK, HistoryInv, CertificationInv, TallyInv, [Next]_vars
  PROVE  TallyInv'
<1> SUFFICES ASSUME Unended'
             PROVE  /\ IsFiniteSet(NullEntries') /\ Cardinality(NullEntries') = NullSoFar'
                    /\ IsFiniteSet(FailedNulls') /\ Cardinality(FailedNulls') = failures'
                    /\ stage' = "certified" => ~TooManyAlarms'
  BY DEF TallyInv
<1>1. CASE UNCHANGED vars
  BY <1>1 DEF vars, TallyInv, Unended, NullEntries, FailedNulls, Entries, NullSoFar, TooManyAlarms
<1>2. CASE Next
  <2>1. SameRun
    BY <1>2, StepShapes
  <2>2. ASSUME NEW record, NEW verdict, NEW metrics, GoesOn(record, verdict, metrics)
        PROVE  TallyInv'
    <3> DEFINE new == Entry(record, verdict, metrics)
    <3>1. /\ new \notin Entries /\ Entries' = Entries \cup {new}
          /\ new.class = stage /\ new.verdict = verdict
          /\ stage \in Classes /\ stage' = stage /\ rung' = rung + 1
      BY <2>2, NewEntriesAreNew DEF GoesOn, Appends, Entry
    <3>2. failures' = failures + (IF stage = "null" /\ verdict = "FAIL" THEN 1 ELSE 0)
      BY <1>2, <2>2, TalliesFollow
    <3> HIDE DEF new
    <3>3. /\ NullEntries' = IF stage = "null" THEN NullEntries \cup {new} ELSE NullEntries
          /\ FailedNulls' = IF stage = "null" /\ verdict = "FAIL"
                              THEN FailedNulls \cup {new} ELSE FailedNulls
          /\ new \notin NullEntries /\ new \notin FailedNulls
      BY <3>1 DEF NullEntries, FailedNulls
    <3>4. /\ IsFiniteSet(NullEntries) /\ Cardinality(NullEntries) = NullSoFar
          /\ IsFiniteSet(FailedNulls) /\ Cardinality(FailedNulls) = failures
      BY <3>1 DEF TallyInv, Unended
    <3>5. NullSoFar' = IF stage = "null" THEN NullSoFar + 1 ELSE NullSoFar
      BY <3>1 DEF NullSoFar, Classes
    <3>6. IsFiniteSet(NullEntries') /\ Cardinality(NullEntries') = NullSoFar'
      BY <3>3, <3>4, <3>5, FS_AddElement
    <3>7. IsFiniteSet(FailedNulls') /\ Cardinality(FailedNulls') = failures'
      <4>1. CASE stage = "null" /\ verdict = "FAIL"
        BY <3>2, <3>3, <3>4, <4>1, FS_AddElement
      <4>2. CASE ~(stage = "null" /\ verdict = "FAIL")
        <5>1. failures' = failures
          BY <3>2, <4>2 DEF BatteryTypeOK
        <5> QED
          BY <3>3, <3>4, <4>2, <5>1
      <4> QED
        BY <4>1, <4>2
    <3> QED
      BY <3>1, <3>6, <3>7 DEF TallyInv, Classes
  <2>3. ASSUME Advances
        PROVE  TallyInv'
    <3>1. /\ NullEntries' = NullEntries /\ FailedNulls' = FailedNulls /\ failures' = failures
      BY <1>2, <2>3, AdvancingKeepsTallies DEF NullEntries, FailedNulls, Entries, Advances
    <3>2. stage \in Classes /\ rung' = 0 /\ rung = Size(stage)
      BY <2>3 DEF Advances, Finished
    <3>3. NullSoFar' = NullSoFar
      <4>1. CASE stage = "null"
        <5>1. stage' = "certified"
          <6>1. Rank(stage) = 7
            BY <4>1 DEF Rank
          <6> QED
            BY <2>3, <6>1, RanksOrder DEF Advances
        <5> QED
          BY <2>1, <3>2, <4>1, <5>1 DEF NullSoFar, SameRun, Size
      <4>2. CASE stage # "null"
        BY <2>3, <3>2, <4>2 DEF NullSoFar, Classes, Advances
      <4> QED
        BY <4>1, <4>2
    <3>4. stage' = "certified" => ~TooManyAlarms'
      BY <2>1, <2>3, <3>1 DEF Advances, TooManyAlarms, SameRun, Classes
    <3> QED
      BY <3>1, <3>2, <3>3, <3>4 DEF TallyInv, Unended
  <2> QED
    BY <1>2, <2>2, <2>3, UnendedSteps DEF Unended, TallyInv
<1> QED
  BY <1>1, <1>2

LEMMA CertificationStep ==
  ASSUME BatteryTypeOK, HistoryInv, CertificationInv, [Next]_vars
  PROVE  CertificationInv'
<1>1. CASE UNCHANGED vars
  <2>1. SameRun
    BY <1>1 DEF vars, SameRun
  <2>2. stage' = stage /\ rung' = rung /\ shown' = shown
    BY <1>1 DEF vars
  <2>3. GoodInv' /\ CoverInv' /\ ControlsInv' /\ TwinsInv'
    BY <2>1, <2>2, GoodIsSteady, PlacesAreSteady, IteratedIsSteady
    DEF CertificationInv, GoodInv, Unended, CoverInv, Past, ControlsInv, TwinsInv, Result
  <2>4. RungInv'
    BY <2>1, <2>2 DEF CertificationInv, RungInv, Size, SameRun
  <2> QED
    BY <2>3, <2>4 DEF CertificationInv
<1>2. CASE Next /\ Unended'
  <2>1. SameRun
    BY <1>2, StepShapes
  <2> QED
    BY <1>2, <2>1, UnendedSteps, GoingOnKeepsCertification, AdvancingKeepsCertification DEF Unended
<1>3. CASE ~Unended'
  <2>1. stage' \notin Classes /\ stage' # "certified" /\ stage' \notin {"twins", "null"}
    BY <1>3 DEF Unended, Classes
  <2> QED
    BY <1>3, <2>1 DEF CertificationInv, GoodInv, CoverInv, Past, ControlsInv, RungInv, TwinsInv
<1> QED
  BY <1>1, <1>2, <1>3

LEMMA RunInvariantHolds ==
  Spec => [](BatteryTypeOK /\ HistoryInv /\ CertificationInv /\ TallyInv)
<1>1. Init => CertificationInv
  <2> SUFFICES ASSUME Init
               PROVE  CertificationInv
    OBVIOUS
  <2>0. /\ shown = << >> /\ DOMAIN shown = {} /\ Len(shown) = 0
        /\ stage = "negatives" /\ rung = 0
    BY DEF Init
  <2>1. BatteryTypeOK
    BY DEF Init, BatteryTypeOK, Classes
  <2>2. RungInv
    BY <2>0, <2>1, SizesAreNatural DEF RungInv
  <2>3. CoverInv
    BY <2>0, RanksOrder DEF CoverInv, Past, Rank, Classes
  <2> QED
    BY <2>0, <2>2, <2>3 DEF CertificationInv, GoodInv, ControlsInv, TwinsInv
<1>2. Init => TallyInv
  <2> SUFFICES ASSUME Init
               PROVE  TallyInv
    OBVIOUS
  <2>1. NullEntries = {} /\ FailedNulls = {}
    BY DEF Init, NullEntries, FailedNulls, Entries
  <2> QED
    BY <2>1, FS_EmptySet DEF TallyInv, Init, NullSoFar
<1>3. BatteryTypeOK /\ HistoryInv /\ CertificationInv /\ TallyInv /\ [Next]_vars
        => (CertificationInv /\ TallyInv)'
  BY CertificationStep, TallyStep
<1> QED
  BY <1>1, <1>2, <1>3, HistoryHolds, PTL DEF Spec

-----------------------------------------------------------------------------
(* What a good history says of the records it holds.                       *)
LEMMA VerdictsOfAPlace ==
  ASSUME BatteryTypeOK, HistoryInv, CertificationInv, stage = "certified",
         NEW i \in DOMAIN shown, shown[i].record \notin {PositiveControl, Twin}
  PROVE  Seen(shown[i].record, GoodVerdicts(shown[i].class))
<1>1. ASSUME NEW j \in DOMAIN shown, shown[j].record = shown[i].record
      PROVE  shown[j].verdict \in GoodVerdicts(shown[i].class)
  <2>1. shown[j].class = shown[i].class
    BY <1>1, EntriesAreTyped, PlacesDiffer DEF HistoryInv
  <2> QED
    BY <2>1 DEF CertificationInv, GoodInv, Unended, Good
<1> QED
  BY <1>1 DEF Seen, VerdictsOn, Entries

LEMMA CertifiedControls ==
  ASSUME BatteryTypeOK, HistoryInv, CertificationInv, stage = "certified"
  PROVE  ControlsHold
<1> SUFFICES ASSUME NEW name \in PrdControls
             PROVE  Sees(NegativeControl(name)) /\ Seen(NegativeControl(name), Verdicts \ {"PASS"})
  BY DEF ControlsHold
<1>1. PICK k \in DOMAIN controls : controls[k] = name
  BY DEF CertificationInv, ControlsInv, Unended, Iterated
<1>2. k - 1 \in Nat /\ k - 1 < Size("negatives") /\ (k - 1) + 1 = k
  <2>1. controls \in Seq(STRING)
    BY MappingsAssumption DEF BatteryTypeOK
  <2> QED
    BY <2>1 DEF Size
<1>3. PICK i \in DOMAIN shown : shown[i].class = "negatives" /\ shown[i].rung = k - 1
  BY <1>2 DEF CertificationInv, CoverInv, Past, Classes
<1>4. shown[i].record = NegativeControl(name)
  BY <1>1, <1>2, <1>3 DEF HistoryInv, Presented
<1>5. NegativeControl(name) \notin {PositiveControl, Twin}
  BY DEF NegativeControl, PositiveControl, Twin, Made, Seed
<1>6. GoodVerdicts("negatives") = Verdicts \ {"PASS"}
  BY DEF GoodVerdicts
<1>7. Seen(NegativeControl(name), Verdicts \ {"PASS"})
  BY <1>3, <1>4, <1>5, <1>6, VerdictsOfAPlace
<1>8. Sees(NegativeControl(name))
  BY <1>3, <1>4 DEF CertificationInv, GoodInv, Unended, Good, Guarded
<1> QED
  BY <1>7, <1>8

LEMMA CertifiedLadders ==
  ASSUME BatteryTypeOK, HistoryInv, CertificationInv, stage = "certified"
  PROVE  LaddersHold
<1> USE DEF CertificationInv
<1>0. /\ GoodVerdicts("ladder") = {"PASS", "INCONCLUSIVE"}
      /\ GoodVerdicts("gaps") = {"PASS", "INCONCLUSIVE"}
      /\ GoodVerdicts("ladder_base") = {"PASS"} /\ GoodVerdicts("gap_base") = {"PASS"}
  BY DEF GoodVerdicts
<1>1. /\ PositiveControl.seed = <<"positive", 0>> /\ PositiveControl.gap = 0
      /\ PositiveControl.dt = 1 /\ Twin.seed = <<"determinism", 0>>
  BY DEF PositiveControl, Twin, Made, Seed
<1>2. Sees(PositiveControl) /\ Seen(PositiveControl, {"PASS"})
  <2>0. 0 \in Nat /\ 0 < Size("ladder_base") /\ "ladder_base" \in Classes /\ Past("ladder_base", 0)
    BY DEF Past, Classes, Size
  <2>1. PICK i \in DOMAIN shown : shown[i].class = "ladder_base" /\ shown[i].rung = 0
    BY <2>0 DEF CoverInv
  <2>2. shown[i].record = PositiveControl
    BY <2>1 DEF HistoryInv, Presented
  <2>3. Sees(PositiveControl)
    BY <2>1, <2>2 DEF GoodInv, Unended, Good, Guarded
  <2>4. ASSUME NEW j \in DOMAIN shown, shown[j].record = PositiveControl
        PROVE  shown[j].verdict = "PASS"
    <3>1. /\ shown[j].class \in Classes /\ shown[j].rung \in Nat
          /\ shown[j].rung < Size(shown[j].class)
          /\ shown[j].record \in Presented(shown[j].class, shown[j].rung)
      BY EntriesAreTyped DEF HistoryInv
    <3>2. /\ shown[j].class = "ladder" => Factors[shown[j].rung + 1] # 1
          /\ shown[j].class = "gaps" => Fractions[shown[j].rung + 1] # 0
      <4>1. ASSUME shown[j].class = "ladder"
            PROVE  Factors[shown[j].rung + 1] \in Nat \ {0, 1}
        BY <3>1, <4>1, RungsAssumption DEF Size
      <4>2. ASSUME shown[j].class = "gaps"
            PROVE  Fractions[shown[j].rung + 1] \in 1..99
        <5>1. shown[j].rung + 1 \in 1..Len(Fractions)
          BY <3>1, <4>2, RungsAssumption DEF Size
        <5> QED
          BY <5>1, RungsAssumption, ElementOfSeq, Zenon
      <4> QED
        BY <4>1, <4>2
    <3>3. shown[j].class \in {"ladder_base", "gap_base"}
      BY <1>1, <2>4, <3>1, <3>2, PlaceOfRecord DEF Classes
    <3>4. shown[j].verdict \in GoodVerdicts(shown[j].class)
      BY DEF GoodInv, Unended, Good
    <3> QED
      BY <1>0, <3>3, <3>4
  <2> QED
    BY <2>1, <2>2, <2>3, <2>4 DEF Seen, VerdictsOn, Entries
<1>3. ASSUME NEW k \in DOMAIN Factors
      PROVE  Seen(Decimate(PositiveControl, Factors[k]), {"PASS", "INCONCLUSIVE"})
  <2>1. k - 1 \in Nat /\ k - 1 < Size("ladder") /\ (k - 1) + 1 = k /\ Factors[k] \in Nat \ {0, 1}
    BY RungsAssumption DEF Size
  <2>2. PICK i \in DOMAIN shown : shown[i].class = "ladder" /\ shown[i].rung = k - 1
    BY <2>1 DEF CoverInv, Past, Classes
  <2>3. shown[i].record = Decimate(PositiveControl, Factors[k])
    BY <2>1, <2>2 DEF HistoryInv, Presented
  <2>4. shown[i].record.dt = Factors[k] /\ shown[i].record.seed = <<"positive", 0>>
    BY <1>1, <2>1, <2>2, PlaceOfRecord DEF HistoryInv, Classes
  <2>5. shown[i].record \notin {PositiveControl, Twin}
    BY <1>1, <2>1, <2>4
  <2> QED
    BY <1>0, <2>2, <2>3, <2>5, VerdictsOfAPlace
<1>4. ASSUME NEW k \in DOMAIN Fractions
      PROVE  \E record \in Gapped(Fractions[k]) : Seen(record, {"PASS", "INCONCLUSIVE"})
  <2>1. k - 1 \in Nat /\ k - 1 < Size("gaps") /\ (k - 1) + 1 = k /\ Fractions[k] \in 1..99
    BY RungsAssumption DEF Size
  <2>2. PICK i \in DOMAIN shown : shown[i].class = "gaps" /\ shown[i].rung = k - 1
    BY <2>1 DEF CoverInv, Past, Classes
  <2>3. shown[i].record \in Gapped(Fractions[k])
    BY <2>1, <2>2 DEF HistoryInv, Presented
  <2>4. shown[i].record.gap = Fractions[k] /\ shown[i].record.seed = <<"positive", 0>>
    BY <2>1, <2>2, PlaceOfRecord DEF HistoryInv, Classes
  <2>5. shown[i].record \notin {PositiveControl, Twin}
    BY <1>1, <2>1, <2>4
  <2>6. Seen(shown[i].record, {"PASS", "INCONCLUSIVE"})
    BY <1>0, <2>2, <2>5, VerdictsOfAPlace
  <2> QED
    BY <2>3, <2>6
<1> QED
  BY <1>2, <1>3, <1>4 DEF LaddersHold

LEMMA CertifiedTwinsAndRate ==
  ASSUME BatteryTypeOK, HistoryInv, CertificationInv, TallyInv, stage = "certified"
  PROVE  TwinsHold /\ RateHolds
<1>1. TwinsHold
  <2>1. PICK i \in DOMAIN shown : shown[i].class = "twins"
    BY DEF CertificationInv, CoverInv, Past, Classes, Size
  <2> QED
    BY <2>1 DEF TwinsHold, Entries, CertificationInv, TwinsInv
<1>2. Cardinality(NullEntries) = Realisations[tier]
  BY DEF TallyInv, Unended, NullSoFar
<1>3. \A e \in NullEntries : Sees(e.record) /\ e.verdict \in {"PASS", "MARGINAL", "FAIL"}
  BY DEF NullEntries, Entries, CertificationInv, GoodInv, Unended, Good, Guarded, GoodVerdicts
<1>4. Alarms = failures /\ ~TooManyAlarms
  BY DEF TallyInv, Unended, Alarms, FailedNulls
<1> QED
  BY <1>1, <1>2, <1>3, <1>4 DEF RateHolds, TooManyAlarms

(* A certified run has put the check through all five case classes, for    *)
(* every check, every ladder, every number of realisations and every       *)
(* behaviour of the check (run_smoke_battery, run_full_battery).           *)
THEOREM CertifiedIsAlwaysConformant == Spec => []CertifiedIsConformant
<1>1. BatteryTypeOK /\ HistoryInv /\ CertificationInv /\ TallyInv => CertifiedIsConformant
  BY CertifiedControls, CertifiedLadders, CertifiedTwinsAndRate DEF CertifiedIsConformant
<1> QED
  BY <1>1, RunInvariantHolds, PTL

-----------------------------------------------------------------------------
(* A refusing step leaves in the history what it refused for.              *)
LEMMA ShownIsInTheHistory ==
  ASSUME BatteryTypeOK, NEW record, NEW verdict, NEW metrics,
         shown' = Append(shown, Entry(record, verdict, metrics))
  PROVE  Entry(record, verdict, metrics) \in Entries'
<1> DEFINE new == Entry(record, verdict, metrics)
<1>1. shown \in Seq(ShownEntries)
  BY DEF BatteryTypeOK
<1>2. shown' = Append(shown, new)
  OBVIOUS
<1> HIDE DEF new
<1>3. Len(shown) + 1 \in DOMAIN shown' /\ shown'[Len(shown) + 1] = new
  BY <1>1, <1>2
<1> QED
  BY <1>3 DEF Entries, new

LEMMA EvaluatedIsInTheHistory ==
  ASSUME BatteryTypeOK, NEW class \in Classes, NEW accused, NEW verdict \in Verdicts,
         Evaluate(class, accused, verdict), stage' = "refused"
  PROVE  /\ verdict \in accused /\ SameRun /\ stage = class /\ rung < Size(class)
         /\ \E e \in Entries' : /\ e.class = class /\ e.verdict = verdict
                                /\ e.record \in Presented(class, rung)
<1>1. PICK record \in Presented(class, rung) : Show(record, verdict)
  BY DEF Evaluate
<1>2. Entry(record, verdict, "same") \in Entries'
  BY <1>1, ShownIsInTheHistory DEF Show
<1>3. stage = class /\ rung < Size(class) /\ SameRun
  BY DEF Evaluate
<1>4. verdict \in accused
  BY DEF Evaluate, Classes
<1> QED
  BY <1>1, <1>2, <1>3, <1>4 DEF Entry

LEMMA RefusalsHaveCauses ==
  ASSUME BatteryTypeOK, HistoryInv, CertificationInv, TallyInv, Next, stage' = "refused"
  PROVE  RefusedForCause'
<1>0. SameRun
  BY StepShapes
<1>1. ASSUME RefuseInadmissible
      PROVE  \E e \in Entries' : e.class \in Guarded /\ ~Sees(e.record)'
  <2>1. PICK record : Inadmissible(record) /\ Show(record, "inadmissible")
    BY <1>1 DEF RefuseInadmissible
  <2>2. Entry(record, "inadmissible", "same") \in Entries'
    BY <2>1, ShownIsInTheHistory DEF Show
  <2> QED
    BY <1>0, <2>1, <2>2 DEF Inadmissible, Entry, Sees, SameRun
<1>2. ASSUME ShowNegative
      PROVE  \E name \in Iterated' : "PASS" \in VerdictsOn(NegativeControl(name))'
  <2>1. PICK e \in Entries' : e.verdict = "PASS" /\ e.record \in Presented("negatives", rung)
    BY <1>2, EvaluatedIsInTheHistory DEF ShowNegative, Classes
  <2>2. stage = "negatives" /\ rung < Size("negatives")
    BY <1>2 DEF ShowNegative, Evaluate
  <2>3. controls[rung + 1] \in Iterated
    <3>1. controls \in Seq(STRING) /\ rung \in Nat
      BY MappingsAssumption DEF BatteryTypeOK
    <3>2. rung + 1 \in DOMAIN controls
      BY <2>2, <3>1 DEF Size
    <3> QED
      BY <3>2 DEF Iterated
  <2>4. e.record = NegativeControl(controls[rung + 1])
    BY <2>1 DEF Presented
  <2> QED
    BY <1>0, <2>1, <2>3, <2>4, IteratedIsSteady DEF VerdictsOn, NegativeControl
<1>3. ASSUME NegativesDone
      PROVE  Iterated' # PrdControls
  BY <1>0, <1>3, IteratedIsSteady DEF NegativesDone, Goto
<1>4. ASSUME ShowPositive
      PROVE  VerdictsOn(PositiveControl)' \ {"PASS"} # {}
  <2>1. PICK class \in {"ladder_base", "gap_base"}, v \in Verdicts : Evaluate(class, Verdicts \ {"PASS"}, v)
    BY <1>4 DEF ShowPositive
  <2>2. PICK e \in Entries' : e.verdict # "PASS" /\ e.record = PositiveControl
    BY <2>1, EvaluatedIsInTheHistory DEF Classes, Presented
  <2>3. PositiveControl' = PositiveControl
    BY <1>0 DEF PositiveControl, SameRun
  <2> QED
    BY <2>2, <2>3 DEF VerdictsOn
<1>5. ASSUME ShowDecimated \/ ShowGapped
      PROVE  \E e \in Entries' : e.class \in {"ladder", "gaps"} /\ e.verdict \in Degraded
  <2>1. PICK class \in {"ladder", "gaps"}, v \in Verdicts : Evaluate(class, Degraded, v)
    BY <1>5 DEF ShowDecimated, ShowGapped
  <2> QED
    BY <2>1, EvaluatedIsInTheHistory DEF Classes
<1>6. ASSUME Irreproducible
      PROVE  \E e \in Entries' : e.verdict = "irreproducible"
  <2>1. Entry(Twin, "irreproducible", "same") \in Entries'
    BY <1>6, ShownIsInTheHistory DEF Irreproducible, Show
  <2> QED
    BY <2>1 DEF Entry
<1>7. ASSUME CompareTwins
      PROVE  \/ \E d, e \in Entries' : d.class = "twins" /\ e.class = "twins" /\ Result(d) # Result(e)
             \/ \E e \in Entries' : e.class = "twins" /\ e.metrics = "NaN"
  <2>1. stage = "twins" /\ rung = 2 /\ Entries' = Entries
    BY <1>7 DEF CompareTwins, Finished, Size, Entries
  <2>2. 2 <= Len(shown) /\ Len(shown) \in Nat
    BY <2>1 DEF CertificationInv, TwinsInv, BatteryTypeOK
  <2>3. /\ shown[Len(shown) - 0] \in Entries /\ shown[Len(shown) - 1] \in Entries
        /\ shown[Len(shown) - 0].class = "twins" /\ shown[Len(shown) - 1].class = "twins"
    <3>1. 0 \in 0..(rung - 1) /\ 1 \in 0..(rung - 1)
      BY <2>1
    <3>2. /\ shown[Len(shown) - 2 + 1 + 0].class = "twins"
          /\ shown[Len(shown) - 2 + 1 + 1].class = "twins"
      BY <2>1, <3>1 DEF CertificationInv, TwinsInv
    <3>3. Len(shown) - 2 + 1 + 0 = Len(shown) - 1 /\ Len(shown) - 2 + 1 + 1 = Len(shown) - 0
      BY <2>2
    <3>4. Len(shown) - 0 \in DOMAIN shown /\ Len(shown) - 1 \in DOMAIN shown
      BY <2>2 DEF BatteryTypeOK
    <3> QED
      BY <3>2, <3>3, <3>4 DEF Entries
  <2>4. Last(0) # Last(1) \/ Last(0)[2] = "NaN"
    BY <1>7 DEF CompareTwins, Goto
  <2>5. CASE Last(0) # Last(1)
    BY <2>1, <2>3, <2>5 DEF Last
  <2>6. CASE Last(0)[2] = "NaN"
    BY <2>1, <2>3, <2>6 DEF Last, Result
  <2> QED
    BY <2>4, <2>5, <2>6
<1>8. ASSUME ShowNull
      PROVE  \E e \in NullEntries' : e.verdict = "INCONCLUSIVE"
  BY <1>8, EvaluatedIsInTheHistory DEF ShowNull, Classes, NullEntries
<1>9. ASSUME AssertFar
      PROVE  Cardinality(NullEntries') = Realisations[tier'] /\ ~RateHolds'
  <2>1. stage = "null" /\ rung = Realisations[tier] /\ TooManyAlarms
    BY <1>9 DEF AssertFar, Finished, Size, Goto
  <2>2. Cardinality(NullEntries) = Realisations[tier] /\ Alarms = failures
    BY <2>1 DEF TallyInv, Unended, NullSoFar, Classes, Alarms, FailedNulls
  <2>3. /\ NullEntries' = NullEntries /\ Alarms' = Alarms
        /\ tier' = tier /\ check' = check
    BY <1>0, <1>9 DEF AssertFar, NullEntries, Alarms, Entries, SameRun
  <2> QED
    BY <2>1, <2>2, <2>3 DEF RateHolds, TooManyAlarms
<1>10. ~RaiseTooShort /\ ~EvaluationRaises /\ ~LadderDone /\ ~ShowTwin
  BY DEF RaiseTooShort, EvaluationRaises, LadderDone, ShowTwin, Goto
<1> QED
  BY <1>1, <1>2, <1>3, <1>4, <1>5, <1>6, <1>7, <1>8, <1>9, <1>10 DEF Next, RefusedForCause

LEMMA CausesAreKept ==
  ASSUME BatteryTypeOK, HistoryInv, CertificationInv, TallyInv, RefusedForCause, [Next]_vars
  PROVE  RefusedForCause'
<1>1. CASE UNCHANGED vars
  BY <1>1 DEF vars, RefusedForCause, Entries, Sees, Iterated, VerdictsOn, NegativeControl,
    PositiveControl, Result, NullEntries, RateHolds, Alarms
<1>2. CASE Next /\ stage' = "refused"
  BY <1>2, RefusalsHaveCauses
<1>3. CASE stage' # "refused"
  BY <1>3 DEF RefusedForCause
<1> QED
  BY <1>1, <1>2, <1>3

(* Every refusal of the battery has its cause in what the run has seen,    *)
(* for every check, every ladder, every number of realisations and every   *)
(* behaviour of the check (every raise in core/battery.py).                *)
THEOREM RefusalsAreForCause == Spec => []RefusedForCause
<1>1. Init => RefusedForCause
  BY DEF Init, RefusedForCause
<1> QED
  BY <1>1, CausesAreKept, RunInvariantHolds, PTL DEF Spec
-----------------------------------------------------------------------------
(* A run that was refused with every null decided was refused for its      *)
(* rate: nothing is refused between the last null and the comparison.      *)
DecidedNulls ==
  /\ Cardinality(NullEntries) = Realisations[tier]
  /\ \A e \in NullEntries : e.verdict \in {"PASS", "MARGINAL", "FAIL"}
FarInv == (stage = "refused" /\ DecidedNulls) => TooManyAlarms /\ Alarms = failures

LEMMA AlarmsAreBounded ==
  ASSUME BatteryTypeOK, Cardinality(NullEntries) = Realisations[tier]
  PROVE  Alarms \in 0..Realisations[tier]
<1>1. Realisations[tier] \in Nat
  BY RealisationsAssumption DEF BatteryTypeOK
<1>2. shown \in Seq(ShownEntries)
  BY DEF BatteryTypeOK
<1>3. IsFiniteSet(Entries)
  <2>1. Entries = {shown[i] : i \in 1..Len(shown)} /\ Len(shown) \in Nat
    BY <1>2 DEF Entries
  <2>2. IsFiniteSet(1..Len(shown))
    BY <2>1, FS_Interval
  <2> QED
    <3> DEFINE at == [i \in 1..Len(shown) |-> shown[i]]
    <3>1. at \in Surjection(1..Len(shown), Entries)
      BY <2>1 DEF Surjection
    <3> HIDE DEF at
    <3> QED
      BY <2>2, <3>1, FS_Surjection
<1>4. FailedNulls \in SUBSET NullEntries /\ NullEntries \in SUBSET Entries
  BY DEF FailedNulls, NullEntries
<1>5. IsFiniteSet(NullEntries)
  BY <1>3, <1>4, FS_Subset
<1>6. Cardinality(FailedNulls) \in Nat /\ Cardinality(FailedNulls) <= Cardinality(NullEntries)
  BY <1>4, <1>5, FS_Subset, FS_CardinalityType
<1>7. Alarms = Cardinality(FailedNulls)
  BY DEF Alarms, FailedNulls
<1> QED
  BY <1>1, <1>6, <1>7

LEMMA FarStep ==
  ASSUME BatteryTypeOK, TallyInv, FarInv, [Next]_vars
  PROVE  FarInv'
<1>1. CASE UNCHANGED vars
  BY <1>1 DEF vars, FarInv, DecidedNulls, NullEntries, Entries, TooManyAlarms, Alarms
<1>2. CASE Next
  <2> SUFFICES ASSUME stage' = "refused", DecidedNulls'
               PROVE  TooManyAlarms' /\ Alarms' = failures'
    BY DEF FarInv
  <2>1. SameRun /\ (ShowsAnEntry \/ Moves) /\ stage \in Classes
    BY <1>2, StepShapes DEF ShowsAnEntry, Appends, Moves
  <2>2. Realisations[tier'] \in Nat \ {0}
    BY <2>1, RealisationsAssumption DEF SameRun, BatteryTypeOK
  <2>3. CASE stage # "null"
    <3>1. IsFiniteSet(NullEntries) /\ Cardinality(NullEntries) = 0
      BY <2>1, <2>3 DEF TallyInv, Unended, NullSoFar, Classes
    <3>2. NullEntries = {}
      BY <3>1, FS_EmptySet
    <3>3. NullEntries' = {}
      <4>1. CASE Moves
        BY <3>2, <4>1 DEF NullEntries, Entries, Moves
      <4>2. CASE ShowsAnEntry
        <5>1. PICK record, verdict, metrics : Appends(record, verdict, metrics)
          BY <4>2 DEF ShowsAnEntry
        <5> DEFINE new == Entry(record, verdict, metrics)
        <5>2. shown \in Seq(ShownEntries) /\ shown' = Append(shown, new) /\ new.class # "null"
          BY <2>3, <5>1 DEF BatteryTypeOK, Appends, Entry
        <5> HIDE DEF new
        <5>3. \A i \in DOMAIN shown' : shown'[i] = new \/ (i \in DOMAIN shown /\ shown'[i] = shown[i])
          BY <5>2
        <5>4. \A i \in DOMAIN shown' : shown'[i].class # "null"
          BY <3>2, <5>2, <5>3 DEF NullEntries, Entries
        <5> QED
          BY <5>4 DEF NullEntries, Entries
      <4> QED
        BY <2>1, <4>1, <4>2
    <3>4. Cardinality(NullEntries') = 0
      BY <3>3, FS_EmptySet
    <3> QED
      BY <2>2, <3>4 DEF DecidedNulls
  <2>4. CASE stage = "null"
    <3>1. ~RefuseInadmissible
      <4> SUFFICES ASSUME RefuseInadmissible PROVE FALSE
        OBVIOUS
      <4>1. PICK record : Show(record, "inadmissible")
        BY DEF RefuseInadmissible
      <4>2. Entry(record, "inadmissible", "same") \in NullEntries'
        BY <2>4, <4>1, ShownIsInTheHistory DEF Show, NullEntries, Entry
      <4> QED
        BY <4>2 DEF DecidedNulls, Entry
    <3>2. ~ShowNull
      <4> SUFFICES ASSUME ShowNull PROVE FALSE
        OBVIOUS
      <4>1. \E e \in NullEntries' : e.verdict = "INCONCLUSIVE"
        BY EvaluatedIsInTheHistory DEF ShowNull, Classes, NullEntries
      <4> QED
        BY <4>1 DEF DecidedNulls
    <3>3. AssertFar
      BY <1>2, <2>4, <3>1, <3>2 DEF Next, ShowNegative, NegativesDone, ShowPositive, ShowDecimated,
        RaiseTooShort, ShowGapped, LadderDone, Irreproducible, ShowTwin, CompareTwins,
        EvaluationRaises, Evaluate, Finished, Goto
    <3>4. TooManyAlarms /\ shown' = shown /\ failures' = failures
      BY <3>3 DEF AssertFar, Goto, NotMeasuring
    <3>5. Alarms = failures
      BY <2>1 DEF TallyInv, Unended, Alarms, FailedNulls
    <3> QED
      BY <2>1, <3>4, <3>5 DEF TooManyAlarms, Alarms, NullEntries, Entries, SameRun
  <2> QED
    BY <2>3, <2>4
<1> QED
  BY <1>1, <1>2

LEMMA FarHolds == Spec => [](BatteryTypeOK /\ TallyInv /\ FarInv)
<1>1. Init => FarInv
  BY DEF Init, FarInv
<1> QED
  BY <1>1, FarStep, RunInvariantHolds, PTL DEF Spec

LEMMA UnlikelyIsInconsistent ==
  ASSUME BatteryTypeOK, tier = "full", Cardinality(NullEntries) = Realisations[tier]
  PROVE  Unlikely <=> Inconsistent(Alarms, Realisations[tier], check.declared)
<1> DEFINE n == Realisations["full"]
<1>1. n \in Nat /\ check.declared \in 1..(RateScale - 1) /\ Alarms \in 0..n
  BY RealisationsAssumption, ChecksAssumption, AlarmsAreBounded DEF BatteryTypeOK, Tiers
<1>2. AsManyAlarms[check.declared][Alarms] = Cardinality(AsMany(n, check.declared, Alarms))
  <2> HIDE DEF n
  <2>1. AsManyAlarms[check.declared] = [a \in 0..n |-> Cardinality(AsMany(n, check.declared, a))]
    BY <1>1 DEF AsManyAlarms, n
  <2> QED
    BY <1>1, <2>1
<1>3. Unlikely <=> AlphaScale * Cardinality(AsMany(n, check.declared, Alarms)) < Alpha * Cardinality(Outcomes(n))
  BY <1>2 DEF Unlikely
<1> HIDE DEF n
<1>4. Unlikely <=> Inconsistent(Alarms, n, check.declared)
  BY <1>1, <1>3, BinomialTestIsExact
<1> QED
  BY <1>4 DEF n

(* The full tier refuses a declared rate exactly when a check that has it  *)
(* raises so many alarms with a probability below alpha, for every number  *)
(* of realisations, every rate and every alpha: the tally, the cumulative  *)
(* sum of the binomial formula, the strict comparisons and the returned k  *)
(* fit together (red_noise_false_alarms, assert_full_far over              *)
(* _binomial_critical).                                                    *)
THEOREM FullTierIsAlwaysExact == Spec => []FullTierIsExact
<1>1. ASSUME BatteryTypeOK, TallyInv, FarInv
      PROVE  FullTierIsExact
  <2> SUFFICES ASSUME tier = "full"
               PROVE  /\ stage = "certified" => ~Unlikely
                      /\ stage = "refused" /\ DecidedNulls => Unlikely
    BY DEF FullTierIsExact, DecidedNulls
  <2>1. ASSUME stage = "certified" PROVE ~Unlikely
    <3>1. /\ Cardinality(NullEntries) = Realisations[tier] /\ Alarms = failures /\ ~TooManyAlarms
      BY <1>1, <2>1 DEF TallyInv, Unended, NullSoFar, Classes, Alarms, FailedNulls
    <3> QED
      BY <1>1, <3>1, UnlikelyIsInconsistent DEF TooManyAlarms
  <2>2. ASSUME stage = "refused", DecidedNulls PROVE Unlikely
    BY <1>1, <2>2, UnlikelyIsInconsistent DEF TooManyAlarms, FarInv, DecidedNulls
  <2> QED
    BY <2>1, <2>2
<1> QED
  BY <1>1, FarHolds, PTL

-----------------------------------------------------------------------------
(* The refinement of Certificate.  What a run has shown is the sheet; a    *)
(* step that shows a record answers a question (AppendingAsks), one that   *)
(* shows none goes on unseen or judges.                                    *)
LEMMA PapersAreSteady ==
  ASSUME SameRun
  PROVE  Paper' = Paper /\ Terms' = Terms
<1>1. \A class, index : Size(class)' = Size(class) /\ Presented(class, index)' = Presented(class, index)
  BY PlacesAreSteady
<1>2. Questions' = Questions
  BY <1>1, Zenon DEF Questions
<1>3. check' = check
  BY DEF SameRun
<1>4. Paper' = Paper
  BY <1>1, <1>2, <1>3, Zenon DEF Paper, Sees
<1>5. Terms' = Terms
  BY <1>3, IteratedIsSteady DEF Terms, SameRun
<1> QED
  BY <1>4, <1>5

LEMMA InitIsOpen == Init => CE!Init
BY DEF Init, CE!Init, Entries, Classes

(* Wherever the run stands in a case class there is a question.            *)
LEMMA PlacesAreQuestions ==
  ASSUME BatteryTypeOK, NEW class \in Classes, NEW index
  PROVE  <<class, index>> \in Questions <=> index \in Nat /\ index < Size(class)
<1>1. Size(class) \in Nat
  BY SizesAreNatural
<1>2. <<class, index>> \in Questions <=> index \in 0..(Size(class) - 1)
  BY DEF Questions
<1> QED
  BY <1>1, <1>2

LEMMA PaperIsPresented ==
  ASSUME NEW q \in Questions
  PROVE  /\ Paper[q].about = Presented(q[1], q[2])
         /\ \A r : r \in Paper[q].barred <=> r \in Presented(q[1], q[2]) /\ q[1] \in Guarded /\ ~Sees(r)
BY DEF Paper

LEMMA DomainOfPaper == DOMAIN Paper = Questions
BY DEF Paper

LEMMA UnwelcomeOfClasses ==
  /\ \A v \in Verdicts :
       /\ v \in Unwelcome["negatives"] <=> v \in {"PASS"}
       /\ v \in Unwelcome["ladder_base"] <=> v \in Verdicts \ {"PASS"}
       /\ v \in Unwelcome["gap_base"] <=> v \in Verdicts \ {"PASS"}
       /\ v \in Unwelcome["ladder"] <=> v \in Degraded
       /\ v \in Unwelcome["gaps"] <=> v \in Degraded
       /\ v \notin Unwelcome["twins"]
       /\ v \in Unwelcome["null"] <=> v \in {"INCONCLUSIVE"}
  /\ \A class \in Classes : {"inadmissible", "irreproducible"} \subseteq Unwelcome[class]
BY DEF Unwelcome, Degraded, Verdicts, Classes

LEMMA PrerequisitesAreAsked ==
  ASSUME BatteryTypeOK, CertificationInv, stage \in Classes
  PROVE  Prerequisites[stage] \subseteq CE!Asked
<1>1. ASSUME NEW base \in {"ladder_base", "gap_base"}, Rank(base) < Rank(stage)
      PROVE  <<base, 0>> \in CE!Asked
  <2>1. base \in Classes /\ 0 \in Nat /\ 0 < Size(base) /\ Past(base, 0)
    BY <1>1 DEF Classes, Size, Past
  <2>2. PICK i \in DOMAIN shown : shown[i].class = base /\ shown[i].rung = 0
    BY <2>1 DEF CertificationInv, CoverInv
  <2>3. shown[i] \in Entries
    BY DEF Entries
  <2> QED
    BY <2>2, <2>3 DEF CE!Asked, CE!Question
<1>2. CASE stage = "ladder"
  <2>1. Rank("ladder_base") < Rank(stage)
    BY <1>2 DEF Rank
  <2>2. Prerequisites[stage] = {<<"ladder_base", 0>>}
    BY <1>2 DEF Prerequisites, Classes
  <2> QED
    BY <1>1, <2>1, <2>2
<1>3. CASE stage = "gaps"
  <2>1. Rank("gap_base") < Rank(stage)
    BY <1>3 DEF Rank
  <2>2. Prerequisites[stage] = {<<"gap_base", 0>>}
    BY <1>3 DEF Prerequisites, Classes
  <2> QED
    BY <1>1, <2>1, <2>2
<1>4. CASE stage \notin {"ladder", "gaps"}
  <2>1. Prerequisites[stage] = {}
    BY <1>4 DEF Prerequisites, Classes
  <2> QED
    BY <2>1
<1> QED
  BY <1>2, <1>3, <1>4

LEMMA AppendingAsks ==
  ASSUME BatteryTypeOK, HistoryInv, CertificationInv, SameRun,
         NEW record, NEW verdict, NEW metrics, Appends(record, verdict, metrics),
         stage' = IF verdict \in Unwelcome[stage] THEN "refused" ELSE stage,
         verdict = "inadmissible" <=> Inadmissible(record)
  PROVE  CE!Ask
<1> DEFINE new == Entry(record, verdict, metrics)
           place == <<stage, rung>>
<1>1. /\ stage \in Classes /\ rung \in Nat /\ rung < Size(stage)
      /\ record \in Presented(stage, rung)
  BY DEF Appends, BatteryTypeOK
<1>2. /\ new.class = stage /\ new.rung = rung /\ new.record = record /\ new.verdict = verdict
      /\ CE!Question(new) = place
  BY DEF Entry, CE!Question
<1>3. new \notin Entries /\ Entries' = Entries \cup {new}
  BY NewEntriesAreNew
<1>4. place \in DOMAIN Paper
  BY <1>1, PlacesAreQuestions, DomainOfPaper
<1>5. place \notin CE!Asked
  <2>1. ASSUME NEW i \in DOMAIN shown, shown[i].class = stage, shown[i].rung = rung
        PROVE  FALSE
    <3>1. Precedes(shown[i], stage, rung)
      BY <1>1 DEF HistoryInv
    <3>2. Rank(stage) \in 1..7
      BY <1>1, RanksOrder
    <3> QED
      BY <1>1, <2>1, <3>1, <3>2 DEF Precedes
  <2> QED
    BY <2>1 DEF CE!Asked, CE!Question, Entries
<1>6. /\ record \in Paper[place].about
      /\ verdict = "inadmissible" <=> record \in Paper[place].barred
  BY <1>1, <1>4, PaperIsPresented, DomainOfPaper DEF Inadmissible, Sees
<1>7. Prerequisites[new.class] \subseteq CE!Asked
  BY <1>1, <1>2, PrerequisitesAreAsked
<1>8. Paper' = Paper /\ Terms' = Terms
  BY PapersAreSteady
<1>9. (IF stage' \in Classes THEN "open" ELSE stage') = IF verdict \in Unwelcome[new.class] THEN "refused" ELSE "open"
  BY <1>1, <1>2 DEF Classes
<1> HIDE DEF new, place
<1> QED
  BY <1>1, <1>2, <1>3, <1>4, <1>5, <1>6, <1>7, <1>8, <1>9 DEF CE!Ask

LEMMA EvaluatingAsks ==
  ASSUME BatteryTypeOK, HistoryInv, CertificationInv,
         NEW class \in Classes, NEW accused, NEW verdict \in Verdicts,
         Evaluate(class, accused, verdict), verdict \in accused <=> verdict \in Unwelcome[class]
  PROVE  CE!Ask
<1>1. PICK record \in Presented(class, rung) : ~Inadmissible(record) /\ Show(record, verdict)
  BY DEF Evaluate
<1>2. stage = class /\ rung < Size(stage) /\ SameRun
  BY DEF Evaluate
<1>3. Appends(record, verdict, "same")
  BY <1>1, <1>2 DEF Evaluate, Appends, Show, Goto
<1>4. stage' = IF verdict \in Unwelcome[stage] THEN "refused" ELSE stage
  BY <1>2 DEF Evaluate, Goto
<1>5. verdict # "inadmissible"
  BY DEF Verdicts
<1> QED
  BY <1>1, <1>2, <1>3, <1>4, <1>5, AppendingAsks

LEMMA ShowingAsks ==
  ASSUME BatteryTypeOK, HistoryInv, CertificationInv,
         \/ RefuseInadmissible \/ ShowNegative \/ ShowPositive \/ ShowDecimated \/ ShowGapped
         \/ Irreproducible \/ ShowTwin \/ ShowNull
  PROVE  CE!Ask
<1>1. CASE RefuseInadmissible
  <2>1. PICK record \in Presented(stage, rung) : Inadmissible(record) /\ Show(record, "inadmissible")
    BY <1>1 DEF RefuseInadmissible
  <2>2. Appends(record, "inadmissible", "same") /\ SameRun /\ stage \in Classes
    BY <1>1, <2>1 DEF RefuseInadmissible, Appends, Show, Guarded, Goto, Classes
  <2>3. stage' = IF "inadmissible" \in Unwelcome[stage] THEN "refused" ELSE stage
    BY <1>1, <2>2, UnwelcomeOfClasses DEF RefuseInadmissible, Goto
  <2> QED
    BY <2>1, <2>2, <2>3, AppendingAsks
<1>2. CASE ShowNegative
  BY <1>2, EvaluatingAsks, UnwelcomeOfClasses DEF ShowNegative, Classes
<1>3. CASE ShowPositive
  BY <1>3, EvaluatingAsks, UnwelcomeOfClasses DEF ShowPositive, Classes
<1>4. CASE ShowDecimated
  BY <1>4, EvaluatingAsks, UnwelcomeOfClasses DEF ShowDecimated, Classes
<1>5. CASE ShowGapped
  BY <1>5, EvaluatingAsks, UnwelcomeOfClasses DEF ShowGapped, Classes
<1>6. CASE Irreproducible
  <2>1. Appends(Twin, "irreproducible", "same") /\ SameRun /\ stage = "twins"
    BY <1>6 DEF Irreproducible, Appends, Presented, Show, Size, Goto, Classes
  <2>2. stage' = IF "irreproducible" \in Unwelcome[stage] THEN "refused" ELSE stage
    BY <1>6, <2>1, UnwelcomeOfClasses DEF Irreproducible, Goto, Classes
  <2>3. ~Inadmissible(Twin)
    BY <2>1 DEF Inadmissible, Guarded
  <2> QED
    BY <2>1, <2>2, <2>3, AppendingAsks
<1>7. CASE ShowTwin
  <2>1. PICK v \in Verdicts, metrics \in {"same", "other", "NaN"} :
          shown' = Append(shown, Entry(Twin, v, metrics))
    BY <1>7 DEF ShowTwin, Answers, Verdicts
  <2>2. Appends(Twin, v, metrics) /\ SameRun /\ stage = "twins" /\ stage' = stage
    BY <1>7, <2>1 DEF ShowTwin, Appends, Presented, Classes
  <2>3. v # "inadmissible" /\ ~Inadmissible(Twin) /\ v \notin Unwelcome[stage]
    BY <2>2, UnwelcomeOfClasses DEF Inadmissible, Guarded, Verdicts
  <2> QED
    BY <2>2, <2>3, AppendingAsks
<1>8. CASE ShowNull
  BY <1>8, EvaluatingAsks, UnwelcomeOfClasses DEF ShowNull, Classes
<1> QED
  BY <1>1, <1>2, <1>3, <1>4, <1>5, <1>6, <1>7, <1>8

(* A class that is done has had all its questions answered.                *)
LEMMA DoneIsCompleted ==
  ASSUME BatteryTypeOK, CertificationInv, NEW class \in Classes,
         stage \in Classes, Rank(class) < Rank(stage) \/ Finished(class)
  PROVE  CE!Completed(class)
<1> SUFFICES ASSUME NEW q \in Questions, q[1] = class
             PROVE  q \in CE!Asked
  BY DomainOfPaper DEF CE!Completed
<1>1. PICK index \in 0..(Size(class) - 1) : q = <<class, index>>
  BY DEF Questions
<1>2. Size(class) \in Nat
  BY SizesAreNatural
<1>3. index \in Nat /\ index < Size(class)
  BY <1>1, <1>2
<1>4. Past(class, index)
  BY <1>3 DEF Past, Finished
<1>5. PICK i \in DOMAIN shown : shown[i].class = class /\ shown[i].rung = index
  BY <1>3, <1>4 DEF CertificationInv, CoverInv
<1>6. shown[i] \in Entries
  BY DEF Entries
<1> QED
  BY <1>1, <1>5, <1>6 DEF CE!Asked, CE!Question

LEMMA OutcomeIsOpen ==
  ASSUME stage \in Classes, UNCHANGED shown, SameRun
  PROVE  /\ Entries' = Entries /\ Paper' = Paper /\ Terms' = Terms
         /\ stage' \in Classes => UNCHANGED CE!certificateVars
         /\ stage' = "refused" /\ (\/ ~Terms.whole
                                   \/ CE!Completed("twins") /\ (~CE!Alike \/ CE!Incomparable)
                                   \/ CE!Completed("null") /\ ~Tolerates(Terms.test, CE!AlarmsRaised))
              => CE!Judge
         /\ stage' = "crashed" => CE!Judge
<1>1. Entries' = Entries /\ Paper' = Paper /\ Terms' = Terms
  BY PapersAreSteady DEF Entries
<1>2. stage' \in {"refused", "crashed"} => stage' \notin Classes
  BY DEF Classes
<1> QED
  BY <1>1, <1>2 DEF CE!certificateVars, CE!Judge, CE!Refuse, CE!Crash

LEMMA TwinsAreCompared ==
  ASSUME BatteryTypeOK, HistoryInv, CertificationInv, CompareTwins, stage' = "refused"
  PROVE  ~CE!Alike \/ CE!Incomparable
<1>1. stage = "twins" /\ rung = 2
  BY DEF CompareTwins, Finished, Size
<1>2. Len(shown) \in Nat /\ 2 <= Len(shown)
  BY <1>1 DEF CertificationInv, TwinsInv, BatteryTypeOK
<1>3. \A back \in {0, 1} : /\ shown[Len(shown) - back] \in Entries
                           /\ shown[Len(shown) - back].class = "twins"
  <2>1. 0 \in 0..(rung - 1) /\ 1 \in 0..(rung - 1)
    BY <1>1
  <2>2. /\ shown[Len(shown) - 2 + 1 + 0].class = "twins"
        /\ shown[Len(shown) - 2 + 1 + 1].class = "twins"
    BY <1>1, <2>1 DEF CertificationInv, TwinsInv
  <2>3. Len(shown) - 2 + 1 + 0 = Len(shown) - 1 /\ Len(shown) - 2 + 1 + 1 = Len(shown) - 0
    BY <1>2
  <2>4. Len(shown) - 0 \in DOMAIN shown /\ Len(shown) - 1 \in DOMAIN shown
    BY <1>2 DEF BatteryTypeOK
  <2> QED
    BY <2>2, <2>3, <2>4 DEF Entries
<1>4. Last(0) # Last(1) \/ Last(0)[2] = "NaN"
  BY DEF CompareTwins, Goto
<1> DEFINE d == shown[Len(shown) - 0]
           e == shown[Len(shown) - 1]
<1>5. d \in CE!Of("twins") /\ e \in CE!Of("twins")
  BY <1>3 DEF CE!Of
<1>6. Last(0) = <<d.verdict, d.metrics>> /\ Last(1) = <<e.verdict, e.metrics>>
  BY DEF Last, Result
<1> HIDE DEF d, e
<1> QED
  BY <1>4, <1>5, <1>6 DEF CE!Alike, CE!Incomparable

LEMMA AlarmsOfTheSheet == CE!AlarmsRaised = Alarms
<1>1. {e \in CE!Of("null") : e.verdict = "FAIL"} = {e \in NullEntries : e.verdict = "FAIL"}
  BY DEF CE!Of, NullEntries
<1> QED
  BY <1>1, Zenon DEF CE!AlarmsRaised, Alarms, CE!Cardinality, Cardinality

LEMMA ToleratesIsTheTier ==
  ASSUME BatteryTypeOK, NEW k, Alarms = failures, k = failures
  PROVE  Tolerates(Terms.test, k) <=> ~TooManyAlarms
BY DEF Tolerates, Terms, TooManyAlarms, BatteryTypeOK, Tiers

LEMMA RunStepsAreExaminationSteps ==
  ASSUME BatteryTypeOK, HistoryInv, CertificationInv, TallyInv, Next
  PROVE  CE!Next \/ UNCHANGED CE!certificateVars
<1> USE DEF CE!Next
<1>0. SameRun
  BY StepShapes
<1>1. CASE NegativesDone
  <2>1. stage \in Classes /\ UNCHANGED shown
    BY <1>1 DEF NegativesDone, Finished, Classes
  <2>2. stage' \in Classes \/ (stage' = "refused" /\ ~Terms.whole)
    BY <1>1 DEF NegativesDone, Goto, Classes, Terms
  <2> QED
    BY <1>0, <2>1, <2>2, OutcomeIsOpen
<1>2. CASE LadderDone
  <2>1. stage \in Classes /\ UNCHANGED shown /\ stage' \in Classes
    BY <1>2 DEF LadderDone, Finished, Goto, Classes
  <2> QED
    BY <1>0, <2>1, OutcomeIsOpen
<1>3. CASE RaiseTooShort \/ EvaluationRaises
  <2>1. stage \in Classes /\ UNCHANGED shown /\ stage' = "crashed"
    BY <1>3 DEF RaiseTooShort, EvaluationRaises, Goto, Classes
  <2> QED
    BY <1>0, <2>1, OutcomeIsOpen
<1>4. CASE CompareTwins
  <2>1. stage = "twins" /\ stage \in Classes /\ UNCHANGED shown /\ Finished("twins")
    BY <1>4 DEF CompareTwins, Finished, Classes
  <2>2. stage' = "refused" \/ stage' \in Classes
    BY <1>4 DEF CompareTwins, Goto, Classes
  <2>3. CE!Completed("twins")
    BY <2>1, DoneIsCompleted
  <2> QED
    BY <1>0, <1>4, <2>1, <2>2, <2>3, TwinsAreCompared, OutcomeIsOpen
<1>5. CASE AssertFar
  <2>1. stage = "null" /\ stage \in Classes /\ UNCHANGED shown /\ Finished("null")
    BY <1>5 DEF AssertFar, Finished, Classes
  <2>2. stage' = IF TooManyAlarms THEN "refused" ELSE "certified"
    BY <1>5 DEF AssertFar, Goto
  <2>3. CE!Completed("null")
    BY <2>1, DoneIsCompleted
  <2>4. Alarms = failures
    BY <2>1 DEF TallyInv, Unended, Alarms, FailedNulls
  <2>5. Tolerates(Terms.test, CE!AlarmsRaised) <=> ~TooManyAlarms
    BY <2>4, AlarmsOfTheSheet, ToleratesIsTheTier
  <2>6. CASE TooManyAlarms
    BY <1>0, <2>1, <2>2, <2>3, <2>5, <2>6, OutcomeIsOpen
  <2>7. CASE ~TooManyAlarms
    <3>1. DOMAIN Paper \subseteq CE!Asked
      <4> SUFFICES ASSUME NEW q \in Questions
                   PROVE  q \in CE!Asked
        BY DomainOfPaper
      <4>1. PICK class \in Classes : q[1] = class
        BY DEF Questions
      <4>2. Rank(class) < Rank(stage) \/ class = stage
        <5>1. Rank(stage) = 7
          BY <2>1 DEF Rank
        <5> QED
          BY <2>1, <5>1, RanksOrder
      <4>3. CE!Completed(class)
        BY <2>1, <4>2, DoneIsCompleted
      <4> QED
        BY <4>1, <4>3, DomainOfPaper DEF CE!Completed
    <3>2. Terms.whole
      BY <2>1 DEF CertificationInv, ControlsInv, Unended, Terms
    <3>3. CE!Alike
      BY <2>1 DEF CertificationInv, TwinsInv, CE!Alike, CE!Of, Entries, Result
    <3>4. Entries' = Entries /\ Paper' = Paper /\ Terms' = Terms /\ stage' = "certified" /\ stage' \notin Classes
      BY <1>0, <2>1, <2>2, <2>7, OutcomeIsOpen DEF Classes
    <3> QED
      BY <2>1, <2>5, <2>7, <3>1, <3>2, <3>3, <3>4 DEF CE!Judge, CE!Certify
  <2> QED
    BY <2>6, <2>7
<1>6. CASE \/ RefuseInadmissible \/ ShowNegative \/ ShowPositive \/ ShowDecimated \/ ShowGapped
           \/ Irreproducible \/ ShowTwin \/ ShowNull
  BY <1>6, ShowingAsks
<1> QED
  BY <1>1, <1>2, <1>3, <1>4, <1>5, <1>6 DEF Next

(* A run of the battery, step by step, is an examination as Certificate    *)
(* describes it, for every check, every mapping of controls, every pair of *)
(* ladders, every number of realisations and every behaviour of the check  *)
(* (run_smoke_battery, run_full_battery).                                  *)
THEOREM BatteryImplementsCertificate == Spec => ImplementsCertificate
<1>1. BatteryTypeOK /\ HistoryInv /\ CertificationInv /\ TallyInv /\ [Next]_vars
        => [CE!Next]_CE!certificateVars
  <2> SUFFICES ASSUME BatteryTypeOK, HistoryInv, CertificationInv, TallyInv, [Next]_vars
               PROVE  CE!Next \/ UNCHANGED CE!certificateVars
    OBVIOUS
  <2>1. CASE Next
    BY <2>1, RunStepsAreExaminationSteps
  <2>2. CASE UNCHANGED vars
    <3>1. SameRun /\ UNCHANGED <<stage, shown>>
      BY <2>2 DEF vars, SameRun
    <3> QED
      BY <3>1, PapersAreSteady DEF CE!certificateVars, Entries
  <2> QED
    BY <2>1, <2>2
<1> QED
  BY <1>1, InitIsOpen, RunInvariantHolds, PTL DEF Spec, ImplementsCertificate, CE!Spec

-----------------------------------------------------------------------------
(* What the rules of an examination keep true, whoever follows them.       *)
LEMMA AskingIsAnswered ==
  ASSUME CE!Answered, CE!Ask
  PROVE  CE!Answered'
<1>1. PICK entry \in Entries' \ Entries :
        /\ Entries' = Entries \cup {entry}
        /\ CE!Question(entry) \in DOMAIN Paper \ CE!Asked /\ Prerequisites[entry.class] \subseteq CE!Asked
        /\ entry.record \in Paper[CE!Question(entry)].about
        /\ (entry.verdict = "inadmissible") <=> entry.record \in Paper[CE!Question(entry)].barred
        /\ (IF stage' \in Classes THEN "open" ELSE stage')
             = IF entry.verdict \in Unwelcome[entry.class] THEN "refused" ELSE "open"
  BY DEF CE!Ask
<1>2. Paper' = Paper /\ Terms' = Terms
  BY DEF CE!Ask
<1>3. /\ \A e : CE!Question(e)' = CE!Question(e)
      /\ Unwelcome' = Unwelcome /\ Prerequisites' = Prerequisites /\ Classes' = Classes
  BY DEF CE!Question, Unwelcome, Prerequisites, Classes
<1>4. CE!Asked \subseteq CE!Asked'
  BY <1>1, <1>3 DEF CE!Asked
<1>5. \A e \in Entries : CE!Question(e) # CE!Question(entry)
  BY <1>1 DEF CE!Asked
<1>6. (IF stage \in Classes THEN "open" ELSE stage) = "open"
  BY DEF CE!Ask
<1> QED
  BY <1>1, <1>2, <1>3, <1>4, <1>5, <1>6 DEF CE!Answered

(* A certificate of the battery is earned: this follows from the rules of  *)
(* the examination alone, which the run keeps to (run_smoke_battery,       *)
(* run_full_battery).                                                      *)
THEOREM CertificatesAreEarned == Spec => []CE!CertificateIsEarned
<1>1. CE!Init => CE!CertificateIsEarned
  BY DEF CE!Init, CE!CertificateIsEarned, CE!Answered
<1>2. CE!CertificateIsEarned /\ [CE!Next]_CE!certificateVars => CE!CertificateIsEarned'
  <2> SUFFICES ASSUME CE!CertificateIsEarned, [CE!Next]_CE!certificateVars
               PROVE  CE!CertificateIsEarned'
    OBVIOUS
  <2>1. CASE CE!Ask
    <3>1. CE!Answered'
      BY <2>1, AskingIsAnswered DEF CE!CertificateIsEarned
    <3>2. (IF stage' \in Classes THEN "open" ELSE stage') # "certified"
      BY <2>1 DEF CE!Ask
    <3> QED
      BY <3>1, <3>2 DEF CE!CertificateIsEarned
  <2>2. CASE CE!Judge
    <3>1. Paper' = Paper /\ Terms' = Terms /\ Entries' = Entries
      BY <2>2 DEF CE!Judge
    <3>2. CE!Answered'
      <4>1. (IF stage \in Classes THEN "open" ELSE stage) = "open"
        BY <2>2 DEF CE!Judge
      <4> QED
        BY <3>1, <4>1 DEF CE!CertificateIsEarned, CE!Answered, CE!Asked, CE!Question
    <3>3. /\ CE!Asked' = CE!Asked /\ (CE!Alike' <=> CE!Alike)
          /\ CE!AlarmsRaised' = CE!AlarmsRaised
      BY <3>1 DEF CE!Asked, CE!Question, CE!Alike, CE!Of, CE!AlarmsRaised
    <3>4. Tolerates(Terms.test, CE!AlarmsRaised)' <=> Tolerates(Terms.test, CE!AlarmsRaised)
      BY <3>1, <3>3 DEF Tolerates
    <3>5. CE!Asked \subseteq DOMAIN Paper
      BY DEF CE!CertificateIsEarned, CE!Answered, CE!Asked
    <3>6. CASE CE!Certify
      BY <3>1, <3>2, <3>3, <3>4, <3>5, <3>6 DEF CE!Certify, CE!CertificateIsEarned
    <3>7. CASE CE!Refuse \/ CE!Crash
      BY <3>2, <3>7 DEF CE!Refuse, CE!Crash, CE!CertificateIsEarned
    <3> QED
      BY <2>2, <3>6, <3>7 DEF CE!Judge
  <2>3. CASE UNCHANGED CE!certificateVars
    BY <2>3 DEF CE!certificateVars, CE!CertificateIsEarned, CE!Answered,
      CE!Asked, CE!Question, CE!Alike, CE!Of, CE!AlarmsRaised
  <2> QED
    BY <2>1, <2>2, <2>3 DEF CE!Next
<1> QED
  BY <1>1, <1>2, BatteryImplementsCertificate, PTL DEF ImplementsCertificate, CE!Spec
-----------------------------------------------------------------------------
(* The records themselves.                                                 *)
LEMMA ProductsOrder ==
  ASSUME NEW a \in Int, NEW b \in Int, NEW f \in Nat \ {0}
  PROVE  a < b <=> a * f < b * f
<1>1. a < b => a * f < b * f
  <2> SUFFICES ASSUME a < b PROVE a * f < b * f
    OBVIOUS
  <2>1. (b - a) * f >= f
    OBVIOUS
  <2>2. (b - a) * f = b * f - a * f
    OBVIOUS
  <2> QED
    BY <2>1, <2>2
<1>2. b <= a => b * f <= a * f
  <2> SUFFICES ASSUME b <= a PROVE b * f <= a * f
    OBVIOUS
  <2>1. (a - b) * f >= 0
    OBVIOUS
  <2>2. (a - b) * f = a * f - b * f
    OBVIOUS
  <2> QED
    BY <2>1, <2>2
<1>3. a * f \in Int /\ b * f \in Int
  OBVIOUS
<1> QED
  BY <1>1, <1>2, <1>3

(* The slice [::factor] has the points whose place is a multiple of the    *)
(* factor: as many as Strided says.                                        *)
LEMMA SliceIsEveryFactorth ==
  ASSUME NEW n \in Nat, NEW factor \in Nat \ {0}, NEW i \in Int
  PROVE  i \in Points(Strided(n, factor)) <=> 0 <= i /\ i * factor < n
<1> DEFINE top == n + factor - 1
           count == top \div factor
<1>1. top \in Nat
  OBVIOUS
<1> HIDE DEF top
<1>2. /\ count \in Nat /\ top % factor \in 0..(factor - 1)
      /\ top = factor * count + (top % factor)
  BY <1>1
<1>3. Strided(n, factor) = count
  BY DEF Strided, top
<1> HIDE DEF count
<1>4. count * factor <= n + factor - 1 /\ n <= count * factor
  <2>1. factor * count = count * factor /\ count * factor \in Nat
    BY <1>2
  <2> QED
    BY <1>2, <2>1 DEF top
<1>5. i < count => i * factor < n
  <2> SUFFICES ASSUME i < count PROVE i * factor < n
    OBVIOUS
  <2>1. i * factor < (i + 1) * factor /\ (i + 1) * factor = i * factor + factor
    OBVIOUS
  <2>2. i + 1 <= count
    BY <1>2
  <2>3. ~(count * factor < (i + 1) * factor)
    BY <1>2, <2>2, ProductsOrder
  <2>4. i * factor \in Int /\ count * factor \in Int /\ (i + 1) * factor \in Int
    BY <1>2
  <2> QED
    BY <1>4, <2>1, <2>3, <2>4
<1>6. i >= count => i * factor >= n
  <2> SUFFICES ASSUME i >= count PROVE i * factor >= n
    OBVIOUS
  <2>1. ~(i * factor < count * factor)
    BY <1>2, ProductsOrder
  <2>2. i * factor \in Int /\ count * factor \in Int
    BY <1>2
  <2> QED
    BY <1>4, <2>1, <2>2
<1>7. i * factor \in Int
  OBVIOUS
<1> QED
  BY <1>2, <1>3, <1>5, <1>6, <1>7 DEF Points

(* What the ladders do to a record: it stays a record of its kind, and a   *)
(* record is on its grid.                                                  *)
Gridded(record) ==
  /\ record \in Records /\ record.n >= 1 /\ record.held \subseteq Points(record.n)

LEMMA HeldIsFinite ==
  ASSUME NEW record, Gridded(record)
  PROVE  IsFiniteSet(record.held) /\ NValid(record) \in 0..record.n
<1>1. record.n \in Nat
  BY DEF Gridded, Records
<1>2. IsFiniteSet(Points(record.n)) /\ Cardinality(Points(record.n)) = record.n
  <2>1. IsFiniteSet(0..(record.n - 1))
    BY <1>1, FS_Interval
  <2>2. Cardinality(0..(record.n - 1)) = record.n
    BY <1>1, FS_Interval
  <2> QED
    BY <2>1, <2>2 DEF Points
<1>3. IsFiniteSet(record.held) /\ Cardinality(record.held) <= record.n
  BY <1>2, FS_Subset DEF Gridded
<1>4. Cardinality(record.held) \in Nat
  BY <1>3, FS_CardinalityType
<1> QED
  BY <1>1, <1>3, <1>4 DEF NValid
(* Masking readings (with_gaps) never makes an inadmissible record         *)
(* admissible: whichever of the three requirements it fails, it fails      *)
(* with more gaps too, exact ties of the gap fraction included.            *)
THEOREM GapsNeverAdmit ==
  ASSUME NEW record, Gridded(record), NEW percent, NEW positions,
         NEW q \in [kind : {"MinValidSamples", "MinDuration", "MaxGapFraction"}, limit : Nat, tie : BOOLEAN],
         Unmet(q, record)
  PROVE  Unmet(q, WithGaps(record, percent, positions))
<1> DEFINE gapped == WithGaps(record, percent, positions)
<1>1. /\ gapped.n = record.n /\ gapped.dt = record.dt
      /\ gapped.held = record.held \ positions
  BY DEF WithGaps, Gridded, Records
<1>2. record.n \in Nat
  BY DEF Gridded, Records
<1>3. /\ IsFiniteSet(record.held) /\ NValid(record) \in 0..record.n
  BY HeldIsFinite
<1>4. NValid(gapped) \in 0..NValid(record)
  <2>1. gapped.held \subseteq record.held
    BY <1>1
  <2>2. IsFiniteSet(gapped.held) /\ Cardinality(gapped.held) <= Cardinality(record.held)
    BY <1>3, <2>1, FS_Subset
  <2>3. Cardinality(gapped.held) \in Nat
    BY <2>2, FS_CardinalityType
  <2> HIDE DEF gapped
  <2> QED
    BY <1>3, <2>2, <2>3 DEF NValid
<1> HIDE DEF gapped
<1>5. Missing(gapped) >= Missing(record) /\ Missing(gapped) \in Nat /\ Missing(record) \in Nat
  BY <1>1, <1>2, <1>3, <1>4 DEF Missing
<1>6. CASE q.kind = "MinValidSamples"
  BY <1>3, <1>4, <1>6 DEF Unmet, gapped
<1>7. CASE q.kind = "MinDuration"
  <2>1. Duration(gapped) = Duration(record)
    BY <1>1 DEF Duration
  <2> QED
    BY <1>7, <2>1 DEF Unmet, gapped
<1>8. CASE q.kind = "MaxGapFraction"
  <2> DEFINE allowed == q.limit * record.n
  <2>1. allowed \in Int /\ allowed = q.limit * gapped.n
    BY <1>1, <1>2
  <2> HIDE DEF allowed
  <2>2. 100 * Missing(record) > allowed \/ (100 * Missing(record) = allowed /\ ~q.tie)
    BY <1>8 DEF Unmet, allowed
  <2>3. 100 * Missing(gapped) > allowed \/ (100 * Missing(gapped) = allowed /\ ~q.tie)
    BY <1>5, <2>1, <2>2
  <2>4. Unmet(q, gapped)
    BY <1>8, <2>1, <2>3 DEF Unmet
  <2> QED
    BY <2>4 DEF gapped
<1> QED
  BY <1>6, <1>7, <1>8

(* Decimation (the slice [::factor]) never makes a record that is too      *)
(* short or has too few readings admissible: it keeps at most as many      *)
(* readings, over a span no longer than before.                            *)
THEOREM DecimationNeverAdmits ==
  ASSUME NEW record, Gridded(record), NEW factor \in Nat \ {0},
         NEW q \in [kind : {"MinValidSamples", "MinDuration"}, limit : Nat, tie : BOOLEAN],
         Unmet(q, record)
  PROVE  Unmet(q, Decimate(record, factor))
<1> DEFINE thinned == Decimate(record, factor)
           kept == Strided(record.n, factor)
<1>1. record.n \in Nat /\ record.n >= 1 /\ record.dt \in Nat /\ record.held \subseteq Points(record.n)
  BY DEF Gridded, Records
<1>2. /\ thinned.n = kept /\ thinned.dt = record.dt * factor
      /\ thinned.held = {i \in Points(kept) : i * factor \in record.held}
  BY DEF Decimate, Gridded, Records
<1>3. kept \in Nat
  <2>1. record.n + factor - 1 \in Nat
    BY <1>1
  <2>2. (record.n + factor - 1) \div factor \in Nat
    BY <2>1
  <2> QED
    BY <2>2 DEF Strided
<1>4. IsFiniteSet(record.held) /\ NValid(record) \in 0..record.n
  BY HeldIsFinite
<1>5. NValid(thinned) <= NValid(record) /\ NValid(thinned) \in Nat
  <2> DEFINE place == [i \in thinned.held |-> i * factor]
  <2>1. \A i \in thinned.held : i \in Int /\ i * factor \in record.held
    BY <1>2, <1>3 DEF Points
  <2>2. place \in Injection(thinned.held, record.held)
    <3>1. \A i, j \in thinned.held : place[i] = place[j] => i = j
      <4> SUFFICES ASSUME NEW i \in thinned.held, NEW j \in thinned.held, i * factor = j * factor
                   PROVE  i = j
        OBVIOUS
      <4>1. i \in Int /\ j \in Int /\ i * factor \in Int /\ j * factor \in Int
        BY <2>1
      <4>2. ~(i < j) /\ ~(j < i)
        BY <4>1, ProductsOrder
      <4> QED
        BY <4>1, <4>2
    <3>2. place \in [thinned.held -> record.held]
      BY <2>1
    <3> HIDE DEF place, thinned
    <3> QED
      BY <3>1, <3>2 DEF Injection, IsInjective
  <2>3. IsFiniteSet(thinned.held) /\ Cardinality(thinned.held) <= Cardinality(record.held)
    <3> HIDE DEF place, thinned
    <3> QED
      BY <1>4, <2>2, FS_Injection
  <2>4. Cardinality(thinned.held) \in Nat
    BY <2>3, FS_CardinalityType
  <2> HIDE DEF thinned
  <2> QED
    BY <2>3, <2>4 DEF NValid
<1>6. Duration(thinned) <= Duration(record) /\ Duration(thinned) \in Int /\ Duration(record) \in Int
  <2>1. 0 \in Int /\ 0 * factor < record.n
    BY <1>1
  <2>2. kept >= 1
    <3>1. 0 \in Points(kept)
      BY <1>1, <2>1, SliceIsEveryFactorth
    <3> HIDE DEF kept
    <3> QED
      BY <1>3, <3>1 DEF Points
  <2> DEFINE last == kept - 1
  <2>3. last \in Nat /\ last \in Points(kept)
    BY <1>3, <2>2 DEF Points
  <2>4. last * factor < record.n
    BY <1>1, <2>3, SliceIsEveryFactorth
  <2>5. Duration(thinned) = last * (record.dt * factor)
    BY <1>2 DEF Duration
  <2> HIDE DEF last, kept, thinned
  <2>6. last * (record.dt * factor) = (last * factor) * record.dt
    BY <1>1, <2>3
  <2> DEFINE span == last * factor
             whole == record.n - 1
  <2>7. span \in Int /\ whole \in Int /\ span <= whole
    BY <1>1, <2>3, <2>4
  <2>8. Duration(thinned) = span * record.dt /\ Duration(record) = whole * record.dt
    BY <2>5, <2>6 DEF Duration
  <2> HIDE DEF span, whole
  <2>9. span * record.dt <= whole * record.dt /\ span * record.dt \in Int /\ whole * record.dt \in Int
    <3>1. (whole - span) * record.dt >= 0
      BY <1>1, <2>7
    <3>2. (whole - span) * record.dt = whole * record.dt - span * record.dt
      BY <1>1, <2>7
    <3>3. span * record.dt \in Int /\ whole * record.dt \in Int
      BY <1>1, <2>7
    <3> QED
      BY <3>1, <3>2, <3>3
  <2> QED
    BY <2>8, <2>9
<1> HIDE DEF thinned
<1>7. CASE q.kind = "MinValidSamples"
  <2>1. NValid(thinned) < q.limit
    BY <1>4, <1>5, <1>7, <1>1 DEF Unmet
  <2> QED
    BY <1>7, <2>1 DEF Unmet, thinned
<1>8. CASE q.kind = "MinDuration"
  <2>1. Duration(thinned) < q.limit
    BY <1>6, <1>8 DEF Unmet
  <2> QED
    BY <1>8, <2>1 DEF Unmet, thinned
<1> QED
  BY <1>7, <1>8
=============================================================================
