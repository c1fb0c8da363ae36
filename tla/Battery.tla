------------------------------- MODULE Battery -------------------------------
(***************************************************************************)
(* One run of the conformance battery (core/battery.py) over one           *)
(* registered check.  A step is one record shown to the check, or the end  *)
(* of a case class.  What the check answers for a record its requirements  *)
(* admit, whether its control reproduces and whether the evaluation raises *)
(* are the environment's choice.                                           *)
(***************************************************************************)
EXTENDS FalseAlarms, Synthetic, Sequences

CONSTANTS
  PrdControls,       \* _PRD_NEGATIVE_CONTROL_NAMES
  ControlMappings,   \* what NEGATIVE_CONTROLS may hold, as sequences of names
  Factors,           \* DECIMATION_FACTORS
  Fractions,         \* GAP_FRACTIONS, in percent
  Realisations,      \* tier -> SMOKE_REALISATIONS or FULL_REALISATIONS
  BatterySamples,    \* BATTERY_SAMPLES
  Checks             \* the checks a run may be over

Tiers == {"smoke", "full"}
Verdicts == {"PASS", "MARGINAL", "FAIL", "INCONCLUSIVE"}

OneToOne(seq) == \A i, j \in DOMAIN seq : seq[i] = seq[j] => i = j

ASSUME MappingsAssumption ==   \* a mapping has a key once
  \A mapping \in ControlMappings : mapping \in Seq(STRING) /\ OneToOne(mapping)
ASSUME RungsAssumption ==
  /\ Factors \in Seq(Nat \ {0, 1}) /\ OneToOne(Factors)
  /\ Fractions \in Seq(1..99) /\ OneToOne(Fractions)
ASSUME RealisationsAssumption == Realisations \in [Tiers -> Nat \ {0}]
ASSUME SamplesAssumption == BatterySamples \in Nat \ {0, 1}

(* requirements, false_alarm_bound in 1/RateScale, whether the smoke tier  *)
(* takes a rate of exactly its limit, and the grid that positive_control   *)
(* makes.                                                                  *)
ASSUME ChecksAssumption ==
  \A c \in Checks : /\ c.declared \in 1..(RateScale - 1) /\ c.tie \in BOOLEAN
                    /\ c.n \in Nat \ {0, 1}

VARIABLES
  tier,        \* which of the two tiers runs
  check,       \* the check it runs over
  controls,    \* NEGATIVE_CONTROLS as this run finds it
  stage,       \* the case class that runs, or how the run ended
  rung,        \* how many records of the case class are done
  failures, marginals,   \* the locals of red_noise_false_alarms
  shown        \* every record shown to the check, where, and what came of it

vars == <<tier, check, controls, stage, rung, failures, marginals, shown>>

NegativeControl(name) == Made(Seed("negative", name), BatterySamples, {})
PositiveControl == Made(Seed("positive", 0), check.n, check.missing)
Twin == Made(Seed("determinism", 0), check.n, check.missing)
SlipOneSeedForAll(index) == Made(Seed("red_noise", 0), BatterySamples, {})
RedNoise(index) == Made(Seed("red_noise", index), BatterySamples, {})

(* rng.choice without replacement.  Only how many of the readings it hits  *)
(* matters, so the draws at either end of the record stand for all.        *)
Drawn(n, size) == {0..(size - 1), (n - size)..(n - 1)}

Gapped(percent) ==
  {WithGaps(PositiveControl, percent, positions) :
     positions \in UNION {Drawn(check.n, size) : size \in RoundedPercents(percent, check.n)}}

-----------------------------------------------------------------------------
(* The case classes, with the records each shows.  Both ladders first      *)
(* prove the positive control.                                             *)
Classes == {"negatives", "ladder_base", "ladder", "gap_base", "gaps", "twins", "null"}
Size(class) ==
  CASE class = "negatives" -> Len(controls)
    [] class \in {"ladder_base", "gap_base"} -> 1
    [] class = "ladder" -> Len(Factors)
    [] class = "gaps" -> Len(Fractions)
    [] class = "twins" -> 2
    [] class = "null" -> Realisations[tier]

Presented(class, index) ==
  CASE class = "negatives" -> {NegativeControl(controls[index + 1])}
    [] class \in {"ladder_base", "gap_base"} -> {PositiveControl}
    [] class = "ladder" -> {Decimate(PositiveControl, Factors[index + 1])}
    [] class = "gaps" -> Gapped(Fractions[index + 1])
    [] class = "twins" -> {Twin}
    [] class = "null" -> {RedNoise(index)}

Init ==
  /\ tier \in Tiers
  /\ check \in Checks
  /\ controls \in ControlMappings
  /\ stage = "negatives" /\ rung = 0
  /\ failures = 0 /\ marginals = 0
  /\ shown = << >>

SameRun == UNCHANGED <<tier, check, controls>>
NotMeasuring == UNCHANGED <<failures, marginals>>
Finished(class) == stage = class /\ rung = Size(class)
Goto(next) == stage' = next /\ rung' = 0

Entry(record, verdict, metrics) ==
  [class |-> stage, rung |-> rung, record |-> record, verdict |-> verdict, metrics |-> metrics]
Show(record, verdict) == shown' = Append(shown, Entry(record, verdict, "same"))

(* _require_admissible: a control the check cannot see ends the run before *)
(* the check is asked.                                                     *)
Guarded == {"negatives", "ladder_base", "gap_base", "null"}
Inadmissible(record) == stage \in Guarded /\ ~Admissible(check.requirements, record)

RefuseInadmissible ==
  /\ stage \in Guarded /\ rung < Size(stage)
  /\ \E record \in Presented(stage, rung) : Inadmissible(record) /\ Show(record, "inadmissible")
  /\ Goto("refused")
  /\ NotMeasuring /\ SameRun

(* The runner answers for the check when a requirement is unmet.           *)
Answers(record) ==
  IF Admissible(check.requirements, record) THEN Verdicts ELSE {"INCONCLUSIVE"}

(* The check sees the next record of a class, and a verdict in "accused"   *)
(* ends the run.                                                           *)
Evaluate(class, accused, verdict) ==
  /\ stage = class /\ rung < Size(class)
  /\ \E record \in Presented(class, rung) :
       /\ ~Inadmissible(record)
       /\ verdict \in Answers(record)
       /\ Show(record, verdict)
  /\ IF verdict \in accused THEN Goto("refused") ELSE rung' = rung + 1 /\ UNCHANGED stage
  /\ SameRun

ShowNegative ==
  /\ \E v \in Verdicts : Evaluate("negatives", {"PASS"}, v)
  /\ NotMeasuring

Iterated == {controls[i] : i \in DOMAIN controls}

SlipGuardReadsTheMapping ==
  /\ Finished("negatives")
  /\ IF rung = Len(controls) THEN Goto("ladder_base") ELSE Goto("refused")
  /\ UNCHANGED shown /\ NotMeasuring /\ SameRun

NegativesDone ==
  /\ Finished("negatives")
  /\ IF Iterated = PrdControls THEN Goto("ladder_base") ELSE Goto("refused")
  /\ UNCHANGED shown /\ NotMeasuring /\ SameRun

ShowPositive ==
  /\ \E v \in Verdicts, class \in {"ladder_base", "gap_base"} :
       Evaluate(class, Verdicts \ {"PASS"}, v)
  /\ NotMeasuring

(* One rung of either ladder: no admissibility is asked for.               *)
Degraded == {"MARGINAL", "FAIL"}

ShowDecimated ==
  /\ stage = "ladder" /\ rung < Size("ladder")
  /\ \A record \in Presented("ladder", rung) : record.n >= MinPoints
  /\ \E v \in Verdicts : Evaluate("ladder", Degraded, v)
  /\ NotMeasuring

(* SyntheticRecord raises ValueError on fewer than two samples.            *)
RaiseTooShort ==
  /\ stage = "ladder" /\ rung < Size("ladder")
  /\ \E record \in Presented("ladder", rung) : record.n < MinPoints
  /\ Goto("crashed")
  /\ UNCHANGED shown /\ NotMeasuring /\ SameRun

ShowGapped ==
  /\ \E v \in Verdicts : Evaluate("gaps", Degraded, v)
  /\ NotMeasuring

SlipGapsTrustTheControl ==
  /\ \/ Finished("ladder_base") /\ Goto("ladder")
     \/ Finished("ladder") /\ Goto("gaps")
     \/ Finished("gaps") /\ Goto("twins")
  /\ UNCHANGED shown /\ NotMeasuring /\ SameRun

LadderDone ==
  /\ \/ Finished("ladder_base") /\ Goto("ladder")
     \/ Finished("ladder") /\ Goto("gap_base")
     \/ Finished("gap_base") /\ Goto("gaps")
     \/ Finished("gaps") /\ Goto("twins")
  /\ UNCHANGED shown /\ NotMeasuring /\ SameRun

(* determinism: the control is drawn twice from one seed, then both draws  *)
(* are evaluated and the results compared.                                 *)
Irreproducible ==
  /\ stage = "twins" /\ rung = 0
  /\ Show(Twin, "irreproducible") /\ Goto("refused")
  /\ NotMeasuring /\ SameRun

(* A result is its verdict and its metrics; a NaN among them may be one    *)
(* object in both results, or two.                                         *)
ShowTwin ==
  /\ stage = "twins" /\ rung < Size("twins")
  /\ \E v \in Answers(Twin), metrics \in {"same", "NaN"} \cup (IF rung = 1 THEN {"other"} ELSE {}) :
       shown' = Append(shown, Entry(Twin, v, metrics))
  /\ rung' = rung + 1 /\ UNCHANGED stage
  /\ NotMeasuring /\ SameRun

Result(entry) == <<entry.verdict, entry.metrics>>
Last(back) == Result(shown[Len(shown) - back])

CompareTwins ==
  /\ Finished("twins")
  /\ \/ Last(0) = Last(1) /\ Goto("null")
     \/ Last(0) # Last(1) /\ Goto("refused")
     \/ Last(0)[2] = "NaN" /\ Goto("refused")
  /\ UNCHANGED shown /\ NotMeasuring /\ SameRun

SlipMarginalIsAnAlarm(v) ==
  /\ failures' = failures + (IF v \in {"FAIL", "MARGINAL"} THEN 1 ELSE 0)
  /\ UNCHANGED marginals

Count(v) ==
  /\ failures' = failures + (IF v = "FAIL" THEN 1 ELSE 0)
  /\ marginals' = marginals + (IF v = "MARGINAL" THEN 1 ELSE 0)

ShowNull == \E v \in Verdicts : Evaluate("null", {"INCONCLUSIVE"}, v) /\ Count(v)

TooManyAlarms ==
  IF tier = "smoke" THEN GrosslyExceeds(failures, Realisations[tier], check.declared, check.tie)
                    ELSE Inconsistent(failures, Realisations[tier], check.declared)

AssertFar ==
  /\ Finished("null")
  /\ IF TooManyAlarms THEN Goto("refused") ELSE Goto("certified")
  /\ UNCHANGED shown /\ NotMeasuring /\ SameRun

(* run_checks, which every evaluation goes through, may raise: the check's *)
(* own compute, or that of any other check of the registry.                *)
EvaluationRaises ==
  /\ stage \in Classes /\ rung < Size(stage)
  /\ \E record \in Presented(stage, rung) : ~Inadmissible(record) /\ record.n >= MinPoints
  /\ Goto("crashed")
  /\ UNCHANGED shown /\ NotMeasuring /\ SameRun

Next ==
  \/ RefuseInadmissible
  \/ ShowNegative \/ NegativesDone
  \/ ShowPositive \/ ShowDecimated \/ RaiseTooShort \/ ShowGapped \/ LadderDone
  \/ Irreproducible \/ ShowTwin \/ CompareTwins
  \/ ShowNull \/ AssertFar
  \/ EvaluationRaises

Spec == Init /\ [][Next]_vars

-----------------------------------------------------------------------------
Seeds ==
  ({"negative"} \X STRING) \cup ({"positive", "determinism", "red_noise"} \X Nat)
Records == [seed : Seeds, gap : Nat, dt : Nat, n : Nat, held : SUBSET Int]
ShownEntries ==
  [class : Classes, rung : Nat, record : Records,
   verdict : Verdicts \cup {"inadmissible", "irreproducible"},
   metrics : {"same", "other", "NaN"}]

(* The state has its type: a run is in one of the case classes or has      *)
(* ended in one of three ways, and what it has shown are synthetic records *)
(* (core/battery.py, core/synthetic.py).                                   *)
BatteryTypeOK ==
  /\ tier \in Tiers /\ check \in Checks /\ controls \in ControlMappings
  /\ stage \in Classes \cup {"refused", "crashed", "certified"}
  /\ rung \in Nat /\ failures \in Nat /\ marginals \in Nat
  /\ shown \in Seq(ShownEntries)

(* What the run has seen of a record, whatever the program counted.        *)
Entries == {shown[i] : i \in DOMAIN shown}
VerdictsOn(record) == {e.verdict : e \in {x \in Entries : x.record = record}}
NullEntries == {e \in Entries : e.class = "null"}
Alarms == Cardinality({e \in NullEntries : e.verdict = "FAIL"})

Seen(record, verdicts) == VerdictsOn(record) # {} /\ VerdictsOn(record) \subseteq verdicts

(* A verdict stands for the check only on a record it admits.              *)
Sees(record) == Admissible(check.requirements, record)

ControlsHold ==
  \A name \in PrdControls :
    /\ Sees(NegativeControl(name))
    /\ Seen(NegativeControl(name), Verdicts \ {"PASS"})
LaddersHold ==
  /\ Sees(PositiveControl) /\ Seen(PositiveControl, {"PASS"})
  /\ \A i \in DOMAIN Factors :
       Seen(Decimate(PositiveControl, Factors[i]), {"PASS", "INCONCLUSIVE"})
  /\ \A i \in DOMAIN Fractions :
       \E record \in Gapped(Fractions[i]) : Seen(record, {"PASS", "INCONCLUSIVE"})
TwinsHold ==
  \E r \in {Result(e) : e \in {x \in Entries : x.class = "twins"}} :
    \A e \in Entries : e.class = "twins" => Result(e) = r
RateHolds ==
  /\ Cardinality(NullEntries) = Realisations[tier]
  /\ \A e \in NullEntries : Sees(e.record) /\ e.verdict \in {"PASS", "MARGINAL", "FAIL"}
  /\ IF tier = "smoke" THEN ~GrosslyExceeds(Alarms, Realisations[tier], check.declared, check.tie)
                       ELSE ~Inconsistent(Alarms, Realisations[tier], check.declared)

(* A run that returns its measurement has put the check through all five   *)
(* case classes: every PRD control was shown on a record the check's       *)
(* requirements admit and none passed, the positive control was admitted   *)
(* and passed before each ladder and no rung of either degraded it, the    *)
(* twins agreed, and the declared number of distinct nulls was decided     *)
(* with no more alarms than the tier tolerates, counted from the history   *)
(* and not from the program's counters (run_smoke_battery,                 *)
(* run_full_battery).                                                      *)
CertifiedIsConformant ==
  stage = "certified" => ControlsHold /\ LaddersHold /\ TwinsHold /\ RateHolds

(* A BatteryError is never a false accusation: what the run has seen so    *)
(* far already breaks one of the five classes, or a control could not be   *)
(* shown at all (every raise in core/battery.py).  A result that holds a   *)
(* NaN is the exception: nothing compares it equal to itself.              *)
RefusedForCause ==
  stage = "refused" =>
    \/ \E e \in Entries : e.verdict = "irreproducible"
    \/ \E e \in Entries : e.class \in Guarded /\ ~Sees(e.record)
    \/ Iterated # PrdControls
    \/ \E name \in Iterated : "PASS" \in VerdictsOn(NegativeControl(name))
    \/ VerdictsOn(PositiveControl) \ {"PASS"} # {}
    \/ \E e \in Entries : e.class \in {"ladder", "gaps"} /\ e.verdict \in Degraded
    \/ \E d, e \in Entries : d.class = "twins" /\ e.class = "twins" /\ Result(d) # Result(e)
    \/ \E e \in Entries : e.class = "twins" /\ e.metrics = "NaN"
    \/ \E e \in NullEntries : e.verdict = "INCONCLUSIVE"
    \/ Cardinality(NullEntries) = Realisations[tier] /\ ~RateHolds

(* No draw stands in for another: apart from the positive control, shown   *)
(* once per ladder, and the twins, a record is shown at most once, so n    *)
(* realisations of the null are n seeds (derive_seed and its callers).     *)
EveryDrawIsItsOwn ==
  \A i, j \in DOMAIN shown :
    (i < j /\ shown[i].record = shown[j].record) => shown[i].record \in {PositiveControl, Twin}

(* The chance of as many alarms, found by counting outcomes.               *)
AsManyAlarms ==
  [declared \in 1..(RateScale - 1) |->
     [alarms \in 0..Realisations["full"] |->
        Cardinality(AsMany(Realisations["full"], declared, alarms))]]
Unlikely ==
  AlphaScale * AsManyAlarms[check.declared][Alarms] < Alpha * Cardinality(Outcomes(Realisations["full"]))

(* The full tier certifies or refuses a check's rate exactly as an honest  *)
(* check would have raised the alarms of this run with probability alpha   *)
(* or more, or less: no tally, cumulative sum, strict comparison or        *)
(* returned k is one off (red_noise_false_alarms, assert_full_far over     *)
(* _binomial_critical).                                                    *)
FullTierIsExact ==
  tier = "full" =>
    /\ stage = "certified" => ~Unlikely
    /\ (/\ stage = "refused"
        /\ Cardinality(NullEntries) = Realisations[tier]
        /\ \A e \in NullEntries : e.verdict \in {"PASS", "MARGINAL", "FAIL"})
       => Unlikely

-----------------------------------------------------------------------------
(* The examination that a run amounts to.                                  *)
Questions == UNION {{class} \X (0..(Size(class) - 1)) : class \in Classes}

Unwelcome ==
  [class \in Classes |->
     {"inadmissible", "irreproducible"} \cup
     CASE class = "negatives" -> {"PASS"}
       [] class \in {"ladder_base", "gap_base"} -> {"MARGINAL", "FAIL", "INCONCLUSIVE"}
       [] class \in {"ladder", "gaps"} -> {"MARGINAL", "FAIL"}
       [] class = "twins" -> {}
       [] class = "null" -> {"INCONCLUSIVE"}]

Prerequisites ==
  [class \in Classes |->
     CASE class = "ladder" -> {<<"ladder_base", 0>>}
       [] class = "gaps" -> {<<"gap_base", 0>>}
       [] OTHER -> {}]

Paper ==
  [q \in Questions |->
     LET records == Presented(q[1], q[2])
     IN  [about |-> records, barred |-> {r \in records : q[1] \in Guarded /\ ~Sees(r)}]]

Tolerates(test, alarms) ==
  IF test.tier = "smoke" THEN ~GrosslyExceeds(alarms, Realisations["smoke"], test.declared, test.tie)
                         ELSE ~Inconsistent(alarms, Realisations["full"], test.declared)
Terms ==
  [whole |-> Iterated = PrdControls,
   test |-> [tier |-> tier, declared |-> check.declared, tie |-> check.tie]]

CE == INSTANCE Certificate WITH
  Fatal <- Unwelcome, BuildsOn <- Prerequisites,
  Repeated <- "twins", Sampled <- "null", Tolerable <- Tolerates,
  paper <- Paper, terms <- Terms, sheet <- Entries,
  outcome <- IF stage \in Classes THEN "open" ELSE stage

(* Step by step a run is such an examination: no case is shown twice, left *)
(* out or shown before the control it degrades was proved, the first       *)
(* answer that breaks a class ends the run, and only what all the answers  *)
(* say together certifies or refuses otherwise (run_smoke_battery,         *)
(* run_full_battery).                                                      *)
ImplementsCertificate == CE!Spec

(* INCONCLUSIVE never stands in for "must not PASS": a certified check     *)
(* decided at least one of the negative controls (ADR 0006, vacuity        *)
(* guards).                                                                *)
ControlsAreDecided ==
  stage = "certified" =>
    \E name \in PrdControls : VerdictsOn(NegativeControl(name)) \cap Degraded # {}
=============================================================================
