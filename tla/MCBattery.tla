----------------------------- MODULE MCBattery -----------------------------
(***************************************************************************)
(* Two controls, two rungs of decimation and one of gaps, three and four   *)
(* realisations: every verdict at every record.  The second mapping lost a *)
(* control.  The checks differ in what they require, what they declare and *)
(* the control they bring: one whose requirements exclude the coarse rung  *)
(* only, one that excludes the gaps only when a rounded fraction compares  *)
(* as more and whose limit in the smoke tier is met exactly by three       *)
(* alarms in three, one whose control does not survive the ladder, one     *)
(* whose requirements the battery's own records do not meet, and one whose *)
(* control has a gap of its own.                                           *)
(***************************************************************************)
EXTENDS Battery

MCControlMappings == {<<"flatline", "ramp">>, <<"flatline">>}
MCFactors == <<2, 5>>
MCFractions == <<20>>
MCRealisations == [smoke |-> 3, full |-> 4]

Brings(requirements, declared, tie, n, missing) ==
  [requirements |-> requirements, declared |-> declared, tie |-> tie, n |-> n, missing |-> missing]
MCChecks ==
  {Brings({MinValidSamples(3)}, 1, TRUE, 10, {}),
   Brings({MaxGapFraction(20, FALSE), MinDuration(6)}, 2, FALSE, 10, {}),
   Brings({}, 3, TRUE, 5, {}),
   Brings({MinValidSamples(11)}, 1, TRUE, 12, {}),
   Brings({MinDuration(9), MaxGapFraction(20, TRUE)}, 1, TRUE, 10, {0})}
=============================================================================
