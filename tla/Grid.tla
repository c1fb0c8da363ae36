-------------------------------- MODULE Grid --------------------------------
(***************************************************************************)
(* Local stamps to UTC and onto a uniform grid (instruments/timezones.py,  *)
(* to_utc; core/records.py, to_uniform_grid).  An instant is an integer    *)
(* number of ticks.                                                        *)
(***************************************************************************)
EXTENDS Integers, Sequences

CONSTANT NaN

MinSamples == 2   \* _MIN_SAMPLES

(* A fixed offset is taken off every stamp, whatever its date.             *)
SlipOffsetAdded(stamps, offset) == [i \in DOMAIN stamps |-> stamps[i] + offset]

ToUtc(stamps, offset) == [i \in DOMAIN stamps |-> stamps[i] - offset]

(* The refusals of to_uniform_grid, in one condition: any of them raises   *)
(* ValueError and nothing is dropped to avoid it.                          *)
StrictlyIncreasing(index) ==
  \A i, j \in DOMAIN index : i < j => index[i] < index[j]

SlipDuplicatesKept(index, interval) ==
  /\ \A i, j \in DOMAIN index : i < j => index[i] <= index[j]
  /\ \A i \in DOMAIN index : (index[i] - index[1]) % interval = 0

FitsGrid(index, interval) ==
  /\ StrictlyIncreasing(index)
  /\ \A i \in DOMAIN index : (index[i] - index[1]) % interval = 0

Griddable(index, values, interval) ==
  /\ interval > 0
  /\ Len(index) = Len(values)
  /\ Len(index) >= MinSamples
  /\ FitsGrid(index, interval)

(* date_range over the first-to-last span.                                 *)
GridPoints(index, interval) ==
  {index[1] + k * interval : k \in 0..((index[Len(index)] - index[1]) \div interval)}

(* reindex: a point that was sampled keeps its reading, every other is NaN *)
SlipFilled(index, values, interval) ==
  [t \in GridPoints(index, interval) |->
     values[CHOOSE i \in DOMAIN index : /\ index[i] <= t
                                        /\ \A j \in DOMAIN index : index[j] <= t => j <= i]]

UniformGrid(index, values, interval) ==
  [t \in GridPoints(index, interval) |->
     IF \E i \in DOMAIN index : index[i] = t
       THEN values[CHOOSE i \in DOMAIN index : index[i] = t]
       ELSE NaN]
=============================================================================
