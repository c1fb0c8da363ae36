------------------------------ MODULE Custody ------------------------------
(***************************************************************************)
(* What the ingest of a recording promises, with no word on files, rows,   *)
(* statistics or the clock on the wall: a series that is vouched for is    *)
(* the recording, instant by instant; one whose file was only numbered is  *)
(* a stretch of it, moved as a whole at most; of any other nothing is      *)
(* said.  A reading may be missing, and is then seen to be: it never is    *)
(* another sample's.                                                       *)
(***************************************************************************)
EXTENDS Integers

CONSTANTS
  Lost,        \* what stands for a reading that is missing
  ClockMoves   \* how far the local clock may have been moved

VARIABLES
  taken,    \* instant -> reading, as the logger took them
  trust,    \* "open", then "whole", "stretch" or "none"
  series    \* instant -> reading, as delivered; empty before that

custodyVars == <<taken, trust, series>>

Faithful(delivered, by) ==
  \A t \in DOMAIN delivered :
    t - by \in DOMAIN taken /\ delivered[t] \in {taken[t - by]} \cup Lost

IsWhole(delivered) == DOMAIN delivered = DOMAIN taken /\ Faithful(delivered, 0)

(* No sample between two delivered ones is left out.                       *)
IsStretch(delivered) ==
  \E by \in ClockMoves :
    /\ Faithful(delivered, by)
    /\ \A a, b \in DOMAIN delivered, t \in DOMAIN taken :
         a <= t + by /\ t + by <= b => t + by \in DOMAIN delivered

Init == DOMAIN taken \subseteq Int /\ trust = "open" /\ DOMAIN series = {}

Judge ==
  /\ trust = "open"
  /\ trust' \in {"whole", "stretch", "none"}
  /\ UNCHANGED <<taken, series>>

Deliver ==
  /\ trust # "open" /\ DOMAIN series = {}
  /\ DOMAIN series' # {}
  /\ trust = "whole" => IsWhole(series')
  /\ trust = "stretch" => IsStretch(series')
  /\ UNCHANGED <<taken, trust>>

Next == Judge \/ Deliver

Spec == Init /\ [][Next]_custodyVars
=============================================================================
