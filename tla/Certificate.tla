---------------------------- MODULE Certificate ----------------------------
(***************************************************************************)
(* What the certificate of an examination promises, with no word on seeds, *)
(* counters or the order of the case classes: the paper is fixed, each of  *)
(* its questions is put once at most and after those it builds on, a fatal *)
(* answer ends the examination there, and a verdict is final.  Certified   *)
(* is who answered them all, alike where the answers must agree and with a *)
(* tolerable number of alarms; nobody is refused without a reason.         *)
(***************************************************************************)
EXTENDS Integers, FiniteSets

CONSTANTS
  Fatal,             \* class -> the answers that end the examination
  BuildsOn,          \* class -> the questions that come before its own
  Repeated,          \* the class whose answers must be alike
  Sampled,           \* the class in which alarms are counted
  Tolerable(_, _)    \* whether a test of the rate tolerates so many

VARIABLES
  paper,    \* question -> the records it may be put about, and those of
            \*   them that bar it
  terms,    \* whether the paper is whole, and the test of the rate
  sheet,    \* the answers given: of a class and rung, on a record
  outcome   \* "open", then "certified", "refused" or "crashed"

certificateVars == <<paper, terms, sheet, outcome>>

Question(entry) == <<entry.class, entry.rung>>
Asked == {Question(e) : e \in sheet}
Completed(class) == {q \in DOMAIN paper : q[1] = class} \subseteq Asked

Of(class) == {e \in sheet : e.class = class}
Alike == \A d, e \in Of(Repeated) : d.verdict = e.verdict /\ d.metrics = e.metrics
Incomparable == \E e \in Of(Repeated) : e.metrics = "NaN"
AlarmsRaised == Cardinality({e \in Of(Sampled) : e.verdict = "FAIL"})

Init == sheet = {} /\ outcome = "open"

(* What cannot be put, because a record bars it, is not answered.          *)
Ask ==
  /\ outcome = "open"
  /\ \E entry \in sheet' \ sheet :
       LET q == Question(entry)
           records == paper[q]
       IN  /\ sheet' = sheet \cup {entry}
           /\ q \in DOMAIN paper \ Asked /\ BuildsOn[entry.class] \subseteq Asked
           /\ entry.record \in records.about
           /\ (entry.verdict = "inadmissible") <=> entry.record \in records.barred
           /\ outcome' = IF entry.verdict \in Fatal[entry.class] THEN "refused" ELSE "open"
  /\ UNCHANGED <<paper, terms>>

Certify ==
  /\ DOMAIN paper \subseteq Asked
  /\ terms.whole /\ Alike /\ Tolerable(terms.test, AlarmsRaised)
  /\ outcome' = "certified"

Refuse ==
  /\ \/ ~terms.whole
     \/ Completed(Repeated) /\ (~Alike \/ Incomparable)
     \/ Completed(Sampled) /\ ~Tolerable(terms.test, AlarmsRaised)
  /\ outcome' = "refused"

Crash == outcome' = "crashed"

Judge ==
  /\ outcome = "open"
  /\ Certify \/ Refuse \/ Crash
  /\ UNCHANGED <<paper, terms, sheet>>

Next == Ask \/ Judge

Spec == Init /\ [][Next]_certificateVars

-----------------------------------------------------------------------------
(* What a reader of a certificate may conclude: every question has its one *)
(* answer, none of them fatal, on a record it could be put about, and      *)
(* together they hold.                                                     *)
Answered ==
  \A e \in sheet :
    /\ Question(e) \in DOMAIN paper /\ e.record \in paper[Question(e)].about
    /\ (e.verdict = "inadmissible") <=> e.record \in paper[Question(e)].barred
    /\ \A d \in sheet : Question(d) = Question(e) => d = e
    /\ outcome \in {"open", "certified"} => e.verdict \notin Fatal[e.class]
    /\ BuildsOn[e.class] \subseteq Asked

CertificateIsEarned ==
  /\ Answered
  /\ outcome = "certified" =>
       Asked = DOMAIN paper /\ terms.whole /\ Alike /\ Tolerable(terms.test, AlarmsRaised)
=============================================================================
