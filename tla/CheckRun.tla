------------------------------ MODULE CheckRun ------------------------------
(***************************************************************************)
(* What the check runner promises its caller, with no word on how: one     *)
(* conclusion per declared check, each after everything it depends on, a   *)
(* withheld check (one whose compute was never called) withholding all its *)
(* dependents, and a refused call concluding nothing.                      *)
(***************************************************************************)
CONSTANTS CheckIds, Verdicts

VARIABLES
  dependsOn,  \* declared check -> the checks whose capabilities it consumes
  status,     \* "idle", "begun", "returned", "refused" or "aborted"
  verdicts,   \* check -> verdict, for the checks concluded in this call
  withheld    \* the concluded checks whose compute was not called

runVars == <<dependsOn, status, verdicts, withheld>>

Nothing == [id \in {} |-> {}]

Init ==
  /\ dependsOn = Nothing
  /\ status = "idle" /\ verdicts = Nothing /\ withheld = {}

(* Declaring a check may supply what others were waiting for; it never     *)
(* removes a dependency.                                                   *)
Declare ==
  /\ status # "begun"
  /\ \E id \in CheckIds \ DOMAIN dependsOn :
       DOMAIN dependsOn' = DOMAIN dependsOn \cup {id}
  /\ \A id \in DOMAIN dependsOn : dependsOn[id] \subseteq dependsOn'[id]
  /\ status' = "idle" /\ verdicts' = Nothing /\ withheld' = {}

Begin ==
  /\ status # "begun"
  /\ status' \in {"begun", "refused"}
  /\ verdicts' = Nothing /\ withheld' = {}
  /\ UNCHANGED dependsOn

(* The whole set of checks is refused: before any of them is concluded.    *)
Refuse ==
  /\ status = "begun" /\ verdicts = Nothing
  /\ status' = "refused"
  /\ UNCHANGED <<dependsOn, verdicts, withheld>>

Conclude ==
  /\ status = "begun"
  /\ \E id \in DOMAIN dependsOn \ DOMAIN verdicts, v \in Verdicts :
       /\ dependsOn[id] \subseteq DOMAIN verdicts
       /\ verdicts' = [x \in DOMAIN verdicts \cup {id} |->
                         IF x = id THEN v ELSE verdicts[x]]
       /\ \/ dependsOn[id] \cap withheld = {} /\ withheld' = withheld
          \/ v = "INCONCLUSIVE" /\ withheld' = withheld \cup {id}
  /\ UNCHANGED <<dependsOn, status>>

Abort ==
  /\ status = "begun"
  /\ status' = "aborted"
  /\ UNCHANGED <<dependsOn, verdicts, withheld>>

Return ==
  /\ status = "begun" /\ DOMAIN verdicts = DOMAIN dependsOn
  /\ status' = "returned"
  /\ UNCHANGED <<dependsOn, verdicts, withheld>>

Next == Declare \/ Begin \/ Refuse \/ Conclude \/ Abort \/ Return

Spec == Init /\ [][Next]_runVars
=============================================================================
