--------------------------- MODULE AssemblyProofs ---------------------------
(***************************************************************************)
(* What holds of every exchange between a source, an operator and          *)
(* assemble, for any extraction and anything the operator types.           *)
(*                                                                         *)
(* The type invariant is inductive once a conflict is known to name only   *)
(* fields that the file may state: withdrawing a contradicted value never  *)
(* withdraws the variable, which has no default.                           *)
(***************************************************************************)
EXTENDS Assembly, TLAPS

ExchangeInv ==
  /\ AssemblyTypeOK
  /\ phase = "conflict" => named \subseteq Resolvable

(* The units assembled against are those of a document that was accepted.  *)
SensorsInv ==
  phase \notin {"starting", "no_sensors"} =>
    SensorsAccepted(document) /\ sensors = SensorCatalogue(document)

-----------------------------------------------------------------------------
LEMMA FieldSets ==
  /\ Required \subseteq Resolvable /\ RESOLVED_OPTIONAL \subseteq Resolvable
  /\ Resolvable \subseteq SuppliedFields /\ SuppliedFields \subseteq Fields
  /\ EXTRACTED_ONLY \cap SuppliedFields = {}
  /\ "variable" \in SuppliedFields /\ "variable" \notin Resolvable
BY DEF Required, RESOLVED_REQUIRED, RESOLVED_OPTIONAL, Resolvable, SuppliedFields, Fields,
       EXTRACTED_ONLY, OPERATOR_FIELDS

LEMMA RefuseKeepsInv ==
  ASSUME ExchangeInv, NEW outcome \in {"conflict", "incomplete", "refused"},
         NEW fields, fields # {}, fields \subseteq Fields,
         outcome = "conflict" => fields \subseteq Resolvable,
         Refuse(outcome, fields)
  PROVE  ExchangeInv'
BY DEF ExchangeInv, AssemblyTypeOK, Refuse, EmptyRecord

LEMMA CallKeepsInv == ASSUME ExchangeInv, Call PROVE ExchangeInv'
<1>1. CASE RaiseConflict
  BY <1>1, RefuseKeepsInv, FieldSets DEF RaiseConflict, Conflicting
<1>2. CASE RaiseIncomplete
  BY <1>2, RefuseKeepsInv, FieldSets DEF RaiseIncomplete, Missing
<1>3. CASE RaiseMissingSensor
  BY <1>3, RefuseKeepsInv, FieldSets
  DEF RaiseMissingSensor, ProductUnknown, Unsuited, Fields, SuppliedFields, Resolvable, Required, RESOLVED_REQUIRED
<1>4. CASE RaiseUnits
  BY <1>4, RefuseKeepsInv, FieldSets
  DEF RaiseUnits, UnitUnknown, Unsuited, Fields, SuppliedFields, Resolvable, Required, RESOLVED_REQUIRED
<1>5. CASE RaiseTimezone \/ RaiseGrid
  BY <1>5, RefuseKeepsInv, FieldSets
  DEF RaiseTimezone, RaiseGrid, LabelUnknown, OffGrid, Unsuited,
      Fields, SuppliedFields, Resolvable, Required, RESOLVED_REQUIRED
<1>6. CASE RaiseText
  <2>1. \A i \in DOMAIN Words : Words[i] \in Fields
    BY DEF Words, Fields, SuppliedFields, Resolvable, Required, RESOLVED_REQUIRED
  <2> QED
    BY <1>6, <2>1, RefuseKeepsInv DEF RaiseText, EmptyText
<1>7. CASE RaiseInvalid
  <2>1. /\ {"deployment_number"} \subseteq Fields /\ RESOLVED_OPTIONAL \subseteq Fields
        /\ {"depth_m"} \subseteq Fields /\ {"in_water_start", "in_water_end"} \subseteq Fields
    BY FieldSets DEF Fields, SuppliedFields, Resolvable, Required, RESOLVED_REQUIRED, OPERATOR_FIELDS
  <2>2. /\ NoDeployment \subseteq Fields /\ Halved \subseteq Fields
        /\ BeyondThePole \subseteq Fields /\ BeyondTheDateLine \subseteq Fields
        /\ DepthRefused \subseteq Fields /\ WindowRefused \subseteq Fields
    BY <2>1 DEF NoDeployment, Halved, BeyondThePole, BeyondTheDateLine, DepthRefused,
                WindowRefused, Unsuited, RESOLVED_OPTIONAL
  <2>3. \A i \in DOMAIN Invalid : Invalid[i] \subseteq Fields
    BY <2>2 DEF Invalid
  <2> QED
    BY <1>7, <2>3, RefuseKeepsInv DEF RaiseInvalid
<1>8. CASE Assemble
  BY <1>8 DEF Assemble, Resolved, ExchangeInv, AssemblyTypeOK
<1> QED
  BY <1>1, <1>2, <1>3, <1>4, <1>5, <1>6, <1>7, <1>8 DEF Call

LEMMA CorrectKeepsInv == ASSUME ExchangeInv, Correct PROVE ExchangeInv'
<1>1. DOMAIN supplied' = SuppliedFields
  BY DEF Correct
<1>2. supplied'["variable"] # None
  <2>1. ~(phase = "conflict" /\ "variable" \in named)
    BY FieldSets DEF ExchangeInv
  <2>2. supplied'["variable"] \in {Truth["variable"], supplied["variable"]}
    BY <2>1, FieldSets DEF Correct
  <2> QED
    BY <2>2, OperatorAssumption DEF ExchangeInv, AssemblyTypeOK
<1> QED
  BY <1>1, <1>2 DEF Correct, ExchangeInv, AssemblyTypeOK

LEMMA ExchangeInvInit == Init => ExchangeInv
BY OperatorAssumption DEF Init, ExchangeInv, AssemblyTypeOK, EmptyRecord

LEMMA ExchangeInvStep == ExchangeInv /\ [Next]_vars => ExchangeInv'
<1> SUFFICES ASSUME ExchangeInv, [Next]_vars PROVE ExchangeInv'
  OBVIOUS
<1>1. CASE UNCHANGED vars
  BY <1>1 DEF vars, ExchangeInv, AssemblyTypeOK
<1>2. CASE LoadSensors
  BY <1>2 DEF LoadSensors, ExchangeInv, AssemblyTypeOK
<1> QED
  BY <1>1, <1>2, CallKeepsInv, CorrectKeepsInv DEF Next

(* Type correctness of the exchange: a refusal always names something, and *)
(* what the operator supplied always names a variable.                     *)
THEOREM ExchangeIsTyped == Spec => []AssemblyTypeOK
<1>1. ExchangeInv => AssemblyTypeOK
  BY DEF ExchangeInv
<1> QED
  BY <1>1, ExchangeInvInit, ExchangeInvStep, PTL DEF Spec

-----------------------------------------------------------------------------
(* The record is made of what the file states and, for the rest, of what   *)
(* was supplied.                                                           *)
LEMMA AssembleIsExact == ASSUME ExchangeInv, Assemble PROVE ProvenanceIsExact'
<1>1. /\ record' = [f \in Populated |-> Resolved(f)]
      /\ UNCHANGED <<stated, supplied>> /\ Conflicting = {}
  BY DEF Assemble, Worded, Gridded, KnownUnit, KnownSensor, Complete
<1>2. DOMAIN stated = Resolvable \cup EXTRACTED_ONLY
  BY ExtractionsAssumption DEF ExchangeInv, AssemblyTypeOK
<1>3. ASSUME NEW f \in DOMAIN stated, stated[f] # None
      PROVE  /\ f \in DOMAIN record'
             /\ record'[f] = [value |-> stated[f], source |-> "extracted"]
             /\ f \in SuppliedFields => supplied[f] \in {None, stated[f]}
  <2>1. Extracted(f) /\ f \in Populated
    BY <1>2, <1>3, FieldSets DEF Extracted, Populated, Fields
  <2>2. f \in SuppliedFields => f \in Resolvable
    BY <1>2, <1>3, FieldSets
  <2> QED
    BY <1>1, <1>3, <2>1, <2>2 DEF Resolved, Conflicting
<1>4. ASSUME NEW f \in SuppliedFields, supplied[f] # None,
             f \in DOMAIN stated => stated[f] = None
      PROVE  f \in DOMAIN record' /\ record'[f] = [value |-> supplied[f], source |-> "supplied"]
  <2>1. ~Extracted(f) /\ f \in Populated
    BY <1>2, <1>4, FieldSets DEF Extracted, Given, Populated
  <2> QED
    BY <1>1, <2>1 DEF Resolved
<1>5. ASSUME NEW f \in DOMAIN record' PROVE record'[f].value # None
  BY <1>1, <1>5 DEF Populated, Extracted, Given, Resolved
<1> QED
  BY <1>1, <1>3, <1>4, <1>5 DEF ProvenanceIsExact

LEMMA OnlyAssembleAssembles ==
  ASSUME [Next]_vars, phase' = "assembled" PROVE Assemble \/ UNCHANGED vars
BY DEF Next, LoadSensors, Call, Correct, RaiseConflict, RaiseIncomplete, RaiseMissingSensor, RaiseUnits,
       RaiseTimezone, RaiseGrid, RaiseText, RaiseInvalid, Refuse

(* The file wins and nothing is guessed or dropped: provenance is exact in *)
(* every record assemble returns (_reconcile, _resolve).                   *)
THEOREM ProvenanceIsAlwaysExact == Spec => []ProvenanceIsExact
<1>1. Init => ProvenanceIsExact
  BY DEF Init, ProvenanceIsExact
<1>2. ExchangeInv /\ ProvenanceIsExact /\ [Next]_vars => ProvenanceIsExact'
  <2> SUFFICES ASSUME ExchangeInv, ProvenanceIsExact, [Next]_vars, phase' = "assembled"
               PROVE  ProvenanceIsExact'
    BY DEF ProvenanceIsExact
  <2>1. CASE Assemble
    BY <2>1, AssembleIsExact
  <2>2. CASE UNCHANGED vars
    BY <2>2 DEF vars, ProvenanceIsExact
  <2> QED
    BY <2>1, <2>2, OnlyAssembleAssembles
<1> QED
  BY <1>1, <1>2, ExchangeInvInit, ExchangeInvStep, PTL DEF Spec

-----------------------------------------------------------------------------
(* assemble never finds a field missing that inspect did not name: what    *)
(* outstanding_fields asks for is all that _reconcile requires.            *)
THEOREM OutstandingAlwaysSuffices == Spec => []OutstandingSuffices
<1>1. Init => OutstandingSuffices
  BY DEF Init, OutstandingSuffices
<1>2. OutstandingSuffices /\ [Next]_vars => OutstandingSuffices'
  <2> SUFFICES ASSUME OutstandingSuffices, [Next]_vars, phase' = "incomplete"
               PROVE  OutstandingSuffices'
    BY DEF OutstandingSuffices
  <2>1. CASE RaiseIncomplete
    BY <2>1 DEF RaiseIncomplete, Refuse, Missing, Outstanding, OutstandingSuffices
  <2>2. CASE UNCHANGED vars
    BY <2>2 DEF vars, Outstanding, OutstandingSuffices
  <2>3. RaiseIncomplete \/ UNCHANGED vars
    BY DEF Next, LoadSensors, Call, Correct, RaiseConflict, RaiseMissingSensor, RaiseUnits, RaiseTimezone,
           RaiseGrid, RaiseText, RaiseInvalid, Refuse, Assemble
  <2> QED
    BY <2>1, <2>2, <2>3
<1> QED
  BY <1>1, <1>2, PTL DEF Spec
-----------------------------------------------------------------------------
LEMMA SensorsInvStep == SensorsInv /\ [Next]_vars => SensorsInv'
<1> SUFFICES ASSUME SensorsInv, [Next]_vars PROVE SensorsInv'
  OBVIOUS
<1>1. CASE LoadSensors
  BY <1>1 DEF LoadSensors, SensorsInv
<1>2. CASE Call
  <2>1. UNCHANGED <<document, sensors>> /\ phase = "open"
    BY <1>2 DEF Call, RaiseConflict, RaiseIncomplete, RaiseMissingSensor, RaiseUnits, RaiseTimezone,
                RaiseGrid, RaiseText, RaiseInvalid, Assemble, Worded, Gridded, KnownUnit, KnownSensor,
                Complete, Calls, Refuse
  <2> QED
    BY <2>1 DEF SensorsInv
<1>3. CASE Correct
  BY <1>3 DEF Correct, SensorsInv
<1>4. CASE UNCHANGED vars
  BY <1>4 DEF vars, SensorsInv
<1> QED
  BY <1>1, <1>2, <1>3, <1>4 DEF Next

LEMMA AssembleTakesTheProductsUnits == ASSUME SensorsInv, Assemble PROVE UnitsAreTheProducts'
<1> DEFINE product == Value("product")
           facts == document.map["sensors"].map[product].map
           units == facts["native_units"].map
<1>1. /\ record' = [f \in Populated |-> Resolved(f)] /\ UNCHANGED <<document, sensors>>
      /\ phase = "open" /\ Missing = {} /\ ProductUnknown = {} /\ UnitUnknown = {}
  BY DEF Assemble, Worded, Gridded, KnownUnit, KnownSensor, Complete, Calls
<1>2. "product" \in Populated /\ "units" \in Populated
  <2>1. {"product", "units"} \subseteq Required
    BY DEF Required, RESOLVED_REQUIRED
  <2> QED
    BY <1>1, <2>1, FieldSets DEF Missing, Populated, Extracted, Given
<1>3. record'["product"].value = product /\ record'["units"].value = Value("units")
  BY <1>1, <1>2 DEF Value
<1>4. product \in DOMAIN sensors /\ Value("units") \in sensors[product]
  BY <1>1 DEF ProductUnknown, UnitUnknown, Unsuited
<1>5. SensorsAccepted(document) /\ sensors = SensorCatalogue(document)
  BY <1>1 DEF SensorsInv
<1>6. Get(document, "sensors") = document.map["sensors"]
  BY <1>5 DEF SensorsAccepted, Get, Is, NoKey
<1>7. product \in DOMAIN document.map["sensors"].map
  BY <1>4, <1>5, <1>6 DEF SensorCatalogue
<1>8. SpecAccepted(document.map["sensors"].map[product])
  BY <1>5, <1>6, <1>7 DEF SensorsAccepted
<1>9. Get(document.map["sensors"].map[product], "native_units") = facts["native_units"]
  BY <1>8 DEF SpecAccepted, KNOWN_FACTS, Get
<1>10. /\ Get(facts["native_units"], "value") = units["value"]
       /\ IsCited(facts["native_units"])
  BY <1>8, <1>9 DEF SpecAccepted, Get, Is, NoKey
<1>11. Value("units") \in {Str(unit) : unit \in units["value"].list}
  BY <1>4, <1>5, <1>6, <1>7, <1>9, <1>10 DEF SensorCatalogue, NativeUnits
<1>12. \A key \in {"source", "rationale"} : key \in DOMAIN units /\ units[key] # Text("")
  <2> SUFFICES ASSUME NEW key \in {"source", "rationale"}
               PROVE  key \in DOMAIN units /\ units[key] # Text("")
    OBVIOUS
  <2>1. Str(Get(facts["native_units"], key)) # ""
    BY <1>10 DEF IsCited
  <2>2. key \in DOMAIN units
    <3>1. Str(NoKey) = ""
      BY DEF Str, Is, NoKey
    <3> QED
      BY <2>1, <3>1 DEF Get
  <2>3. Str(Text("")) = ""
    <3>1. Is(Text(""), "text") /\ ~Is(Text(""), "null") /\ ~Is(Text(""), "missing")
      BY DEF Is, Text
    <3>2. Text("").text = ""
      BY DEF Text
    <3> QED
      BY <3>1, <3>2 DEF Str
  <2> QED
    BY <2>1, <2>2, <2>3 DEF Get
<1> QED
  BY <1>1, <1>3, <1>11, <1>12 DEF UnitsAreTheProducts, FactOf

(* A record's unit is always one that sensors.yaml gives for its product,  *)
(* in a fact that names a source and a rationale and leaves neither an     *)
(* empty text, for any document, any source and anything the operator      *)
(* types.  Nothing at all after `source:' gets through (UnitsAreCited).    *)
THEOREM UnitsAreAlwaysTheProducts == Spec => []UnitsAreTheProducts
<1>1. Init => SensorsInv /\ UnitsAreTheProducts
  BY DEF Init, SensorsInv, UnitsAreTheProducts
<1>2. SensorsInv /\ UnitsAreTheProducts /\ [Next]_vars => UnitsAreTheProducts'
  <2> SUFFICES ASSUME SensorsInv, UnitsAreTheProducts, [Next]_vars, phase' = "assembled"
               PROVE  UnitsAreTheProducts'
    BY DEF UnitsAreTheProducts
  <2>1. CASE Assemble
    BY <2>1, AssembleTakesTheProductsUnits
  <2>2. CASE UNCHANGED vars
    <3>1. UNCHANGED <<document, phase, record>>
      BY <2>2 DEF vars
    <3> QED
      BY <3>1 DEF UnitsAreTheProducts, FactOf
  <2> QED
    BY <2>1, <2>2, OnlyAssembleAssembles
<1> QED
  BY <1>1, <1>2, SensorsInvStep, PTL DEF Spec
=============================================================================
