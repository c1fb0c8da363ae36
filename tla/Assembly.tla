------------------------------ MODULE Assembly ------------------------------
(***************************************************************************)
(* From an extraction to a canonical record (instruments/extraction.py and *)
(* the validation of core/records.py), as the exchange it is in practice:  *)
(* inspect names what is outstanding, an operator supplies metadata,       *)
(* assemble refuses naming what it could not honour, the operator corrects *)
(* it and calls again.  One step is one call of assemble or one edit of    *)
(* the supplied metadata.  The series is modelled by the intervals its     *)
(* stamps fit, the vendor's tables by what the reader states from them.    *)
(***************************************************************************)
EXTENDS SensorCatalogue, Integers, Sequences, FiniteSets

CONSTANTS
  None,              \* an absent value
  Extractions,       \* what a source may state: field -> value
  Supplies,          \* what an operator may type first: field -> value
  Truth,             \* field -> what the operator knows of the deployment
  SensorDocuments,   \* what sensors.yaml may hold
  Packaged,          \* what it holds
  KnownLabels,       \* LOCAL_OFFSETS
  FittingIntervals   \* the intervals whose grid holds every stamp

RESOLVED_REQUIRED ==
  <<"product", "serial", "deployment_number", "interval_s", "units", "source_timezone_label">>
Required == {RESOLVED_REQUIRED[i] : i \in DOMAIN RESOLVED_REQUIRED}
RESOLVED_OPTIONAL == {"latitude", "longitude"}
Resolvable == Required \cup RESOLVED_OPTIONAL
EXTRACTED_ONLY == {"firmware", "logging_mode"}
OPERATOR_FIELDS == {"depth_m", "depth_datum", "mounting", "in_water_start", "in_water_end"}
SuppliedFields == Resolvable \cup OPERATOR_FIELDS \cup {"variable"}
Fields == SuppliedFields \cup EXTRACTED_ONLY

ASSUME ExtractionsAssumption ==
  \A x \in Extractions : DOMAIN x = Resolvable \cup EXTRACTED_ONLY
ASSUME OperatorAssumption ==
  /\ DOMAIN Truth = SuppliedFields
  /\ \A s \in Supplies : DOMAIN s = SuppliedFields
  /\ \A s \in Supplies \cup {Truth} : s["variable"] # None  \* it has no default

VARIABLES
  document,    \* sensors.yaml as safe_load returns it
  sensors,     \* SensorCatalogue: product -> units
  stated,      \* ExtractedMetadata: field -> value or None
  supplied,    \* SuppliedMetadata: field -> value or None
  phase,       \* what the last call of assemble came to
  named,       \* the fields its refusal names
  record       \* the CanonicalRecord: field -> value and source

vars == <<document, sensors, stated, supplied, phase, named, record>>

EmptyRecord == [f \in {} |-> None]
NoSensors == [p \in {} |-> {}]

Init ==
  /\ stated \in Extractions
  /\ supplied \in Supplies
  /\ document \in SensorDocuments
  /\ document = Packaged \/ supplied = Truth  \* bound: one of the two is wrong
  /\ phase = "starting" /\ named = {} /\ record = EmptyRecord /\ sensors = NoSensors

(* load_sensor_catalogue, before there is anything to assemble.            *)
LoadSensors ==
  /\ phase = "starting"
  /\ \/ SensorsAccepted(document) /\ sensors' = SensorCatalogue(document) /\ phase' = "open"
     \/ ~SensorsAccepted(document) /\ UNCHANGED sensors /\ phase' = "no_sensors"
  /\ UNCHANGED <<document, stated, supplied, named, record>>

-----------------------------------------------------------------------------
(* outstanding_fields: what inspect names for the operator.                *)
SlipIntervalNotAsked(extraction) ==
  {f \in Required \ {"interval_s"} : extraction[f] = None} \cup {"variable"} \cup OPERATOR_FIELDS

Outstanding(extraction) ==
  {f \in Required : extraction[f] = None} \cup {"variable"} \cup OPERATOR_FIELDS

(* _reconcile *)
Conflicting ==
  {f \in Resolvable : stated[f] # None /\ supplied[f] # None /\ stated[f] # supplied[f]}

SlipPositionRequired ==
  {f \in Resolvable : stated[f] = None /\ supplied[f] = None}

Missing == {f \in Required : stated[f] = None /\ supplied[f] = None}

(* _resolve: the file first, and provenance for exactly what is populated. *)
Extracted(f) == f \in Resolvable \cup EXTRACTED_ONLY /\ stated[f] # None
Given(f) == f \in SuppliedFields /\ supplied[f] # None
Populated == {f \in Fields : Extracted(f) \/ Given(f)}

SlipOperatorFirst(f) == IF Given(f) THEN [value |-> supplied[f], source |-> "supplied"]
                                    ELSE [value |-> stated[f], source |-> "extracted"]

Resolved(f) == IF Extracted(f) THEN [value |-> stated[f], source |-> "extracted"]
                               ELSE [value |-> supplied[f], source |-> "supplied"]

Value(f) == Resolved(f).value
Absent(f) == f \notin Populated

(* The checks of assemble and of the record it constructs, in order; each  *)
(* is the set of fields its refusal is about.                              *)
Unsuited(fields, suits) == IF suits THEN {} ELSE fields

ProductUnknown == Unsuited({"product"}, Value("product") \in DOMAIN sensors)
UnitUnknown == Unsuited({"units"}, Value("units") \in sensors[Value("product")])
LabelUnknown == Unsuited({"source_timezone_label"}, Value("source_timezone_label") \in KnownLabels)
OffGrid == Unsuited({"interval_s"}, Value("interval_s") \in FittingIntervals)
Words == <<"variable", "units", "source_timezone_label", "product", "serial">>
EmptyText == {i \in DOMAIN Words : Value(Words[i]) = ""}
NoDeployment == Unsuited({"deployment_number"}, Value("deployment_number") >= 1)
Halved == Unsuited(RESOLVED_OPTIONAL, Absent("latitude") <=> Absent("longitude"))
BeyondThePole == Unsuited({"latitude"}, Absent("latitude") \/ Value("latitude") \in -90..90)
BeyondTheDateLine == Unsuited({"longitude"}, Absent("longitude") \/ Value("longitude") \in -180..180)
DepthRefused == Unsuited({"depth_m"}, Given("depth_m") => Value("depth_m") >= 0)
WindowRefused ==
  Unsuited({"in_water_start", "in_water_end"},
           Given("in_water_start") /\ Given("in_water_end") =>
             Value("in_water_start") < Value("in_water_end"))

Refuse(outcome, fields) ==
  /\ phase' = outcome /\ named' = fields
  /\ record' = EmptyRecord /\ UNCHANGED <<document, sensors, stated, supplied>>

Calls == phase = "open"

RaiseConflict ==
  Calls /\ Conflicting # {} /\ Refuse("conflict", Conflicting)

RaiseIncomplete ==
  Calls /\ Conflicting = {} /\ Missing # {} /\ Refuse("incomplete", Missing)

Complete == Calls /\ Conflicting = {} /\ Missing = {}

RaiseMissingSensor == Complete /\ ProductUnknown # {} /\ Refuse("refused", ProductUnknown)
KnownSensor == Complete /\ ProductUnknown = {}

RaiseUnits == KnownSensor /\ UnitUnknown # {} /\ Refuse("refused", UnitUnknown)
KnownUnit == KnownSensor /\ UnitUnknown = {}

RaiseTimezone == KnownUnit /\ LabelUnknown # {} /\ Refuse("refused", LabelUnknown)
RaiseGrid == KnownUnit /\ LabelUnknown = {} /\ OffGrid # {} /\ Refuse("refused", OffGrid)
Gridded == KnownUnit /\ LabelUnknown = {} /\ OffGrid = {}

RaiseText ==
  /\ Gridded
  /\ \E i \in EmptyText : (\A j \in EmptyText : i <= j) /\ Refuse("refused", {Words[i]})
Worded == Gridded /\ EmptyText = {}

Invalid ==
  <<NoDeployment, Halved, BeyondThePole, BeyondTheDateLine, DepthRefused, WindowRefused>>

RaiseInvalid ==
  /\ Worded
  /\ \E i \in DOMAIN Invalid :
       /\ Invalid[i] # {} /\ \A j \in 1..(i - 1) : Invalid[j] = {}
       /\ Refuse("refused", Invalid[i])

Assemble ==
  /\ Worded
  /\ \A i \in DOMAIN Invalid : Invalid[i] = {}
  /\ record' = [f \in Populated |-> Resolved(f)]
  /\ phase' = "assembled" /\ named' = {}
  /\ UNCHANGED <<document, sensors, stated, supplied>>

Call ==
  \/ RaiseConflict \/ RaiseIncomplete \/ RaiseMissingSensor \/ RaiseUnits
  \/ RaiseTimezone \/ RaiseGrid \/ RaiseText \/ RaiseInvalid \/ Assemble

-----------------------------------------------------------------------------
(* A diligent operator withdraws what the file contradicts and answers     *)
(* every other refusal with the truth about the fields it names.  Where    *)
(* the file states a named field there is nothing left to type.            *)
Correctable == {f \in named : f \in SuppliedFields /\ (f \in Resolvable => stated[f] = None)}

Correct ==
  /\ phase \in {"conflict", "incomplete", "refused"}
  /\ supplied' = [f \in SuppliedFields |->
       IF phase = "conflict" /\ f \in named THEN None
       ELSE IF f \in Correctable THEN Truth[f]
       ELSE supplied[f]]
  /\ supplied' # supplied
  /\ phase' = "open" /\ named' = {}
  /\ UNCHANGED <<document, sensors, stated, record>>

Next == LoadSensors \/ Call \/ Correct
Spec == Init /\ [][Next]_vars
FairSpec == Spec /\ WF_vars(LoadSensors) /\ WF_vars(Call) /\ WF_vars(Correct)

-----------------------------------------------------------------------------
(* Type correctness of the exchange. *)
AssemblyTypeOK ==
  /\ stated \in Extractions
  /\ DOMAIN supplied = SuppliedFields /\ supplied["variable"] # None
  /\ phase \in {"starting", "no_sensors", "open", "conflict", "incomplete", "refused", "assembled"}
  /\ named \subseteq Fields
  /\ phase \in {"conflict", "incomplete", "refused"} <=> named # {}
  /\ \A f \in DOMAIN record : record[f].source \in {"extracted", "supplied"}

(* The file wins and nothing is guessed: each field of the record was      *)
(* stated or supplied and says which, what the file states is in the       *)
(* record as stated and as extracted whatever was typed, and no statement  *)
(* of either side is dropped (_reconcile, _resolve, _validate_provenance). *)
ProvenanceIsExact ==
  phase = "assembled" =>
    /\ \A f \in DOMAIN stated :
         stated[f] # None =>
           /\ f \in DOMAIN record
           /\ record[f] = [value |-> stated[f], source |-> "extracted"]
           /\ f \in SuppliedFields => supplied[f] \in {None, stated[f]}
    /\ \A f \in SuppliedFields :
         supplied[f] # None /\ (f \in DOMAIN stated => stated[f] = None) =>
           f \in DOMAIN record /\ record[f] = [value |-> supplied[f], source |-> "supplied"]
    /\ \A f \in DOMAIN record : record[f].value # None

(* What inspect names is enough: an operator who supplied every required   *)
(* field it named is never told that something is missing, so inspect and  *)
(* assemble agree on what a source leaves unsaid (outstanding_fields,      *)
(* _reconcile).                                                            *)
OutstandingSuffices ==
  phase = "incomplete" =>
    \E f \in Outstanding(stated) \cap Required : supplied[f] = None

(* Refusals lead somewhere: an operator who does what each one says ends   *)
(* with a record, however wrong the first attempt was, if what the file    *)
(* itself states is right and the catalogue of sensors is as packaged.     *)
SoundlyStated ==
  /\ \A f \in Resolvable : stated[f] = None \/ Truth[f] = None \/ stated[f] = Truth[f]
  /\ stated["latitude"] = None <=> stated["longitude"] = None
DiligenceIsRewarded == SoundlyStated /\ document = Packaged ~> phase = "assembled"

(* No record has a unit but one that sensors.yaml gives for the record's   *)
(* own product, in a fact that names a source and a rationale and leaves   *)
(* neither an empty text, whatever is wrong with the file                  *)
(* (parse_sensor_catalogue, assemble).  A key with nothing after it gets   *)
(* through: see UnitsAreCited.                                             *)
FactOf(product) == document.map["sensors"].map[product].map["native_units"].map

UnitsAreTheProducts ==
  phase = "assembled" =>
    LET fact == FactOf(record["product"].value)
    IN  /\ record["units"].value \in {Str(unit) : unit \in fact["value"].list}
        /\ \A key \in {"source", "rationale"} : key \in DOMAIN fact /\ fact[key] # Text("")

(* sensors.yaml: "Every value carries its citation [...].  The loader      *)
(* refuses a fact without both", which sensors.py calls "enforced by       *)
(* construction rather than by review": the fact a record's unit comes     *)
(* from says what its source and its rationale are.                        *)
UnitsAreCited ==
  phase = "assembled" =>
    \A key \in {"source", "rationale"} :
      Get(Map(FactOf(record["product"].value)), key) \notin {NoKey, Null, Text("")}

(* outstanding_fields names "the required facts the source left unsaid": a *)
(* record that cannot be built because such a fact is blank in the source  *)
(* is refused over a field the operator was asked for.                     *)
BlankFieldsAreAskedFor ==
  phase = "refused" =>
    \A f \in named \cap Required : stated[f] = "" => f \in Outstanding(stated)
=============================================================================
