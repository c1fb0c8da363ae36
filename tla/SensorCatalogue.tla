-------------------------- MODULE SensorCatalogue --------------------------
(***************************************************************************)
(* The datasheet facts by product (instruments/sensors.py): which document *)
(* is accepted, and the units it gives each product.  An entry or a fact   *)
(* that is no mapping ends the load too, in a TypeError or AttributeError. *)
(***************************************************************************)
EXTENDS Yaml

KNOWN_FACTS == {"native_units"}

(* _fact_provenance.  Nothing after the key is the text "None", a citation *)
(* that core's Provenance has nothing against either.                      *)
SlipSourceIsEnough(fact) == Str(Get(fact, "source")) # ""

IsCited(fact) == \A key \in {"source", "rationale"} : Str(Get(fact, key)) # ""

(* _spec *)
SpecAccepted(raw) ==
  /\ Is(raw, "map") /\ DOMAIN raw.map = KNOWN_FACTS
  /\ LET units == Get(raw, "native_units")
     IN  /\ Is(units, "map")
         /\ Is(Get(units, "value"), "list") /\ Get(units, "value").list # {}
         /\ IsCited(units)

NativeUnits(raw) == {Str(unit) : unit \in Get(Get(raw, "native_units"), "value").list}

(* parse_sensor_catalogue *)
SensorsAccepted(document) ==
  /\ Is(document, "map") /\ Is(Get(document, "sensors"), "map")
  /\ LET sensors == Get(document, "sensors").map
     IN  DOMAIN sensors # {} /\ \A product \in DOMAIN sensors : SpecAccepted(sensors[product])

SensorCatalogue(document) ==
  LET sensors == Get(document, "sensors").map
  IN  [product \in DOMAIN sensors |-> NativeUnits(sensors[product])]
=============================================================================
