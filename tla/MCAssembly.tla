----------------------------- MODULE MCAssembly -----------------------------
(***************************************************************************)
(* A HOBOconnect export, one that states a position as well, one whose     *)
(* serial cell is blank and one of an unknown product, and a bare CSV; an  *)
(* operator who may get one value of each kind wrong.                      *)
(***************************************************************************)
EXTENDS Assembly

Unstated == [f \in Resolvable \cup EXTRACTED_ONLY |-> None]

Hobo ==
  [Unstated EXCEPT !["product"] = "MX2204", !["serial"] = "22506632",
     !["deployment_number"] = 1, !["interval_s"] = 600, !["units"] = "degF",
     !["source_timezone_label"] = "PDT", !["firmware"] = "78.80", !["logging_mode"] = "fixed"]

MCExtractions ==
  {Unstated, Hobo,
   [Hobo EXCEPT !["latitude"] = 33, !["longitude"] = -117],
   [Hobo EXCEPT !["units"] = None, !["interval_s"] = None]}

MCBlankCell == {[Hobo EXCEPT !["serial"] = ""], Hobo}

MCTruth ==
  [f \in SuppliedFields |->
     CASE f = "product" -> "MX2204"
       [] f = "serial" -> "22506632"
       [] f = "deployment_number" -> 1
       [] f = "interval_s" -> 600
       [] f = "units" -> "degF"
       [] f = "source_timezone_label" -> "PDT"
       [] f = "variable" -> "sea_water_temperature"
       [] f = "depth_m" -> 2
       [] f = "in_water_start" -> 1
       [] f = "in_water_end" -> 2
       [] OTHER -> None]

(* What may be typed, the truth among it.                                  *)
Typed ==
  [product : {None, "MX2204", "MX1101"}, serial : {None, "22506632", ""},
   deployment_number : {None, 1, 0}, interval_s : {None, 600, 700},
   units : {None, "degF", "degK"}, source_timezone_label : {"PDT", "EST"},
   latitude : {None}, longitude : {None},
   variable : {"sea_water_temperature", ""},
   depth_m : {2, -1}, depth_datum : {None}, mounting : {None},
   in_water_start : {1, 3}, in_water_end : {2}]

Positions == {<<None, None>>, <<34, -117>>, <<34, None>>, <<91, -117>>, <<34, 181>>}

MCSupplies ==
  {[s EXCEPT !["latitude"] = p[1], !["longitude"] = p[2]] : s \in Typed, p \in Positions}

-----------------------------------------------------------------------------
(* sensors.yaml, with one of its keys left out, left empty or mistyped, a  *)
(* unit lost, or the facts of two products exchanged.                      *)
Units == [value |-> List({Text("degF"), Text("degC")}), source |-> Text("manual"), rationale |-> Text("units")]
Sensors(products) == Map([sensors |-> Map(products)])
Facts(units) == Map([native_units |-> units])

MCPackaged == Sensors([MX2204 |-> Facts(Map(Units))])

Elsewhere(key) ==
  CASE key = "value" -> {List({}), List({Text("degC")}), Text("degF")} [] OTHER -> {Text("")}

Without(key) == [k \in DOMAIN Units \ {key} |-> Units[k]]

MCSensorDocuments ==
  {MCPackaged, Null, Map([sensor |-> Null]), Sensors([p \in {} |-> Null]),
   Sensors([MX2204 |-> Null]), Sensors([MX2204 |-> Facts(Null)]),
   Sensors([MX2204 |-> Map([native_unit |-> Map(Units)])]),
   Sensors([MX2204 |-> Map([native_units |-> Map(Units), accuracy |-> Map(Units)])]),
   Sensors([MX1101 |-> Facts(Map(Units)),
            MX2204 |-> Facts(Map([Units EXCEPT !.value = List({Text("degC")})]))])}
  \cup {Sensors([MX2204 |-> Facts(Map(Without(key)))]) : key \in DOMAIN Units}
  \cup UNION {{Sensors([MX2204 |-> Facts(Map([Units EXCEPT ![key] = v]))]) :
                 v \in Elsewhere(key) \cup {Null}} : key \in DOMAIN Units}
=============================================================================
