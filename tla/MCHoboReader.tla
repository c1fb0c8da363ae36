---------------------------- MODULE MCHoboReader ----------------------------
(***************************************************************************)
(* The details table of an export in its real order, with the keys the     *)
(* reader looks at; a numbered log of two rows, one of which marks two     *)
(* events.  The export is as the vendor wrote it, or states its units and  *)
(* zones otherwise in any of their places.                                 *)
(***************************************************************************)
EXTENDS HoboReader

Row(unit, heading, key, value) == [unit |-> unit, heading |-> heading, key |-> key, value |-> value]
Heading(h) == Row(None, h, None, None)
Key(k) == Row(None, None, k, [of |-> k, zone |-> None])
TimeKey(k, zone) == Row(None, None, k, [of |-> k, zone |-> zone])

MCDetails(unit, first, last) ==
  <<Heading("Device Info"), Key("Product"), Key("Serial Number"), Key("Firmware Version"),
    Heading("Deployment Info"), Key("Deployment Number"), Key("Logging Interval"), Key("Logging Mode"),
    Row(unit, None, None, None),
    Heading("Series Statistics"), Key("Samples"), Key("Max"), Key("Min"), Key("Avg"), Key("Std Dev"),
    TimeKey("First Sample Time", first), TimeKey("Last Sample Time", last)>>

MCLog ==
  <<[stamp |-> 1, cells |-> <<OtherText, Marker, Empty>>],
    [stamp |-> 2, cells |-> <<OtherText, Marker, Marker>>]>>
MCLogged ==
  <<[at |-> 1, event_type |-> "host_connected"], [at |-> 2, event_type |-> "host_connected"],
    [at |-> 2, event_type |-> "started"]>>

Zones == {"PDT", "PST"}
Export(hands, unit, seriesUnit, zone, eventZone, first, last) ==
  [edits |-> hands, dataUnit |-> unit, dataZone |-> zone, logZone |-> eventZone,
   details |-> MCDetails(seriesUnit, first, last),
   columns |-> <<SampleNumber, "Host Connected", "Started">>, log |-> MCLog, logged |-> MCLogged]

MCExports ==
  {Export(0, "F", "F", "PDT", "PDT", "PDT", "PDT")}
    \cup {Export(1, u, s, "PDT", "PDT", "PDT", "PDT") : u \in {"C", "K"}, s \in {"F", "C"}}
    \cup {Export(1, "F", "F", z, e, f, l) : z \in Zones, e \in Zones, f \in Zones, l \in Zones}

MCUnits == [u \in {"F", "C"} |-> IF u = "F" THEN "degF" ELSE "degC"]
MCEventTypes ==
  [label \in {"Host Connected", "Started"} |->
     IF label = "Started" THEN "started" ELSE "host_connected"]
=============================================================================
