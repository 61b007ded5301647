--------------------------- MODULE MCReconciliation ---------------------------
(* Two products, the second with one reading; every pair of readings and of   *)
(* reference rows out of a few that differ where the stages decide.           *)
EXTENDS Reconciliation

CONSTANTS p1, p2, onion, n1, n2

Days(n, basis) == [value |-> n, unit |-> "DAY", basis |-> basis]
Plain(p) == [product |-> p, valid |-> TRUE, confidence |-> 1, name |-> onion, type |-> "ROOM",
             method |-> "UNKNOWN", expiration |-> Days(5, "MANUFACTURE")]

MCReadings ==
  {Plain(p1),
   [Plain(p1) EXCEPT !.confidence = 2, !.expiration = Days(7, "MANUFACTURE")],
   [Plain(p1) EXCEPT !.confidence = 0, !.expiration = Absent],
   [Plain(p1) EXCEPT !.confidence = 2, !.expiration = Days(5, "UNKNOWN")],
   [Plain(p1) EXCEPT !.expiration = [value |-> 5, unit |-> "MONTH", basis |-> "PACKING"]],
   [Plain(p1) EXCEPT !.type = Absent, !.method = "REFRIGERATED"],
   [Plain(p1) EXCEPT !.name = Absent],
   [Plain(p1) EXCEPT !.valid = FALSE, !.confidence = 2]}

MCDeliveries == {<<a>> : a \in MCReadings} \cup {<<a, b>> : a \in MCReadings, b \in MCReadings \cup {Plain(p2)}}

Row(code) == [adaptable |-> TRUE, code |-> code, type |-> onion, storage |-> "AMBIENT",
              days |-> 5, inDays |-> TRUE, suspect |-> FALSE]
MCRows ==
  {Row(n1), [Row(n1) EXCEPT !.days = 7], [Row(n2) EXCEPT !.storage = "REFRIGERATED"],
   [Row(n2) EXCEPT !.storage = Absent, !.suspect = TRUE], [Row(n1) EXCEPT !.days = 0],
   [Row(n2) EXCEPT !.adaptable = FALSE], [Row(n1) EXCEPT !.inDays = FALSE, !.type = Absent]}

MCExports == {<<a>> : a \in MCRows} \cup {<<a, b>> : a \in MCRows, b \in MCRows}
=============================================================================
