------------------------------ MODULE MCBatchWork ------------------------------
(* A page with a foreign link, a repeated product and one product more than     *)
(* asked for.  The first product's page may change its words and lose an image  *)
(* that discloses; the second's says nothing and has no image, or has one it     *)
(* contradicts and one without text.                                            *)
EXTENDS BatchWork

CONSTANTS p1, p2, p3, label, plain, blank, may, june, w1, w2

MCFeed == <<p1, Foreign, p1, p2, p3>>

Link(q, good) == [product |-> q, good |-> good]
MCUrlFiles == {<<Foreign>>, <<Link(p2, TRUE), Foreign, Link(p1, FALSE), Link(p1, TRUE)>>}

Told(value) == [expiration |-> value, storage |-> NoValue]
MCDoms == {Told(NoValue), Told(may), Told(june)}
MCPages == [q \in Products |->
  CASE q = p1 -> {[preferred |-> <<plain, label, plain>>, fallback |-> <<blank>>, dom |-> Told(may)],
                  [preferred |-> <<plain>>, fallback |-> <<>>, dom |-> Told(june)]}
    [] q = p2 -> {[preferred |-> <<>>, fallback |-> <<>>, dom |-> Told(NoValue)],
                  [preferred |-> <<>>, fallback |-> <<label, blank>>, dom |-> Told(june)]}
    [] q = p3 -> {}]

NoRecords == [q \in Products |-> Absent]
Silent    == RecordOf(p2, CHOOSE page \in Pages[p2] : page.fallback = <<>>)
Imaged    == RecordOf(p2, CHOOSE page \in Pages[p2] : page.fallback # <<>>)
Labelled  == RecordOf(p1, CHOOSE page \in Pages[p1] : page.dom = Told(may))

New(records, bounds) == [listed |-> Absent, raw |-> records, crawled |-> Absent, bounds |-> bounds]
Collected == [q \in Products |-> CASE q = p1 -> Labelled [] q = p2 -> Imaged [] q = p3 -> Absent]

Bound(jobs, errands, restarts, deaths) ==
  [jobs |-> jobs, errands |-> errands, restarts |-> restarts, deaths |-> deaths]

After(bounds) == [listed |-> <<p1, p2>>, raw |-> Collected,
                  crawled |-> RowsOf(p1, Labelled) \o RowsOf(p2, Imaged), bounds |-> bounds]

Discovered(bounds) == [listed |-> <<p1, p2>>, raw |-> NoRecords, crawled |-> Absent, bounds |-> bounds]

\* One command at a time and a death: a new batch, among others' records, and one
\* that was collected.
Alternating ==
  {New(NoRecords, Bound(4, 0, 0, 1)), After(Bound(3, 0, 0, 1))}
  \cup {New(records, Bound(3, 0, 0, 1)) :
          records \in {[NoRecords EXCEPT ![p1] = Unreadable], [NoRecords EXCEPT ![p2] = Silent]}}

\* Commands run by hand, or forgotten by a restarted console, and those beside them.
Overlapping ==
  {New(NoRecords, Bound(0, 1, 0, 1)), Discovered(Bound(1, 1, 0, 0)),
   After(Bound(2, 0, 1, 1)), After(Bound(1, 1, 0, 1))}

MCStarts == Alternating \cup Overlapping

MCHeuristic == [i \in Images |-> IF i = blank THEN "UNSURE" ELSE "HAS_TEXT"]
MCPrepass   == [i \in Images |-> IF i = blank THEN "NO_TEXT" ELSE "HAS_TEXT"]
MCGate      == [i \in Images |-> i = label]
MCText      == [i \in Images |-> IF i = label THEN "disclosure" ELSE IF i = plain THEN "plain" ELSE "empty"]
MCReading   == [i \in Images |-> [food |-> NoValue, expiration |-> IF i = label THEN may ELSE NoValue,
                                  storage |-> NoValue]]
MCAlike == {<<may, may>>, <<june, june>>}
=============================================================================
