-------------------------------- MODULE BatchWork --------------------------------
(***************************************************************************)
(* One batch worked on from the console: discovery, collection, the check  *)
(* of its images and OCR are containers the console starts, one at a time  *)
(* as far as it knows.  A console that restarts forgets the container it   *)
(* started, which goes on; containers die; and each command may be run by  *)
(* hand, past the console.                                                 *)
(***************************************************************************)
EXTENDS ImageOcr

CONSTANT
  Starts  \* what is there of the batch, and bounds on what happens to it

ASSUME ProcsAssumption == "none" \notin Procs /\ "discovery" \notin Procs

\* What a discovery from a URL file and an unforced collection leave behind.
ASSUME StartsAssumption ==
  /\ Absent \notin Seq(Products) \cup Seq(CrawledRow) \cup Records
  /\ Unreadable \notin Records
  /\ \A start \in Starts :
       /\ start.listed # Absent =>
            start.listed \in Seq(Products) /\ start.listed # <<>> /\ IsInjective(start.listed)
       /\ start.raw \in [Products -> Records \cup {Absent, Unreadable}]
       /\ \A q \in Products : start.raw[q] \in RecordsOf(q) \cup {Absent, Unreadable}
       /\ start.crawled # Absent =>
            /\ start.crawled \in Seq(CrawledRow) /\ KeysOnce(start.crawled)
            /\ \A row \in ToSet(start.crawled) : row.path # NoImage =>
                 Readable(start.raw[row.product]) /\ row.path \in ToSet(start.raw[row.product].paths)

Bounds == [jobs : Nat, errands : Nat, restarts : Nat, deaths : Nat]

VARIABLES
  job,        \* what the console runs: "none", "discovery" or a process
  left,       \* the Bounds that are left
  restarted,  \* history: the console has restarted
  byHand,     \* history: a command was run past it
  forced      \* history: it started a forced collection

consoleVars == <<job, left, restarted, byHand, forced>>
batchVars   == <<discoveryVars, collectionVars, ocrVars, consoleVars>>

BatchInit ==
  /\ \E start \in Starts :
       /\ DiscoveryInit(start.listed)
       /\ CollectionInit(start.raw, start.crawled)
       /\ left = start.bounds
  /\ OcrInit
  /\ job = "none" /\ restarted = FALSE /\ byHand = FALSE /\ forced = FALSE

Spend(what) == left[what] > 0 /\ left' = [left EXCEPT ![what] = @ - 1]

Idle(w) == coll[w].pc = "idle" /\ reader[w].pc = "idle"

\* A new container; which of those that are free makes no difference.
Fresh(w) == Idle(w) /\ w = CHOOSE v \in Procs : Idle(v)

-----------------------------------------------------------------------------
\* JobRunner.start: refused while the console knows of a job that runs.
\* Bug: the console starts what it is asked to.
StartAnyhow(name) ==
  /\ Spend("jobs")
  /\ job' = name
  /\ UNCHANGED <<restarted, byHand>>
Start(name) ==
  /\ job = "none"
  /\ Spend("jobs")
  /\ job' = name
  /\ UNCHANGED <<restarted, byHand>>

\* build_discover_category_command passes the code on and drops the URL.
CategoryCommand(code, url) ==
  /\ code # "" \/ url # ""
  /\ DiscoverCategory(code, IF code # "" THEN "" ELSE url)

JobDiscover ==
  /\ Start("discovery")
  /\ \/ \E keyword \in {"", "keyword"} : DiscoverSearch(keyword)
     \/ \E code \in {"", "code"}, url \in {"", "url"} : CategoryCommand(code, url)
     \/ \E lines \in UrlFiles : DiscoverUrls(lines)
  /\ UNCHANGED <<collectionVars, ocrVars, forced>>

JobCollect(w, force) ==
  /\ Start(w) /\ Fresh(w)
  /\ CollectDetails(w, force)
  /\ forced' = (forced \/ force)
  /\ UNCHANGED ocrVars

JobClassify(w, force) ==
  /\ Start(w) /\ Fresh(w)
  /\ ClassifyImages(w, force)
  /\ UNCHANGED forced

JobOcr(w, offset, limit) ==
  /\ Start(w) /\ Fresh(w)
  /\ ProcessBatch(w, offset, limit)
  /\ UNCHANGED forced

\* The commands of README.md, past the console.
ByHand == Spend("errands") /\ byHand' = TRUE /\ UNCHANGED <<job, restarted, forced>>

DiscoverByHand == ByHand /\ DiscoveryStarts /\ UNCHANGED <<collectionVars, ocrVars>>

CollectByHand(w) ==
  /\ ByHand /\ Fresh(w)
  /\ \/ \E force \in BOOLEAN : CollectDetails(w, force)
     \/ \E lines \in UrlFiles : CollectBatch(w, lines)
  /\ UNCHANGED ocrVars

ReadByHand(w) ==
  /\ ByHand /\ Fresh(w)
  /\ \/ \E force \in BOOLEAN : ClassifyImages(w, force)
     \/ \E offset, limit \in 0 .. 1 : ProcessBatch(w, offset, limit)

-----------------------------------------------------------------------------
\* The console sees its container end.
Watch ==
  job' = IF \/ job = "discovery" /\ disc'.pc # "idle"
            \/ job \in Procs /\ (coll'[job].pc # "idle" \/ reader'[job].pc # "idle")
         THEN job ELSE "none"

Works ==
  /\ \/ DiscoverySteps /\ UNCHANGED <<collectionVars, ocrVars>>
     \/ \E w \in Procs : CollectSteps(w) /\ UNCHANGED ocrVars
     \/ \E w \in Procs : ReaderSteps(w)
  /\ Watch
  /\ UNCHANGED <<left, restarted, byHand, forced>>

Dies ==
  /\ Spend("deaths")
  /\ \/ DiscoveryDies /\ UNCHANGED <<collectionVars, ocrVars>>
     \/ \E w \in Procs : CollectDies(w) /\ UNCHANGED ocrVars
     \/ \E w \in Procs : ReaderDies(w)
  /\ Watch
  /\ UNCHANGED <<restarted, byHand, forced>>

\* The console restarts and forgets its job; the container goes on.
ConsoleRestarts ==
  /\ Spend("restarts") /\ restarted' = TRUE
  /\ job # "none" /\ job' = "none"
  /\ UNCHANGED <<discoveryVars, collectionVars, ocrVars, byHand, forced>>

BatchNext ==
  \/ JobDiscover
  \/ \E w \in Procs, force \in BOOLEAN : JobCollect(w, force) \/ JobClassify(w, force)
  \/ \E w \in Procs, offset \in 0 .. 1, limit \in 0 .. 1 : JobOcr(w, offset, limit)
  \/ DiscoverByHand
  \/ \E w \in Procs : CollectByHand(w) \/ ReadByHand(w)
  \/ Works \/ Dies \/ ConsoleRestarts

BatchSpec == BatchInit /\ [][BatchNext]_batchVars

-----------------------------------------------------------------------------
\* Every image a row or a record names is there, at whatever step a collection
\* fails or dies and however collections overlap: images come before records and
\* records before rows.  And it is whole as long as one collection at a time runs
\* and none was forced: an image a record names is not written again.
RowsAreBacked == ImagesAreThere /\ (~restarted /\ ~byHand /\ ~forced => ImagesAreWhole)

\* While the console has not restarted and nothing runs past it, no row is in
\* products.csv twice: however chunks, reruns and deaths follow one another, what
\* a dead process had written is known to the next, and no two append at once.
NoDuplicateRows == ~restarted /\ ~byHand => NoRowTwice

\* While nothing runs past the console, a collection that ends leaves
\* crawled_products.csv whole, after deaths in the middle of its rewriting too.
CollectionIsWhole == ~restarted /\ ~byHand => \A w \in Procs : LeavesItWhole(w)
=============================================================================
