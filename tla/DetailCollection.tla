---------------------------- MODULE DetailCollection ----------------------------
(***************************************************************************)
(* Collection of the details of a discovered batch: each listed product's  *)
(* page is opened, its images downloaded and its record kept in crawl_raw, *)
(* a directory all batches share; then crawled_products.csv is rewritten   *)
(* with one row per image.  A product whose record is there is not opened  *)
(* again unless the collection is forced.                                  *)
(***************************************************************************)
EXTENDS ProductDiscovery

CONSTANTS
  Procs,     \* processes that collect or read
  Images,    \* contents of images
  NoImage,   \* the path of a row without an image
  Unreadable,  \* a record that does not load
  Doms,      \* what a page tells in words, as one value
  Pages      \* per product, the pages the site may answer with

Page == [preferred : Seq(Images), fallback : Seq(Images), dom : Doms]

ASSUME PagesAssumption ==
  /\ \A q \in Products : \A page \in Pages[q] : page \in Page
  /\ NoImage \notin Images

VARIABLES
  raw,      \* crawl_raw/{product}.json: Absent, Unreadable or a record
  disk,     \* detail_images/{product}_{sequence}_{digest}.jpg
  torn,     \* those of disk that were opened for writing and not written whole
  crawled,  \* crawled_products.csv: Absent or its rows
  coll      \* the collections, one per process

collectionVars == <<raw, disk, torn, crawled, coll>>

Kinds == {"none", "details", "force", "batch"}

NoCollection ==
  [pc |-> "idle", kind |-> "none", wanted |-> {}, todo |-> <<>>, rows |-> <<>>,
   failed |-> {}, record |-> Absent, got |-> 0, merged |-> <<>>, old |-> <<>>]

-----------------------------------------------------------------------------
\* select_detail_image_candidates: those of the detail section, or else the
\* first five others.
Candidates(page) ==
  IF page.preferred # <<>> THEN page.preferred
  ELSE SubSeq(page.fallback, 1, IF Len(page.fallback) < 5 THEN Len(page.fallback) ELSE 5)

\* download_images: a content met twice is kept once, numbered as kept.
Distinct(contents) ==
  FoldLeft(LAMBDA kept, c : IF c \in ToSet(kept) THEN kept ELSE Append(kept, c), <<>>, contents)
Downloaded(q, contents) ==
  LET kept == Distinct(contents) IN [i \in 1 .. Len(kept) |-> <<q, i, kept[i]>>]

\* collect_product, of a page that answered.
RecordOf(q, page) == [paths |-> Downloaded(q, Candidates(page)), dom |-> page.dom]
RecordsOf(q) == {RecordOf(q, page) : page \in Pages[q]}
Records == UNION {RecordsOf(q) : q \in Products}
Readable(r) == r \in Records

\* build_manifest_rows: one row per image, one for a product without any.
RowsOf(q, r) ==
  IF r.paths = <<>> THEN << [product |-> q, path |-> NoImage, dom |-> r.dom] >>
  ELSE [i \in 1 .. Len(r.paths) |-> [product |-> q, path |-> r.paths[i], dom |-> r.dom]]

\* A row of crawled_products.csv.
CrawledRow == [product : Products, path : {NoImage} \cup (Products \X Nat \X Images), dom : Doms]

RowKey(row) == <<row.product, row.path>>
KeysOf(rows) == {RowKey(row) : row \in ToSet(rows)}
KeysOnce(rows) == \A i, j \in 1 .. Len(rows) : RowKey(rows[i]) = RowKey(rows[j]) => i = j

\* collect_details: the rows of the file, then the new ones whose key it lacks.
\* Bug: a product the file has gets no new row.
MergeProducts(file, rows) ==
  FoldLeft(LAMBDA m, row : IF \E r \in ToSet(m) : r.product = row.product /\ r.path # row.path
                           THEN m ELSE Append(m, row), file, rows)
MergeRows(file, rows) ==
  FoldLeft(LAMBDA m, row : IF RowKey(row) \in KeysOf(m) THEN m ELSE Append(m, row), file, rows)

\* crawl_raw may hold what other batches left.
CollectionInit(records, rows) ==
  /\ raw = records
  /\ disk = UNION {ToSet(raw[q].paths) : q \in {q \in Products : Readable(raw[q])}}
  /\ torn = {} /\ crawled = rows
  /\ coll = [w \in Procs |-> NoCollection]

-----------------------------------------------------------------------------
Collecting(w, kind, products) ==
  /\ coll[w].pc = "idle"
  /\ products # <<>>
  /\ coll' = [coll EXCEPT ![w] = [NoCollection EXCEPT !.pc = "pages", !.kind = kind,
                                    !.wanted = ToSet(products), !.todo = products]]
  /\ UNCHANGED <<discoveryVars, raw, disk, torn, crawled>>

\* collect-details reads the list; an empty one ends the command.
CollectDetails(w, force) ==
  /\ listed # Absent
  /\ Collecting(w, IF force THEN "force" ELSE "details", listed)

\* collect-batch reads the URL file; it needs no discovery.
CollectBatch(w, lines) ==
  LET urls == LoadUniqueUrls(lines)
  IN Collecting(w, "batch", [i \in 1 .. Len(urls) |-> IF Good(urls[i]) THEN urls[i].product ELSE Foreign])

InPages(w) == coll[w].pc = "pages" /\ coll[w].todo # <<>>
Reused(w)  == coll[w].kind = "details" /\ raw[Head(coll[w].todo)] # Absent

\* The record is there and is read again; one that cannot be read is passed over.
ReuseRecord(w) ==
  /\ InPages(w) /\ Reused(w)
  /\ LET q    == Head(coll[w].todo)
         rows == IF Readable(raw[q]) THEN RowsOf(q, raw[q]) ELSE <<>>
     IN coll' = [coll EXCEPT ![w].todo = Tail(@), ![w].rows = @ \o rows]
  /\ UNCHANGED <<discoveryVars, raw, disk, torn, crawled>>

\* collect_product: the page answers, and tells the images to get.
\* Bug: the record is written before the images.
OpenProductKeeping(w) ==
  /\ InPages(w) /\ ~Reused(w) /\ Head(coll[w].todo) # Foreign
  /\ \E page \in Pages[Head(coll[w].todo)] :
       LET r == RecordOf(Head(coll[w].todo), page)
       IN /\ coll' = [coll EXCEPT ![w].pc = "images", ![w].record = r]
          /\ raw' = [raw EXCEPT ![Head(coll[w].todo)] = r]
  /\ UNCHANGED <<discoveryVars, disk, torn, crawled>>
OpenProduct(w) ==
  /\ InPages(w) /\ ~Reused(w) /\ Head(coll[w].todo) # Foreign
  /\ \E page \in Pages[Head(coll[w].todo)] :
       coll' = [coll EXCEPT ![w].pc = "images", ![w].record = RecordOf(Head(coll[w].todo), page)]
  /\ UNCHANGED <<discoveryVars, raw, disk, torn, crawled>>

\* The image that is next, and whether a process is writing one.
MoreImages(w) == coll[w].pc = "images" /\ coll[w].got < Len(coll[w].record.paths)
ImageAt(w)    == coll[w].record.paths[coll[w].got + 1]
Writing(w, path) == coll[w].pc = "image" /\ ImageAt(w) = path

\* write_bytes in place: an image that was there is emptied first.
OpenImage(w) ==
  /\ MoreImages(w)
  /\ disk' = disk \cup {ImageAt(w)}
  /\ torn' = torn \cup {ImageAt(w)}
  /\ coll' = [coll EXCEPT ![w].pc = "image"]
  /\ UNCHANGED <<discoveryVars, raw, crawled>>

\* An image another process has open as well is left to that one.
SaveImage(w) ==
  /\ coll[w].pc = "image"
  /\ torn' = IF \E v \in Procs \ {w} : Writing(v, ImageAt(w)) THEN torn ELSE torn \ {ImageAt(w)}
  /\ coll' = [coll EXCEPT ![w].pc = "images", ![w].got = @ + 1]
  /\ UNCHANGED <<discoveryVars, raw, disk, crawled>>

\* All images are there: the record, which replaces the old one as a whole, and
\* the rows.
KeepRecord(w) ==
  /\ coll[w].pc = "images" /\ ~MoreImages(w)
  /\ LET q == Head(coll[w].todo)
     IN /\ raw' = [raw EXCEPT ![q] = coll[w].record]
        /\ coll' = [coll EXCEPT ![w].pc = "pages", ![w].todo = Tail(@),
                                ![w].rows = @ \o RowsOf(q, coll[w].record),
                                ![w].record = Absent, ![w].got = 0]
  /\ UNCHANGED <<discoveryVars, disk, torn, crawled>>

\* The page, a download or a write fails, or the link is none of the site's: the
\* images that were got stay, an image that was being written is torn.
FailProduct(w) ==
  /\ \/ InPages(w) /\ ~Reused(w)
     \/ coll[w].pc \in {"images", "image"}
  /\ coll' = [coll EXCEPT ![w].pc = "pages", ![w].todo = Tail(@),
                          ![w].failed = @ \cup {Head(coll[w].todo)},
                          ![w].record = Absent, ![w].got = 0]
  /\ UNCHANGED <<discoveryVars, raw, disk, torn, crawled>>

-----------------------------------------------------------------------------
\* Nothing collected: the file is left alone, unless by collect-batch.
CollectsNothing(w) ==
  /\ coll[w].pc = "pages" /\ coll[w].todo = <<>> /\ coll[w].rows = <<>>
  /\ coll[w].kind # "batch"
  /\ coll' = [coll EXCEPT ![w].pc = "exit", ![w].old = IF crawled = Absent THEN <<>> ELSE crawled]
  /\ UNCHANGED <<discoveryVars, raw, disk, torn, crawled>>

\* The file is read, unless forced, and opened for writing, which empties it.
\* A batch that was never discovered gets its directory here.
CollectOpens(w) ==
  /\ coll[w].pc = "pages" /\ coll[w].todo = <<>>
  /\ coll[w].rows # <<>> \/ coll[w].kind = "batch"
  /\ LET file == IF crawled = Absent THEN <<>> ELSE crawled
     IN coll' = [coll EXCEPT ![w].pc = "write", ![w].old = file,
                   ![w].merged = IF coll[w].kind = "details" /\ crawled # Absent
                                 THEN MergeRows(file, coll[w].rows) ELSE coll[w].rows]
  /\ crawled' = <<>>
  /\ dir' = TRUE
  /\ UNCHANGED <<listed, manifest, refusals, disc, shown, sights, raw, disk, torn>>

CollectCloses(w) ==
  /\ coll[w].pc = "write"
  /\ crawled' = coll[w].merged
  /\ coll' = [coll EXCEPT ![w].pc = "exit"]
  /\ UNCHANGED <<discoveryVars, raw, disk, torn>>

CollectExits(w) ==
  /\ coll[w].pc = "exit"
  /\ coll' = [coll EXCEPT ![w] = NoCollection]
  /\ UNCHANGED <<discoveryVars, raw, disk, torn, crawled>>

\* The process dies; a file it was writing keeps what was written.
CollectDies(w) ==
  /\ coll[w].pc \in {"pages", "images", "image", "write"}
  /\ crawled' \in IF coll[w].pc = "write"
                  THEN {SubSeq(coll[w].merged, 1, n) : n \in 0 .. Len(coll[w].merged)}
                  ELSE {crawled}
  /\ coll' = [coll EXCEPT ![w] = NoCollection]
  /\ UNCHANGED <<discoveryVars, raw, disk, torn>>

CollectSteps(w) ==
  \/ ReuseRecord(w) \/ OpenProduct(w) \/ OpenImage(w) \/ SaveImage(w) \/ KeepRecord(w) \/ FailProduct(w)
  \/ CollectsNothing(w) \/ CollectOpens(w) \/ CollectCloses(w) \/ CollectExits(w)

-----------------------------------------------------------------------------
\* Every image a record in crawl_raw or a row names is there.
ImagesAreThere ==
  /\ \A q \in Products : Readable(raw[q]) => ToSet(raw[q].paths) \subseteq disk
  /\ crawled # Absent => \A row \in ToSet(crawled) : row.path # NoImage => row.path \in disk

\* Every image a record in crawl_raw or a row names was written whole.
ImagesAreWhole ==
  /\ \A q \in Products : Readable(raw[q]) => ToSet(raw[q].paths) \cap torn = {}
  /\ crawled # Absent => \A row \in ToSet(crawled) : row.path # NoImage => row.path \notin torn

\* What a collection that ended leaves: every image of every product it did not
\* fail on or pass over has its row, no image has two, and unless it was forced
\* the rows that were there stay.
LeavesItWhole(w) ==
  coll[w].pc = "exit" =>
    LET rows == IF crawled = Absent THEN <<>> ELSE crawled
    IN /\ \A q \in coll[w].wanted \ coll[w].failed :
            Readable(raw[q]) => KeysOf(RowsOf(q, raw[q])) \subseteq KeysOf(rows)
       /\ KeysOnce(rows)
       /\ coll[w].kind = "details" => ToSet(coll[w].old) \subseteq ToSet(rows)
=============================================================================
