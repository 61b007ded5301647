-------------------------------- MODULE ImageOcr --------------------------------
(***************************************************************************)
(* The OCR container's two passes over crawled_products.csv.  The first    *)
(* tells which images have text and rewrites image_text_check.csv; the     *)
(* second reads a chunk of the other images and appends to products.csv    *)
(* the rows that disclose food information, or what the page said.         *)
(*                                                                         *)
(* A digest is the content it is of.  Left out: ocr_raw, the raw readings  *)
(* written before a row and read by nobody, and parse_status.              *)
(***************************************************************************)
EXTENDS DetailCollection

CONSTANTS
  NoValue,    \* a field that was not found
  Heuristic,  \* per image: "NO_TEXT", "HAS_TEXT" or "UNSURE"
  Prepass,    \* per image, the engine's verdict
  GateOn,     \* OCR_DISCLOSURE_GATE_ENABLED
  Gate,       \* per image: keywords are read at low resolution
  Text,       \* per image: "empty", "plain" or "disclosure"
  Reading,    \* per image: the fields parse_disclosure_text finds
  Alike       \* pairs of values that mean the same

VARIABLES
  checks,       \* image_text_check.csv: Absent, or the verdict of each path
  out,          \* products.csv
  ocrFailures,  \* failures.csv: the rows of crawled_products.csv that failed
  reader,       \* the OCR commands, one per process
  heard         \* history: each product and words a row was read with

results == <<out, ocrFailures, heard>>
ocrVars == <<checks, results, reader>>

\* passed, the rows left out as without text, and failed are counted and printed.
NoReader ==
  [pc |-> "idle", todo |-> <<>>, chunk |-> {}, passed |-> {}, failed |-> {}, seen |-> {}, found |-> <<>>]

OcrInit ==
  /\ checks = Absent /\ out = <<>> /\ ocrFailures = {} /\ heard = {}
  /\ reader = [w \in Procs |-> NoReader]

-----------------------------------------------------------------------------
\* classify_image_text_presence, with an engine that works or not.
Verdict(path, works) ==
  CASE path \notin disk -> "UNKNOWN"
    [] path \in disk /\ Heuristic[path[3]] # "UNSURE" -> Heuristic[path[3]]
    [] path \in disk /\ Heuristic[path[3]] = "UNSURE" -> IF works THEN Prepass[path[3]] ELSE "UNKNOWN"

Checks == IF checks = Absent THEN <<>> ELSE checks

\* Verdicts of which the new replace the old.
Updated(new, old) == [p \in DOMAIN new \cup DOMAIN old |-> IF p \in DOMAIN new THEN new[p] ELSE old[p]]

\* classify-images: the images without a verdict, all of them when forced.
ClassifyImages(w, force) ==
  /\ reader[w].pc = "idle"
  /\ crawled # Absent
  /\ LET paths == Distinct([i \in 1 .. Len(crawled) |-> crawled[i].path])
         known == IF force THEN {} ELSE DOMAIN Checks
     IN reader' = [reader EXCEPT ![w] =
          [NoReader EXCEPT !.pc = "images",
                           !.todo = Among(paths, {p \in ToSet(paths) : p # NoImage /\ p \notin known})]]
  /\ UNCHANGED <<discoveryVars, collectionVars, checks, results>>

ClassifyImage(w) ==
  /\ reader[w].pc = "images" /\ reader[w].todo # <<>> /\ Head(reader[w].todo) \notin torn
  /\ LET path == Head(reader[w].todo)
     IN \E works \in BOOLEAN :
          reader' = [reader EXCEPT ![w].todo = Tail(@),
                                   ![w].found = Updated([p \in {path} |-> Verdict(path, works)], @)]
  /\ UNCHANGED <<discoveryVars, collectionVars, checks, results>>

\* An image that was not written whole does not load: the command ends, and with
\* it the verdicts it had found.
TornImageEnds(w) ==
  /\ reader[w].pc = "images" /\ reader[w].todo # <<>> /\ Head(reader[w].todo) \in torn
  /\ reader' = [reader EXCEPT ![w] = NoReader]
  /\ UNCHANGED <<discoveryVars, collectionVars, checks, results>>

ClassifiesNothing(w) ==
  /\ reader[w].pc = "images" /\ reader[w].todo = <<>> /\ DOMAIN reader[w].found = {}
  /\ reader' = [reader EXCEPT ![w].pc = "exit"]
  /\ UNCHANGED <<discoveryVars, collectionVars, checks, results>>

\* merge_and_write_image_text_checks: the file is read anew and opened for
\* writing, which empties it; new verdicts replace the old.
MergesChecks(w) ==
  /\ reader[w].pc = "images" /\ reader[w].todo = <<>> /\ DOMAIN reader[w].found # {}
  /\ reader' = [reader EXCEPT ![w].pc = "verdicts", ![w].found = Updated(@, Checks)]
  /\ checks' = <<>>
  /\ UNCHANGED <<discoveryVars, collectionVars, results>>

WritesChecks(w) ==
  /\ reader[w].pc = "verdicts"
  /\ checks' = reader[w].found
  /\ reader' = [reader EXCEPT ![w].pc = "exit", ![w].found = <<>>]
  /\ UNCHANGED <<discoveryVars, collectionVars, results>>

-----------------------------------------------------------------------------
\* process-batch: images without text are left out, then the chunk is cut.
\* Bug: only images known to have text are read.
EligibleKnown(rows) ==
  Among(rows, {row \in ToSet(rows) : row.path = NoImage \/ (row.path \in DOMAIN Checks /\ Checks[row.path] = "HAS_TEXT")})
Eligible(rows) ==
  Among(rows, {row \in ToSet(rows) : ~(row.path \in DOMAIN Checks /\ Checks[row.path] = "NO_TEXT")})
\* A limit of 0 is none.
Chunk(rows, offset, limit) ==
  LET last == IF limit = 0 \/ offset + limit > Len(rows) THEN Len(rows) ELSE offset + limit
  IN SubSeq(rows, offset + 1, last)

ProcessBatch(w, offset, limit) ==
  /\ reader[w].pc = "idle"
  /\ crawled # Absent
  /\ LET chunk == Chunk(Eligible(crawled), offset, limit)
     IN reader' = [reader EXCEPT ![w] = [NoReader EXCEPT
                     !.pc = IF chunk = <<>> THEN "exit" ELSE "keys",
                     !.todo = chunk, !.chunk = ToSet(chunk),
                     !.passed = ToSet(crawled) \ ToSet(Eligible(crawled))]]
  /\ UNCHANGED <<discoveryVars, collectionVars, checks, results>>

ImageOf(row)  == IF row.path = NoImage THEN NoImage ELSE row.path[3]
Key(row)      == <<row.product, ImageOf(row)>>
ProductKey(q) == <<q, NoImage>>

\* load_existing_source_keys: each row's own key, and its product's.
\* Bug: only the products without an image are known again.
LoadProducts(rows) == {ProductKey(o.product) : o \in ToSet(rows)}
LoadExistingSourceKeys(rows) ==
  {<<o.product, o.image>> : o \in ToSet(rows)} \cup {ProductKey(o.product) : o \in ToSet(rows)}

\* The first row of a process loads the keys, once.
LoadsKeys(w) ==
  /\ reader[w].pc = "keys"
  /\ reader' = [reader EXCEPT ![w].pc = "rows", ![w].seen = LoadExistingSourceKeys(out)]
  /\ UNCHANGED <<discoveryVars, collectionVars, checks, results>>

-----------------------------------------------------------------------------
\* merge_field: the page's value goes before the image's.
\* Bug: a value of each is a match.
MergeBlindly(dom, ocr) ==
  CASE dom # NoValue -> [value |-> dom, source |-> "DOM", status |-> "MATCHED"]
    [] dom = NoValue /\ ocr # NoValue -> [value |-> ocr, source |-> "OCR", status |-> "MATCHED"]
    [] dom = NoValue /\ ocr = NoValue ->
         [value |-> NoValue, source |-> "NOT_FOUND", status |-> "FIELD_NOT_FOUND"]
MergeField(dom, ocr) ==
  CASE dom # NoValue /\ ocr = NoValue -> [value |-> dom, source |-> "DOM", status |-> "MATCHED"]
    [] dom = NoValue /\ ocr # NoValue -> [value |-> ocr, source |-> "OCR", status |-> "MATCHED"]
    [] dom = NoValue /\ ocr = NoValue ->
         [value |-> NoValue, source |-> "NOT_FOUND", status |-> "FIELD_NOT_FOUND"]
    [] dom # NoValue /\ ocr # NoValue ->
         IF <<dom, ocr>> \in Alike
         THEN [value |-> dom, source |-> "DOM_AND_OCR", status |-> "MATCHED"]
         ELSE [value |-> dom, source |-> "DOM", status |-> "REVIEW_REQUIRED"]

Overall(statuses) ==
  CASE "REVIEW_REQUIRED" \in statuses -> "REVIEW_REQUIRED"
    [] statuses = {"FIELD_NOT_FOUND"} -> "FIELD_NOT_FOUND"
    [] OTHER -> "MATCHED"

MergedRecord(q, image, dom, read) ==
  LET food       == MergeField(NoValue, read.food)
      expiration == MergeField(dom.expiration, read.expiration)
      storage    == MergeField(dom.storage, read.storage)
  IN [product |-> q, image |-> image, food |-> food.value, expiration |-> expiration.value,
      storage |-> storage.value,
      status |-> Overall({food.status, expiration.status, storage.status})]

Nothing == [food |-> NoValue, expiration |-> NoValue, storage |-> NoValue]

DomRow(row)   == MergedRecord(row.product, NoImage, row.dom, Nothing)
ImageRow(row) == MergedRecord(row.product, ImageOf(row), row.dom, Reading[ImageOf(row)])

HasWords(dom) == dom.expiration # NoValue \/ dom.storage # NoValue

\* What the gate and the full reading of an image come to.
Plain(image)     == (GateOn /\ ~Gate[image]) \/ Text[image] = "plain"
Discloses(image) == (GateOn => Gate[image]) /\ Text[image] = "disclosure"

-----------------------------------------------------------------------------
AtRow(w) == reader[w].pc = "rows" /\ reader[w].todo # <<>>
Row(w)   == Head(reader[w].todo)
\* The next row, with these keys seen too.
Onward(w, keys) == reader' = [reader EXCEPT ![w].todo = Tail(@), ![w].seen = @ \cup keys]

\* The digest of the row's image, if it has one, is the one its name tells.
Hashes(w) == Row(w).path # NoImage => Row(w).path \in disk \ torn

\* ... and the row was not read before.
Unseen(w) == Hashes(w) /\ Key(Row(w)) \notin reader[w].seen

\* What the page told is read with the row.
Hear(w) == heard' = heard \cup {<<Row(w).product, Row(w).dom>>}

\* The row was written before.
\* Bug: or any of its product.
SkipProduct(w) ==
  /\ AtRow(w)
  /\ Key(Row(w)) \in reader[w].seen \/ ProductKey(Row(w).product) \in reader[w].seen
  /\ Hashes(w)
  /\ Onward(w, {})
  /\ UNCHANGED <<discoveryVars, collectionVars, checks, results>>
SkipRow(w) ==
  /\ AtRow(w)
  /\ Key(Row(w)) \in reader[w].seen
  /\ Hashes(w)
  /\ Onward(w, {})
  /\ UNCHANGED <<discoveryVars, collectionVars, checks, results>>

\* _process_dom_only.
DomOnly(w) ==
  /\ AtRow(w) /\ Row(w).path = NoImage /\ Unseen(w)
  /\ out' = Append(out, DomRow(Row(w)))
  /\ Onward(w, {Key(Row(w))})
  /\ Hear(w)
  /\ UNCHANGED <<discoveryVars, collectionVars, checks, ocrFailures>>

\* An image that discloses nothing: the page's words are written, once.
PlainImage(w) ==
  /\ AtRow(w) /\ Row(w).path # NoImage /\ Unseen(w) /\ Plain(ImageOf(Row(w)))
  /\ LET q     == Row(w).product
         words == HasWords(Row(w).dom) /\ ProductKey(q) \notin reader[w].seen
     IN /\ out' = IF words THEN Append(out, DomRow(Row(w))) ELSE out
        /\ Onward(w, {Key(Row(w))} \cup IF words THEN {ProductKey(q)} ELSE {})
  /\ Hear(w)
  /\ UNCHANGED <<discoveryVars, collectionVars, checks, ocrFailures>>

\* An image that discloses: its row.
DisclosingImage(w) ==
  /\ AtRow(w) /\ Row(w).path # NoImage /\ Unseen(w) /\ Discloses(ImageOf(Row(w)))
  /\ out' = Append(out, ImageRow(Row(w)))
  /\ Onward(w, {Key(Row(w))})
  /\ Hear(w)
  /\ UNCHANGED <<discoveryVars, collectionVars, checks, ocrFailures>>

\* The image is not there or not whole, has no readable text, or the engine fails
\* on it; the batch goes on.
FailRow(w) ==
  /\ AtRow(w) /\ Row(w).path # NoImage
  /\ ~Hashes(w) \/ Unseen(w)
  /\ ocrFailures' = ocrFailures \cup {Key(Row(w))}
  /\ reader' = [reader EXCEPT ![w].todo = Tail(@), ![w].failed = @ \cup {Row(w)}]
  /\ UNCHANGED <<discoveryVars, collectionVars, checks, out, heard>>

EndsBatch(w) ==
  /\ reader[w].pc = "rows" /\ reader[w].todo = <<>>
  /\ reader' = [reader EXCEPT ![w].pc = "exit", ![w].seen = {}]
  /\ UNCHANGED <<discoveryVars, collectionVars, checks, results>>

ReaderExits(w) ==
  /\ reader[w].pc = "exit"
  /\ reader' = [reader EXCEPT ![w] = NoReader]
  /\ UNCHANGED <<discoveryVars, collectionVars, checks, results>>

\* The process dies, and with it the keys it had seen and verdicts not written.
ReaderDies(w) ==
  /\ reader[w].pc \notin {"idle", "exit"}
  /\ checks' \in IF reader[w].pc = "verdicts"
                 THEN {[p \in kept |-> reader[w].found[p]] : kept \in SUBSET DOMAIN reader[w].found}
                 ELSE {checks}
  /\ reader' = [reader EXCEPT ![w] = NoReader]
  /\ UNCHANGED <<discoveryVars, collectionVars, results>>

ReaderSteps(w) ==
  \/ ClassifyImage(w) \/ TornImageEnds(w) \/ ClassifiesNothing(w) \/ MergesChecks(w) \/ WritesChecks(w)
  \/ LoadsKeys(w) \/ SkipRow(w) \/ DomOnly(w) \/ PlainImage(w) \/ DisclosingImage(w)
  \/ FailRow(w) \/ EndsBatch(w) \/ ReaderExits(w)

-----------------------------------------------------------------------------
\* A row once.
NoRowTwice == \A i, j \in 1 .. Len(out) :
  <<out[i].product, out[i].image>> = <<out[j].product, out[j].image>> => i = j

\* The row of products.csv tells what the page told.
Tells(o, dom) == \A f \in {"expiration", "storage"} : dom[f] # NoValue => o[f] = dom[f]

HasNoText(image) == Heuristic[image] = "NO_TEXT" \/ (Heuristic[image] = "UNSURE" /\ Prepass[image] = "NO_TEXT")

\* A command that ended left out only images that have no text, and counts its
\* chunk as done: each row of it failed and is in failures.csv; or its image has
\* its row in products.csv or discloses nothing, and what the page told is in a
\* row of the product, unless a row of the product was read before with other
\* words, as after a forced collection.  This survives deaths between one row and
\* the next, lost verdicts, and repeated and overlapping commands.
ClaimsAreTrue ==
  \A w \in Procs : reader[w].pc = "exit" =>
    /\ \A row \in reader[w].passed : row.path # NoImage /\ HasNoText(ImageOf(row))
    /\ \A row \in reader[w].failed : Key(row) \in ocrFailures
    /\ \A row \in reader[w].chunk \ reader[w].failed :
         LET Rows    == {o \in ToSet(out) : o.product = row.product}
             Changed == \E dom \in Doms : dom # row.dom /\ <<row.product, dom>> \in heard
         IN /\ IF row.path = NoImage THEN Rows # {}
               ELSE Plain(ImageOf(row)) \/ \E o \in Rows : o.image = ImageOf(row)
            /\ HasWords(row.dom) => Changed \/ \E o \in Rows : Tells(o, row.dom)

\* A row that is not up for review holds nothing its image contradicts: where
\* the image was read, each value is the image's or means the same.
MatchedIsAgreed ==
  \A o \in ToSet(out) :
    o.image # NoImage /\ o.status # "REVIEW_REQUIRED" =>
      \A f \in {"food", "expiration", "storage"} :
        Reading[o.image][f] # NoValue =>
          o[f] = Reading[o.image][f] \/ <<o[f], Reading[o.image][f]>> \in Alike
=============================================================================
