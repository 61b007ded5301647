---------------------------- MODULE ProductDiscovery ----------------------------
(***************************************************************************)
(* Discovery of a batch by the crawler: a search or category page is       *)
(* scrolled and its product links collected, or a file of URLs is read;    *)
(* then discovered_products.csv, manifest.json and discovery_failures.csv  *)
(* are written into the batch's directory, in that order.                  *)
(*                                                                         *)
(* A link is the product it names; the links no product is read out of are *)
(* all Foreign.  The page shows a prefix of Feed that grows when it likes. *)
(***************************************************************************)
EXTENDS Naturals, Sequences, FiniteSets, SequencesExt

CONSTANTS
  Products,     \* products of the site
  Foreign,      \* a link canonicalize_product_url refuses
  Absent,       \* a file that is not there
  Feed,         \* the links of the page, in order
  UrlFiles,     \* product_urls.txt: sequences of lines
  MaxProducts,  \* --max-products
  MaxScrolls,   \* --max-scrolls
  IdleLimit     \* discovery_unchanged_limit

\* A line of the URL file names a product by a good link, or by one of another
\* host that only the later canonicalisation refuses, or names none.
Line == [product : Products, good : BOOLEAN] \cup {Foreign}

ASSUME DiscoveryAssumption ==
  /\ Foreign \notin Products
  /\ Feed \in Seq(Products \cup {Foreign})
  /\ \A lines \in UrlFiles : lines \in Seq(Line)
  /\ MaxProducts \in Nat \ {0} /\ MaxScrolls \in Nat \ {0} /\ IdleLimit \in Nat \ {0}

VARIABLES
  dir,        \* the batch's directory is there
  listed,     \* discovered_products.csv
  manifest,   \* manifest.json of the discovery
  refusals,   \* lines of discovery_failures.csv
  disc,       \* the discovering process
  shown,      \* how much of Feed the page shows
  sights      \* history: what the page showed at the two looks of each round

discoveryVars == <<dir, listed, manifest, refusals, disc, shown, sights>>

Statuses == {"RUNNING", "COMPLETED", "PARTIAL_FAILED", "FAILED"}
Reasons  == {"none", "MAX_PRODUCTS_REACHED", "NO_NEW_PRODUCTS", "SCROLL_LIMIT_REACHED"}
Modes    == {"none", "URL_LIST", "SEARCH", "CATEGORY"}

NoDiscovery ==
  [pc |-> "idle", mode |-> "none", known |-> <<>>, before |-> 0, idle |-> 0, round |-> 0,
   reason |-> "none", status |-> "RUNNING", failures |-> 0]

\* A batch that is new, or was discovered from a file without a refusal.
DiscoveryInit(list) ==
  /\ dir = (list # Absent) /\ listed = list /\ refusals = 0
  /\ manifest = IF list = Absent THEN Absent
                ELSE [status |-> "COMPLETED", count |-> Len(list), reason |-> "none"]
  /\ disc = NoDiscovery /\ shown = 0 /\ sights = <<>>

-----------------------------------------------------------------------------
\* What is kept of a sequence, in its order: the elements in P.
Among(s, P) == FoldLeft(LAMBDA kept, e : IF e \in P THEN Append(kept, e) ELSE kept, <<>>, s)

\* merge_link_candidates: new products in the order they are met.
Merge(known, links) ==
  FoldLeft(LAMBDA k, l : IF l = Foreign \/ l \in ToSet(k) THEN k ELSE Append(k, l), known, links)

Cut(known) == SubSeq(known, 1, IF Len(known) < MaxProducts THEN Len(known) ELSE MaxProducts)
Prefix(n)  == SubSeq(Feed, 1, n)

\* ensure_fresh_batch_dir: mkdir refuses a directory that came meanwhile.
\* Bug: a directory that is there is used.
UseBatchDir == dir' = TRUE
EnsureFreshBatchDir == ~dir /\ dir' = TRUE

\* A page is opened and shows what it shows first.
Begin(mode) ==
  /\ disc.pc = "idle"
  /\ EnsureFreshBatchDir
  /\ shown' \in 0 .. Len(Feed)
  /\ disc' = [NoDiscovery EXCEPT !.pc = "look", !.mode = mode]
  /\ sights' = <<>>
  /\ UNCHANGED <<listed, manifest, refusals>>

\* An empty keyword is refused before anything is made.
DiscoverSearch(keyword) == keyword # "" /\ Begin("SEARCH")

\* validate_category_inputs: a code or a URL that holds one, not both.
DiscoverCategory(code, url) ==
  /\ (code = "") # (url = "")
  /\ Begin("CATEGORY")

\* The page loads more, between scrolls or because of one.
PageLoads ==
  /\ disc.pc \in {"look", "scroll"}
  /\ shown' \in shown + 1 .. Len(Feed)
  /\ UNCHANGED <<dir, listed, manifest, refusals, disc, sights>>

\* discover_with_scroll: the look before the scroll.
Look ==
  /\ disc.pc = "look"
  /\ LET known == Merge(disc.known, Prefix(shown))
         full  == Len(known) >= MaxProducts
     IN disc' = [disc EXCEPT !.pc = IF full THEN "close" ELSE "scroll",
                             !.known = known, !.before = Len(disc.known), !.round = @ + 1,
                             !.reason = IF full THEN "MAX_PRODUCTS_REACHED" ELSE @]
  /\ sights' = Append(sights, <<shown, 0>>)
  /\ UNCHANGED <<dir, listed, manifest, refusals, shown>>

\* unchanged_rounds after the second look.
\* Bug: only what the second look brought counts.
IdleForgets(known) == IF Len(known) = Len(disc.known) THEN disc.idle + 1 ELSE 0
IdleRounds(known)  == IF Len(known) = disc.before THEN disc.idle + 1 ELSE 0

\* Why the loop ends after the second look, "none" when it goes on.
\* Bug: the limit of scrolls comes before the idle rounds.
HurriedReason(known, idle) ==
  CASE Len(known) >= MaxProducts -> "MAX_PRODUCTS_REACHED"
    [] Len(known) < MaxProducts /\ disc.round >= MaxScrolls -> "SCROLL_LIMIT_REACHED"
    [] Len(known) < MaxProducts /\ disc.round < MaxScrolls ->
         IF idle >= IdleLimit THEN "NO_NEW_PRODUCTS" ELSE "none"
StopReason(known, idle) ==
  CASE Len(known) >= MaxProducts -> "MAX_PRODUCTS_REACHED"
    [] Len(known) < MaxProducts /\ idle >= IdleLimit -> "NO_NEW_PRODUCTS"
    [] Len(known) < MaxProducts /\ idle < IdleLimit ->
         IF disc.round >= MaxScrolls THEN "SCROLL_LIMIT_REACHED" ELSE "none"

\* The look after the scroll.
LookAgain ==
  /\ disc.pc = "scroll"
  /\ LET known  == Merge(disc.known, Prefix(shown))
         idle   == IdleRounds(known)
         reason == StopReason(known, idle)
     IN disc' = [disc EXCEPT !.pc = IF reason = "none" THEN "look" ELSE "close",
                             !.known = known, !.idle = idle, !.reason = reason]
  /\ sights' = [sights EXCEPT ![Len(sights)][2] = shown]
  /\ UNCHANGED <<dir, listed, manifest, refusals, shown>>

Conclude(products, reason, status, failures) ==
  disc' = [disc EXCEPT !.pc = "csv", !.known = products, !.reason = reason,
                       !.status = status, !.failures = failures]

\* The page does not open, times out or breaks: what was known is dropped.
\* Bug: what was known is kept.
PageFailsKeeping(mode) ==
  /\ disc.mode = mode /\ disc.pc \in {"look", "scroll"}
  /\ Conclude(disc.known, "none", "FAILED", 1)
  /\ UNCHANGED <<dir, listed, manifest, refusals, shown, sights>>
PageFails(mode) ==
  /\ disc.mode = mode /\ disc.pc \in {"look", "scroll"}
  /\ Conclude(<<>>, "none", "FAILED", 1)
  /\ UNCHANGED <<dir, listed, manifest, refusals, shown, sights>>

\* The scrolling ended: a page without a product link is a failure.
PageConcludes(mode) ==
  /\ disc.mode = mode /\ disc.pc = "close"
  /\ IF disc.known = <<>> THEN Conclude(<<>>, disc.reason, "FAILED", 1)
     ELSE Conclude(Cut(disc.known), disc.reason, "COMPLETED", 0)
  /\ UNCHANGED <<dir, listed, manifest, refusals, shown, sights>>

SearchFails       == PageFails("SEARCH")
CategoryFails     == PageFails("CATEGORY")
SearchConcludes   == PageConcludes("SEARCH")
CategoryConcludes == PageConcludes("CATEGORY")

-----------------------------------------------------------------------------
\* load_unique_urls: the first line of each product, and every line without one.
LoadUniqueUrls(lines) ==
  FoldLeft(LAMBDA kept, l : IF l # Foreign /\ \E k \in ToSet(kept) : k # Foreign /\ k.product = l.product
                            THEN kept ELSE Append(kept, l),
           <<>>, lines)

Good(line) == line # Foreign /\ line.good

DiscoverUrls(lines) ==
  /\ disc.pc = "idle"
  /\ EnsureFreshBatchDir
  /\ LET urls  == LoadUniqueUrls(lines)
         good  == Among(urls, {l \in ToSet(urls) : Good(l)})
         found == [i \in 1 .. Len(good) |-> good[i].product]
         bad   == Len(urls) - Len(good)
     IN disc' = [NoDiscovery EXCEPT
          !.pc = "csv", !.mode = "URL_LIST", !.known = found,
          !.status = CASE found # <<>> /\ bad = 0 -> "COMPLETED"
                       [] found # <<>> /\ bad > 0 -> "PARTIAL_FAILED"
                       [] found = <<>> -> "FAILED",
          !.failures = IF urls = <<>> THEN 1 ELSE bad]
  /\ UNCHANGED <<listed, manifest, refusals, shown, sights>>

-----------------------------------------------------------------------------
\* _persist_discovery: the list, the manifest, the failures.  The list is opened,
\* which makes an empty one, and filled.
OpenDiscoveryCsv ==
  /\ disc.pc = "csv"
  /\ listed' = <<>>
  /\ disc' = [disc EXCEPT !.pc = "list"]
  /\ UNCHANGED <<dir, manifest, refusals, shown, sights>>

WriteDiscoveryCsv ==
  /\ disc.pc = "list"
  /\ listed' = disc.known
  /\ disc' = [disc EXCEPT !.pc = "manifest"]
  /\ UNCHANGED <<dir, manifest, refusals, shown, sights>>

WriteDiscoveryManifest ==
  /\ disc.pc = "manifest"
  /\ manifest' = [status |-> disc.status, count |-> Len(disc.known), reason |-> disc.reason]
  /\ disc' = [disc EXCEPT !.pc = "failures"]
  /\ UNCHANGED <<dir, listed, refusals, shown, sights>>

DiscoveryEnds == disc' = NoDiscovery /\ shown' = 0 /\ sights' = <<>>

AppendDiscoveryFailures ==
  /\ disc.pc = "failures"
  /\ refusals' = refusals + disc.failures
  /\ DiscoveryEnds
  /\ UNCHANGED <<dir, listed, manifest>>

\* The process dies; the directory and what was written of the list stay.
DiscoveryDies ==
  /\ disc.pc # "idle"
  /\ \/ listed' = listed
     \/ disc.pc = "list" /\ \E n \in 0 .. Len(disc.known) : listed' = SubSeq(disc.known, 1, n)
  /\ refusals' \in IF disc.pc = "failures" THEN refusals .. refusals + disc.failures ELSE {refusals}
  /\ DiscoveryEnds
  /\ UNCHANGED <<dir, manifest>>

DiscoveryStarts ==
  \/ \E keyword \in {"", "keyword"} : DiscoverSearch(keyword)
  \/ \E code \in {"", "code"}, url \in {"", "url"} : DiscoverCategory(code, url)
  \/ \E lines \in UrlFiles : DiscoverUrls(lines)

DiscoverySteps ==
  \/ PageLoads \/ Look \/ LookAgain
  \/ SearchFails \/ CategoryFails \/ SearchConcludes \/ CategoryConcludes
  \/ OpenDiscoveryCsv \/ WriteDiscoveryCsv \/ WriteDiscoveryManifest \/ AppendDiscoveryFailures

-----------------------------------------------------------------------------
\* simulate_scroll_discovery, the double the unit tests run in place of the
\* scrolling: one list of links per round, here those both looks saw.
DoubleRound(d, seen) ==
  LET known == Merge(Merge(d.known, Prefix(seen[1])), Prefix(seen[2]))
      idle  == IF Len(known) = Len(d.known) THEN d.idle + 1 ELSE 0
  IN IF d.reason # "none" THEN d
     ELSE [known |-> known, idle |-> idle, rounds |-> d.rounds + 1,
           reason |-> CASE Len(known) >= MaxProducts -> "MAX_PRODUCTS_REACHED"
                        [] Len(known) < MaxProducts /\ idle >= IdleLimit -> "NO_NEW_PRODUCTS"
                        [] OTHER -> "none"]

Double ==
  LET d == FoldLeft(DoubleRound, [known |-> <<>>, idle |-> 0, rounds |-> 0, reason |-> "none"], sights)
  IN [products |-> Cut(d.known), rounds |-> d.rounds,
      reason |-> IF d.reason = "none" THEN "SCROLL_LIMIT_REACHED" ELSE d.reason]

-----------------------------------------------------------------------------
\* The scrolling that runs and the double that is tested end alike: same
\* products, same reason, same number of rounds, whatever the page showed
\* between the two looks of a round.
DoubleAgrees ==
  disc.pc = "close" =>
    [products |-> Cut(disc.known), rounds |-> disc.round, reason |-> disc.reason] = Double

\* Scrolling stops for want of new products only when the page had shown, since
\* IdleLimit whole rounds, nothing it had not shown before; by the limit of
\* scrolls only after all of them; and no product shown was missed.
StopIsJustified ==
  disc.pc = "close" =>
    LET n       == Len(sights)
        Met(k)  == {Feed[i] : i \in 1 .. k} \ {Foreign}
        before  == IF n > IdleLimit THEN Met(sights[n - IdleLimit][2]) ELSE {}
    IN /\ Met(sights[n][1]) \cup Met(sights[n][2]) = ToSet(disc.known)
       /\ disc.reason = "NO_NEW_PRODUCTS" => n >= IdleLimit /\ before = ToSet(disc.known)
       /\ disc.reason = "SCROLL_LIMIT_REACHED" => n = MaxScrolls
       /\ disc.reason = "MAX_PRODUCTS_REACHED" => Cardinality(ToSet(disc.known)) >= MaxProducts

\* A batch that has its manifest has the list it counts: as many lines, no
\* product twice, no more than asked for, FAILED just when the list is empty;
\* whatever step died before, and whatever is done to the batch afterwards.
DiscoveryFilesAgree ==
  manifest # Absent =>
    /\ listed # Absent
    /\ manifest.count = Len(listed)
    /\ IsInjective(listed)
    /\ manifest.reason # "none" => Len(listed) <= MaxProducts
    /\ (manifest.status = "FAILED") <=> (listed = <<>>)

\* A batch is discovered once: its list, once it was written or its writer died,
\* never changes again.
ListIsFinal == [][listed # Absent /\ disc.pc # "list" => listed' = listed]_discoveryVars
=============================================================================
