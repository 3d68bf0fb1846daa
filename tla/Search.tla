------------------------------ MODULE Search -------------------------------
(***************************************************************************)
(* Finding a tool: the browse page, its form and its links, the search     *)
(* request they are read into, and the API's answer, which is put together *)
(* from three reads while listings come and go.                            *)
(*                                                                         *)
(* A parameter of an address is Absent, Blank, Bad (unreadable) or the     *)
(* value it spells.  A date is a number.  The listings' identifiers are    *)
(* numbers too: they settle the order of two at one distance.              *)
(***************************************************************************)
EXTENDS Integers, FiniteSets, Sequences, SequencesExt

CONSTANTS
  Null, Absent, Blank, Bad,
  Listings,              \* a set of numbers
  Metres,                \* how far each listing's fuzzed point is from the postcode
  CategoryOf, Words,     \* the category of a listing; the listings a keyword finds
  OwnerOf,
  Categories, Postcodes, Placeable,
  SEARCH_RADII_MILES,    \* a sequence
  METRES_PER_MILE, SEARCH_PAGE_SIZE, MAX_SEARCH_PAGE, MAX_MAXIMUM_RENTAL_DAYS,
  Addresses,             \* addresses a visitor may open
  MaxVisits, MaxChanges  \* bounds

VARIABLES
  visible,     \* listings published and approved
  busy,        \* listings' days taken by a block or a booking
  private,     \* owners who declare themselves private
  request,     \* the page being put together
  page,        \* the page in front of the visitor
  walk,        \* what Next has shown since a first page, and has nothing changed since?
  visits, changes

searchVars == <<visible, busy, private, request, page, walk, visits, changes>>

(***************************************************************************)
(* The search a URL spells.                                                *)
(***************************************************************************)
FIRST_SEARCH_PAGE == 1
DEFAULT_SEARCH_RADIUS_MILES == SEARCH_RADII_MILES[1]
Radii == ToSet(SEARCH_RADII_MILES)

\* The next rung of the ladder.
widerRadius(radius) ==
  LET i == CHOOSE j \in DOMAIN SEARCH_RADII_MILES : SEARCH_RADII_MILES[j] = radius
  IN IF i < Len(SEARCH_RADII_MILES) THEN SEARCH_RADII_MILES[i + 1] ELSE Null

\* Mutant: the offset counts from the page before.
resultsToSkip_short(p) == IF p = 1 THEN 0 ELSE (p - FIRST_SEARCH_PAGE) * SEARCH_PAGE_SIZE - 1

resultsToSkip(p) == (p - FIRST_SEARCH_PAGE) * SEARCH_PAGE_SIZE

nextSearchPage(p) == IF p >= MAX_SEARCH_PAGE THEN Null ELSE p + 1
previousSearchPage(p) == IF p <= FIRST_SEARCH_PAGE THEN Null ELSE p - 1

\* A field of an address, and the schema it is read by: blank is absent for all
\* but the postcode, and absent is the default.
first(value) == IF value = Blank THEN Absent ELSE value

searchRadiusMilesSchema(value) == value = Absent \/ value \in Radii
searchPageSchema(value) == value = Absent \/ value \in FIRST_SEARCH_PAGE..MAX_SEARCH_PAGE
searchCategorySchema(value) == value # Bad
searchKeywordSchema(value) == value # Bad

defaulting(value, default) == IF value = Absent THEN default ELSE value

\* Both dates or neither, in order, and no longer than a hire may be.
searchDatesSchema(from, to) ==
  \/ from = Absent /\ to = Absent
  \/ /\ from \notin {Absent, Bad} /\ to \notin {Absent, Bad}
     /\ to >= from
     /\ to - from + 1 <= MAX_MAXIMUM_RENTAL_DAYS

Dates(from, to) == IF from = Absent THEN Null ELSE [from |-> from, to |-> to]

\* The whole query, or Null where any of it is refused.
listingSearchQuerySchema(raw) ==
  LET f == [field \in DOMAIN raw |-> first(raw[field])] IN
  IF /\ f.postcode \in Postcodes
     /\ searchRadiusMilesSchema(f.radiusMiles) /\ searchPageSchema(f.page)
     /\ searchCategorySchema(f.category) /\ searchKeywordSchema(f.keyword)
     /\ searchDatesSchema(f.availableFrom, f.availableTo)
  THEN [postcode |-> f.postcode,
        radiusMiles |-> defaulting(f.radiusMiles, DEFAULT_SEARCH_RADIUS_MILES),
        page |-> defaulting(f.page, FIRST_SEARCH_PAGE),
        category |-> defaulting(f.category, Null), keyword |-> defaulting(f.keyword, Null),
        dates |-> Dates(f.availableFrom, f.availableTo)]
  ELSE Null

absentOr(value) == IF value = Null THEN Absent ELSE value

\* Mutant: the dates are left out of the address.
listingSearchQueryString_undated(search) ==
  [postcode |-> search.postcode, radiusMiles |-> search.radiusMiles,
   keyword |-> absentOr(search.keyword), category |-> absentOr(search.category),
   page |-> IF search.page = FIRST_SEARCH_PAGE THEN Absent ELSE search.page,
   availableFrom |-> Absent, availableTo |-> Absent]

\* The address of a search: what is at its default is left out.
listingSearchQueryString(search) ==
  [postcode |-> search.postcode, radiusMiles |-> search.radiusMiles,
   keyword |-> absentOr(search.keyword), category |-> absentOr(search.category),
   page |-> IF search.page = FIRST_SEARCH_PAGE THEN Absent ELSE search.page,
   availableFrom |-> IF search.dates = Null THEN Absent ELSE search.dates.from,
   availableTo |-> IF search.dates = Null THEN Absent ELSE search.dates.to]

browseHref(search) == [names |-> search, address |-> listingSearchQueryString(search)]

(***************************************************************************)
(* The links of a page of results.                                         *)
(***************************************************************************)
nextSearchHref(search, hasMore) ==
  IF ~hasMore \/ nextSearchPage(search.page) = Null THEN {}
  ELSE {browseHref([search EXCEPT !.page = nextSearchPage(search.page)])}

previousSearchHref(search) ==
  IF previousSearchPage(search.page) = Null THEN {}
  ELSE {browseHref([search EXCEPT !.page = previousSearchPage(search.page)])}

widerSearchHref(search) ==
  IF widerRadius(search.radiusMiles) = Null THEN {}
  ELSE {browseHref([search EXCEPT !.radiusMiles = widerRadius(search.radiusMiles),
                                  !.page = FIRST_SEARCH_PAGE])}

\* NothingFound: a wider search, and the search with each filter taken off.
NothingFound(search) ==
  [kind |-> "nothingFound", next |-> {},
   others |-> widerSearchHref(search)
     \cup (IF search.keyword = Null THEN {}
           ELSE {browseHref([search EXCEPT !.keyword = Null, !.page = FIRST_SEARCH_PAGE])})
     \cup (IF search.category = Null THEN {}
           ELSE {browseHref([search EXCEPT !.category = Null, !.page = FIRST_SEARCH_PAGE])})]

NothingFurther(search) ==
  [kind |-> "nothingFurther", next |-> {},
   others |-> {browseHref([search EXCEPT !.page = FIRST_SEARCH_PAGE])}]

CouldNotSearch == [kind |-> "couldNotSearch", next |-> {}, others |-> {}]

Pager(search, truncated) ==
  [kind |-> IF truncated /\ nextSearchHref(search, truncated) = {} THEN "asFarAsWePage"
            ELSE "results",
   next |-> nextSearchHref(search, truncated), others |-> previousSearchHref(search)]

\* The answer to a search: nothing found there and nowhere to look from are told
\* apart, and the search that was run is part of the answer.
Answer(query, found) ==
  IF found = Null
  THEN [query |-> query, results |-> <<>>, truncated |-> FALSE, originStatus |-> "unplaceable"]
  ELSE [query |-> query, results |-> found.items, truncated |-> found.truncated,
        originStatus |-> "placed"]

\* What is under the form.
BrowseResults(answer) ==
  IF answer.originStatus = "unplaceable" THEN CouldNotSearch
  ELSE IF answer.results # <<>> THEN Pager(answer.query, answer.truncated)
  ELSE IF answer.query.page = FIRST_SEARCH_PAGE THEN NothingFound(answer.query)
  ELSE NothingFurther(answer.query)

(***************************************************************************)
(* The form.                                                               *)
(***************************************************************************)

\* What submitting the form as it is rendered sends.  With no categories to
\* choose from the category is a hidden field.
BrowseSearch(postcode, radiusMiles, category, categories, keyword, dates) ==
  [postcode |-> postcode, radiusMiles |-> radiusMiles, page |-> Absent,
   category |-> IF categories = {} THEN absentOr(category)
                ELSE IF category \in categories THEN category ELSE Blank,
   keyword |-> IF keyword = Null THEN Blank ELSE keyword,
   availableFrom |-> IF dates = Null THEN Blank ELSE dates.from,
   availableTo |-> IF dates = Null THEN Blank ELSE dates.to]

\* What is kept of an address that was refused, field by field.
radiusFrom(value) ==
  IF searchRadiusMilesSchema(first(value))
  THEN defaulting(first(value), DEFAULT_SEARCH_RADIUS_MILES) ELSE DEFAULT_SEARCH_RADIUS_MILES
categoryFrom(value) ==
  IF searchCategorySchema(first(value)) THEN defaulting(first(value), Null) ELSE Null
keywordFrom(value) ==
  IF searchKeywordSchema(first(value)) THEN defaulting(first(value), Null) ELSE Null
datesFrom(raw) ==
  LET from == first(raw.availableFrom)
      to == first(raw.availableTo)
  IN IF searchDatesSchema(from, to) THEN Dates(from, to) ELSE Null

namesAnUnknownCategory(category, known) ==
  category # Null /\ known # {} /\ category \notin known

(***************************************************************************)
(* The API's answer.                                                       *)
(***************************************************************************)
milesToMetres(miles) == miles * METRES_PER_MILE

\* A fragment for a filter that was not chosen is absent.
inCategory(l, category) == category = Null \/ CategoryOf[l] = category
matchesKeyword(l, keyword) == keyword = Null \/ l \in Words[keyword]
freeForDates(l, dates) == dates = Null \/ busy[l] \cap (dates.from..dates.to) = {}

Matches(l, search) ==
  /\ inCategory(l, search.category)
  /\ matchesKeyword(l, search.keyword)
  /\ freeForDates(l, search.dates)
  /\ Metres[l] <= milesToMetres(search.radiusMiles)

nearer(a, b) == Metres[a] < Metres[b] \/ (Metres[a] = Metres[b] /\ a < b)

\* fitTo, of the rows and one more.
probe(limit) == limit + 1
fitTo(rows, limit) ==
  [items |-> SubSeq(rows, 1, IF Len(rows) < limit THEN Len(rows) ELSE limit),
   truncated |-> Len(rows) > limit]

\* findWithin: the query, in one statement.
findWithin(search) ==
  LET found == SetToSortSeq({l \in visible : Matches(l, search)}, nearer)
      skip == resultsToSkip(search.page)
      rows == SubSeq(found, skip + 1, IF skip + probe(SEARCH_PAGE_SIZE) < Len(found)
                                      THEN skip + probe(SEARCH_PAGE_SIZE) ELSE Len(found))
  IN fitTo(rows, SEARCH_PAGE_SIZE)

\* A provider that is down places nothing, and neither does an unknown postcode.
geocodeQuietly(postcode) == IF postcode \in Placeable THEN BOOLEAN ELSE {FALSE}

resolveSearchCategory(slug) == IF slug \in Categories THEN slug ELSE Null

\* categoryOptions: the categories, or none where they could not be read.
categoryOptions == {Categories, {}}

(***************************************************************************)
(* One visit: the categories, the address, then the three reads.           *)
(***************************************************************************)
NoRequest == [at |-> "none"]
NoPage == [kind |-> "none", next |-> {}, others |-> {}]

Show(content, form, search, results) ==
  /\ page' = [kind |-> content.kind, next |-> content.next, others |-> content.others,
              form |-> form, search |-> search, results |-> results]
  /\ request' = NoRequest

Open(raw, follows) ==
  /\ request = NoRequest /\ visits < MaxVisits
  /\ visits' = visits + 1
  /\ request' = [at |-> "options", raw |-> raw, follows |-> follows]
  /\ walk' = IF follows THEN walk ELSE [seen |-> <<>>, intact |-> TRUE]
  /\ UNCHANGED <<visible, busy, private, page, changes>>

\* BrowsePage up to the search: no postcode, an address refused, or a category
\* there is none of, and the form comes back with what could be read.
BrowsePage(categories) ==
  /\ request.at = "options"
  /\ LET raw == request.raw
         search == listingSearchQuerySchema(raw)
         submitted == first(raw.postcode)
         kept == BrowseSearch(IF submitted = Absent THEN Blank ELSE submitted,
                              radiusFrom(raw.radiusMiles), categoryFrom(raw.category), categories,
                              keywordFrom(raw.keyword), datesFrom(raw)) IN
     \/ /\ submitted = Absent
        /\ Show([kind |-> "prompt", next |-> {}, others |-> {}],
                [kept EXCEPT !.radiusMiles = DEFAULT_SEARCH_RADIUS_MILES], Null, <<>>)
     \/ /\ submitted # Absent /\ search = Null
        /\ Show([kind |-> "refused", next |-> {}, others |-> {}], kept, Null, <<>>)
     \/ /\ search # Null /\ namesAnUnknownCategory(search.category, categories)
        /\ Show([kind |-> "refused", next |-> {}, others |-> {}],
                BrowseSearch(search.postcode, search.radiusMiles, Null, categories,
                             search.keyword, search.dates), Null, <<>>)
     \/ /\ search # Null /\ ~namesAnUnknownCategory(search.category, categories)
        /\ request' = [at |-> "search", search |-> search, follows |-> request.follows,
                       form |-> BrowseSearch(search.postcode, search.radiusMiles, search.category,
                                             categories, search.keyword, search.dates)]
        /\ UNCHANGED page
  /\ UNCHANGED <<visible, busy, private, walk, visits, changes>>

\* searchNearby: the category, the origin, the matches.  The API reads the
\* address the page sends it.  An unknown category is a 400.
searchNearby(placed) ==
  /\ request.at = "search"
  /\ LET query == listingSearchQuerySchema(listingSearchQueryString(request.search)) IN
     IF query.category # Null /\ resolveSearchCategory(query.category) = Null
     THEN Show([kind |-> "unavailable", next |-> {}, others |-> {}], request.form,
               request.search, <<>>)
     ELSE IF ~placed
     THEN Show(BrowseResults(Answer(query, Null)), request.form,
               request.search, <<>>)
     ELSE /\ request' = [at |-> "hydrate", search |-> query, form |-> request.form,
                         follows |-> request.follows, found |-> findWithin(query)]
          /\ UNCHANGED page
  /\ UNCHANGED <<visible, busy, private, walk, visits, changes>>

\* findPublishedSummaries: of the matches, those still visible.
findPublishedSummaries ==
  /\ request.at = "hydrate"
  /\ request' = [request EXCEPT !.at = "owners",
                   !.found.items = SelectSeq(@, LAMBDA l : l \in visible)]
  /\ UNCHANGED <<visible, busy, private, page, walk, visits, changes>>

\* findOwnerStatuses: of those, the private owners'.
findOwnerStatuses ==
  /\ request.at = "owners"
  /\ LET results == SelectSeq(request.found.items, LAMBDA l : OwnerOf[l] \in private)
         query == request.search IN
     /\ Show(BrowseResults(Answer(query, [request.found EXCEPT !.items = results])), request.form,
             query, results)
     /\ walk' = [seen |-> walk.seen \o results,
                 intact |-> walk.intact /\ (request.follows \/ query.page = FIRST_SEARCH_PAGE)]
  /\ UNCHANGED <<visible, busy, private, visits, changes>>

\* The request fails or its time runs out.
SearchFails ==
  /\ request.at \in {"search", "hydrate", "owners"}
  /\ Show([kind |-> "unavailable", next |-> {}, others |-> {}], request.form,
          request.search, <<>>)
  /\ UNCHANGED <<visible, busy, private, walk, visits, changes>>

(***************************************************************************)
(* The catalogue meanwhile; a change breaks the walk.                      *)
(***************************************************************************)
Change ==
  /\ changes < MaxChanges
  /\ changes' = changes + 1
  /\ walk' = [walk EXCEPT !.intact = FALSE]
  /\ UNCHANGED <<request, page, visits>>

ListingHidden == /\ \E l \in visible : visible' = visible \ {l}
                 /\ Change /\ UNCHANGED <<busy, private>>

ListingBooked == /\ \E l \in Listings, d \in 0..1 : busy' = [busy EXCEPT ![l] = @ \cup {d}]
                 /\ Change /\ UNCHANGED <<visible, private>>

OwnerDeclares == /\ \E o \in private : private' = private \ {o}
                 /\ Change /\ UNCHANGED <<visible, busy>>

SearchInit ==
  /\ visible \in {Listings, Listings \ {1}}
  /\ busy \in {[l \in Listings |-> IF l = 2 THEN d ELSE {}] : d \in {{}, {1}}}
  /\ private = {OwnerOf[l] : l \in Listings}
  /\ request = NoRequest
  /\ page = NoPage
  /\ walk = [seen |-> <<>>, intact |-> FALSE]
  /\ visits = 0 /\ changes = 0

SearchNext ==
  \/ \E raw \in Addresses : Open(raw, FALSE)
  \/ page # NoPage /\ page.form.postcode # Blank /\ Open(page.form, FALSE)
  \/ \E link \in page.others : Open(link.address, FALSE)
  \/ \E link \in page.next : Open(link.address, TRUE)
  \/ \E categories \in categoryOptions : BrowsePage(categories)
  \/ request.at = "search" /\ \E placed \in geocodeQuietly(request.search.postcode) :
                                 searchNearby(placed)
  \/ findPublishedSummaries \/ findOwnerStatuses \/ SearchFails
  \/ ListingHidden \/ ListingBooked \/ OwnerDeclares

SearchSpec == SearchInit /\ [][SearchNext]_searchVars

(***************************************************************************)
(* Properties.                                                             *)
(***************************************************************************)

\* browse-search.tsx, page-paths.ts: a visitor never loses their search.  Every
\* link leads to the search it names, and the form, submitted as it stands,
\* repeats the search it came with from its first page, whether or not the
\* categories could be read.
SearchIsNotLost ==
  /\ \A link \in page.next \cup page.others :
       listingSearchQuerySchema(link.address) = link.names
  /\ page # NoPage /\ page.search # Null =>
       listingSearchQuerySchema(page.form) = [page.search EXCEPT !.page = FIRST_SEARCH_PAGE]

\* What the public may see of a search, nearest first.
Findable(search) ==
  SetToSortSeq({l \in visible : Matches(l, search) /\ OwnerOf[l] \in private}, nearer)

\* search.ts: a visitor who follows Next through a catalogue that does not
\* change is shown every listing once, nearest first, and none is left when
\* the last page offers no more, as long as every owner may be shown.
WalkShowsEachOnce ==
  /\ walk.intact /\ request = NoRequest
  /\ page.kind \in {"results", "asFarAsWePage", "nothingFound", "nothingFurther"}
  /\ private = {OwnerOf[l] : l \in Listings}
  => /\ IsPrefix(walk.seen, Findable(page.search))
     /\ page.kind # "asFarAsWePage" /\ page.next = {} => walk.seen = Findable(page.search)

\* browse-results.tsx: nothing on page one means nothing is near them.
NothingMeansNothing ==
  walk.intact /\ request = NoRequest /\ page.kind = "nothingFound"
    => Findable(page.search) = <<>>

=============================================================================
