---------------------------- MODULE ListingMedia ----------------------------
(***************************************************************************)
(* Photographs of a listing: a row in listing_media and two objects in the *)
(* bucket for each (listing-media.service.ts, prisma-listing-media-store   *)
(* .ts), and the erasure of an owner's catalogue.                          *)
(***************************************************************************)
EXTENDS Listings, Functions

CONSTANT MaxPosition  \* bound on listing_media.position

Keys(p) == {p} \X Renditions

\* Photographs of some listings.  They are shown by position and, where two uploads
\* took the same one, by creation; nothing is decided by the order.
listForListings(ids) == {p \in PhotoIds : media[p] # None /\ media[p].listing \in ids}

listFor(id) == listForListings({id})

----------------------------------------------------------------------------
(* Adding: count, store the bytes, then the row.                           *)

add(r, o, id) ==
  /\ MayAsk(r, "add", o)
  /\ existsOwnedBy(id, o)
  /\ req' = [req EXCEPT ![r] = Ask(r, "add", "count", o, id)]
  /\ UNCHANGED <<stored, outside, draws>>

addCount_over(r) ==
  /\ req[r].op = "add" /\ req[r].at = "count"
  /\ IF Cardinality(listFor(req[r].id)) > MediaLimit THEN Finish(r) ELSE Advance(r, "put")
  /\ UNCHANGED <<stored, outside, draws>>

addCount(r) ==
  /\ req[r].op = "add" /\ req[r].at = "count"
  /\ IF Cardinality(listFor(req[r].id)) >= MediaLimit THEN Finish(r) ELSE Advance(r, "put")
  /\ UNCHANGED <<stored, outside, draws>>

InUse(p) ==
  \/ \E k \in Renditions : <<p, k>> \in objects
  \/ media[p] # None
  \/ \E s \in Requests : req[s].place = p \/ p \in req[s].photos

\* An image that is refused or a store that is down ends the upload; the display
\* rendition may have been stored by then, and stays.
addPut(r, p) ==
  /\ req[r].op = "add" /\ req[r].at = "put"
  /\ ~InUse(p)
  /\ \/ /\ objects' = objects \cup Keys(p)
        /\ req' = [req EXCEPT ![r].at = "position", ![r].place = p]
     \/ objects' = objects \cup {<<p, "display">>} /\ Finish(r)
     \/ UNCHANGED objects /\ Finish(r)
  /\ UNCHANGED <<versions, listings, locations, media, trail, outside, draws>>

\* The store reads the highest position and writes one past it: two statements.
append(r) ==
  LET positions == {media[p].position : p \in listFor(req[r].id)}
  IN /\ req[r].op = "add" /\ req[r].at = "position"
     /\ \/ positions = {} /\ req' = [req EXCEPT ![r].at = "row", ![r].seen = 0]
        \/ \E last \in positions :
             /\ \A n \in positions : n <= last
             /\ req' = [req EXCEPT ![r].at = "row", ![r].seen = last + 1]
     /\ UNCHANGED <<stored, outside, draws>>

\* The foreign key refuses a row whose listing has gone, and the bytes stay.
appendRow(r) ==
  LET q == req[r]
  IN /\ q.op = "add" /\ q.at = "row"
     /\ q.seen <= MaxPosition
     /\ media' = IF Exists(q.id)
                   THEN [media EXCEPT ![q.place] = [listing |-> q.id, position |-> q.seen,
                                                     discarded |-> FALSE]]
                   ELSE media
     /\ Finish(r)
     /\ UNCHANGED <<versions, listings, locations, objects, trail, outside, draws>>

----------------------------------------------------------------------------
(* Removing and reordering.                                                *)

Without(photos) == [p \in PhotoIds |-> IF p \in photos THEN None ELSE media[p]]

remove_bytesFirst(r, o, id, p) ==
  /\ MayAsk(r, "remove", o)
  /\ existsOwnedBy(id, o)
  /\ p \in listFor(id)
  /\ objects' = objects \ Keys(p)
  /\ req' = [req EXCEPT ![r] = [Ask(r, "remove", "discard", o, id) EXCEPT !.photos = {p}]]
  /\ UNCHANGED <<versions, listings, locations, media, trail, outside, draws>>

\* The row goes in one transaction, scoped by listing as well as by photograph.
remove(r, o, id, p) ==
  /\ MayAsk(r, "remove", o)
  /\ existsOwnedBy(id, o)
  /\ p \in listFor(id)
  /\ media' = Without({p})
  /\ req' = [req EXCEPT ![r] = [Ask(r, "remove", "discard", o, id) EXCEPT !.photos = {p}]]
  /\ UNCHANGED <<versions, listings, locations, objects, trail, outside, draws>>

\* Best effort: a store that is down leaves the bytes and the caller goes on.
discard(photos) ==
  \E gone \in SUBSET (objects \cap UNION {Keys(p) : p \in photos}) :
    objects' = objects \ gone

removeDiscard(r) ==
  /\ req[r].op = "remove" /\ req[r].at = "discard"
  /\ discard(req[r].photos)
  /\ Finish(r)
  /\ UNCHANGED <<versions, listings, locations, media, trail, outside, draws>>

\* The order must name exactly the photographs the listing holds.
reorder(r, o, id, order) ==
  /\ MayAsk(r, "reorder", o)
  /\ existsOwnedBy(id, o)
  /\ Range(order) = listFor(id) /\ Len(order) = Cardinality(Range(order))
  /\ req' = [req EXCEPT ![r] = [Ask(r, "reorder", "write", o, id) EXCEPT !.seen = order]]
  /\ UNCHANGED <<stored, outside, draws>>

\* Every row named is given its index; a row that has gone is not touched.
reorderWrite(r) ==
  LET order == req[r].seen
  IN /\ req[r].op = "reorder" /\ req[r].at = "write"
     /\ media' = [p \in PhotoIds |->
          IF p \in listFor(req[r].id) /\ p \in Range(order)
            THEN [media[p] EXCEPT !.position = (CHOOSE n \in DOMAIN order : order[n] = p) - 1]
            ELSE media[p]]
     /\ Finish(r)
     /\ UNCHANGED <<versions, listings, locations, objects, trail, outside, draws>>

----------------------------------------------------------------------------
(* Erasing an owner's catalogue.                                           *)

listIdsOwnedBy(o) == {id \in ListingIds : existsOwnedBy(id, o)}

eraseFor(r, o) ==
  /\ MayAsk(r, "erase", o)
  /\ req' = [req EXCEPT ![r] = [Ask(r, "erase", "booked", o, None) EXCEPT
                                  !.owned = listIdsOwnedBy(o)]]
  /\ UNCHANGED <<stored, outside, draws>>

eraseBooked(r) ==
  /\ req[r].op = "erase" /\ req[r].at = "booked"
  /\ req' = [req EXCEPT ![r].at = "list", ![r].kept = req[r].owned \cap booked]
  /\ UNCHANGED <<stored, outside, draws>>

eraseList(r) ==
  LET found == listForListings(req[r].owned)
  IN /\ req[r].op = "erase" /\ req[r].at = "list"
     /\ req' = [req EXCEPT ![r].at = IF found = {} THEN "rows" ELSE "bytes",
                           ![r].photos = found]
     /\ UNCHANGED <<stored, outside, draws>>

\* The bytes first: a row that outlives them says where they were.
eraseBytes(r) ==
  /\ req[r].op = "erase" /\ req[r].at = "bytes"
  /\ discard(req[r].photos)
  /\ media' = [p \in PhotoIds |->
       IF p \in req[r].photos /\ media[p] # None THEN [media[p] EXCEPT !.discarded = TRUE] ELSE media[p]]
  /\ Advance(r, "media")
  /\ UNCHANGED <<versions, listings, locations, trail, outside, draws>>

eraseMedia(r) ==
  /\ req[r].op = "erase" /\ req[r].at = "media"
  /\ media' = Without(listForListings(req[r].owned))
  /\ Advance(r, "rows")
  /\ UNCHANGED <<versions, listings, locations, objects, trail, outside, draws>>

\* One transaction: the addresses of the listings kept, then every other listing
\* of the owner with what hangs off it.  The foreign key of a booking made since
\* rolls the whole of it back.
eraseOwnedBy(r) ==
  LET q     == req[r]
      going == listIdsOwnedBy(q.user) \ q.kept
  IN /\ q.op = "erase" /\ q.at = "rows"
     /\ IF going \cap booked = {}
          THEN /\ listings' = [id \in ListingIds |->
                    IF id \in going THEN None
                    ELSE IF id \in q.kept /\ Exists(id) THEN [listings[id] EXCEPT !.collapsed = TRUE]
                    ELSE listings[id]]
               /\ locations' = [id \in ListingIds |->
                    IF id \in going \cup q.kept THEN None ELSE locations[id]]
               /\ media' = Without(listForListings(going))
          ELSE UNCHANGED <<listings, locations, media>>
     /\ Finish(r)
     /\ UNCHANGED <<versions, objects, trail, outside, draws>>

\* A database that fails a call ends the erasure where it stands, and what it has
\* done stays; `discard` alone never fails.  The account is erased again later.
eraseFails(r) ==
  /\ req[r].op = "erase" /\ req[r].at \in {"booked", "list", "media", "rows"}
  /\ Finish(r)
  /\ UNCHANGED <<stored, outside, draws>>
============================================================================
