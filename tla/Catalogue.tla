----------------------------- MODULE Catalogue -----------------------------
(***************************************************************************)
(* The catalogue as a whole: owners' requests, administrators' requests,   *)
(* and what the profiles, feature-flags and booking modules do to the      *)
(* state the catalogue reads.                                              *)
(***************************************************************************)
EXTENDS ListingMedia

\* An owner says on their profile what they list as.
declareOwnerStatus(o, s) ==
  /\ "declare" \in usage.ops
  /\ ownerStatus[o] # s
  /\ ownerStatus' = [ownerStatus EXCEPT ![o] = s]
  /\ UNCHANGED <<stored, enabled, booked, usage, draws, req>>

\* An administrator turns publication off or on.
flipPublication ==
  /\ "flip" \in usage.ops
  /\ enabled' = ~enabled
  /\ UNCHANGED <<stored, ownerStatus, booked, usage, draws, req>>

\* A renter's request for a booking reads the listing, and inserts the booking
\* later: the foreign key is all that still holds by then.
requestBooking(r, id) ==
  /\ req[r] = Idle /\ "book" \in usage.ops
  /\ findQuotable(id) /\ id \notin booked
  /\ req' = [req EXCEPT ![r] = Ask(r, "book", "insert", None, id)]
  /\ UNCHANGED <<stored, outside, draws>>

insertBooking(r) ==
  /\ req[r].op = "book" /\ req[r].at = "insert"
  /\ booked' = IF Exists(req[r].id) THEN booked \cup {req[r].id} ELSE booked
  /\ Finish(r)
  /\ UNCHANGED <<stored, ownerStatus, enabled, usage, draws>>

Init ==
  /\ versions = <<FirstConfiguration>>
  /\ listings = [id \in ListingIds |-> None]
  /\ locations = [id \in ListingIds |-> None]
  /\ media = [p \in PhotoIds |-> None] /\ objects = {}
  /\ ownerStatus \in [Owners -> {"private_owner", None}]
  /\ enabled = TRUE
  /\ booked = {} /\ draws = 0
  /\ trail = [id \in ListingIds |-> {}]
  /\ usage \in Usages
  /\ req = [r \in Requests |-> Idle]

OwnerStep(r) ==
  \/ createDraftPin(r) \/ editOption(r) \/ editPlace(r) \/ editComplete(r)
  \/ updatePin(r) \/ updateWrite(r)
  \/ publishRead(r) \/ publishComplete(r) \/ publishWrite(r) \/ pauseWrite(r)
  \/ \E id \in ListingIds : createDraftInsert(r, id)

MediaStep(r) ==
  \/ addCount(r) \/ append(r) \/ appendRow(r) \/ removeDiscard(r) \/ reorderWrite(r)
  \/ eraseBooked(r) \/ eraseList(r) \/ eraseBytes(r) \/ eraseMedia(r) \/ eraseOwnedBy(r)
  \/ eraseFails(r)
  \/ \E p \in PhotoIds : addPut(r, p)

OtherStep(r) == moderateWrite(r) \/ moderateAudit(r) \/ addVersion(r) \/ insertBooking(r)

NewRequest(r) ==
  \/ \E o \in Owners :
       \/ \E f \in usage.forms : createDraft(r, o, f)
       \/ eraseFor(r, o)
       \/ \E id \in ListingIds :
            \/ \E f \in usage.forms : edit(r, o, id, f)
            \/ publish(r, o, id)
            \/ pause(r, o, id)
            \/ add(r, o, id)
            \/ \E p \in PhotoIds : remove(r, o, id, p)
            \/ \E order \in Bijection(1..Cardinality(listFor(id)), listFor(id)) : reorder(r, o, id, order)
  \/ \E id \in ListingIds, s \in ModerationStates, b \in BOOLEAN : moderate(r, id, s, b)
  \/ \E c \in Configurations : reconfigure(r, c)
  \/ \E id \in ListingIds : requestBooking(r, id)

Surroundings ==
  \/ \E o \in Owners, s \in OwnerStatuses : declareOwnerStatus(o, s)
  \/ flipPublication

Next ==
  \/ \E r \in Requests : NewRequest(r) \/ OwnerStep(r) \/ MediaStep(r) \/ OtherStep(r)
  \/ Surroundings

Spec == Init /\ [][Next]_vars

----------------------------------------------------------------------------
(* Properties.                                                             *)

\* Every table holds rows of its own shape, and an address never stands without
\* its listing (listing_locations.listingId cascades).
TypeOK ==
  /\ versions \in Seq(Configurations \cup {FirstConfiguration}) /\ Latest \in 1..MaxVersions
  /\ listings \in [ListingIds -> ListingRows \cup {None}]
  /\ locations \in [ListingIds -> LocationRows \cup {None}]
  /\ \A id \in ListingIds : ~Exists(id) => locations[id] = None
  /\ media \in [PhotoIds -> MediaRows \cup {None}]
  /\ objects \subseteq (PhotoIds \X Renditions)
  /\ booked \subseteq ListingIds /\ draws \in 0..MaxDraws
  /\ trail \in [ListingIds -> SUBSET ModerationStates]

\* The answers a listing stores are answers to the form of the version it pins,
\* however reconfigurations fall between the check of the form and the write:
\* the store compares the version again before it writes (createDraft, update).
PinnedAnswersFit ==
  \A id \in ListingIds : Exists(id) =>
    LET l == listings[id]
    IN /\ l.pin \in 1..Latest
       /\ validateAttributeValues(versions[l.pin], l.content.answers)
       /\ l.content.transport # None =>
            offersTransportRequirement(versions[l.pin], l.content.transport)

\* Coordinates are those of the address they are stored under, as writeLocation's
\* comment asks: never "the *old* coordinates under the *new* address".
PointMatchesAddress ==
  \A id \in ListingIds : IsLocated(id) => locations[id].point.of = locations[id].postcode

\* It holds for owners who wait for each reply before they ask again.
PointMatchesAddressInTurn == usage.serial => PointMatchesAddress

\* What a listing lacks of what publication asks for, apart from the owner's status,
\* which every public read checks for itself.
Lacks(id) ==
  publicationBlockers(listings[id].content, versions[listings[id].pin],
                      locations[id] # None, IsLocated(id), "private_owner")

Published(id) == Exists(id) /\ listings[id].status = "PUBLISHED"

\* The comment of edit (listings.service.ts): "A published listing may not be edited
\* into an incomplete one".
PublishedComplete ==
  \A id \in ListingIds : Published(id) /\ ~listings[id].collapsed => Lacks(id) = {}

\* It holds, across edits, reconfigurations, moderation, bookings and outages of the
\* geocoder, for an owner who waits for each reply: completeness is judged by edit on
\* the status it has read, and by publish on the whole record it has read.  A booked
\* listing that an erasure of its owner's account has kept lacks its address, until
\* it is written to again, and nothing else.
PublishedCompleteInTurn ==
  usage.serial =>
    /\ PublishedComplete
    /\ \A id \in ListingIds : Published(id) => Lacks(id) \subseteq {"collectionLocation"}

\* Neither authority overrides the other: a listing the platform has hidden is not
\* brought back by anything its owner does, and one its owner has withdrawn is not
\* brought back by an administrator.
NeitherOverrides ==
  [][\A id \in ListingIds : Exists(id) /\ Exists(id)' =>
       /\ listings[id].moderation # listings'[id].moderation =>
            \E r \in Requests : req[r].op = "moderate" /\ req[r].id = id /\ listings[id].status = listings'[id].status
       /\ listings[id].status # listings'[id].status =>
            \E r \in Requests : req[r].op \in {"publish", "pause"} /\ req[r].id = id]_vars

\* The bytes of every photograph a reader can be shown are there, until an erasure of
\* its owner's catalogue sets out to delete them: bytes are stored before the row and
\* removed after it.  An erasure that fails after its bytes have gone "leaves the row
\* behind and the next attempt finishes the job" (listing-media.service.ts): one that
\* gets past the rows has left no row of any photograph it found.
PhotographsHaveBytes ==
  /\ \A p \in PhotoIds : media[p] # None /\ ~media[p].discarded => Keys(p) \subseteq objects
  /\ \A r \in Requests : req[r].op = "erase" /\ req[r].at = "rows" =>
       \A p \in req[r].photos : media[p] = None

\* The count is read before the upload and the row is written after it, so uploads
\* that overlap may pass the limit together: by at most the number that overlap.
WithinMediaLimit ==
  \A id \in ListingIds : Cardinality(listFor(id)) <= MediaLimit + Cardinality(Requests) - 1
============================================================================
