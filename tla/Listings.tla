------------------------------ MODULE Listings ------------------------------
(***************************************************************************)
(* The catalogue of the rental marketplace: one category with its          *)
(* versioned configuration, the listings filed under it, their private     *)
(* addresses and their photographs (apps/api/src/catalogue).               *)
(*                                                                         *)
(* A request is a sequence of awaited calls on Postgres, the object store  *)
(* and the geocoder, and requests interleave at every await.  `req[r]` is  *)
(* the request running in slot r: the operation, how far it got, and what  *)
(* it read on the way and will still use.  READ COMMITTED is enough here:  *)
(* no operation relies on a lock, and each write is one statement or one   *)
(* transaction.                                                            *)
(***************************************************************************)
EXTENDS Integers, Sequences, FiniteSets

CONSTANTS
  Owners,          \* users who own listings
  ListingIds,      \* primary keys of listings
  PhotoIds,        \* primary keys of listing_media, naming their two objects
  Requests,        \* slots for requests in flight
  Configurations,  \* [keys, required, transports] an administrator may save
  FirstConfiguration, \* the one the category was created with
  Forms,           \* [version, content, postcode] an owner may submit
  Usages,          \* [serial, ops, forms]: how a behaviour uses the catalogue
  MediaLimit,      \* LISTING_MEDIA_LIMIT
  MaxVersions,     \* bound on category_versions
  MaxDraws,        \* bound on fuzz offsets drawn
  None             \* SQL NULL

VARIABLES
  versions,    \* category_versions of the category, the version number is the index
  listings,    \* listings
  locations,   \* listing_locations: [postcode, point]
  media,       \* listing_media, by photograph, None where there is no row
  objects,     \* keys present in the bucket: <<photo, rendition>>
  ownerStatus, \* profiles.ownerStatus of each owner
  enabled,     \* the listing-publication switch
  booked,      \* listings some booking refers to
  draws,       \* fuzz offsets drawn so far
  trail,       \* the moderation states audit entries record for each listing
  usage,       \* the operations asked for, and whether every owner waits for a
               \* reply before asking again
  req          \* requests in flight

stored  == <<versions, listings, locations, media, objects, trail>>
outside == <<ownerStatus, enabled, booked, usage>>
vars    == <<versions, listings, locations, media, objects, ownerStatus,
             enabled, booked, draws, trail, usage, req>>

Statuses         == {"DRAFT", "PUBLISHED", "PAUSED"}
ModerationStates == {"APPROVED", "UNDER_REVIEW", "REJECTED"}
OwnerStatuses    == {"private_owner", "professional_trader"}
Renditions       == {"display", "thumbnail"}
Fuzzed           == [of : {f.postcode : f \in Forms} \ {None}, offset : 1..MaxDraws]

Idle == [op |-> "idle", at |-> "", user |-> None, id |-> None, form |-> None, pin |-> None,
         seen |-> None, place |-> None, owned |-> {}, kept |-> {}, photos |-> {}]

\* A row of each table.  `collapsed` and `discarded` are history, not columns: an
\* erasure kept the listing and took its address, and nothing has been written to it
\* since; an erasure set out to delete the bytes of the photograph.
ListingRows ==
  [owner : Owners, pin : 1..MaxVersions, content : {f.content : f \in Forms},
   district : BOOLEAN, status : Statuses, moderation : ModerationStates, reason : BOOLEAN,
   collapsed : BOOLEAN]

LocationRows == [postcode : {f.postcode : f \in Forms} \ {None}, point : Fuzzed \cup {None}]

MediaRows == [listing : ListingIds, position : Nat, discarded : BOOLEAN]

ASSUME ListingsAssumption ==
  /\ \A c \in Configurations \cup {FirstConfiguration} : c.required \subseteq c.keys
  /\ \A u \in Usages : u.forms \subseteq Forms
  /\ MediaLimit \in Nat \ {0} /\ MaxVersions \in Nat \ {0} /\ MaxDraws \in Nat
  /\ None \notin Owners \cup ListingIds \cup PhotoIds /\ None \notin ListingRows \cup LocationRows
  /\ IsFiniteSet(Requests)

----------------------------------------------------------------------------
(* The rules the contracts package holds.                                  *)

Latest == Len(versions)

\* Which states each owner transition may be applied from.
TRANSITIONS == [publish |-> {"DRAFT", "PUBLISHED", "PAUSED"},
                pause   |-> {"PUBLISHED", "PAUSED"}]

canTransition(transition, from) == from \in TRANSITIONS[transition]

moderationRequiresReason(state) == state # "APPROVED"

isPubliclyVisible(status, moderation) ==
  status = "PUBLISHED" /\ moderation = "APPROVED"

\* Every answer is to a field the configuration has.
validateAttributeValues(config, answers) == answers \subseteq config.keys

offersTransportRequirement(config, transport) == transport \in config.transports

\* The fields that keep a listing from being published.
publicationBlockers(content, config, hasLocation, isLocated, status) ==
  (IF content.described THEN {} ELSE {"description"})
    \cup (config.required \ content.answers)
    \cup (IF config.transports # {} /\ content.transport = None
            THEN {"transportRequirement"} ELSE {})
    \cup (IF content.daily THEN {} ELSE {"rates.daily"})
    \cup (IF status # "private_owner" THEN {"ownerStatus"} ELSE {})
    \cup (IF ~hasLocation \/ ~isLocated THEN {"collectionLocation"} ELSE {})

----------------------------------------------------------------------------
(* Reading and finishing.                                                  *)

Exists(id) == listings[id] # None

\* A location row carries all of its coordinates or none of them.
IsLocated(id) == locations[id] # None /\ locations[id].point # None

\* The record the store makes of a row: the pinned version's configuration is
\* found through the pin, the address through the location row.
toRecord(id) ==
  [content  |-> listings[id].content,
   pin      |-> listings[id].pin,
   status   |-> listings[id].status,
   moderation |-> listings[id].moderation,
   postcode |-> IF locations[id] = None THEN None ELSE locations[id].postcode,
   located  |-> IsLocated(id)]

findOwnedBy(id, o) == IF Exists(id) /\ listings[id].owner = o THEN toRecord(id) ELSE None

existsOwnedBy(id, o) == Exists(id) /\ listings[id].owner = o

\* What a renter may ask to hire: shown to the public, from a private owner.
findQuotable(id) ==
  /\ Exists(id)
  /\ isPubliclyVisible(listings[id].status, listings[id].moderation)
  /\ ownerStatus[listings[id].owner] = "private_owner"

Finish(r)      == req' = [req EXCEPT ![r] = Idle]
Advance(r, at) == req' = [req EXCEPT ![r].at = at]
Pin(r, at)     == req' = [req EXCEPT ![r].at = at, ![r].pin = Latest]

OwnerOps == {"create", "edit", "publish", "pause", "add", "remove", "reorder", "erase"}

\* An owner who waits for each reply has no other request in flight.
MayAsk(r, op, o) ==
  /\ req[r] = Idle /\ op \in usage.ops
  /\ usage.serial => \A s \in Requests : ~(req[s].op \in OwnerOps /\ req[s].user = o)

Ask(r, op, at, o, id) ==
  [Idle EXCEPT !.op = op, !.at = at, !.user = o, !.id = id]

----------------------------------------------------------------------------
(* The geocoder, with the fuzz offset drawn on this side of it.            *)

\* A postcode that is placed for the first time gets a fresh offset; a provider
\* that is down or does not know the postcode leaves the listing unplaced.
locate(postcode, p) ==
  \/ p = None /\ UNCHANGED draws
  \/ /\ draws < MaxDraws
     /\ p = [of |-> postcode, offset |-> draws + 1]
     /\ draws' = draws + 1

\* A postcode that moves keeps the offset it is given.
relocate(postcode, offset, p) ==
  /\ p \in {None, [of |-> postcode, offset |-> offset]}
  /\ UNCHANGED draws

\* The stored offset of a listing, or none.
findFuzzOffset(id) == IF IsLocated(id) THEN locations[id].point.offset ELSE None

\* What an edit does to the address: nothing to place, the lines only, or a new
\* point.
editedLocation(r, place) ==
  LET f == req[r].form
      s == req[r].seen
      o == findFuzzOffset(req[r].id)
  IN IF f.postcode = None
       THEN place = [kind |-> "cleared"] /\ UNCHANGED draws
     ELSE IF s.postcode = f.postcode /\ s.located
       THEN place = [kind |-> "address-only"] /\ UNCHANGED draws
     ELSE /\ place.kind = "relocated"
          /\ IF o = None THEN locate(f.postcode, place.point)
                         ELSE relocate(f.postcode, o, place.point)

Places == {[kind |-> k] : k \in {"cleared", "address-only"}}
            \cup [kind : {"relocated"}, point : Fuzzed \cup {None}]

willBeLocated(place) ==
  \/ place.kind = "address-only"
  \/ place.kind = "relocated" /\ place.point # None

----------------------------------------------------------------------------
(* Creating and editing.                                                   *)

\* What createDraft and edit both ask of a form before they go on: it was made
\* for the current version, and its answers and transport fit that version.
FormAccepted(f) ==
  /\ f.version = Latest
  /\ validateAttributeValues(versions[Latest], f.content.answers)
  /\ f.content.transport # None =>
       offersTransportRequirement(versions[Latest], f.content.transport)

createDraft(r, o, f) ==
  /\ MayAsk(r, "create", o)
  /\ FormAccepted(f)
  /\ \E place \in Fuzzed \cup {None} :
       /\ IF f.postcode = None THEN place = None /\ UNCHANGED draws
                               ELSE locate(f.postcode, place)
       /\ req' = [req EXCEPT ![r] = [Ask(r, "create", "pin", o, None) EXCEPT
                                       !.form = f, !.place = place]]
  /\ UNCHANGED <<stored, outside>>

\* The store reads the category again, and refuses a form that has gone stale.
createDraftPin(r) ==
  /\ req[r].op = "create" /\ req[r].at = "pin"
  /\ IF req[r].form.version = Latest THEN Pin(r, "insert") ELSE Finish(r)
  /\ UNCHANGED <<stored, outside, draws>>

createDraftInsert(r, id) ==
  LET f == req[r].form
  IN /\ req[r].op = "create" /\ req[r].at = "insert"
     /\ ~Exists(id) /\ id \notin booked
     /\ \A s \in Requests : req[s].id # id /\ id \notin req[s].owned
     /\ listings' = [listings EXCEPT ![id] =
          [owner |-> req[r].user, pin |-> req[r].pin, content |-> f.content,
           district |-> f.postcode # None, status |-> "DRAFT",
           moderation |-> "APPROVED", reason |-> FALSE, collapsed |-> FALSE]]
     /\ locations' = [locations EXCEPT ![id] =
          IF f.postcode = None THEN None
          ELSE [postcode |-> f.postcode, point |-> req[r].place]]
     /\ trail' = [trail EXCEPT ![id] = {}]
     /\ Finish(r)
     /\ UNCHANGED <<versions, media, objects, outside, draws>>

edit(r, o, id, f) ==
  /\ MayAsk(r, "edit", o)
  /\ findOwnedBy(id, o) # None
  /\ req' = [req EXCEPT ![r] = [Ask(r, "edit", "option", o, id) EXCEPT
                                  !.form = f, !.seen = findOwnedBy(id, o)]]
  /\ UNCHANGED <<stored, outside, draws>>

editOption(r) ==
  /\ req[r].op = "edit" /\ req[r].at = "option"
  /\ IF FormAccepted(req[r].form) THEN Advance(r, "place") ELSE Finish(r)
  /\ UNCHANGED <<stored, outside, draws>>

editPlace(r) ==
  /\ req[r].op = "edit" /\ req[r].at = "place"
  /\ \E place \in Places :
       /\ editedLocation(r, place)
       /\ req' = [req EXCEPT ![r].at = "complete", ![r].place = place]
  /\ UNCHANGED <<stored, outside>>

editComplete_dropped(r) ==
  /\ req[r].op = "edit" /\ req[r].at = "complete"
  /\ Advance(r, "pin")
  /\ UNCHANGED <<stored, outside, draws>>

\* A listing that was published when it was read may not lose what publication
\* asks for; the values judged are the ones about to be written.
editComplete(r) ==
  LET q == req[r]
  IN /\ q.op = "edit" /\ q.at = "complete"
     /\ IF /\ q.seen.status = "PUBLISHED"
           /\ publicationBlockers(q.form.content, versions[q.form.version],
                                  q.place.kind # "cleared", willBeLocated(q.place),
                                  ownerStatus[q.user]) # {}
          THEN Finish(r) ELSE Advance(r, "pin")
     /\ UNCHANGED <<stored, outside, draws>>

\* The store's own reads: the row must still be there, the version still current.
updatePin_unchecked(r) ==
  /\ req[r].op = "edit" /\ req[r].at = "pin"
  /\ IF existsOwnedBy(req[r].id, req[r].user) THEN Pin(r, "write") ELSE Finish(r)
  /\ UNCHANGED <<stored, outside, draws>>

updatePin(r) ==
  /\ req[r].op = "edit" /\ req[r].at = "pin"
  /\ IF existsOwnedBy(req[r].id, req[r].user) /\ req[r].form.version = Latest
       THEN Pin(r, "write") ELSE Finish(r)
  /\ UNCHANGED <<stored, outside, draws>>

writeLocation_spread(id, postcode, place) ==
  CASE place.kind = "cleared"      -> None
    [] place.kind = "address-only" -> [locations[id] EXCEPT !.postcode = postcode]
    [] place.kind = "relocated"    ->
         [postcode |-> postcode,
          point |-> IF place.point = None /\ locations[id] # None
                      THEN locations[id].point ELSE place.point]

\* An address-only edit names no coordinate column, a relocation names them all.
writeLocation(id, postcode, place) ==
  CASE place.kind = "cleared"      -> None
    [] place.kind = "address-only" -> [locations[id] EXCEPT !.postcode = postcode]
    [] place.kind = "relocated"    -> [postcode |-> postcode, point |-> place.point]

\* One transaction over the two rows.  Nothing is written when the listing has
\* gone, or when an address-only edit finds no location row to update.
updateWrite(r) ==
  LET q == req[r]
      writes == /\ existsOwnedBy(q.id, q.user)
                /\ q.place.kind = "address-only" => locations[q.id] # None
  IN /\ q.op = "edit" /\ q.at = "write"
     /\ IF writes
          THEN /\ listings' = [listings EXCEPT
                    ![q.id].pin = q.pin,
                    ![q.id].content = q.form.content,
                    ![q.id].district = q.place.kind # "cleared",
                    ![q.id].collapsed = FALSE]
               /\ locations' = [locations EXCEPT
                    ![q.id] = writeLocation(q.id, q.form.postcode, q.place)]
          ELSE UNCHANGED <<listings, locations>>
     /\ Finish(r)
     /\ UNCHANGED <<versions, media, objects, trail, outside, draws>>

----------------------------------------------------------------------------
(* Publishing, pausing, moderating.                                        *)

\* The switch first, then the row.
publish(r, o, id) ==
  /\ MayAsk(r, "publish", o)
  /\ enabled
  /\ req' = [req EXCEPT ![r] = Ask(r, "publish", "read", o, id)]
  /\ UNCHANGED <<stored, outside, draws>>

publishRead(r) ==
  LET seen == findOwnedBy(req[r].id, req[r].user)
  IN /\ req[r].op = "publish" /\ req[r].at = "read"
     /\ IF seen # None /\ canTransition("publish", seen.status)
          THEN req' = [req EXCEPT ![r].at = "complete", ![r].seen = seen]
          ELSE Finish(r)
     /\ UNCHANGED <<stored, outside, draws>>

\* Completeness is judged on the record read, under the version it pins.
publishComplete(r) ==
  LET s == req[r].seen
  IN /\ req[r].op = "publish" /\ req[r].at = "complete"
     /\ IF publicationBlockers(s.content, versions[s.pin], s.postcode # None,
                               s.located, ownerStatus[req[r].user]) = {}
          THEN Advance(r, "write") ELSE Finish(r)
     /\ UNCHANGED <<stored, outside, draws>>

SetStatus_approves(id, o, status) ==
  listings' = IF existsOwnedBy(id, o)
                THEN [listings EXCEPT ![id].status = status, ![id].moderation = "APPROVED"]
                ELSE listings

SetStatus(id, o, status) ==
  listings' = IF existsOwnedBy(id, o)
                THEN [listings EXCEPT ![id].status = status] ELSE listings

publishWrite(r) ==
  /\ req[r].op = "publish" /\ req[r].at = "write"
  /\ SetStatus(req[r].id, req[r].user, "PUBLISHED")
  /\ Finish(r)
  /\ UNCHANGED <<versions, locations, media, objects, trail, outside, draws>>

pause(r, o, id) ==
  /\ MayAsk(r, "pause", o)
  /\ findOwnedBy(id, o) # None /\ canTransition("pause", listings[id].status)
  /\ req' = [req EXCEPT ![r] = Ask(r, "pause", "write", o, id)]
  /\ UNCHANGED <<stored, outside, draws>>

pauseWrite(r) ==
  /\ req[r].op = "pause" /\ req[r].at = "write"
  /\ SetStatus(req[r].id, req[r].user, "PAUSED")
  /\ Finish(r)
  /\ UNCHANGED <<versions, locations, media, objects, trail, outside, draws>>

\* An administrator decides; hiding needs a reason.
moderate(r, id, state, reason) ==
  /\ req[r] = Idle /\ "moderate" \in usage.ops
  /\ moderationRequiresReason(state) => reason
  /\ Exists(id)
  /\ req' = [req EXCEPT ![r] = [Ask(r, "moderate", "write", None, id) EXCEPT
                                  !.form = [state |-> state, reason |-> reason]]]
  /\ UNCHANGED <<stored, outside, draws>>

moderateWrite(r) ==
  LET q == req[r]
  IN /\ q.op = "moderate" /\ q.at = "write"
     /\ IF Exists(q.id)
          THEN /\ listings' = [listings EXCEPT ![q.id].moderation = q.form.state,
                                               ![q.id].reason = q.form.reason]
               /\ Advance(r, "audit")
          ELSE Finish(r) /\ UNCHANGED listings
     /\ UNCHANGED <<versions, locations, media, objects, trail, outside, draws>>

moderateAudit(r) ==
  /\ req[r].op = "moderate" /\ req[r].at = "audit"
  /\ trail' = [trail EXCEPT ![req[r].id] = @ \cup {req[r].form.state}]
  /\ Finish(r)
  /\ UNCHANGED <<versions, listings, locations, media, objects, outside, draws>>

----------------------------------------------------------------------------
(* The category's configuration.                                           *)

\* addVersion reads the latest version, then inserts the next number.  The
\* service's read of the before-state for the audit entry changes nothing.
reconfigure(r, config) ==
  /\ req[r] = Idle /\ "reconfigure" \in usage.ops
  /\ Latest < MaxVersions
  /\ req' = [req EXCEPT ![r] = [Ask(r, "reconfigure", "insert", None, None) EXCEPT
                                  !.form = config, !.seen = Latest]]
  /\ UNCHANGED <<stored, outside, draws>>

\* The unique constraint on (categoryId, versionNumber) refuses a number that
\* another administrator took first.
addVersion(r) ==
  /\ req[r].op = "reconfigure" /\ req[r].at = "insert"
  /\ versions' = IF req[r].seen + 1 > Latest THEN Append(versions, req[r].form)
                                             ELSE versions
  /\ Finish(r)
  /\ UNCHANGED <<listings, locations, media, objects, trail, outside, draws>>
============================================================================
